-------------------------- MODULE PropertyVerification --------------------------
(***************************************************************************)
(* How a listing becomes a verified property: what the verification form   *)
(* shows (createFormValues), what it asks the server to verify             *)
(* (buildVerificationRequest), the snapshot the server makes of that       *)
(* (PropertyVerificationService.verify), and the property the browser      *)
(* sends along with it (buildUpdatedProperty).  A listing's value is known *)
(* as such, a user's by what was typed; an empty input is blank, and null  *)
(* is None.                                                                *)
(***************************************************************************)
EXTENDS ListingSources

CONSTANTS
  FormFields,   \* the fields of the form
  Entries       \* what a user may type

VerifiedFields ==
  {"full_address", "asking_price", "lot_square_feet", "year_built",
   "annual_property_tax", "annual_hoa", "property_type"} \cup Facts

Listed == {"listed"}

ASSUME NoneIsNoValue == None \notin Entries \cup Listed /\ FormFields \subseteq VerifiedFields

Values == Entries \cup Listed

Blank == None

Statuses == {"verified", "corrected", "unverified", "missing"}

Form == [FormFields -> Values \cup {Blank}]

VerifiedField == [extracted : Listed \cup {None}, final : Values \cup {None}, status : Statuses]

Snapshot == [FormFields -> VerifiedField]

-----------------------------------------------------------------------------
(* The browser. *)

\* createFormValues: the snapshot's value, else the property's, else nothing.
FormOf(property, verified) ==
  [f \in FormFields |->
    IF verified # None /\ verified[f].final # None THEN verified[f].final ELSE property[f]]

\* buildVerificationRequest: an emptied field is neither corrected nor confirmed.
Requested(listing, form) ==
  [confirmed |-> {f \in FormFields : form[f] # Blank /\ form[f] = listing[f]},
   corrected |-> {f \in FormFields : form[f] # Blank /\ form[f] # listing[f]}]

\* The fields of the form that have been emptied keep the value they had.
KeepsBlanked(property, form) ==
  [f \in FormFields |-> IF form[f] = Blank THEN property[f] ELSE form[f]]

\* buildUpdatedProperty: an emptied field is null.
UpdatedProperty(property, form) == [f \in DOMAIN property |-> form[f]]

-----------------------------------------------------------------------------
(* The server. *)

\* _build_field: a correction counts most, then a confirmation of what was extracted.
BuildField(listed, isCorrected, isConfirmed, value) ==
  IF isCorrected THEN [extracted |-> listed, final |-> value, status |-> "corrected"]
  ELSE [extracted |-> listed, final |-> listed,
        status |-> IF listed = None THEN "missing"
                   ELSE IF isConfirmed THEN "verified" ELSE "unverified"]

Verify(listing, request, form) ==
  [f \in FormFields |->
    BuildField(listing[f], f \in request.corrected, f \in request.confirmed, form[f])]

\* A whole round: what the server answers to the form.
Verified(listing, form) == Verify(listing, Requested(listing, form), form)

===============================================================================
