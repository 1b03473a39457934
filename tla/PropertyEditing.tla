---------------------------- MODULE PropertyEditing ----------------------------
(***************************************************************************)
(* Browser tabs that verify one property (PropertyVerificationFlow) and    *)
(* start its analysis (AssumptionsFlow), over the row the API keeps.  A    *)
(* tab shows what it last fetched while it fetches again; the copy is then *)
(* replaced and the form is reset.  A save sends the whole property with   *)
(* one more than the version the tab has; the server stores what it is     *)
(* sent.  Answers may be lost, or come after the tab has moved on.         *)
(***************************************************************************)
EXTENDS PropertyVerification

CONSTANTS
  Tabs,      \* tabs that have the listing in their session storage
  Hasty,     \* bound: the tabs that may time out, on a request made before any save was stored
  MaxSaves   \* bound: saves that reach the server

PriceField == "asking_price"

ASSUME PriceIsVerified == PriceField \in FormFields /\ MaxSaves \in Nat /\ Hasty \subseteq Tabs

VARIABLES
  listing,    \* the extraction the tabs keep, as values by field; None before there is one
  row,        \* the property, None before it is created
  tabs,       \* per tab, what it shows and waits for
  late,       \* a PATCH its tab no longer waits for, None if there is none
  started     \* the analysis that was started, None before

editVars == <<listing, row, tabs, late, started>>

Properties == [FormFields -> Values \cup {None}]

\* updated_at is the number of saves.
Row == [property : Properties, verified : Snapshot \cup {None}, version : Nat, updated_at : Nat]

ASSUME NoneIsNoCopy == None \notin Snapshot \cup Row /\ None # {}

(***************************************************************************)
(* page     where the tab is                                               *)
(* cache    the property as the query cache has it                         *)
(* fetch    GET /properties/{id}: None, or the answer: {} until it is read  *)
(* form     the inputs; on the assumptions page the price is one of them   *)
(* touched  those the user changed since the form was last reset           *)
(* save     None, or the PATCH: what it was built from, and how far it is  *)
(***************************************************************************)
NoForm == [f \in FormFields |-> Blank]

Closed == [page |-> "closed", cache |-> None, fetch |-> None, form |-> NoForm,
           touched |-> {}, save |-> None]

EditInit ==
  /\ listing = None
  /\ row = None
  /\ tabs = [t \in Tabs |-> Closed]
  /\ late = None
  /\ started = None

\* createProperty then saveExtractionForProperty: the listing as it was shown.
CreateRow(values) ==
  /\ row = None
  /\ listing' = values
  /\ row' = [property |-> values, verified |-> None, version |-> 1, updated_at |-> 0]
  /\ UNCHANGED <<tabs, late, started>>

\* createAssumptionsDefaults knows verified values only.
Defaults(detail) ==
  [f \in FormFields |-> IF f = PriceField /\ detail.verified # None
                        THEN detail.verified[f].final ELSE Blank]

FormOn(page, detail) ==
  IF page = "assumptions" THEN Defaults(detail) ELSE FormOf(detail.property, detail.verified)

\* New data under an old form.
ShowsButKeepsForm(tab, detail) ==
  [tab EXCEPT !.cache = detail, !.form = IF tab.cache = None THEN FormOn(tab.page, detail) ELSE @,
              !.touched = {}]

\* The effect that runs when the query's data changes: edits since are gone.
Shows(tab, detail) ==
  [tab EXCEPT !.cache = detail, !.form = FormOn(tab.page, detail), !.touched = {}]

\* Mounting a page: the cached copy is shown while a fetch is under way.
Mounts(tab, page) ==
  LET at == [tab EXCEPT !.page = page, !.fetch = IF @ = None THEN {} ELSE @]
  IN  IF tab.cache = None THEN [at EXCEPT !.form = NoForm, !.touched = {}]
      ELSE Shows(at, tab.cache)

Becomes(t, tab) == tabs' = [tabs EXCEPT ![t] = tab] /\ UNCHANGED <<listing, row, late, started>>

\* The user comes to the verification page, from elsewhere or back from the next page.
Open(t) ==
  /\ row # None
  /\ tabs[t].page \in {"closed", "assumptions"}
  /\ Becomes(t, Mounts(tabs[t], "verify"))

\* A reload forgets the cache and the edits, not the session storage.
Reload(t) ==
  /\ tabs[t].page = "verify"
  /\ tabs[t].save = None
  /\ Becomes(t, Mounts(Closed, "verify"))

ServerReads(t) == tabs[t].fetch = {} /\ Becomes(t, [tabs[t] EXCEPT !.fetch = {row}])

\* Data equal to the cached copy is the cached copy: the form is left alone.
Arrives(t) ==
  /\ tabs[t].fetch \notin {None, {}}
  /\ \E answer \in tabs[t].fetch :
       LET tab == [tabs[t] EXCEPT !.fetch = None]
       IN  Becomes(t, IF answer = tab.cache THEN tab ELSE Shows(tab, answer))

\* The query fails twice: the page shows an error, and offers nothing but to come again.
FetchFails(t) ==
  /\ tabs[t].fetch # None
  /\ tabs[t].save = None
  /\ Becomes(t, Closed)

Shown(t) == tabs[t].page \in {"verify", "assumptions"} /\ tabs[t].cache # None

\* Something of the user's own; of a field to verify also the listed value, or nothing.
Typeable(page, f) == Entries \cup (IF page = "verify" THEN {Blank, listing[f]} ELSE {})

Edit(t, f) ==
  /\ Shown(t)
  /\ tabs[t].save = None
  /\ tabs[t].page = "assumptions" => f = PriceField
  /\ \E value \in Typeable(tabs[t].page, f) \ {tabs[t].form[f]} :
       Becomes(t, [tabs[t] EXCEPT !.form[f] = value, !.touched = @ \cup {f}])

\* The mutation is built from the form and the copy the page has at this moment.
Save(t) ==
  /\ tabs[t].page = "verify"
  /\ Shown(t)
  /\ tabs[t].save = None
  /\ Becomes(t, [tabs[t] EXCEPT !.save =
       [form |-> tabs[t].form, base |-> tabs[t].cache, touched |-> tabs[t].touched,
        stored |-> FALSE]])

\* What PATCH stores: property, snapshot and version, as they were sent.
Stored(save) ==
  [property |-> UpdatedProperty(save.base.property, save.form),
   verified |-> Verified(listing, save.form),
   version |-> save.base.version + 1, updated_at |-> row.updated_at + 1]

\* POST /properties/verify computes; PATCH /properties/{id} stores.
Stores(save) == row.updated_at < MaxSaves /\ row' = Stored(save) /\ UNCHANGED <<listing, started>>

Patch(t) ==
  /\ tabs[t].save # None
  /\ ~tabs[t].save.stored
  /\ Stores(tabs[t].save)
  /\ tabs' = [tabs EXCEPT ![t].save.stored = TRUE]
  /\ UNCHANGED late

\* The answer takes the tab to the next page.
Saved(t) ==
  /\ tabs[t].save # None
  /\ tabs[t].save.stored
  /\ Becomes(t, Mounts([tabs[t] EXCEPT !.save = None], "assumptions"))

\* The request failed, or its answer was lost on the way back: the form stays, with an error.
SaveFails(t) == tabs[t].save # None /\ Becomes(t, [tabs[t] EXCEPT !.save = None])

\* fetchJson aborts after its time-out, and the server has the request all the same.
SaveTimesOut(t) ==
  /\ tabs[t].save # None
  /\ ~tabs[t].save.stored
  /\ t \in Hasty /\ row.updated_at = 0
  /\ late = None
  /\ late' = tabs[t].save
  /\ tabs' = [tabs EXCEPT ![t].save = None]
  /\ UNCHANGED <<listing, row, started>>

PatchLate ==
  /\ late # None
  /\ Stores(late)
  /\ late' = None
  /\ UNCHANGED tabs

\* POST /properties/{id}/analyses: the snapshot is the server's, the price is the form's.
\* The tabs are followed no further.
StartAnalysis(t) ==
  /\ started = None
  /\ Shown(t)
  /\ tabs[t].page = "assumptions"
  /\ tabs[t].cache.verified # None
  /\ tabs[t].form[PriceField] # Blank
  /\ started' = [row |-> row, price |-> tabs[t].form[PriceField], current |-> tabs[t].cache = row,
                 typed |-> PriceField \in tabs[t].touched]
  /\ tabs' = [u \in Tabs |-> Closed]
  /\ late' = None
  /\ UNCHANGED <<listing, row>>

EditStep ==
  \/ \E t \in Tabs :
       \/ Open(t) \/ Reload(t) \/ ServerReads(t) \/ Arrives(t) \/ FetchFails(t)
       \/ \E f \in FormFields : Edit(t, f)
       \/ Save(t) \/ Patch(t) \/ Saved(t) \/ SaveFails(t) \/ SaveTimesOut(t)
  \/ PatchLate

===============================================================================
