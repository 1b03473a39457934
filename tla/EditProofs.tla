------------------------------- MODULE EditProofs -------------------------------
(***************************************************************************)
(* Proofs about the editing of a property, for any number of tabs, fields, *)
(* entries and saves: what the server stores follows from the form a tab   *)
(* sends and the copy it was filled from, so every copy of the row,        *)
(* wherever it is kept, agrees with the listing, and what the user did not *)
(* touch in a form is what the copy under it says.  Before them, about the *)
(* extraction of a listing: the source read first is the one to trust.     *)
(***************************************************************************)
EXTENDS PropertyProperties, TLAPS

ListedForms == [FormFields -> Listed \cup {None}]

\* A row of this listing: the property is the listing until it is verified, and agrees with the
\* snapshot from then on.
Agrees(copy, values) ==
  /\ copy \in Row
  /\ copy.verified = None => copy.property = values
  /\ copy.verified # None =>
       \A f \in FormFields :
         /\ \/ copy.property[f] = copy.verified[f].final
            \/ copy.property[f] = None /\ copy.verified[f].final = values[f]
         /\ copy.verified[f].final = None => values[f] = None

\* What was not touched is as the form was filled.
Faithful(page, form, touched, copy) ==
  \A f \in FormFields \ touched : form[f] = FormOn(page, copy)[f]

Saves == [form : Form, base : Row, touched : SUBSET FormFields, stored : BOOLEAN]

SaveIsSound(save, values) ==
  /\ save \in Saves
  /\ Agrees(save.base, values)
  /\ Faithful("verify", save.form, save.touched, save.base)

TabStates ==
  [page : {"closed", "verify", "assumptions"}, cache : Row \cup {None},
   fetch : {None} \cup SUBSET Row, form : Form, touched : SUBSET FormFields,
   save : Saves \cup {None}]

TabIsSound(tab, values) ==
  /\ tab \in TabStates
  /\ tab.cache # None =>
       Agrees(tab.cache, values) /\ Faithful(tab.page, tab.form, tab.touched, tab.cache)
  /\ tab.fetch # None => \A answer \in tab.fetch : Agrees(answer, values)
  /\ tab.save # None => SaveIsSound(tab.save, values)

NothingYet == tabs = [t \in Tabs |-> Closed] /\ late = None /\ started = None

EditInv ==
  /\ tabs \in [Tabs -> TabStates]
  /\ row = None => NothingYet
  /\ row # None => listing \in ListedForms /\ Agrees(row, listing)
  /\ \A t \in Tabs : TabIsSound(tabs[t], listing)
  /\ late # None => SaveIsSound(late, listing)

-----------------------------------------------------------------------------
(* Forms and snapshots. *)

\* Either page fills its form with values.
LEMMA FormsAreForms ==
  ASSUME NEW copy \in Row, NEW page
  PROVE  FormOn(page, copy) \in Form
<1>1. copy.property \in [FormFields -> Values \cup {None}]
  BY DEF Row, Properties
<1>2. copy.verified # None => \A f \in FormFields : copy.verified[f].final \in Values \cup {None}
  BY DEF Row, Snapshot, VerifiedField
<1>3. Defaults(copy) \in Form
  BY <1>2 DEF Defaults, Form, Blank
<1>4. FormOf(copy.property, copy.verified) \in Form
  BY <1>1, <1>2 DEF FormOf, Form, Blank
<1> QED
  BY <1>3, <1>4 DEF FormOn

\* The final value of a field: what was typed, unless that is nothing or the listed value.
LEMMA FinalValues ==
  ASSUME NEW values \in ListedForms, NEW form \in Form, NEW f \in FormFields
  PROVE  /\ Verified(values, form)[f].final =
              IF form[f] # None /\ form[f] # values[f] THEN form[f] ELSE values[f]
         /\ Verified(values, form)[f] \in VerifiedField
<1> DEFINE corrected == {g \in FormFields : form[g] # Blank /\ form[g] # values[g]}
           confirmed == {g \in FormFields : form[g] # Blank /\ form[g] = values[g]}
<1>1. Verified(values, form)[f] = BuildField(values[f], f \in corrected, f \in confirmed, form[f])
  BY DEF Verified, Verify, Requested
<1>2. values[f] \in Listed \cup {None} /\ form[f] \in Values \cup {None}
  BY DEF ListedForms, Form, Blank
<1>3. values[f] \in Values \cup {None}
  BY <1>2 DEF Values
<1>4. f \in corrected <=> form[f] # None /\ form[f] # values[f]
  BY DEF Blank
<1> HIDE DEF corrected, confirmed
<1>5. CASE f \in corrected
  BY <1>1, <1>2, <1>4, <1>5 DEF BuildField, VerifiedField, Statuses
<1>6. CASE f \notin corrected
  BY <1>1, <1>2, <1>3, <1>4, <1>6 DEF BuildField, VerifiedField, Statuses
<1> QED
  BY <1>5, <1>6

LEMMA SnapshotsAreSnapshots ==
  ASSUME NEW values \in ListedForms, NEW form \in Form
  PROVE  Verified(values, form) \in Snapshot
<1>1. \A f \in FormFields : Verified(values, form)[f] \in VerifiedField
  BY FinalValues
<1>2. Verified(values, form) =
        [f \in FormFields |-> Verified(values, form)[f]]
  BY DEF Verified, Verify
<1> QED
  BY <1>1, <1>2 DEF Snapshot

-----------------------------------------------------------------------------
(* What a save stores. *)

\* Property and snapshot of a save are computed apart, from the same form: they agree.
LEMMA StoredAgrees ==
  ASSUME NEW save, SaveIsSound(save, listing), listing \in ListedForms, row \in Row
  PROVE  Agrees(Stored(save), listing) /\ Stored(save).verified # None
<1> DEFINE stored == Stored(save)
<1>1. save.form \in Form /\ save.base \in Row
  BY DEF SaveIsSound, Saves
<1>2. stored.verified = Verified(listing, save.form) /\ stored.verified \in Snapshot
  BY <1>1, SnapshotsAreSnapshots DEF Stored
<1>3. stored.property = save.form
  <2>1. stored.property = [f \in DOMAIN save.base.property |-> save.form[f]]
    BY DEF Stored, UpdatedProperty
  <2>2. DOMAIN save.base.property = FormFields
    BY <1>1 DEF Row, Properties
  <2> QED
    BY <1>1, <2>1, <2>2 DEF Form
<1>4. stored \in Row
  <2>1. save.base.version + 1 \in Nat /\ row.updated_at + 1 \in Nat
    BY <1>1 DEF Row
  <2>2. save.form \in Properties
    BY <1>1 DEF Form, Properties, Blank
  <2>3. stored = [property |-> save.form, verified |-> Verified(listing, save.form),
                  version |-> save.base.version + 1, updated_at |-> row.updated_at + 1]
    BY <1>2, <1>3 DEF Stored
  <2> QED
    BY <1>2, <2>1, <2>2, <2>3 DEF Row
<1>5. stored.verified # None
  BY <1>2, NoneIsNoCopy
<1>6. ASSUME NEW f \in FormFields
      PROVE  /\ \/ stored.property[f] = stored.verified[f].final
                \/ stored.property[f] = None /\ stored.verified[f].final = listing[f]
             /\ stored.verified[f].final = None => listing[f] = None
  BY <1>1, <1>2, <1>3, FinalValues
<1> HIDE DEF stored
<1>7. Agrees(stored, listing)
  BY <1>4, <1>5, <1>6 DEF Agrees
<1> QED
  BY <1>5, <1>7 DEF stored

\* A save that was built from the row changes the value in force of touched fields only.
LEMMA StoredKeeps ==
  ASSUME NEW save, SaveIsSound(save, listing), listing \in ListedForms, row = save.base,
         Agrees(row, listing), NEW f \in FormFields, f \notin save.touched
  PROVE  InForce(Stored(save), f) = InForce(row, f)
<1>1. save.form \in Form /\ row \in Row
  BY DEF SaveIsSound, Saves, Agrees
<1>2. save.form[f] = FormOf(row.property, row.verified)[f]
  BY DEF SaveIsSound, Faithful, FormOn
<1>3. InForce(Stored(save), f) =
        IF save.form[f] # None /\ save.form[f] # listing[f] THEN save.form[f] ELSE listing[f]
  <2>1. Stored(save).verified = Verified(listing, save.form)
    BY DEF Stored
  <2>2. Stored(save).verified # None
    BY <1>1, StoredAgrees
  <2> QED
    BY <1>1, <2>1, <2>2, FinalValues DEF InForce
<1>4. CASE row.verified = None
  <2>1. save.form[f] = listing[f] /\ InForce(row, f) = listing[f]
    BY <1>2, <1>4 DEF FormOf, InForce, Agrees
  <2> QED
    BY <1>3, <2>1
<1>5. CASE row.verified # None /\ row.verified[f].final # None
  <2>1. save.form[f] = row.verified[f].final /\ InForce(row, f) = row.verified[f].final
    BY <1>2, <1>5 DEF FormOf, InForce
  <2> QED
    BY <1>3, <1>5, <2>1
<1>6. CASE row.verified # None /\ row.verified[f].final = None
  <2>1. listing[f] = None /\ row.property[f] = None
    BY <1>6 DEF Agrees
  <2>2. save.form[f] = None /\ InForce(row, f) = None
    BY <1>2, <1>6, <2>1 DEF FormOf, InForce
  <2> QED
    BY <1>3, <2>1, <2>2
<1> QED
  BY <1>4, <1>5, <1>6

-----------------------------------------------------------------------------
(* What a tab becomes. *)

\* A form that was just filled is as it was filled.
LEMMA ShowsIsSound ==
  ASSUME NEW values, NEW tab, TabIsSound(tab, values), NEW copy, Agrees(copy, values)
  PROVE  TabIsSound(Shows(tab, copy), values)
<1>1. tab \in TabStates /\ copy \in Row
  BY DEF TabIsSound, Agrees
<1>2. FormOn(tab.page, copy) \in Form
  BY <1>1, FormsAreForms
<1>3. Shows(tab, copy) \in TabStates
  BY <1>1, <1>2 DEF Shows, TabStates
<1>4. Faithful(tab.page, FormOn(tab.page, copy), {}, copy)
  BY DEF Faithful
<1> QED
  BY <1>1, <1>3, <1>4 DEF Shows, TabIsSound, TabStates

LEMMA MountsIsSound ==
  ASSUME NEW values, NEW tab, TabIsSound(tab, values), NEW page \in {"verify", "assumptions"}
  PROVE  TabIsSound(Mounts(tab, page), values)
<1> DEFINE at == [tab EXCEPT !.page = page, !.fetch = IF @ = None THEN {} ELSE @]
           empty == [at EXCEPT !.form = NoForm, !.touched = {}]
<1>1. tab \in TabStates
  BY DEF TabIsSound
<1>2. at \in TabStates
  BY <1>1 DEF TabStates
<1>3. NoForm \in Form
  BY DEF NoForm, Form
<1>4. CASE tab.cache = None
  <2>1. empty \in TabStates
    BY <1>2, <1>3 DEF TabStates
  <2>2. TabIsSound(empty, values)
    BY <1>1, <1>4, <2>1 DEF TabIsSound, TabStates
  <2> QED
    BY <1>4, <2>2 DEF Mounts
<1>5. CASE tab.cache # None
  <2> DEFINE fresh == Shows(at, tab.cache)
  <2>1. Agrees(tab.cache, values) /\ tab.cache \in Row
    BY <1>5 DEF TabIsSound, Agrees
  <2>2. FormOn(page, tab.cache) \in Form
    BY <2>1, FormsAreForms
  <2>3. fresh = [at EXCEPT !.cache = tab.cache, !.form = FormOn(page, tab.cache), !.touched = {}]
    BY <1>1 DEF Shows, TabStates
  <2>4. fresh \in TabStates
    BY <1>2, <2>1, <2>2, <2>3 DEF TabStates
  <2>5. Faithful(page, FormOn(page, tab.cache), {}, tab.cache)
    BY DEF Faithful
  <2>6. /\ fresh.page = page /\ fresh.cache = tab.cache /\ fresh.save = tab.save
        /\ fresh.form = FormOn(page, tab.cache) /\ fresh.touched = {}
        /\ fresh.fetch = IF tab.fetch = None THEN {} ELSE tab.fetch
    BY <1>1, <2>3 DEF TabStates
  <2> HIDE DEF fresh
  <2>7. TabIsSound(fresh, values)
    BY <2>1, <2>4, <2>5, <2>6 DEF TabIsSound
  <2> QED
    BY <1>5, <2>7 DEF Mounts, fresh
<1> QED
  BY <1>4, <1>5

LEMMA ClosedIsSound ==
  ASSUME NEW values
  PROVE  TabIsSound(Closed, values)
<1>1. NoForm \in Form
  BY DEF NoForm, Form
<1> QED
  BY <1>1 DEF TabIsSound, TabStates, Closed

\* Parts of a tab that soundness does not relate to the rest.
LEMMA ForgettingIsSound ==
  ASSUME NEW values, NEW tab, TabIsSound(tab, values)
  PROVE  /\ TabIsSound([tab EXCEPT !.save = None], values)
         /\ TabIsSound([tab EXCEPT !.fetch = None], values)
BY DEF TabIsSound, TabStates

\* What a step changes in one tab alone keeps the invariant, if it leaves a sound tab.
LEMMA BecomesKeeps ==
  ASSUME EditInv, row # None, NEW t \in Tabs, NEW tab, TabIsSound(tab, listing), Becomes(t, tab)
  PROVE  EditInv'
<1>1. tabs' = [tabs EXCEPT ![t] = tab] /\ listing' = listing /\ row' = row /\ late' = late
  BY DEF Becomes
<1>2. tab \in TabStates
  BY DEF TabIsSound
<1>3. tabs' \in [Tabs -> TabStates]
  BY <1>1, <1>2 DEF EditInv
<1>4. \A u \in Tabs : TabIsSound(tabs'[u], listing)
  BY <1>1 DEF EditInv
<1> QED
  BY <1>1, <1>3, <1>4 DEF EditInv

-----------------------------------------------------------------------------
(* The steps. *)

\* Typing touches what it changes.
LEMMA EditKeeps ==
  ASSUME EditInv, row # None, NEW t \in Tabs, NEW f \in FormFields, Edit(t, f)
  PROVE  EditInv'
<1>1. PICK value \in Typeable(tabs[t].page, f) \ {tabs[t].form[f]} :
        Becomes(t, [tabs[t] EXCEPT !.form[f] = value, !.touched = @ \cup {f}])
  BY DEF Edit
<1> DEFINE tab == tabs[t]
           edited == [tab EXCEPT !.form[f] = value, !.touched = @ \cup {f}]
<1>2. tab \in TabStates /\ TabIsSound(tab, listing) /\ listing \in ListedForms
  BY DEF EditInv
<1>3. value \in Values \cup {Blank}
  BY <1>1, <1>2 DEF Typeable, Values, ListedForms, Blank
<1>4. tab.form \in Form /\ [tab.form EXCEPT ![f] = value] \in Form
  BY <1>2, <1>3 DEF Form, TabStates
<1>5. edited \in TabStates
  BY <1>2, <1>4 DEF TabStates
<1>6. /\ edited.page = tab.page /\ edited.cache = tab.cache /\ edited.fetch = tab.fetch
      /\ edited.save = tab.save /\ edited.touched = tab.touched \cup {f}
      /\ edited.form = [tab.form EXCEPT ![f] = value]
  BY <1>2 DEF TabStates
<1>7. Becomes(t, edited)
  BY <1>1
<1> HIDE DEF edited, tab
<1>8. tab.cache # None => Faithful(edited.page, edited.form, edited.touched, tab.cache)
  BY <1>2, <1>4, <1>6 DEF TabIsSound, Faithful, Form
<1>9. TabIsSound(edited, listing)
  BY <1>2, <1>5, <1>6, <1>8 DEF TabIsSound
<1> QED
  BY <1>7, <1>9, BecomesKeeps

\* A save takes form and copy as they are.
LEMMA SaveKeeps ==
  ASSUME EditInv, row # None, NEW t \in Tabs, Save(t)
  PROVE  EditInv'
<1> DEFINE tab == tabs[t]
           save == [form |-> tab.form, base |-> tab.cache, touched |-> tab.touched, stored |-> FALSE]
           saving == [tab EXCEPT !.save = save]
<1>1. TabIsSound(tab, listing) /\ tab \in TabStates
  BY DEF EditInv
<1>2. tab.page = "verify" /\ tab.cache # None
  BY DEF Save, Shown
<1>3. save \in Saves
  BY <1>1, <1>2 DEF Saves, TabStates
<1>4. SaveIsSound(save, listing)
  BY <1>1, <1>2, <1>3 DEF SaveIsSound, TabIsSound
<1>5. Becomes(t, saving)
  BY DEF Save
<1> HIDE DEF save
<1>6. TabIsSound(saving, listing)
  BY <1>1, <1>3, <1>4 DEF TabIsSound, TabStates
<1> QED
  BY <1>5, <1>6, BecomesKeeps

\* A sound save leaves a sound row.
LEMMA StoresKeeps ==
  ASSUME EditInv, row # None, NEW save, SaveIsSound(save, listing), Stores(save)
  PROVE  listing' = listing /\ row' # None /\ Agrees(row', listing)
<1>1. row \in Row /\ listing \in ListedForms
  BY DEF EditInv, Agrees
<1>2. Agrees(Stored(save), listing)
  BY <1>1, StoredAgrees
<1>3. row' = Stored(save) /\ listing' = listing
  BY DEF Stores
<1>4. row' \in Row
  BY <1>2, <1>3 DEF Agrees
<1> QED
  BY <1>2, <1>3, <1>4, NoneIsNoCopy

LEMMA PatchKeeps ==
  ASSUME EditInv, row # None, NEW t \in Tabs, Patch(t)
  PROVE  EditInv'
<1> DEFINE tab == tabs[t]
           stored == [tab EXCEPT !.save.stored = TRUE]
<1>1. TabIsSound(tab, listing) /\ tab \in TabStates
  BY DEF EditInv
<1>2. tab.save # None /\ Stores(tab.save) /\ late' = late /\ tabs' = [tabs EXCEPT ![t].save.stored = TRUE]
  BY DEF Patch
<1>3. SaveIsSound(tab.save, listing) /\ tab.save \in Saves
  BY <1>1, <1>2 DEF TabIsSound, SaveIsSound
<1>4. listing' = listing /\ row' # None /\ Agrees(row', listing)
  BY <1>2, <1>3, StoresKeeps
<1>5. tabs' = [tabs EXCEPT ![t] = stored]
  BY <1>2 DEF EditInv
<1>6. [tab.save EXCEPT !.stored = TRUE] \in Saves
  BY <1>3 DEF Saves
<1>7. SaveIsSound([tab.save EXCEPT !.stored = TRUE], listing)
  BY <1>3, <1>6 DEF SaveIsSound, Saves
<1>8. stored \in TabStates
  BY <1>1, <1>6 DEF TabStates
<1>9. TabIsSound(stored, listing)
  <2>1. /\ stored.page = tab.page /\ stored.cache = tab.cache /\ stored.fetch = tab.fetch
        /\ stored.form = tab.form /\ stored.touched = tab.touched
        /\ stored.save = [tab.save EXCEPT !.stored = TRUE]
    BY <1>1 DEF TabStates
  <2> HIDE DEF stored
  <2> QED
    BY <1>1, <1>7, <1>8, <2>1 DEF TabIsSound
<1> HIDE DEF stored
<1>10. tabs' \in [Tabs -> TabStates] /\ \A u \in Tabs : TabIsSound(tabs'[u], listing)
  BY <1>5, <1>8, <1>9 DEF EditInv
<1> QED
  BY <1>2, <1>4, <1>10 DEF EditInv

LEMMA LateKeeps ==
  ASSUME EditInv, row # None, PatchLate
  PROVE  EditInv'
<1>1. SaveIsSound(late, listing) /\ Stores(late) /\ late' = None /\ tabs' = tabs
  BY DEF PatchLate, EditInv
<1>2. listing' = listing /\ row' # None /\ Agrees(row', listing)
  BY <1>1, StoresKeeps
<1> QED
  BY <1>1, <1>2 DEF EditInv

LEMMA TimeoutKeeps ==
  ASSUME EditInv, row # None, NEW t \in Tabs, SaveTimesOut(t)
  PROVE  EditInv'
<1> DEFINE tab == [tabs[t] EXCEPT !.save = None]
<1>1. TabIsSound(tabs[t], listing) /\ tabs[t] \in TabStates
  BY DEF EditInv
<1>2. TabIsSound(tab, listing) /\ tab \in TabStates
  BY <1>1, ForgettingIsSound DEF TabIsSound
<1>3. /\ tabs[t].save # None /\ late' = tabs[t].save /\ listing' = listing /\ row' = row
      /\ tabs' = [tabs EXCEPT ![t] = tab]
  BY DEF SaveTimesOut, EditInv
<1>4. SaveIsSound(tabs[t].save, listing)
  BY <1>1, <1>3 DEF TabIsSound
<1> HIDE DEF tab
<1>5. tabs' \in [Tabs -> TabStates] /\ \A u \in Tabs : TabIsSound(tabs'[u], listing)
  BY <1>2, <1>3 DEF EditInv
<1> QED
  BY <1>3, <1>4, <1>5 DEF EditInv

\* Before there is a property, the tabs can do nothing.
LEMMA NothingWithoutRow ==
  ASSUME EditInv, EditStep
  PROVE  row # None
<1>1. ASSUME row = None PROVE FALSE
  <2>1. late = None /\ \A t \in Tabs : tabs[t] = Closed
    BY <1>1 DEF EditInv, NothingYet
  <2>2. \A t \in Tabs : tabs[t].page = "closed" /\ tabs[t].fetch = None /\ tabs[t].save = None
    BY <2>1 DEF Closed
  <2>3. ~PatchLate
    BY <2>1 DEF PatchLate
  <2>4. \A t \in Tabs : ~Open(t)
    BY <1>1 DEF Open
  <2>5. \A t \in Tabs : ~Reload(t) /\ ~Save(t) /\ \A f \in FormFields : ~Edit(t, f)
    BY <2>2 DEF Reload, Save, Edit, Shown
  <2>6. \A t \in Tabs : ~Arrives(t) /\ ~FetchFails(t)
    BY <2>2 DEF Arrives, FetchFails
  <2>7. \A t \in Tabs : ~Patch(t) /\ ~Saved(t) /\ ~SaveFails(t) /\ ~SaveTimesOut(t)
    BY <2>2 DEF Patch, Saved, SaveFails, SaveTimesOut
  <2> QED
    BY <1>1, <2>2, <2>3, <2>4, <2>5, <2>6, <2>7, NoneIsNoCopy DEF EditStep, ServerReads
<1> QED
  BY <1>1

\* A step of a tab keeps the invariant.
LEMMA EditStepKeeps ==
  ASSUME EditInv, EditStep
  PROVE  EditInv'
<1>1. row # None
  BY NothingWithoutRow
<1>2. \A t \in Tabs : TabIsSound(tabs[t], listing) /\ tabs[t] \in TabStates
  BY DEF EditInv
<1>3. ASSUME NEW t \in Tabs, Open(t) PROVE EditInv'
  <2>1. Becomes(t, Mounts(tabs[t], "verify"))
    BY <1>3 DEF Open
  <2> QED
    BY <1>1, <1>2, <2>1, MountsIsSound, BecomesKeeps
<1>4. ASSUME NEW t \in Tabs, Reload(t) PROVE EditInv'
  <2>1. Becomes(t, Mounts(Closed, "verify"))
    BY <1>4 DEF Reload
  <2>2. TabIsSound(Mounts(Closed, "verify"), listing)
    BY ClosedIsSound, MountsIsSound
  <2> QED
    BY <1>1, <2>1, <2>2, BecomesKeeps
<1>5. ASSUME NEW t \in Tabs, ServerReads(t) PROVE EditInv'
  <2> DEFINE tab == [tabs[t] EXCEPT !.fetch = {row}]
  <2>1. Becomes(t, tab)
    BY <1>5 DEF ServerReads
  <2>2. Agrees(row, listing) /\ row \in Row
    BY <1>1 DEF EditInv, Agrees
  <2>3. TabIsSound(tab, listing)
    BY <1>2, <2>2 DEF TabIsSound, TabStates
  <2> QED
    BY <1>1, <2>1, <2>3, BecomesKeeps
<1>6. ASSUME NEW t \in Tabs, Arrives(t) PROVE EditInv'
  <2> DEFINE tab == [tabs[t] EXCEPT !.fetch = None]
  <2>1. PICK answer \in tabs[t].fetch :
          Becomes(t, IF answer = tab.cache THEN tab ELSE Shows(tab, answer))
    BY <1>6 DEF Arrives
  <2>2. Agrees(answer, listing)
    BY <1>2, <1>6 DEF Arrives, TabIsSound
  <2>3. TabIsSound(tab, listing)
    BY <1>2, ForgettingIsSound
  <2> HIDE DEF tab
  <2>4. TabIsSound(Shows(tab, answer), listing)
    BY <2>2, <2>3, ShowsIsSound
  <2>5. CASE answer = tab.cache
    BY <1>1, <2>1, <2>3, <2>5, BecomesKeeps
  <2>6. CASE answer # tab.cache
    BY <1>1, <2>1, <2>4, <2>6, BecomesKeeps
  <2> QED
    BY <2>5, <2>6
<1>7. ASSUME NEW t \in Tabs, FetchFails(t) PROVE EditInv'
  BY <1>1, <1>7, ClosedIsSound, BecomesKeeps DEF FetchFails
<1>8. ASSUME NEW t \in Tabs, Saved(t) PROVE EditInv'
  <2> DEFINE tab == [tabs[t] EXCEPT !.save = None]
  <2>1. Becomes(t, Mounts(tab, "assumptions"))
    BY <1>8 DEF Saved
  <2>2. TabIsSound(tab, listing)
    BY <1>2, ForgettingIsSound
  <2> HIDE DEF tab
  <2>3. TabIsSound(Mounts(tab, "assumptions"), listing)
    BY <2>2, MountsIsSound
  <2> QED
    BY <1>1, <2>1, <2>3, BecomesKeeps
<1>9. ASSUME NEW t \in Tabs, SaveFails(t) PROVE EditInv'
  BY <1>1, <1>2, <1>9, ForgettingIsSound, BecomesKeeps DEF SaveFails
<1> QED
  BY <1>1, <1>3, <1>4, <1>5, <1>6, <1>7, <1>8, <1>9, EditKeeps, SaveKeeps, PatchKeeps, LateKeeps,
     TimeoutKeeps DEF EditStep

LEMMA StartKeeps ==
  ASSUME EditInv, NEW t \in Tabs, StartAnalysis(t)
  PROVE  EditInv'
<1>1. row # None
  <2>1. row = None => tabs[t].page = "closed"
    BY DEF EditInv, NothingYet, Closed
  <2> QED
    BY <2>1 DEF StartAnalysis
<1>2. Closed \in TabStates /\ TabIsSound(Closed, listing)
  BY ClosedIsSound DEF TabIsSound
<1>3. tabs' = [u \in Tabs |-> Closed] /\ late' = None /\ listing' = listing /\ row' = row
  BY DEF StartAnalysis
<1>4. tabs' \in [Tabs -> TabStates] /\ \A u \in Tabs : TabIsSound(tabs'[u], listing)
  BY <1>2, <1>3
<1> QED
  BY <1>1, <1>3, <1>4 DEF EditInv

LEMMA CreateKeeps ==
  ASSUME EditInv, CreateProperty
  PROVE  EditInv'
<1> DEFINE values == ListedValues(job.result.found)
           created == [property |-> values, verified |-> None, version |-> 1, updated_at |-> 0]
<1>1. row = None /\ listing' = values /\ row' = created /\ UNCHANGED <<tabs, late, started>>
  BY DEF CreateProperty, CreateRow
<1>2. values \in ListedForms /\ values \in Properties
  BY DEF ListedValues, ListedForms, Properties, Values, Listed
<1> HIDE DEF values
<1>3. created \in Row
  BY <1>2 DEF Row
<1>4. Agrees(created, values)
  BY <1>3 DEF Agrees
<1>5. created # None
  BY <1>3, NoneIsNoCopy
<1>6. late = None /\ \A t \in Tabs : tabs[t] = Closed
  BY <1>1 DEF EditInv, NothingYet
<1>7. \A t \in Tabs : TabIsSound(tabs[t], values)
  BY <1>6, ClosedIsSound
<1> HIDE DEF created
<1> QED
  BY <1>1, <1>2, <1>4, <1>5, <1>6, <1>7 DEF EditInv

\* Sound tabs over a sound row, whatever the tabs do and however their requests end.
THEOREM EditingIsSound == Spec => []EditInv
<1>1. Init => EditInv
  <2> SUFFICES ASSUME EditInit PROVE EditInv
    BY DEF Init
  <2>1. Closed \in TabStates /\ TabIsSound(Closed, listing)
    BY ClosedIsSound DEF TabIsSound
  <2>2. tabs \in [Tabs -> TabStates] /\ \A t \in Tabs : TabIsSound(tabs[t], listing)
    BY <2>1 DEF EditInit
  <2> QED
    BY <2>2 DEF EditInit, EditInv, NothingYet
<1>2. EditInv /\ [Next]_vars => EditInv'
  <2> SUFFICES ASSUME EditInv, [Next]_vars PROVE EditInv'
    OBVIOUS
  <2>1. CASE UNCHANGED editVars
    BY <2>1 DEF EditInv, NothingYet, editVars
  <2>2. CASE CreateProperty
    BY <2>2, CreateKeeps
  <2>3. CASE EditingStep
    BY <2>3, EditStepKeeps DEF EditingStep
  <2>4. CASE Analyse
    BY <2>4, StartKeeps DEF Analyse
  <2>5. UNCHANGED vars \/ ExtractStep \/ Discard \/ FollowStep => UNCHANGED editVars
    BY DEF vars, ExtractStep, Discard, FollowStep
  <2> QED
    BY <2>1, <2>2, <2>3, <2>4, <2>5 DEF Next
<1> QED
  BY <1>1, <1>2, PTL DEF Spec

\* The two copies a row keeps of a field, the property's and the snapshot's, never disagree except
\* that an emptied field is null in the one and as listed in the other.
\* (buildUpdatedProperty, PropertyVerificationService.verify)
THEOREM CopiesStayAgreed == Spec => []CopiesAgree
<1>1. EditInv => CopiesAgree
  BY DEF EditInv, Agrees, CopiesAgree
<1> QED
  BY <1>1, EditingIsSound, PTL

-----------------------------------------------------------------------------
(* No correction is lost. *)

\* A save that is stored loses no more than its user gave up, unless it was built on an old copy.
LEMMA StoresLoseNothing ==
  ASSUME EditInv, row # None, NEW save, SaveIsSound(save, listing), Stores(save)
  PROVE  /\ row' = Stored(save)
         /\ \A f \in FormFields :
              InForce(row', f) # InForce(row, f) => f \in save.touched \/ save.base # row
<1>1. row' = Stored(save)
  BY DEF Stores
<1>2. Agrees(row, listing) /\ listing \in ListedForms
  BY DEF EditInv
<1>3. ASSUME NEW f \in FormFields, f \notin save.touched, save.base = row
      PROVE  InForce(Stored(save), f) = InForce(row, f)
  BY <1>2, <1>3, StoredKeeps
<1> QED
  BY <1>1, <1>3

\* A save changes the value in force of a field only if its user touched that field, or if the tab's
\* copy was no longer the row. (PropertyVerificationFlow, PropertyRepository.update)
THEOREM CorrectionsAreKept == Spec => LostOnlyWhenStale
<1> DEFINE Kept ==
      row # None /\ row' # row =>
        \E save \in {late} \cup {tabs[t].save : t \in Tabs} :
          /\ save # None
          /\ row' = Stored(save)
          /\ \A f \in FormFields :
               InForce(row', f) # InForce(row, f) => f \in save.touched \/ save.base # row
<1>1. EditInv /\ [Next]_vars => [Kept]_vars
  <2> SUFFICES ASSUME EditInv, [Next]_vars, row # None, row' # row
               PROVE  \E save \in {late} \cup {tabs[t].save : t \in Tabs} :
                        /\ save # None
                        /\ row' = Stored(save)
                        /\ \A f \in FormFields :
                             InForce(row', f) # InForce(row, f) => f \in save.touched \/ save.base # row
    OBVIOUS
  <2>1. ~CreateProperty
    BY DEF CreateProperty, CreateRow
  <2>2. ~Analyse
    BY DEF Analyse, StartAnalysis
  <2>3. ~UNCHANGED vars /\ ~ExtractStep /\ ~Discard /\ ~FollowStep
    BY DEF vars, editVars, ExtractStep, Discard, FollowStep
  <2>4. EditStep
    BY <2>1, <2>2, <2>3 DEF Next, EditingStep
  <2>5. PatchLate \/ \E t \in Tabs : Patch(t)
    BY <2>4 DEF EditStep, Open, Reload, ServerReads, Arrives, FetchFails, Edit, Save, Saved,
       SaveFails, SaveTimesOut, Becomes
  <2>6. CASE PatchLate
    <3>1. late # None /\ SaveIsSound(late, listing) /\ Stores(late)
      BY <2>6 DEF PatchLate, EditInv
    <3> QED
      BY <3>1, StoresLoseNothing
  <2>7. ASSUME NEW t \in Tabs, Patch(t)
        PROVE  \E save \in {tabs[u].save : u \in Tabs} :
                 /\ save # None
                 /\ row' = Stored(save)
                 /\ \A f \in FormFields :
                      InForce(row', f) # InForce(row, f) => f \in save.touched \/ save.base # row
    <3>1. tabs[t].save # None /\ SaveIsSound(tabs[t].save, listing) /\ Stores(tabs[t].save)
      BY <2>7 DEF Patch, EditInv, TabIsSound
    <3> QED
      BY <3>1, StoresLoseNothing
  <2> QED
    BY <2>5, <2>6, <2>7
<1> QED
  BY <1>1, EditingIsSound, PTL DEF Spec, LostOnlyWhenStale

\* The analysis of a tab that is up to date starts at the verified price, unless the user typed another.
\* (createAssumptionsDefaults, AssumptionsFlow)
THEOREM AnalysesArePricedAsVerified == Spec => []PricedAsVerified
<1>1. Init => PricedAsVerified
  BY DEF Init, EditInit, PricedAsVerified
<1>2. EditInv /\ PricedAsVerified /\ [Next]_vars => PricedAsVerified'
  <2> SUFFICES ASSUME EditInv, PricedAsVerified, [Next]_vars PROVE PricedAsVerified'
    OBVIOUS
  <2>1. CASE started' = started
    BY <2>1 DEF PricedAsVerified
  <2>2. ASSUME NEW t \in Tabs, StartAnalysis(t) PROVE PricedAsVerified'
    <3> DEFINE tab == tabs[t]
    <3>1. /\ tab.page = "assumptions" /\ tab.cache # None /\ tab.cache.verified # None
          /\ started' = [row |-> row, price |-> tab.form[PriceField], current |-> tab.cache = row,
                         typed |-> PriceField \in tab.touched]
      BY <2>2 DEF StartAnalysis, Shown
    <3>2. Faithful("assumptions", tab.form, tab.touched, tab.cache)
      BY <3>1 DEF EditInv, TabIsSound
    <3>3. PriceField \in FormFields
      BY PriceIsVerified
    <3>4. PriceField \notin tab.touched => tab.form[PriceField] = tab.cache.verified[PriceField].final
      BY <3>1, <3>2, <3>3 DEF Faithful, FormOn, Defaults
    <3> HIDE DEF tab
    <3> QED
      BY <3>1, <3>4 DEF PricedAsVerified
  <2>3. started' = started \/ \E t \in Tabs : StartAnalysis(t)
    <3>1. EditStep => started' = started
      BY DEF EditStep, Open, Reload, ServerReads, Arrives, FetchFails, Edit, Save, Saved,
         SaveFails, SaveTimesOut, Becomes, Patch, PatchLate, Stores
    <3> QED
      BY <3>1 DEF Next, vars, editVars, ExtractStep, Discard, FollowStep, CreateProperty, CreateRow,
         EditingStep, Analyse
  <2> QED
    BY <2>1, <2>2, <2>3
<1> QED
  BY <1>1, <1>2, EditingIsSound, PTL DEF Spec

-----------------------------------------------------------------------------
(* Types. *)

JobIsTyped ==
  job \in [pc : {"idle", "hasdata", "http", "browser", "done", "failed"},
           provider : {job.provider}, redirects : 0 .. MaxRedirects,
           read : {job.read}, result : {job.result}, error : {job.error}]

\* No answer of a site makes the extraction follow more redirects than are allowed.
LEMMA ListingStepKeeps ==
  ASSUME JobIsTyped, ListingStep
  PROVE  JobIsTyped'
<1>1. ASSUME NEW code, NEW retryable, Fails(code, retryable) PROVE JobIsTyped'
  BY <1>1 DEF JobIsTyped, Fails
<1>2. CASE Submit
  <2>1. CASE \E provider \in Providers, pc \in {"hasdata", "http"} :
               job' = [job EXCEPT !.pc = pc, !.provider = provider]
    BY <2>1 DEF JobIsTyped
  <2> QED
    BY <1>1, <1>2, <2>1 DEF Submit
<1>3. CASE HasDataAnswers
  <2>1. PICK payload \in Payloads :
          job' = [job EXCEPT !.pc = "done", !.result = ExtractPayload(job.provider, payload)]
    BY <1>3 DEF HasDataAnswers
  <2> QED
    BY <2>1 DEF JobIsTyped
<1>4. CASE HasDataFails
  BY <1>1, <1>4 DEF HasDataFails
<1>5. CASE Redirect
  <2>1. job.redirects \in 0 .. MaxRedirects /\ MaxRedirects \in Nat
    BY RedirectsAreBounded DEF JobIsTyped
  <2>2. CASE job.redirects >= MaxRedirects
    BY <1>1, <1>5, <2>2 DEF Redirect
  <2>3. CASE ~(job.redirects >= MaxRedirects) /\ job' = [job EXCEPT !.redirects = @ + 1]
    <3>1. job.redirects + 1 \in 0 .. MaxRedirects
      BY <2>1, <2>3
    <3> QED
      BY <2>3, <3>1 DEF JobIsTyped
  <2> QED
    BY <1>1, <1>5, <2>2, <2>3 DEF Redirect
<1>6. CASE Unresolved \/ CallFails \/ PageRefused
  BY <1>1, <1>6 DEF Unresolved, CallFails, PageRefused
<1>7. CASE ShellFound
  <2>1. CASE job' = [job EXCEPT !.pc = "browser"]
    BY <2>1 DEF JobIsTyped
  <2> QED
    BY <1>1, <1>7, <2>1 DEF ShellFound
<1>8. CASE ListingRead
  <2>1. PICK page \in Listings, pc \in {"browser", "done"} :
          job' = [job EXCEPT !.pc = pc, !.read = [listing |-> page, with |-> job.pc],
                             !.result = Extract(job.provider, page)]
    BY <1>8, Zenon DEF ListingRead
  <2> QED
    BY <2>1 DEF JobIsTyped
<1> QED
  BY <1>2, <1>3, <1>4, <1>5, <1>6, <1>7, <1>8 DEF ListingStep

\* Every reachable state of the intake is well typed. (ListingService.extract, PropertyRepository)
THEOREM IntakeIsTyped == Spec => []TypeOK
<1> DEFINE Typed == JobIsTyped /\ listing \in ListedForms \cup {None}
<1>1. Init => Typed
  BY RedirectsAreBounded DEF Init, ListingInit, EditInit, Idle, JobIsTyped
<1>2. Typed /\ [Next]_vars => Typed'
  <2> SUFFICES ASSUME Typed, [Next]_vars PROVE Typed'
    OBVIOUS
  <2>1. JobIsTyped'
    <3>1. CASE ListingStep
      BY <3>1, ListingStepKeeps
    <3>2. CASE job' = Idle
      BY <3>2, RedirectsAreBounded DEF JobIsTyped, Idle
    <3>3. CASE job' = job
      BY <3>3 DEF JobIsTyped
    <3> QED
      BY <3>1, <3>2, <3>3 DEF Next, vars, ExtractStep, CreateProperty, Discard, EditingStep, Analyse,
         FollowStep
  <2>2. listing' \in ListedForms \cup {None}
    <3>1. CASE CreateProperty
      <4>1. listing' = ListedValues(job.result.found)
        BY <3>1 DEF CreateProperty, CreateRow
      <4> QED
        BY <4>1 DEF ListedValues, ListedForms, Listed
    <3>2. EditStep => listing' = listing
      BY DEF EditStep, Open, Reload, ServerReads, Arrives, FetchFails, Edit, Save, Saved,
         SaveFails, SaveTimesOut, Becomes, Patch, PatchLate, Stores
    <3>3. ~CreateProperty => listing' = listing
      BY <3>2 DEF Next, vars, editVars, ExtractStep, Discard, EditingStep, Analyse, StartAnalysis,
         FollowStep
    <3> QED
      BY <3>1, <3>3
  <2> QED
    BY <2>1, <2>2
<1>3. Typed /\ EditInv => TypeOK
  <2> SUFFICES ASSUME Typed, EditInv PROVE TypeOK
    OBVIOUS
  <2>1. job.pc \in {"idle", "hasdata", "http", "browser", "done", "failed"}
        /\ job.redirects \in 0 .. MaxRedirects
    BY DEF JobIsTyped
  <2>2. row \in Row \cup {None}
    BY DEF EditInv, Agrees
  <2>3. listing \in ListedForms \cup {None}
    OBVIOUS
  <2>4. \A t \in Tabs : tabs[t] \in TabStates
    BY DEF EditInv
  <2> QED
    BY <2>1, <2>2, <2>3, <2>4 DEF TypeOK, ListedForms, TabStates
<1> HIDE DEF Typed
<1> QED
  BY <1>1, <1>2, <1>3, EditingIsSound, PTL DEF Spec

-----------------------------------------------------------------------------
(* The sources of a page. *)

\* Tables of confidences.
Graded(table) == \A f \in DOMAIN table : table[f] \in Nat

LEMMA AtGrades ==
  ASSUME NEW S, NEW c \in Nat
  PROVE  Graded(At(S, c))
BY DEF At, Graded

LEMMA OrGrades ==
  ASSUME NEW f, NEW g, Graded(f), Graded(g)
  PROVE  Graded(Or(f, g))
BY DEF Or, Graded

LEMMA OfferGives ==
  ASSUME NEW source, NEW table, NEW given
  PROVE  /\ DOMAIN Offer(source, table, given) \subseteq DOMAIN table
         /\ \A f \in DOMAIN Offer(source, table, given) :
              Offer(source, table, given)[f].confidence = table[f]
         /\ given # None => DOMAIN table \cap given \subseteq DOMAIN Offer(source, table, given)
<1>1. CASE given = None
  BY <1>1 DEF Offer
<1>2. CASE given # None
  BY <1>2 DEF Offer, WithAddress
<1> QED
  BY <1>1, <1>2

LEMMA JsonLdAddressFields ==
  DOMAIN JsonLdAddress = AddressParts \cup {"full_address", "description"}
BY DEF JsonLdAddress, Or, At

\* JSON-LD adds the coordinates on Zillow, which no other source of a page has.
LEMMA ZillowJsonLdFields ==
  Graded(ZillowJsonLd) /\ DOMAIN ZillowJsonLd = DOMAIN JsonLdAddress \cup Geo
<1>1. Graded(JsonLdAddress)
  BY AtGrades, OrGrades DEF JsonLdAddress
<1>2. Graded(ZillowJsonLd)
  BY <1>1, AtGrades, OrGrades DEF ZillowJsonLd
<1> QED
  BY <1>2 DEF ZillowJsonLd, Or, At

\* The embedded state of the site has the price and the facts, with the highest confidence.
LEMMA EmbeddedFields ==
  /\ Graded(Embedded)
  /\ DOMAIN Embedded \cap Geo = {}
  /\ \A f \in {"asking_price"} \cup Facts : f \in DOMAIN Embedded /\ Embedded[f] >= 98
<1>1. Graded(Embedded)
  BY AtGrades, OrGrades DEF Embedded
<1>2. DOMAIN Embedded \cap Geo = {}
  <2>1. \A f \in Geo : f \notin AddressParts \cup Facts \cup Dates \cup
          {"full_address", "listing_id", "asking_price", "listing_status", "property_type",
           "original_listing_price", "description"}
    BY DEF AddressParts, Facts, Dates, Geo
  <2> QED
    BY <2>1 DEF Embedded, Or, At
<1>3. Embedded["asking_price"] = 99
  BY DEF Embedded, Or, At
<1>4. ASSUME NEW f \in Facts
      PROVE  Embedded[f] = 98
  <2>1. f \notin {"full_address", "listing_id", "asking_price"}
    BY DEF Facts
  <2> QED
    BY <2>1 DEF Embedded, Or, At
<1>5. {"asking_price"} \cup Facts \subseteq DOMAIN Embedded
  BY DEF Embedded, Or, At
<1> QED
  BY <1>1, <1>2, <1>3, <1>4, <1>5

LEMMA ZillowNextDataFields ==
  /\ Graded(ZillowNextData)
  /\ DOMAIN ZillowNextData \cap Geo = {}
  /\ \A f \in {"asking_price"} \cup Facts : f \in DOMAIN ZillowNextData /\ ZillowNextData[f] >= 98
<1>1. Graded(ZillowNextData)
  BY EmbeddedFields, AtGrades, OrGrades DEF ZillowNextData
<1>2. DOMAIN ZillowNextData \cap Geo = {}
  BY EmbeddedFields DEF ZillowNextData, Or, At, Geo
<1>3. \A f \in {"asking_price"} \cup Facts : f \in DOMAIN ZillowNextData /\ ZillowNextData[f] >= 98
  BY EmbeddedFields DEF ZillowNextData, Or
<1> QED
  BY <1>1, <1>2, <1>3

\* On Zillow: of what is outside the address and the description only the coordinates can come
\* from JSON-LD, and what is visible on the page is trusted least.
LEMMA ZillowKeepsTheBest ==
  ASSUME NEW page, NEW s \in {"json_ld", "structured", "title", "visible"}, page[s] # None,
         NEW f \in DOMAIN SourcesOf("zillow")[s] \cap page[s]
  PROVE  /\ f \in DOMAIN ZillowRecord(page)
         /\ ZillowRecord(page)[f].confidence >= SourcesOf("zillow")[s][f] \/ f \in DOMAIN JsonLdAddress
<1> DEFINE o1 == Offer("json_ld", ZillowJsonLd, page["json_ld"])
           o2 == Offer("next_data", ZillowNextData, page["structured"])
           o3 == Offer("html_meta", ZillowTitle, page["title"])
           o4 == Offer("visible_html", ZillowVisible, page["visible"])
           r0 == Or(Nothing, o1)
           r1 == Or(r0, o2)
           r2 == Or(r1, o3)
           result == Or(r2, o4)
<1>1. ZillowRecord(page) = result
  BY DEF ZillowRecord, Record
<1>2. /\ SourcesOf("zillow")["json_ld"] = ZillowJsonLd
      /\ SourcesOf("zillow")["structured"] = ZillowNextData
      /\ SourcesOf("zillow")["title"] = ZillowTitle
      /\ SourcesOf("zillow")["visible"] = ZillowVisible
  BY DEF SourcesOf
<1>3. /\ DOMAIN o1 \subseteq DOMAIN ZillowJsonLd /\ \A x \in DOMAIN o1 : o1[x].confidence = ZillowJsonLd[x]
      /\ DOMAIN o2 \subseteq DOMAIN ZillowNextData /\ \A x \in DOMAIN o2 : o2[x].confidence = ZillowNextData[x]
      /\ DOMAIN o3 \subseteq DOMAIN ZillowTitle
      /\ \A x \in DOMAIN o4 : o4[x].confidence = ZillowVisible[x]
      /\ page["json_ld"] # None => DOMAIN ZillowJsonLd \cap page["json_ld"] \subseteq DOMAIN o1
      /\ page["structured"] # None => DOMAIN ZillowNextData \cap page["structured"] \subseteq DOMAIN o2
      /\ page["title"] # None => DOMAIN ZillowTitle \cap page["title"] \subseteq DOMAIN o3
      /\ page["visible"] # None => DOMAIN ZillowVisible \cap page["visible"] \subseteq DOMAIN o4
  BY OfferGives
<1> HIDE DEF o1, o2, o3, o4
<1>4. /\ DOMAIN result = DOMAIN o1 \cup DOMAIN o2 \cup DOMAIN o3 \cup DOMAIN o4
      /\ \A x \in DOMAIN o1 : result[x] = o1[x]
      /\ \A x \in DOMAIN o2 \ DOMAIN o1 : result[x] = o2[x]
      /\ \A x \in DOMAIN o4 \ (DOMAIN o1 \cup DOMAIN o2 \cup DOMAIN o3) : result[x] = o4[x]
  <2>1. DOMAIN r0 = DOMAIN o1 /\ \A x \in DOMAIN o1 : r0[x] = o1[x]
    <3>1. DOMAIN Nothing = {}
      BY DEF Nothing
    <3> QED
      BY <3>1 DEF Or
  <2> HIDE DEF r0
  <2>2. /\ DOMAIN r1 = DOMAIN o1 \cup DOMAIN o2 /\ \A x \in DOMAIN o1 : r1[x] = o1[x]
        /\ \A x \in DOMAIN o2 \ DOMAIN o1 : r1[x] = o2[x]
    BY <2>1 DEF Or
  <2> HIDE DEF r1
  <2>3. DOMAIN r2 = DOMAIN r1 \cup DOMAIN o3 /\ \A x \in DOMAIN r1 : r2[x] = r1[x]
    BY DEF Or
  <2> HIDE DEF r2
  <2> QED
    BY <2>2, <2>3 DEF Or
<1> HIDE DEF result, r0, r1, r2
<1>5. /\ \A x \in DOMAIN ZillowJsonLd : ZillowJsonLd[x] \in Nat /\ (x \in DOMAIN JsonLdAddress \/ x \in Geo)
      /\ \A x \in DOMAIN ZillowNextData : ZillowNextData[x] \in Nat /\ x \notin Geo
  BY ZillowJsonLdFields, ZillowNextDataFields DEF Graded
<1>6. DOMAIN ZillowTitle = {"full_address"} /\ "full_address" \in DOMAIN JsonLdAddress
  BY JsonLdAddressFields DEF ZillowTitle, At
<1>7. /\ DOMAIN ZillowVisible = {"asking_price"} \cup Facts
      /\ \A x \in DOMAIN ZillowVisible : ZillowVisible[x] = 35
      /\ \A x \in {"asking_price"} \cup Facts : x \notin Geo /\ x \notin DOMAIN JsonLdAddress
      /\ \A x \in {"asking_price"} \cup Facts : x \in DOMAIN ZillowNextData /\ ZillowNextData[x] >= 98
  <2>1. \A x \in {"asking_price"} \cup Facts : x \notin Geo /\ x \notin DOMAIN JsonLdAddress
    BY JsonLdAddressFields DEF Facts, Geo, AddressParts
  <2> QED
    BY <2>1, ZillowNextDataFields DEF ZillowVisible, At
<1>8. CASE s = "json_ld"
  BY <1>1, <1>2, <1>3, <1>4, <1>5, <1>8
<1>9. CASE s = "structured"
  <2>1. f \in DOMAIN o2
    BY <1>2, <1>3, <1>9
  <2>2. CASE f \in DOMAIN JsonLdAddress
    BY <1>1, <1>4, <2>1, <2>2
  <2>3. CASE f \notin DOMAIN JsonLdAddress
    <3>1. f \notin DOMAIN o1
      BY <1>2, <1>3, <1>5, <1>9, <2>3
    <3>2. result[f].confidence = ZillowNextData[f]
      BY <1>3, <1>4, <2>1, <3>1
    <3> QED
      BY <1>1, <1>2, <1>4, <1>5, <1>9, <2>1, <3>2
  <2> QED
    BY <2>2, <2>3
<1>10. CASE s = "title"
  BY <1>1, <1>2, <1>3, <1>4, <1>6, <1>10
<1>11. CASE s = "visible"
  <2>1. f \in DOMAIN o4 /\ f \in {"asking_price"} \cup Facts
    BY <1>2, <1>3, <1>7, <1>11
  <2>2. f \notin DOMAIN o1 /\ f \notin DOMAIN o3
    <3>1. f \notin Geo /\ f \notin DOMAIN JsonLdAddress
      BY <1>7, <2>1
    <3>2. f \notin DOMAIN ZillowJsonLd /\ f \notin DOMAIN ZillowTitle
      BY <1>5, <1>6, <3>1
    <3> QED
      BY <1>3, <3>2
  <2>3. result[f].confidence >= 35
    <3>1. CASE f \in DOMAIN o2
      <4>1. result[f].confidence = ZillowNextData[f]
        BY <1>3, <1>4, <2>2, <3>1
      <4>2. ZillowNextData[f] \in Nat /\ ZillowNextData[f] >= 98
        BY <1>5, <1>7, <2>1
      <4> QED
        BY <4>1, <4>2
    <3>2. CASE f \notin DOMAIN o2
      <4>1. result[f].confidence = ZillowVisible[f]
        BY <1>3, <1>4, <2>1, <2>2, <3>2
      <4> QED
        BY <1>7, <2>1, <4>1
    <3> QED
      BY <3>1, <3>2
  <2>4. SourcesOf("zillow")[s][f] = 35
    BY <1>2, <1>7, <1>11, <2>1
  <2> QED
    BY <1>1, <1>4, <2>1, <2>3, <2>4
<1> QED
  BY <1>8, <1>9, <1>10, <1>11

LEMMA RedfinEmbeddedFields == Graded(RedfinEmbedded)
BY EmbeddedFields, AtGrades, OrGrades DEF RedfinEmbedded

\* On Redfin JSON-LD has the address and the description only.
LEMMA RedfinKeepsTheBest ==
  ASSUME NEW page, NEW s \in {"json_ld", "structured"}, page[s] # None,
         NEW f \in DOMAIN SourcesOf("redfin")[s] \cap page[s]
  PROVE  /\ f \in DOMAIN RedfinRecord(page)
         /\ RedfinRecord(page)[f].confidence >= SourcesOf("redfin")[s][f] \/ f \in DOMAIN JsonLdAddress
<1> DEFINE o1 == Offer("json_ld", RedfinJsonLd, page["json_ld"])
           o2 == Offer("embedded_json", RedfinEmbedded, page["structured"])
           r0 == Or(Nothing, o1)
           result == Or(r0, o2)
<1>1. RedfinRecord(page) = result
  BY DEF RedfinRecord, Record
<1>2. SourcesOf("redfin")["json_ld"] = JsonLdAddress /\ SourcesOf("redfin")["structured"] = RedfinEmbedded
  BY DEF SourcesOf, RedfinJsonLd
<1>3. /\ DOMAIN o1 \subseteq DOMAIN JsonLdAddress
      /\ \A x \in DOMAIN o2 : o2[x].confidence = RedfinEmbedded[x]
      /\ page["json_ld"] # None => DOMAIN JsonLdAddress \cap page["json_ld"] \subseteq DOMAIN o1
      /\ page["structured"] # None => DOMAIN RedfinEmbedded \cap page["structured"] \subseteq DOMAIN o2
  BY OfferGives DEF RedfinJsonLd
<1> HIDE DEF o1, o2
<1>4. DOMAIN result = DOMAIN o1 \cup DOMAIN o2 /\ \A x \in DOMAIN o2 \ DOMAIN o1 : result[x] = o2[x]
  <2>1. DOMAIN Nothing = {}
    BY DEF Nothing
  <2>2. DOMAIN r0 = DOMAIN o1
    BY <2>1 DEF Or
  <2> HIDE DEF r0
  <2> QED
    BY <2>2 DEF Or
<1> HIDE DEF result, r0
<1>5. CASE s = "json_ld"
  BY <1>1, <1>2, <1>3, <1>4, <1>5
<1>6. CASE s = "structured"
  <2>1. f \in DOMAIN o2 /\ f \in DOMAIN RedfinEmbedded
    BY <1>2, <1>3, <1>6
  <2>2. CASE f \in DOMAIN JsonLdAddress
    BY <1>1, <1>4, <2>1, <2>2
  <2>3. CASE f \notin DOMAIN JsonLdAddress
    <3>1. result[f].confidence = RedfinEmbedded[f]
      BY <1>3, <1>4, <2>1, <2>3
    <3>2. RedfinEmbedded[f] \in Nat
      BY <2>1, RedfinEmbeddedFields DEF Graded
    <3> QED
      BY <1>1, <1>2, <1>4, <1>6, <2>1, <3>1, <3>2
  <2> QED
    BY <2>2, <2>3
<1> QED
  BY <1>5, <1>6

\* Reading the sources of a page in order and keeping the first value of a field keeps the most
\* trusted one, whatever the page holds: the order agrees with the tables of confidence, except
\* for the address and the description. (record_field, providers/zillow.py, providers/redfin.py)
THEOREM FirstSourceIsBest == Spec => []BestSourceWins
<1>1. BestSourceWins
  <2> DEFINE page == job.read.listing
  <2> SUFFICES ASSUME NEW provider \in Providers, NEW s \in DOMAIN SourcesOf(provider), page[s] # None,
                      NEW f \in DOMAIN SourcesOf(provider)[s] \cap page[s]
               PROVE  LET result == Extract(provider, page).found
                      IN  /\ f \in DOMAIN result
                          /\ result[f].confidence >= SourcesOf(provider)[s][f] \/ f \in DOMAIN JsonLdAddress
    BY DEF BestSourceWins
  <2> HIDE DEF page
  <2>1. CASE provider = "zillow"
    <3>1. DOMAIN SourcesOf(provider) = {"json_ld", "structured", "title", "visible"}
      BY <2>1 DEF SourcesOf
    <3>2. Extract(provider, page).found = ZillowRecord(page)
      BY <2>1 DEF Extract, BuildResult
    <3> QED
      BY <2>1, <3>1, <3>2, ZillowKeepsTheBest
  <2>2. CASE provider = "redfin"
    <3>1. DOMAIN SourcesOf(provider) = {"json_ld", "structured"}
      BY <2>2 DEF SourcesOf
    <3>2. Extract(provider, page).found = RedfinRecord(page)
      BY <2>2 DEF Extract, BuildResult
    <3> QED
      BY <2>2, <3>1, <3>2, RedfinKeepsTheBest
  <2> QED
    BY <2>1, <2>2 DEF Providers
<1> QED
  BY <1>1, PTL

===============================================================================
