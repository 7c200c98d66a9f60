----------------------------- MODULE OfficeProofs -----------------------------
(***************************************************************************)
(* Proofs about the components around the results, of which MCOffice is    *)
(* composed: the drafts of the secretary's page, the flags, the board, the *)
(* results tab, the panel of the administrator and the jobs in memory, for *)
(* any number of requests in flight; at the end about all of them.  That   *)
(* of the sessions is in AuthSessionsProofs.                               *)
(*                                                                         *)
(* DraftKeepsTyped is not inductive.  The page writes the form to the      *)
(* draft of the heat chosen whenever it shows something else, so the form  *)
(* must be what was typed there; while it shows the entries of another     *)
(* event than the one chosen, or is about to after a save, there must be   *)
(* nothing typed to lose; and a draft is dropped after the save of what    *)
(* was typed only.                                                         *)
(*                                                                         *)
(* That a page catches up is a promise about requests in flight: an answer *)
(* tells what there is, or something behind it will.  Each invariant says  *)
(* which of the requests, in the order of their answers, may be wrong, and *)
(* what has still to come then.                                            *)
(*                                                                         *)
(* In memory a job that is processed has an attempt left because it was    *)
(* queued with one; a job that is removed is not queued, because what is   *)
(* queued is in line or in the worker's hands; and a key in force names a  *)
(* job that is not old.                                                    *)
(***************************************************************************)
EXTENDS MCOffice, AuthSessionsProofs, ListLemmas

NoneTypedOf(e) == \A k \in DOMAIN typed : k[1] # e

ShownGood == page.shown \notin {NoEvent, page.event} => NoneTypedOf(page.event)

SavingGood ==
    Saving =>
      /\ saving.key[1] # page.event => NoneTypedOf(page.event)
      /\ saving.key \in DOMAIN typed =>
           /\ saving.state = "sent" /\ saving.of = saving.key[1]
           /\ saving.value = typed[saving.key]

FormGood == Writes(page) /\ Key(page) \in DOMAIN typed => page.form = typed[Key(page)]

(* A page that is closed does nothing.                                     *)
LoadingIsOpen == page.loading \/ page.shown # NoEvent \/ Saving => page.open

(* The inductive invariant.                                                *)
DraftInv == DraftTypeOK /\ LoadingIsOpen /\ DraftKeepsTyped /\ ShownGood /\ SavingGood /\ FormGood

-----------------------------------------------------------------------------
LEMMA SetSays ==
    ASSUME NEW f, NEW x, NEW y
    PROVE  /\ DOMAIN Set(f, x, y) = DOMAIN f \cup {x}
           /\ Set(f, x, y)[x] = y
           /\ \A z \in DOMAIN f \ {x} : Set(f, x, y)[z] = f[z]
BY DEF Set

LEMMA DropSays ==
    ASSUME NEW f, NEW x
    PROVE  /\ DOMAIN Drop(f, x) = DOMAIN f \ {x}
           /\ \A z \in DOMAIN f \ {x} : Drop(f, x)[z] = f[z]
BY DEF Drop

(* A page in storage d: the draft it writes is the one it has been filled  *)
(* from, where there is one about the entries it shows.                    *)
DraftsTyped(d) == DOMAIN d \subseteq Keys /\ \A k \in DOMAIN d : d[k] \in Draft

LEMMA RendersSays ==
    ASSUME NEW p \in Page, NEW d, DraftsTyped(d), Renders(p, d)
    PROVE  /\ page' \in Page /\ DraftsTyped(draft')
           /\ page'.event = p.event /\ page'.heat = p.heat /\ page'.shown = p.shown
           /\ page'.final = p.final /\ page'.open = p.open
           /\ DOMAIN d \subseteq DOMAIN draft'
           /\ \A k \in DOMAIN d : k # Key(p) => draft'[k] = d[k]
           /\ Key(p) \in DOMAIN d /\ d[Key(p)].of = p.shown =>
                draft'[Key(p)] = d[Key(p)] /\ page'.form = d[Key(p)].value
           /\ ~Writes(p) => draft' = d
<1>1. PICK v \in Marks : page' = Filled(p, d, v) /\ draft' = Kept(Filled(p, d, v), d)
  BY DEF Renders
<1>2. /\ page' \in Page
      /\ page'.event = p.event /\ page'.heat = p.heat /\ page'.shown = p.shown
      /\ page'.final = p.final /\ page'.open = p.open
      /\ Key(p) \in DOMAIN d /\ d[Key(p)].of = p.shown => page'.form = d[Key(p)].value
  BY <1>1 DEF Filled, Page, DraftsTyped, Draft
<1>3. Writes(page') = Writes(p) /\ Key(page') = Key(p) /\ Key(p) \in Keys
  BY <1>2 DEF Writes, Key, Page, Keys
<1>4. draft' = IF Writes(p) THEN Set(d, Key(p), [of |-> p.shown, value |-> page'.form]) ELSE d
  BY <1>1, <1>2, <1>3 DEF Kept
<1>5. CASE Writes(p)
  <2> DEFINE w == [of |-> p.shown, value |-> page'.form]
  <2>1. w \in Draft
    BY <1>2, <1>5 DEF Draft, Writes, Page
  <2>2. /\ DOMAIN draft' = DOMAIN d \cup {Key(p)}
        /\ draft'[Key(p)] = w
        /\ \A z \in DOMAIN d \ {Key(p)} : draft'[z] = d[z]
    <3> HIDE DEF w
    <3>1. draft' = Set(d, Key(p), w)
      BY <1>4, <1>5 DEF w
    <3> QED
      BY <3>1 DEF Set
  <2>3. DraftsTyped(draft')
    BY <1>3, <2>1, <2>2 DEF DraftsTyped
  <2>4. Key(p) \in DOMAIN d /\ d[Key(p)].of = p.shown => draft'[Key(p)] = d[Key(p)]
    BY <1>2, <2>2 DEF DraftsTyped, Draft
  <2> QED
    BY <1>2, <1>5, <2>2, <2>3, <2>4
<1>6. CASE ~Writes(p)
  BY <1>2, <1>4, <1>6
<1> QED
  BY <1>5, <1>6

(* The page goes on showing p with the form filled from storage d, which   *)
(* has every draft of what is typed, if p shows the event chosen.          *)
LEMMA RendersGood ==
    ASSUME NEW p \in Page, NEW d, DraftsTyped(d), Renders(p, d),
           \A k \in DOMAIN typed' :
             /\ k \in DOMAIN d /\ d[k] = [of |-> k[1], value |-> typed'[k]]
             /\ p.shown # p.event => k[1] # p.event \/ p.shown = NoEvent
    PROVE  /\ page' \in Page /\ DraftsTyped(draft')
           /\ page'.event = p.event /\ page'.open = p.open
           /\ DraftKeepsTyped' /\ ShownGood' /\ FormGood'
<1>1. /\ page' \in Page /\ DraftsTyped(draft')
      /\ page'.event = p.event /\ page'.heat = p.heat /\ page'.shown = p.shown
      /\ page'.final = p.final /\ page'.open = p.open
      /\ DOMAIN d \subseteq DOMAIN draft'
      /\ \A k \in DOMAIN d : k # Key(p) => draft'[k] = d[k]
      /\ Key(p) \in DOMAIN d /\ d[Key(p)].of = p.shown =>
           draft'[Key(p)] = d[Key(p)] /\ page'.form = d[Key(p)].value
      /\ ~Writes(p) => draft' = d
  BY RendersSays
<1>2. Key(p)[1] = p.event
  BY DEF Key
<1>3. Key(p) \in DOMAIN typed' /\ p.shown # NoEvent => p.shown = p.event
  BY <1>2
<1>4. Key(p) \in DOMAIN typed' /\ p.shown # NoEvent =>
        draft'[Key(p)] = d[Key(p)] /\ page'.form = typed'[Key(p)]
  <2> SUFFICES ASSUME Key(p) \in DOMAIN typed', p.shown # NoEvent
               PROVE  draft'[Key(p)] = d[Key(p)] /\ page'.form = typed'[Key(p)]
    OBVIOUS
  <2> DEFINE k == Key(p)
  <2>1. k \in DOMAIN d /\ d[k] = [of |-> k[1], value |-> typed'[k]]
    OBVIOUS
  <2>2. k[1] = p.shown
    BY <1>2, <1>3
  <2>3. d[k].of = p.shown /\ d[k].value = typed'[k]
    BY <2>1, <2>2
  <2> QED
    BY <1>1, <2>1, <2>3
<1>5. DraftKeepsTyped'
  BY <1>1, <1>4 DEF DraftKeepsTyped, Writes
<1>6. ShownGood'
  BY <1>1 DEF ShownGood, NoneTypedOf
<1>7. FormGood'
  BY <1>1, <1>4 DEF FormGood, Writes, Key
<1> QED
  BY <1>1, <1>5, <1>6, <1>7

-----------------------------------------------------------------------------
(* The steps.                                                              *)

LEMMA OpenKeeps == DraftInv /\ Open => DraftInv'
<1> SUFFICES ASSUME DraftInv, Open PROVE DraftInv'
  OBVIOUS
<1>1. /\ page' \in Page /\ page'.shown = NoEvent /\ page'.open
      /\ UNCHANGED <<draft, saving, typed>>
  BY DraftAssumption DEF Open, NoPage, Page
<1>2. ~Saving
  BY DEF Open, DraftInv, LoadingIsOpen
<1> QED
  BY <1>1, <1>2 DEF DraftInv, DraftTypeOK, DraftKeepsTyped, LoadingIsOpen, ShownGood, SavingGood,
     Saving, FormGood, Writes

LEMMA CloseKeeps == DraftInv /\ Close => DraftInv'
<1> SUFFICES ASSUME DraftInv, Close PROVE DraftInv'
  OBVIOUS
<1>1. page' \in Page /\ page'.shown = NoEvent /\ ~page'.loading /\ UNCHANGED <<draft, typed>>
  BY DraftAssumption DEF Close, NoPage, Page
<1>2. saving' \in Save /\ saving'.state = "none"
  BY DraftAssumption DEF Close, NoSave, Save, Keys
<1> QED
  BY <1>1, <1>2 DEF DraftInv, DraftTypeOK, DraftKeepsTyped, LoadingIsOpen, ShownGood, SavingGood, Saving,
     FormGood, Writes

(* A page that shows p with the form filled from storage d, while nothing  *)
(* more is typed and a save goes on or ends.                               *)
LEMMA PageStays ==
    ASSUME DraftInv, NEW p \in Page, p.event = page.event, p.open, NEW d, DraftsTyped(d),
           Renders(p, d),
           DOMAIN typed' \subseteq DOMAIN typed, \A k \in DOMAIN typed' : typed'[k] = typed[k],
           \A k \in DOMAIN typed' : k \in DOMAIN d /\ d[k] = draft[k],
           p.shown \in {NoEvent, p.event} \/ NoneTypedOf(p.event),
           saving' = saving \/ saving' = NoSave
    PROVE  DraftInv'
<1>1. \A k \in DOMAIN typed' :
        /\ k \in DOMAIN d /\ d[k] = [of |-> k[1], value |-> typed'[k]]
        /\ p.shown # p.event => k[1] # p.event \/ p.shown = NoEvent
  BY DEF DraftInv, DraftKeepsTyped, NoneTypedOf
<1>2. /\ page' \in Page /\ DraftsTyped(draft')
      /\ page'.event = p.event /\ page'.open = p.open
      /\ DraftKeepsTyped' /\ ShownGood' /\ FormGood'
  BY <1>1, RendersGood
<1>3. NoSave \in Save /\ NoSave.state = "none"
  BY DraftAssumption DEF NoSave, Save, Keys
<1>4. DraftTypeOK'
  BY <1>2, <1>3 DEF DraftInv, DraftTypeOK, DraftsTyped
<1>5. LoadingIsOpen'
  BY <1>2 DEF LoadingIsOpen
<1>6. SavingGood'
  BY <1>2, <1>3 DEF DraftInv, SavingGood, Saving, NoneTypedOf
<1> QED
  BY <1>2, <1>4, <1>5, <1>6 DEF DraftInv

(* ... what is shown being what the server has sent of event e.            *)
LEMMA ShowsGood ==
    ASSUME DraftInv, NEW p \in Page, p.event = page.event, p.open, NEW e \in Events,
           NEW d, DraftsTyped(d), Shows(p, e, d),
           DOMAIN typed' \subseteq DOMAIN typed, \A k \in DOMAIN typed' : typed'[k] = typed[k],
           \A k \in DOMAIN typed' : k \in DOMAIN d /\ d[k] = draft[k],
           e = p.event \/ NoneTypedOf(p.event),
           saving' = saving \/ saving' = NoSave
    PROVE  DraftInv'
<1>1. PICK final \in BOOLEAN : Renders([p EXCEPT !.shown = e, !.final = final], d)
  BY DEF Shows
<1> DEFINE q == [p EXCEPT !.shown = e, !.final = final]
<1>2. q \in Page /\ q.event = page.event /\ q.open /\ q.shown = e
  BY DEF Page
<1> HIDE DEF q
<1>3. Renders(q, d)
  BY <1>1 DEF q
<1> QED
  BY <1>2, <1>3, PageStays

LEMMA ShownTyped == ASSUME DraftInv PROVE page \in Page /\ DraftsTyped(draft)
BY DEF DraftInv, DraftTypeOK, DraftsTyped

LEMMA DroppedTyped == ASSUME NEW d, DraftsTyped(d), NEW k PROVE DraftsTyped(Drop(d, k))
BY DEF DraftsTyped, Drop

LEMMA SelectHeatKeeps == ASSUME DraftInv, NEW h \in Heats, SelectHeat(h) PROVE DraftInv'
<1> DEFINE q == [page EXCEPT !.heat = h]
<1>1. q \in Page /\ q.event = page.event /\ q.open /\ q.shown = page.shown
  BY ShownTyped DEF Page, SelectHeat
<1> HIDE DEF q
<1>2. Renders(q, draft) /\ UNCHANGED <<saving, typed>>
  BY DEF SelectHeat, q
<1>3. \A k \in DOMAIN typed : k \in DOMAIN draft
  BY DEF DraftInv, DraftKeepsTyped
<1>4. q.shown \in {NoEvent, q.event} \/ NoneTypedOf(q.event)
  BY <1>1 DEF DraftInv, ShownGood
<1> QED
  BY <1>1, <1>2, <1>3, <1>4, ShownTyped, PageStays

LEMMA EntriesArriveKeeps == ASSUME DraftInv, EntriesArrive PROVE DraftInv'
<1> DEFINE q == [page EXCEPT !.loading = FALSE]
<1>1. q \in Page /\ q.event = page.event /\ q.open /\ page.event \in Events
  BY ShownTyped DEF Page, EntriesArrive, DraftInv, LoadingIsOpen
<1> HIDE DEF q
<1>2. Shows(q, page.event, draft) /\ UNCHANGED <<saving, typed>>
  BY DEF EntriesArrive, q
<1>3. \A k \in DOMAIN typed : k \in DOMAIN draft
  BY DEF DraftInv, DraftKeepsTyped
<1> QED
  BY <1>1, <1>2, <1>3, ShownTyped, ShowsGood

LEMMA SaveDoneKeeps == ASSUME DraftInv, SaveDone PROVE DraftInv'
<1>1. /\ Shows(page, saving.key[1], Drop(draft, saving.key))
      /\ saving' = NoSave /\ typed' = typed /\ Saving /\ saving.state = "committed"
  BY DEF SaveDone, Saving
<1>2. saving.key \in Keys /\ saving.key[1] \in Events
  BY DEF DraftInv, DraftTypeOK, Save, Keys
<1>3. saving.key \notin DOMAIN typed
      /\ (saving.key[1] = page.event \/ NoneTypedOf(page.event))
  BY <1>1 DEF DraftInv, SavingGood
<1>4. \A k \in DOMAIN typed :
        k \in DOMAIN Drop(draft, saving.key) /\ Drop(draft, saving.key)[k] = draft[k]
  <2>1. DOMAIN typed \subseteq DOMAIN draft
    BY DEF DraftInv, DraftKeepsTyped
  <2> QED
    BY <1>3, <2>1 DEF Drop
<1>5. DraftsTyped(Drop(draft, saving.key)) /\ page \in Page
  BY ShownTyped, DroppedTyped
<1>6. page.open
  BY <1>1 DEF DraftInv, LoadingIsOpen
<1> QED
  BY <1>1, <1>2, <1>3, <1>4, <1>5, <1>6, ShowsGood

LEMMA ReloadKeeps == ASSUME DraftInv, Reload PROVE DraftInv'
<1> DEFINE k == Key(page)
<1>1. /\ Shows(page, page.event, Drop(draft, k))
      /\ typed' = Drop(typed, k) /\ saving' = saving /\ Writes(page)
  BY DEF Reload, Forgets
<1>2. DraftsTyped(Drop(draft, k)) /\ page \in Page /\ page.event \in Events
  BY ShownTyped, DroppedTyped DEF Page
<1>3. page.open
  BY <1>1 DEF DraftInv, LoadingIsOpen, Writes
<1>4. DOMAIN typed' \subseteq DOMAIN typed /\ \A i \in DOMAIN typed' : typed'[i] = typed[i]
  BY <1>1, DropSays
<1>5. \A i \in DOMAIN typed' : i \in DOMAIN Drop(draft, k) /\ Drop(draft, k)[i] = draft[i]
  <2>1. DOMAIN typed \subseteq DOMAIN draft
    BY DEF DraftInv, DraftKeepsTyped
  <2>2. DOMAIN typed' = DOMAIN typed \ {k}
    BY <1>1, DropSays
  <2> QED
    BY <2>1, <2>2 DEF Drop
<1> QED
  BY <1>1, <1>2, <1>3, <1>4, <1>5, ShowsGood

LEMMA FinalizeKeeps == ASSUME DraftInv, Finalize PROVE DraftInv'
<1>1. \A k \in DOMAIN typed : k \in DOMAIN draft
  BY DEF DraftInv, DraftKeepsTyped
<1>2. page \in Page /\ page.event \in Events
  BY ShownTyped DEF Page
<1> QED
  BY <1>1, <1>2, ShownTyped, ShowsGood DEF Finalize

LEMMA EntriesFailKeeps == ASSUME DraftInv, EntriesFail PROVE DraftInv'
<1>1. /\ page' \in Page /\ page'.open /\ page'.shown = NoEvent /\ page'.event = page.event
      /\ UNCHANGED <<draft, saving, typed>>
  BY ShownTyped, DraftAssumption DEF EntriesFail, Page, NoPage
<1> QED
  BY <1>1 DEF DraftInv, DraftTypeOK, DraftKeepsTyped, LoadingIsOpen, ShownGood, SavingGood, Saving,
     FormGood, Writes, NoneTypedOf

LEMMA SaveFailsKeeps == ASSUME DraftInv, SaveFails PROVE DraftInv'
<1>1. saving' = NoSave /\ NoSave \in Save /\ NoSave.state = "none" /\ UNCHANGED <<draft, page, typed>>
  BY DraftAssumption DEF SaveFails, NoSave, Save, Keys
<1> QED
  BY <1>1 DEF DraftInv, DraftTypeOK, DraftKeepsTyped, LoadingIsOpen, ShownGood, SavingGood, Saving,
     FormGood, Writes, Key, NoneTypedOf

LEMMA SaveSendKeeps == ASSUME DraftInv, SaveSend PROVE DraftInv'
<1>1. /\ saving' = [state |-> "sent", key |-> Key(page), of |-> page.shown, value |-> page.form]
      /\ UNCHANGED <<draft, page, typed>> /\ Writes(page)
  BY DEF SaveSend
<1>2. saving' \in Save
  BY <1>1, ShownTyped DEF Page, Save, Key, Keys, Writes
<1>3. Key(page)[1] = page.event /\ page.open
  BY <1>1 DEF Key, DraftInv, LoadingIsOpen, Writes
<1>4. ASSUME Key(page) \in DOMAIN typed
      PROVE  page.shown = page.event /\ page.form = typed[Key(page)]
  BY <1>1, <1>3, <1>4 DEF DraftInv, ShownGood, NoneTypedOf, FormGood, Writes
<1>5. SavingGood'
  BY <1>1, <1>3, <1>4 DEF SavingGood
<1> QED
  BY <1>1, <1>2, <1>3, <1>5 DEF DraftInv, DraftTypeOK, DraftKeepsTyped, LoadingIsOpen, ShownGood,
     FormGood, Writes, Key, NoneTypedOf

LEMMA SaveCommitKeeps == ASSUME DraftInv, SaveCommit PROVE DraftInv'
<1> DEFINE k == <<saving.of, saving.key[2]>>
<1>1. /\ saving' = [saving EXCEPT !.state = "committed"] /\ saving.state = "sent"
      /\ UNCHANGED <<draft, page>>
      /\ typed' = IF k \in DOMAIN typed /\ typed[k] = saving.value THEN Drop(typed, k) ELSE typed
  BY DEF SaveCommit, Forgets
<1>2. saving' \in Save /\ saving'.key = saving.key /\ saving.key \in Keys
  BY <1>1 DEF DraftInv, DraftTypeOK, Save
<1>3. /\ DOMAIN typed' \subseteq DOMAIN typed /\ \A i \in DOMAIN typed' : typed'[i] = typed[i]
      /\ k \in DOMAIN typed /\ typed[k] = saving.value => k \notin DOMAIN typed'
  <2> HIDE DEF k
  <2> QED
    BY <1>1 DEF Drop
<1>4. saving.key \notin DOMAIN typed'
  <2>1. saving.key \in DOMAIN typed => saving.of = saving.key[1] /\ saving.value = typed[saving.key]
    BY <1>1 DEF DraftInv, SavingGood, Saving
  <2>2. saving.key = <<saving.key[1], saving.key[2]>>
    BY <1>2 DEF Keys
  <2> QED
    BY <1>3, <2>1, <2>2
<1>5. SavingGood'
  BY <1>1, <1>2, <1>3, <1>4 DEF DraftInv, SavingGood, Saving, NoneTypedOf
<1> QED
  BY <1>1, <1>2, <1>3, <1>5 DEF DraftInv, DraftTypeOK, DraftKeepsTyped, LoadingIsOpen, ShownGood, Saving,
     FormGood, Writes, Key, NoneTypedOf

(* The drafts written on the way to another event are that event's, of     *)
(* which nothing is held to be typed any more.                             *)
LEMMA SelectEventKeeps == ASSUME DraftInv, NEW e \in Events, SelectEvent(e) PROVE DraftInv'
<1> DEFINE p == [page EXCEPT !.event = e, !.loading = TRUE]
           d == Kept(p, draft)
           r == [p EXCEPT !.heat = FirstHeat]
<1>1. PICK v \in Marks : page' = Filled(r, draft, v) /\ draft' = Kept(Filled(r, draft, v), d)
  BY DEF SelectEvent
<1> DEFINE q == Filled(r, draft, v)
<1>2. /\ page.open /\ typed' = [k \in {j \in DOMAIN typed : j[1] # e} |-> typed[k]]
      /\ saving' = saving
  BY DEF SelectEvent
<1>3. p \in Page /\ p.event = e /\ p.open
  BY <1>2, ShownTyped DEF Page
<1>4. q \in Page /\ q.event = e /\ q.open
  BY <1>2, ShownTyped, DraftAssumption DEF Page, Filled, DraftsTyped, Draft
<1> HIDE DEF p, q, r
<1>5. ASSUME NEW a \in Page, a.event = e, NEW b, DraftsTyped(b)
      PROVE  /\ DraftsTyped(Kept(a, b)) /\ DOMAIN b \subseteq DOMAIN Kept(a, b)
             /\ \A k \in DOMAIN b : k[1] # e => Kept(a, b)[k] = b[k]
  <2>1. Key(a) \in Keys /\ Key(a)[1] = e
    BY <1>5 DEF Key, Keys, Page
  <2>2. Writes(a) => [of |-> a.shown, value |-> a.form] \in Draft
    BY <1>5 DEF Writes, Page, Draft
  <2> QED
    BY <1>5, <2>1, <2>2 DEF Kept, Set, DraftsTyped
<1>6. /\ DraftsTyped(draft') /\ DOMAIN draft \subseteq DOMAIN draft'
      /\ \A k \in DOMAIN draft : k[1] # e => draft'[k] = draft[k]
  BY <1>1, <1>3, <1>4, <1>5, ShownTyped DEF q
<1>7. /\ \A k \in DOMAIN typed' : k \in DOMAIN typed /\ typed'[k] = typed[k] /\ k[1] # e
      /\ page' = q
  BY <1>1, <1>2 DEF q
<1>8. DraftTypeOK' /\ LoadingIsOpen'
  BY <1>2, <1>4, <1>6, <1>7 DEF DraftInv, DraftTypeOK, DraftsTyped, LoadingIsOpen
<1>9. DraftKeepsTyped'
  BY <1>6, <1>7 DEF DraftInv, DraftKeepsTyped
<1>10. ShownGood' /\ SavingGood'
  BY <1>2, <1>4, <1>7 DEF DraftInv, ShownGood, SavingGood, Saving, NoneTypedOf
<1>11. FormGood'
  BY <1>4, <1>7 DEF FormGood, Key
<1> QED
  BY <1>8, <1>9, <1>10, <1>11 DEF DraftInv

LEMMA TypeKeeps == ASSUME DraftInv, NEW v \in Marks, Type(v) PROVE DraftInv'
<1> DEFINE k == <<page.shown, page.heat>>
           w == [of |-> page.shown, value |-> v]
           hasty == \/ page.shown # page.event
                    \/ Saving /\ (saving.key[1] # page.event \/ saving.key = Key(page))
<1>1. /\ Writes(page) /\ page' = [page EXCEPT !.form = v] /\ saving' = saving
      /\ draft' = Kept([page EXCEPT !.form = v], draft)
      /\ \/ ~hasty /\ typed' = Set(<<>>, k, v)
         \/ IF k \in DOMAIN typed THEN hasty /\ typed' = Drop(typed, k) ELSE typed' = typed
  BY DEF Type, Entered, Forgets
<1>2. /\ page' \in Page /\ page'.event = page.event /\ page'.heat = page.heat
      /\ page'.shown = page.shown /\ page'.form = v /\ page'.open = page.open
      /\ page'.final = page.final
  BY <1>1, ShownTyped DEF Page
<1>3. Key(page') = Key(page) /\ Key(page)[1] = page.event /\ Key(page) \in Keys /\ Writes(page')
      /\ page.shown \in Events
  BY <1>1, <1>2, ShownTyped DEF Key, Keys, Page, Writes
<1>4. draft' = Set(draft, Key(page), w)
  BY <1>1, <1>2, <1>3 DEF Kept
<1>5. w \in Draft
  BY <1>3 DEF Draft
<1> HIDE DEF w
<1>6. /\ DOMAIN draft' = DOMAIN draft \cup {Key(page)} /\ draft'[Key(page)] = w
      /\ \A z \in DOMAIN draft \ {Key(page)} : draft'[z] = draft[z]
  BY <1>4 DEF Set
<1>7. DraftsTyped(draft')
  BY <1>3, <1>5, <1>6, ShownTyped DEF DraftsTyped
<1>8. page.open
  BY <1>1 DEF DraftInv, LoadingIsOpen, Writes
<1>9. page.shown # page.event => Key(page) \notin DOMAIN typed
  BY <1>3, DraftAssumption DEF DraftInv, ShownGood, NoneTypedOf
<1>10. CASE ~hasty /\ typed' = Set(<<>>, k, v)
  <2>1. k = Key(page) /\ page.shown = page.event
    BY <1>10 DEF Key
  <2>2. DOMAIN typed' = {Key(page)} /\ typed'[Key(page)] = v
    <3> HIDE DEF k
    <3> QED
      BY <1>10, <2>1 DEF Set
  <2>3. DraftTypeOK'
    BY <1>2, <1>1, <1>3, <1>7, <2>2 DEF DraftInv, DraftTypeOK, DraftsTyped
  <2>4. DraftKeepsTyped'
    BY <1>3, <1>6, <2>1, <2>2 DEF DraftKeepsTyped, w
  <2>5. FormGood'
    BY <1>2, <1>3, <2>2 DEF FormGood
  <2>6. SavingGood' /\ ShownGood'
    BY <1>1, <1>2, <1>10, <2>1, <2>2 DEF SavingGood, ShownGood, Saving
  <2> QED
    BY <1>2, <1>8, <2>3, <2>4, <2>5, <2>6 DEF DraftInv, LoadingIsOpen
<1>11. CASE IF k \in DOMAIN typed THEN hasty /\ typed' = Drop(typed, k) ELSE typed' = typed
  <2>1. /\ DOMAIN typed' \subseteq DOMAIN typed /\ \A i \in DOMAIN typed' : typed'[i] = typed[i]
        /\ k \notin DOMAIN typed'
    <3> HIDE DEF k, hasty
    <3> QED
      BY <1>11 DEF Drop
  <2>2. Key(page) \notin DOMAIN typed'
    BY <1>9, <2>1 DEF Key
  <2>3. DraftTypeOK'
    BY <1>2, <1>1, <1>7, <2>1 DEF DraftInv, DraftTypeOK, DraftsTyped
  <2>4. DraftKeepsTyped'
    BY <1>6, <2>1, <2>2 DEF DraftInv, DraftKeepsTyped
  <2>5. FormGood' /\ ShownGood' /\ SavingGood'
    BY <1>1, <1>2, <1>3, <2>1, <2>2 DEF DraftInv, FormGood, SavingGood, ShownGood, Saving, NoneTypedOf
  <2> QED
    BY <1>2, <1>8, <2>3, <2>4, <2>5 DEF DraftInv, LoadingIsOpen
<1> QED
  BY <1>1, <1>10, <1>11

-----------------------------------------------------------------------------
LEMMA DraftStarts == DraftInit => DraftInv
BY DraftAssumption DEF DraftInit, DraftInv, DraftTypeOK, DraftKeepsTyped, LoadingIsOpen, ShownGood,
   SavingGood, Saving, FormGood, Writes, NoPage, NoSave, Page, Save, Keys

LEMMA DraftSteps == DraftInv /\ [DraftNext]_draftVars => DraftInv'
<1> SUFFICES ASSUME DraftInv, [DraftNext]_draftVars PROVE DraftInv'
  OBVIOUS
<1>1. CASE DraftNext
  BY <1>1, OpenKeeps, CloseKeeps, EntriesArriveKeeps, EntriesFailKeeps, SelectEventKeeps,
     SelectHeatKeeps, TypeKeeps, SaveSendKeeps, SaveCommitKeeps, SaveFailsKeeps, SaveDoneKeeps,
     ReloadKeeps, FinalizeKeeps DEF DraftNext
<1>2. CASE UNCHANGED draftVars
  BY <1>2 DEF draftVars, DraftInv, DraftTypeOK, DraftKeepsTyped, LoadingIsOpen, ShownGood, SavingGood,
     Saving, FormGood, Writes, Key, NoneTypedOf
<1> QED
  BY <1>1, <1>2

(* The invariant holds of the page and its drafts, whatever is typed,      *)
(* chosen, saved and reloaded.                                             *)
THEOREM DraftInvariance == DraftSpec => []DraftInv
BY DraftStarts, DraftSteps, PTL DEF DraftSpec

(* What was typed into a heat and not saved is in the draft of that heat.  *)
THEOREM TypedIsKept == DraftSpec => []DraftKeepsTyped
<1>1. DraftInv => DraftKeepsTyped
  BY DEF DraftInv
<1> QED
  BY <1>1, DraftInvariance, PTL

-----------------------------------------------------------------------------
(* The flags.  The value written by an update that has been read is still  *)
(* to be shown, after the answer at i.                                     *)
UpdateAfter(i) ==
    \E j \in DOMAIN flagCalls : j > i /\ flagCalls[j].read /\ flagCalls[j].op = "update"

(* A list of the flags that has been read in time is as they are, or is    *)
(* shown before the answer of an update.                                   *)
FlagListGood ==
    \A i \in DOMAIN flagCalls : flagCalls[i].read /\ ~flagCalls[i].late =>
      flagCalls[i].value = enabled \/ UpdateAfter(i)

(* So is what the page shows, and what the cache holds.                    *)
FlagPageGood == flagPage.listed /\ ~blind.page => flagPage.shown = enabled \/ UpdateAfter(0)

CacheGood == cache.known /\ ~blind.cache => cache.value = enabled \/ UpdateAfter(0)

(* The inductive invariant.                                                *)
FlagInv == FlagTypeOK /\ FlagListGood /\ FlagPageGood /\ CacheGood

LEMMA OvertakenSays ==
    ASSUME NEW cs \in Seq(FlagCall)
    PROVE  /\ Overtaken(cs) \in Seq(FlagCall) /\ Len(Overtaken(cs)) = Len(cs)
           /\ \A n \in 1 .. Len(cs) :
                /\ Overtaken(cs)[n] = [cs[n] EXCEPT !.late = Overtaken(cs)[n].late]
                /\ Overtaken(cs)[n].late = (cs[n].late \/ cs[n].read)
<1> DEFINE F == [n \in 1 .. Len(cs) |-> [cs[n] EXCEPT !.late = @ \/ cs[n].read]]
<1>1. \A n \in 1 .. Len(cs) : cs[n] \in FlagCall
  OBVIOUS
<1>2. \A n \in 1 .. Len(cs) : /\ F[n] \in FlagCall /\ F[n].late = (cs[n].late \/ cs[n].read)
                              /\ F[n] = [cs[n] EXCEPT !.late = F[n].late]
  BY <1>1 DEF FlagCall
<1>3. F \in Seq(FlagCall) /\ Len(F) = Len(cs)
  <2>1. F \in [1 .. Len(cs) -> FlagCall] /\ Len(cs) \in Nat
    BY <1>2
  <2> HIDE DEF F
  <2> QED
    BY <2>1
<1>4. Overtaken(cs) = F
  BY DEF Overtaken
<1> HIDE DEF F
<1> QED
  BY <1>2, <1>3, <1>4

(* A request is put first, that has read nothing.                          *)
LEMMA FlagAsked ==
    ASSUME FlagInv, NEW op \in {"list", "update"}, NEW to \in BOOLEAN, Calls(op, to)
    PROVE  /\ flagCalls' \in Seq(FlagCall)
           /\ enabled' = enabled => FlagListGood'
           /\ UpdateAfter(0) => UpdateAfter(0)'
<1> DEFINE x == [op |-> op, to |-> to, read |-> FALSE, value |-> TRUE, late |-> FALSE, own |-> TRUE]
<1>1. flagCalls \in Seq(FlagCall) /\ x \in FlagCall /\ ~x.read
  BY DEF FlagInv, FlagTypeOK, FlagCall
<1>2. flagCalls' = <<x>> \o flagCalls
  BY DEF Calls
<1> HIDE DEF x
<1>3. /\ flagCalls' \in Seq(FlagCall) /\ Len(flagCalls') = Len(flagCalls) + 1
      /\ flagCalls'[1] = x
      /\ \A m \in 2 .. Len(flagCalls) + 1 : flagCalls'[m] = flagCalls[m - 1]
  BY <1>1, <1>2, PutFirstSays
<1>4. Len(flagCalls) \in Nat /\ DOMAIN flagCalls = 1 .. Len(flagCalls)
      /\ DOMAIN flagCalls' = 1 .. Len(flagCalls) + 1
  BY <1>1, <1>3
<1>5. \A j \in DOMAIN flagCalls : j + 1 \in DOMAIN flagCalls' /\ flagCalls'[j + 1] = flagCalls[j]
  BY <1>3, <1>4
<1>6. UpdateAfter(0) => UpdateAfter(0)'
  BY <1>4, <1>5 DEF UpdateAfter
<1>7. ASSUME enabled' = enabled
      PROVE  FlagListGood'
  <2> SUFFICES ASSUME NEW m \in DOMAIN flagCalls', flagCalls'[m].read, ~flagCalls'[m].late
               PROVE  flagCalls'[m].value = enabled' \/ UpdateAfter(m)'
    BY DEF FlagListGood
  <2>1. m \in 2 .. Len(flagCalls) + 1 /\ m - 1 \in DOMAIN flagCalls /\ flagCalls'[m] = flagCalls[m - 1]
    BY <1>1, <1>3, <1>4
  <2>2. flagCalls[m - 1].value = enabled \/ UpdateAfter(m - 1)
    BY <2>1 DEF FlagInv, FlagListGood
  <2>3. UpdateAfter(m - 1) => UpdateAfter(m)'
    BY <1>4, <1>5, <2>1 DEF UpdateAfter
  <2> QED
    BY <1>7, <2>1, <2>2, <2>3
<1> QED
  BY <1>3, <1>6, <1>7

LEMMA MountKeeps == ASSUME FlagInv, Mount PROVE FlagInv'
<1>1. /\ flagPage' \in FlagPage /\ flagPage'.listed = (cache.known /\ cache.young)
      /\ flagPage'.shown = cache.value
      /\ UNCHANGED <<enabled, cache, autosave>>
  BY DEF Mount, FlagInv, FlagTypeOK, FlagPage, Cache
<1>2. CASE cache.known /\ cache.young
  <2>1. /\ blind' = [blind EXCEPT !.page = blind.cache] /\ UNCHANGED flagCalls
        /\ blind' \in [page : BOOLEAN, cache : BOOLEAN]
        /\ blind'.page = blind.cache /\ blind'.cache = blind.cache
    BY <1>2 DEF Mount, FlagInv, FlagTypeOK
  <2> QED
    BY <1>1, <1>2, <2>1 DEF FlagInv, FlagTypeOK, FlagListGood, FlagPageGood, CacheGood, UpdateAfter
<1>3. CASE ~(cache.known /\ cache.young)
  <2>1. Calls("list", TRUE) /\ UNCHANGED blind
    BY <1>3 DEF Mount
  <2>2. /\ flagCalls' \in Seq(FlagCall) /\ FlagListGood' /\ (UpdateAfter(0) => UpdateAfter(0)')
    BY <1>1, <2>1, FlagAsked
  <2> QED
    BY <1>1, <1>3, <2>1, <2>2 DEF FlagInv, FlagTypeOK, FlagPageGood, CacheGood
<1> QED
  BY <1>2, <1>3

LEMMA LeaveKeeps == ASSUME FlagInv, Leave PROVE FlagInv'
<1>1. flagPage' \in FlagPage /\ ~flagPage'.listed /\ UNCHANGED <<enabled, cache, blind, autosave>>
  BY DEF Leave, PageClosed, FlagPage
<1> DEFINE F == [n \in 1 .. Len(flagCalls) |-> [flagCalls[n] EXCEPT !.own = FALSE]]
<1>2. flagCalls' = F /\ Len(flagCalls) \in Nat
  BY DEF Leave, FlagInv, FlagTypeOK
<1>3. \A n \in 1 .. Len(flagCalls) :
        /\ F[n] \in FlagCall /\ F[n].read = flagCalls[n].read /\ F[n].late = flagCalls[n].late
        /\ F[n].value = flagCalls[n].value /\ F[n].op = flagCalls[n].op
  <2>1. \A n \in 1 .. Len(flagCalls) : flagCalls[n] \in FlagCall
    BY DEF FlagInv, FlagTypeOK
  <2> QED
    BY <2>1 DEF FlagCall
<1> HIDE DEF F
<1>4. F \in Seq(FlagCall) /\ DOMAIN F = 1 .. Len(flagCalls)
  <2>1. F \in [1 .. Len(flagCalls) -> FlagCall]
    BY <1>3 DEF F
  <2> QED
    BY <1>2, <2>1
<1>5. DOMAIN flagCalls' = DOMAIN flagCalls /\ DOMAIN flagCalls = 1 .. Len(flagCalls)
  BY <1>2, <1>4 DEF FlagInv, FlagTypeOK
<1>6. \A i \in DOMAIN flagCalls : UpdateAfter(i)' = UpdateAfter(i)
  BY <1>2, <1>3, <1>5 DEF UpdateAfter
<1>7. UpdateAfter(0)' = UpdateAfter(0)
  BY <1>2, <1>3, <1>5 DEF UpdateAfter
<1>8. FlagListGood'
  BY <1>1, <1>2, <1>3, <1>5, <1>6 DEF FlagInv, FlagListGood
<1> QED
  BY <1>1, <1>2, <1>4, <1>7, <1>8 DEF FlagInv, FlagTypeOK, FlagPageGood, CacheGood

LEMMA PageAsksKeeps == ASSUME FlagInv, ReloadFlags \/ Toggle PROVE FlagInv'
<1>1. /\ flagPage' \in FlagPage /\ flagPage'.listed = flagPage.listed
      /\ flagPage'.shown = flagPage.shown /\ UNCHANGED <<enabled, cache, blind, autosave>>
  BY DEF ReloadFlags, Toggle, FlagInv, FlagTypeOK, FlagPage
<1>2. flagPage.shown \in BOOLEAN
  BY DEF FlagInv, FlagTypeOK, FlagPage
<1>3. \E op \in {"list", "update"}, to \in BOOLEAN : Calls(op, to)
  BY <1>2 DEF ReloadFlags, Toggle
<1>4. flagCalls' \in Seq(FlagCall) /\ FlagListGood' /\ (UpdateAfter(0) => UpdateAfter(0)')
  BY <1>1, <1>3, FlagAsked
<1> QED
  BY <1>1, <1>4 DEF FlagInv, FlagTypeOK, FlagPageGood, CacheGood

LEMMA ServeKeeps == ASSUME FlagInv, NEW i \in DOMAIN flagCalls, Serve(i) PROVE FlagInv'
<1> DEFINE c == flagCalls[i]
           x == [c EXCEPT !.read = TRUE, !.value = enabled']
           N == Len(flagCalls)
<1>1. /\ flagCalls \in Seq(FlagCall) /\ N \in Nat /\ DOMAIN flagCalls = 1 .. N /\ i \in 1 .. N
      /\ c \in FlagCall /\ ~c.read
  BY DEF FlagInv, FlagTypeOK, Serve
<1>2. enabled' \in BOOLEAN /\ (c.op # "update" => enabled' = enabled)
      /\ UNCHANGED <<cache, flagPage, blind, autosave>>
  BY <1>1 DEF Serve, FlagInv, FlagTypeOK, FlagCall
<1>3. x \in FlagCall /\ x.read /\ x.value = enabled' /\ x.op = c.op
  BY <1>1, <1>2 DEF FlagCall
<1>4. flagCalls' = Append(RemoveAt(flagCalls, i), x)
  BY DEF Serve
<1> HIDE DEF x
<1>5. /\ flagCalls' \in Seq(FlagCall) /\ Len(flagCalls') = N /\ flagCalls'[N] = x
      /\ \A m \in 1 .. N - 1 :
           flagCalls'[m] = IF m < i THEN flagCalls[m] ELSE flagCalls[m + 1]
  <2> HIDE DEF c
  <2> DEFINE r == Append(RemoveAt(flagCalls, i), x)
  <2>1. /\ r \in Seq(FlagCall) /\ Len(r) = Len(flagCalls) /\ r[Len(flagCalls)] = x
        /\ \A m \in 1 .. Len(flagCalls) - 1 :
             r[m] = IF m < i THEN flagCalls[m] ELSE flagCalls[m + 1]
    <3>1. flagCalls \in Seq(FlagCall) /\ i \in DOMAIN flagCalls /\ x \in FlagCall
      BY <1>1, <1>3
    <3> QED
      BY ONLY <3>1, SentLastSays
  <2> HIDE DEF r
  <2>2. flagCalls' = r
    BY <1>4 DEF r
  <2> QED
    BY <2>1, <2>2
<1>6. DOMAIN flagCalls' = 1 .. N
  BY <1>1, <1>5
<1> HIDE DEF c, N
<1> DEFINE q(j) == IF j < i THEN j ELSE j - 1
<1>7. \A j \in 1 .. N : j # i => q(j) \in 1 .. N - 1 /\ flagCalls'[q(j)] = flagCalls[j]
  BY <1>1, <1>5
<1>8. c.op = "update" => \A m \in 0 .. N - 1 : UpdateAfter(m)'
  BY <1>1, <1>3, <1>5, <1>6 DEF UpdateAfter
<1>9. UpdateAfter(0) => UpdateAfter(0)'
  <2> SUFFICES ASSUME NEW j \in 1 .. N, flagCalls[j].read, flagCalls[j].op = "update"
               PROVE  UpdateAfter(0)'
    BY <1>1 DEF UpdateAfter
  <2>1. j # i
    BY <1>1 DEF c
  <2> QED
    BY <1>1, <1>6, <1>7, <2>1 DEF UpdateAfter
<1>10. FlagListGood'
  <2> SUFFICES ASSUME NEW m \in 1 .. N, flagCalls'[m].read, ~flagCalls'[m].late
               PROVE  flagCalls'[m].value = enabled' \/ UpdateAfter(m)'
    BY <1>6 DEF FlagListGood
  <2>1. CASE m = N
    BY <1>3, <1>5, <2>1
  <2>2. CASE m # N /\ c.op = "update"
    BY <1>1, <1>8, <2>2
  <2>3. CASE m # N /\ c.op # "update"
    <3> DEFINE p == IF m < i THEN m ELSE m + 1
    <3>1. p \in 1 .. N /\ p # i /\ flagCalls'[m] = flagCalls[p] /\ q(p) = m
      <4>1. m \in 1 .. N - 1
        BY <1>1, <2>3
      <4>2. CASE m < i
        BY <1>1, <1>5, <4>1, <4>2
      <4>3. CASE m >= i
        BY <1>1, <1>5, <4>1, <4>3
      <4> QED
        BY <1>1, <4>1, <4>2, <4>3
    <3>2. flagCalls[p].value = enabled \/ UpdateAfter(p)
      BY <1>1, <3>1 DEF FlagInv, FlagListGood
    <3>3. ASSUME UpdateAfter(p)
          PROVE  UpdateAfter(m)'
      <4>1. PICK j \in 1 .. N : j > p /\ flagCalls[j].read /\ flagCalls[j].op = "update"
        BY <1>1, <3>3 DEF UpdateAfter
      <4>2. j # i
        BY <1>1, <4>1 DEF c
      <4>3. q(j) > m
        BY <1>1, <3>1, <4>1, <4>2
      <4>4. PICK k \in 1 .. N - 1 : k > m /\ flagCalls'[k] = flagCalls[j]
        BY <1>7, <4>2, <4>3
      <4> QED
        BY <1>1, <1>6, <4>1, <4>4 DEF UpdateAfter
    <3> QED
      BY <1>2, <2>3, <3>1, <3>2, <3>3
  <2> QED
    BY <2>1, <2>2, <2>3
<1>11. enabled' = enabled \/ UpdateAfter(0)'
  BY <1>1, <1>2, <1>8
<1> QED
  BY <1>2, <1>5, <1>9, <1>10, <1>11 DEF FlagInv, FlagTypeOK, FlagPageGood, CacheGood

(* An answer is shown, or only cached.                                     *)
LEMMA FlagToldKeeps == ASSUME FlagInv, NEW i \in DOMAIN flagCalls, FlagTold(i) PROVE FlagInv'
<1> DEFINE c == flagCalls[i]
           N == Len(flagCalls)
           b == SubSeq(flagCalls, 1, i - 1)
           o == Overtaken(b)
<1>1. /\ flagCalls \in Seq(FlagCall) /\ N \in Nat /\ DOMAIN flagCalls = 1 .. N /\ i \in 1 .. N
      /\ c \in FlagCall /\ c.read /\ UNCHANGED <<enabled, autosave>>
  BY DEF FlagInv, FlagTypeOK, FlagTold
<1>2. b \in Seq(FlagCall) /\ Len(b) = i - 1 /\ \A m \in 1 .. i - 1 : b[m] = flagCalls[m]
  BY <1>1, HeadSays
<1> HIDE DEF b
<1>3. /\ o \in Seq(FlagCall) /\ Len(o) = i - 1
      /\ \A m \in 1 .. i - 1 : o[m].late = (b[m].late \/ b[m].read)
      /\ \A m \in 1 .. i - 1 : o[m] = [b[m] EXCEPT !.late = o[m].late]
  BY <1>2, OvertakenSays
<1>4. flagCalls' = o \o SubSeq(flagCalls, i + 1, N)
  BY DEF FlagTold, b
<1> HIDE DEF o
<1>5. /\ flagCalls' \in Seq(FlagCall) /\ Len(flagCalls') = N - 1
      /\ \A m \in 1 .. N - 1 : flagCalls'[m] = IF m < i THEN o[m] ELSE flagCalls[m + 1]
  <2> DEFINE r == o \o SubSeq(flagCalls, i + 1, Len(flagCalls))
  <2>1. /\ r \in Seq(FlagCall) /\ Len(r) = Len(flagCalls) - 1
        /\ \A m \in 1 .. Len(flagCalls) - 1 : r[m] = IF m < i THEN o[m] ELSE flagCalls[m + 1]
    <3>1. flagCalls \in Seq(FlagCall) /\ i \in DOMAIN flagCalls /\ o \in Seq(FlagCall) /\ Len(o) = i - 1
      BY <1>1, <1>3
    <3> QED
      BY ONLY <3>1, AroundSays
  <2> HIDE DEF r
  <2>2. flagCalls' = r
    BY <1>4 DEF r
  <2> QED
    BY <2>1, <2>2
<1> HIDE DEF N, c
<1>6. DOMAIN flagCalls' = 1 .. N - 1
  BY <1>1, <1>5
<1>7. \A m \in 1 .. i - 1 : /\ o[m].read = flagCalls[m].read /\ o[m].op = flagCalls[m].op
                            /\ o[m].read => o[m].late
  <2>1. \A m \in 1 .. i - 1 : b[m] \in FlagCall
    BY <1>2
  <2> QED
    BY <1>2, <1>3, <2>1 DEF FlagCall
<1>8. ASSUME NEW j \in 1 .. N, j # i, flagCalls[j].read, flagCalls[j].op = "update"
      PROVE  \A m \in 0 .. N - 1 :
               m < (IF j < i THEN j ELSE j - 1) => UpdateAfter(m)'
  <2> DEFINE q == IF j < i THEN j ELSE j - 1
  <2>1. q \in 1 .. N - 1 /\ flagCalls'[q].read /\ flagCalls'[q].op = "update"
    BY <1>1, <1>5, <1>7, <1>8
  <2> QED
    BY <1>6, <2>1 DEF UpdateAfter
<1>9. UpdateAfter(0) /\ c.op # "update" => UpdateAfter(0)'
  <2> SUFFICES ASSUME NEW j \in 1 .. N, flagCalls[j].read, flagCalls[j].op = "update",
                      c.op # "update"
               PROVE  UpdateAfter(0)'
    BY <1>1 DEF UpdateAfter
  <2>1. j # i
    BY DEF c
  <2> QED
    BY <1>1, <1>8, <2>1
<1>10. UpdateAfter(i) => UpdateAfter(0)'
  BY <1>1, <1>8 DEF UpdateAfter
<1>11. FlagListGood'
  <2> SUFFICES ASSUME NEW m \in 1 .. N - 1, flagCalls'[m].read, ~flagCalls'[m].late
               PROVE  flagCalls'[m].value = enabled' \/ UpdateAfter(m)'
    BY <1>6 DEF FlagListGood
  <2>1. m >= i /\ flagCalls'[m] = flagCalls[m + 1] /\ m + 1 \in 1 .. N
    <3>1. ~(m < i)
      BY <1>1, <1>5, <1>7
    <3> QED
      BY <1>1, <1>5, <3>1
  <2>2. flagCalls[m + 1].value = enabled \/ UpdateAfter(m + 1)
    BY <1>1, <2>1 DEF FlagInv, FlagListGood
  <2>3. UpdateAfter(m + 1) => UpdateAfter(m)'
    BY <1>1, <1>8, <2>1 DEF UpdateAfter
  <2> QED
    BY <1>1, <2>1, <2>2, <2>3
<1>12. ~c.late => c.value = enabled' \/ UpdateAfter(0)'
  BY <1>1, <1>10 DEF FlagInv, FlagListGood, c
<1>13. /\ blind' \in [page : BOOLEAN, cache : BOOLEAN] /\ blind'.cache = c.late
       /\ blind'.page = IF c.own THEN c.late ELSE blind.page \/ c.op = "update"
  BY <1>1 DEF FlagTold, c, FlagInv, FlagTypeOK, FlagCall
<1>14. /\ cache' \in Cache /\ (c.op = "list" => cache'.value = c.value)
       /\ c.op # "list" => /\ cache'.known = cache.known
                           /\ cache.known => cache'.value = c.value
  BY <1>1 DEF FlagTold, Cached, Cache, c, FlagInv, FlagTypeOK, FlagCall
<1>15. CacheGood'
  BY <1>12, <1>13, <1>14 DEF CacheGood
<1>16. /\ flagPage' \in FlagPage
       /\ c.own => flagPage'.shown = c.value
       /\ ~c.own => flagPage' = flagPage
  BY <1>1, ZenonT(60) DEF FlagTold, Settled, FlagPage, c, FlagInv, FlagTypeOK, FlagCall
<1>17. FlagPageGood'
  BY <1>1, <1>9, <1>12, <1>13, <1>16 DEF FlagPageGood, FlagInv
<1> QED
  BY <1>1, <1>5, <1>11, <1>13, <1>14, <1>15, <1>16, <1>17 DEF FlagInv, FlagTypeOK

(* After a failure, or a change elsewhere, no answer on its way counts.    *)
LEMMA FlagDisturbed ==
    ASSUME FlagInv, NEW cs \in Seq(FlagCall), flagCalls' = Overtaken(cs),
           enabled' \in BOOLEAN, flagPage' \in FlagPage,
           blind' = [page |-> TRUE, cache |-> TRUE], UNCHANGED <<cache, autosave>>
    PROVE  FlagInv'
<1>1. /\ flagCalls' \in Seq(FlagCall) /\ DOMAIN flagCalls' = 1 .. Len(cs)
      /\ \A n \in 1 .. Len(cs) :
           /\ flagCalls'[n] = [cs[n] EXCEPT !.late = flagCalls'[n].late]
           /\ flagCalls'[n].late = (cs[n].late \/ cs[n].read)
  <2> DEFINE o == Overtaken(cs)
  <2>1. /\ o \in Seq(FlagCall) /\ Len(o) = Len(cs)
        /\ \A n \in 1 .. Len(cs) : /\ o[n] = [cs[n] EXCEPT !.late = o[n].late]
                                   /\ o[n].late = (cs[n].late \/ cs[n].read)
    BY OvertakenSays
  <2> HIDE DEF o
  <2>2. flagCalls' = o
    BY DEF o
  <2> QED
    BY <2>1, <2>2
<1>2. \A n \in 1 .. Len(cs) : cs[n] \in FlagCall
  OBVIOUS
<1>3. \A n \in 1 .. Len(cs) : flagCalls'[n].read => flagCalls'[n].late
  BY <1>1, <1>2 DEF FlagCall
<1>4. FlagListGood'
  BY <1>1, <1>3 DEF FlagListGood
<1> QED
  BY <1>1, <1>4 DEF FlagInv, FlagTypeOK, FlagPageGood, CacheGood

LEMMA FlagFailsKeeps == ASSUME FlagInv, NEW i \in DOMAIN flagCalls, FlagFails(i) PROVE FlagInv'
<1>1. flagCalls \in Seq(FlagCall) /\ flagCalls[i] \in FlagCall
  BY DEF FlagInv, FlagTypeOK
<1>2. RemoveAt(flagCalls, i) \in Seq(FlagCall)
  BY <1>1, RemovedSays
<1>3. enabled' \in BOOLEAN
  BY <1>1 DEF FlagFails, FlagInv, FlagTypeOK, FlagCall
<1>4. flagPage' \in FlagPage
  BY <1>1 DEF FlagFails, Settled, FlagPage, FlagInv, FlagTypeOK
<1> QED
  BY <1>2, <1>3, <1>4, FlagDisturbed DEF FlagFails

LEMMA FlagElsewhereKeeps == ASSUME FlagInv, FlagElsewhere PROVE FlagInv'
<1>1. /\ flagCalls \in Seq(FlagCall) /\ enabled' \in BOOLEAN /\ flagPage' \in FlagPage
  BY DEF FlagElsewhere, FlagInv, FlagTypeOK
<1> QED
  BY <1>1, FlagDisturbed DEF FlagElsewhere

LEMMA FlagRestKeeps ==
    ASSUME FlagInv, CacheAges \/ (\E role \in Roles : OpenResults(role)) \/ UNCHANGED flagVars
    PROVE  FlagInv'
<1>1. CASE CacheAges
  <2>1. /\ cache' \in Cache /\ cache'.known = cache.known /\ cache'.value = cache.value
        /\ UNCHANGED <<enabled, flagPage, flagCalls, blind, autosave>>
    BY <1>1 DEF CacheAges, FlagInv, FlagTypeOK, Cache
  <2> QED
    BY <2>1 DEF FlagInv, FlagTypeOK, FlagListGood, FlagPageGood, CacheGood, UpdateAfter
<1>2. CASE (\E role \in Roles : OpenResults(role)) \/ UNCHANGED flagVars
  <2>1. /\ UNCHANGED <<enabled, cache, flagPage, flagCalls, blind>>
        /\ autosave' \in [Roles -> BOOLEAN]
    BY <1>2 DEF OpenResults, flagVars, FlagInv, FlagTypeOK
  <2> QED
    BY <2>1 DEF FlagInv, FlagTypeOK, FlagListGood, FlagPageGood, CacheGood, UpdateAfter
<1> QED
  BY <1>1, <1>2

LEMMA FlagStarts == FlagInit => FlagInv
<1> SUFFICES ASSUME FlagInit PROVE FlagInv
  OBVIOUS
<1>1. flagCalls = <<>> /\ ~cache.known /\ ~flagPage.listed
  BY DEF FlagInit, PageClosed
<1>2. FlagTypeOK
  BY DEF FlagInit, FlagTypeOK, PageClosed, FlagPage, Cache
<1> QED
  BY <1>1, <1>2 DEF FlagInv, FlagListGood, FlagPageGood, CacheGood

LEMMA FlagSteps == FlagInv /\ [FlagNext]_flagVars => FlagInv'
BY MountKeeps, LeaveKeeps, PageAsksKeeps, ServeKeeps, FlagToldKeeps, FlagFailsKeeps,
   FlagElsewhereKeeps, FlagRestKeeps DEF FlagNext

(* What the page of the flags shows, and the cache holds, is what the      *)
(* answers on their way let it know.                                       *)
THEOREM FlagInvariance == FlagSpec => []FlagInv
BY FlagStarts, FlagSteps, PTL DEF FlagSpec

LEMMA FlagsFollow == FlagInv => FlagsCatchUp
BY DEF FlagInv, FlagPageGood, UpdateAfter, FlagsCatchUp

-----------------------------------------------------------------------------
(* The board.  The page will hear of a change of the results, or has       *)
(* missed to ask when it heard of one.                                     *)
WillHear == notices > 0 \/ board.inbox > 0 \/ missed

(* Requests that are not too late ask for the event chosen.                *)
LatestIsOfTheEvent ==
    \A i \in DOMAIN loads : ~loads[i].late => loads[i].event = board.event

(* The last answer brings the results as they are, or the page will hear   *)
(* of a change.                                                            *)
LatestIsCurrent ==
    \A i \in DOMAIN loads : i = Len(loads) /\ loads[i].read /\ ~loads[i].late =>
      loads[i].stamp = stamp[loads[i].event] \/ WillHear

(* So does what the page shows, with no request in flight.                 *)
ShownIsCurrent ==
    \/ board.stale \/ WillHear \/ loads # <<>>
    \/ board.shown = board.event /\ board.stamp = stamp[board.event]

(* The inductive invariant.                                                *)
BoardInv == BoardTypeOK /\ LatestIsOfTheEvent /\ LatestIsCurrent /\ ShownIsCurrent

LEMMA LoadsSay ==
    ASSUME BoardInv
    PROVE  /\ loads \in Seq(Load) /\ Len(loads) \in Nat /\ DOMAIN loads = 1 .. Len(loads)
           /\ \A i \in 1 .. Len(loads) : loads[i] \in Load
           /\ board \in Board /\ notices \in Nat /\ missed \in BOOLEAN
           /\ stamp \in [Distances -> Stamps]
           /\ board.event \in Distances /\ board.inbox \in Nat
BY DEF BoardInv, BoardTypeOK, Board

LEMMA AskedSays == ASSUME NEW e \in Distances PROVE Asked(e) \in Load
BY BoardAssumption DEF Asked, Load, Stamps

(* The page asks for the event it has chosen, after what it has asked for. *)
LEMMA AsksGood ==
    ASSUME BoardInv, NEW before \in Seq(Load), board' \in Board, notices' \in Nat,
           UNCHANGED stamp,
           \A i \in 1 .. Len(before) : ~before[i].late => before[i].event = board'.event,
           Asks(board'.event, before)
    PROVE  BoardInv'
<1> DEFINE x == Asked(board'.event)
<1>1. x \in Load /\ ~x.read /\ x.event = board'.event
  BY AskedSays DEF Board, Asked
<1>2. loads' = Append(before, x) /\ missed' = FALSE
  BY DEF Asks
<1> HIDE DEF x
<1>3. /\ loads' \in Seq(Load) /\ Len(loads') = Len(before) + 1 /\ loads'[Len(before) + 1] = x
      /\ \A i \in 1 .. Len(before) : loads'[i] = before[i]
      /\ Len(before) \in Nat
  BY <1>1, <1>2
<1>4. DOMAIN loads' = 1 .. Len(before) + 1 /\ loads' # <<>>
  BY <1>3
<1>5. LatestIsOfTheEvent'
  BY <1>1, <1>3, <1>4 DEF LatestIsOfTheEvent
<1>6. LatestIsCurrent'
  BY <1>1, <1>3, <1>4 DEF LatestIsCurrent
<1>7. BoardTypeOK'
  BY <1>2, <1>3 DEF BoardInv, BoardTypeOK
<1> QED
  BY <1>4, <1>5, <1>6, <1>7 DEF BoardInv, ShownIsCurrent

LEMMA ReceiveKeeps == ASSUME BoardInv, Receive \/ Refresh PROVE BoardInv'
<1>1. board' \in Board /\ board'.event = board.event /\ notices' \in Nat /\ UNCHANGED stamp
  BY LoadsSay DEF Receive, Refresh, Board
<1>2. Asks(board'.event, loads)
  BY <1>1 DEF Receive, Refresh
<1>3. \A i \in 1 .. Len(loads) : ~loads[i].late => loads[i].event = board'.event
  BY <1>1, LoadsSay DEF BoardInv, LatestIsOfTheEvent
<1> QED
  BY <1>1, <1>2, <1>3, AsksGood, LoadsSay

LEMMA ChooseEventKeeps == ASSUME BoardInv, NEW e \in Distances, ChooseEvent(e) PROVE BoardInv'
<1> DEFINE F == [i \in 1 .. Len(loads) |-> [loads[i] EXCEPT !.late = TRUE]]
<1>1. board' \in Board /\ board'.event = e /\ notices' \in Nat /\ UNCHANGED stamp
  BY LoadsSay DEF ChooseEvent, Board
<1>2. \A i \in 1 .. Len(loads) : F[i] \in Load /\ F[i].late
  BY LoadsSay DEF Load
<1>3. F \in Seq(Load) /\ Len(F) = Len(loads)
  <2>1. F \in [1 .. Len(loads) -> Load] /\ Len(loads) \in Nat
    BY <1>2, LoadsSay
  <2> HIDE DEF F
  <2> QED
    BY <2>1
<1>4. Asks(board'.event, F)
  BY <1>1, LoadsSay DEF ChooseEvent
<1> HIDE DEF F
<1> QED
  BY <1>1, <1>2, <1>3, <1>4, AsksGood

(* Nothing is said or lost that the page does not hear of.                 *)
LEMMA MissesSays ==
    ASSUME BoardInv, Misses
    PROVE  /\ missed' \in BOOLEAN /\ (missed => missed')
           /\ ~missed' => /\ Len(loads) > 0
                          /\ ~loads[Len(loads)].read
<1>1. Last(loads) = loads[Len(loads)]
  BY DEF Last
<1>2. missed' = (missed \/ loads = <<>> \/ loads[Len(loads)].read)
  BY <1>1 DEF Misses
<1>3. loads # <<>> => Len(loads) > 0
  BY LoadsSay
<1> QED
  BY <1>2, <1>3, LoadsSay

LEMMA SaidKeeps ==
    ASSUME BoardInv, (\E e \in Distances : Publish(e) \/ PublishQuietly(e))
                     \/ SendNotice \/ Join \/ LoseSocket
    PROVE  BoardInv'
<1>1. CASE \E e \in Distances : Publish(e)
  <2>1. PICK e \in Distances : Publish(e)
    BY <1>1
  <2>2. /\ stamp' \in [Distances -> Stamps] /\ notices' \in Nat /\ notices' > 0
        /\ UNCHANGED <<board, loads, missed>>
    <3>1. stamp[e] \in 0 .. MaxPublished /\ stamp[e] < MaxPublished
      BY <2>1, LoadsSay DEF Publish, Stamps
    <3>2. stamp[e] + 1 \in Stamps
      BY <3>1, BoardAssumption DEF Stamps
    <3> QED
      BY <2>1, <3>2, LoadsSay DEF Publish
  <2> QED
    BY <2>2 DEF BoardInv, BoardTypeOK, LatestIsOfTheEvent, LatestIsCurrent, ShownIsCurrent, WillHear
<1>2. CASE \E e \in Distances : PublishQuietly(e)
  <2>1. PICK e \in Distances : PublishQuietly(e)
    BY <1>2
  <2>2. /\ stamp' \in [Distances -> Stamps] /\ UNCHANGED <<notices, board, loads>>
        /\ \A d \in Distances \ {e} : stamp'[d] = stamp[d]
    <3>1. stamp[e] \in 0 .. MaxPublished /\ stamp[e] < MaxPublished
      BY <2>1, LoadsSay DEF PublishQuietly, Stamps
    <3>2. stamp[e] + 1 \in Stamps
      BY <3>1, BoardAssumption DEF Stamps
    <3> QED
      BY <2>1, <3>2, LoadsSay DEF PublishQuietly
  <2>3. CASE e = board.event
    <3>1. Misses
      BY <2>1, <2>3 DEF PublishQuietly
    <3>2. missed' \in BOOLEAN /\ (missed => missed')
          /\ (~missed' => Len(loads) > 0 /\ ~loads[Len(loads)].read)
      BY <3>1, MissesSays
    <3> QED
      BY <2>2, <3>2, LoadsSay DEF BoardInv, BoardTypeOK, LatestIsOfTheEvent, LatestIsCurrent,
         ShownIsCurrent, WillHear
  <2>4. CASE e # board.event
    <3>1. UNCHANGED missed
      BY <2>1, <2>4 DEF PublishQuietly
    <3> QED
      BY <2>2, <2>4, <3>1, LoadsSay DEF BoardInv, BoardTypeOK, LatestIsOfTheEvent, LatestIsCurrent,
         ShownIsCurrent, WillHear
  <2> QED
    BY <2>3, <2>4
<1>3. CASE SendNotice
  <2>1. notices' \in Nat /\ UNCHANGED <<stamp, loads>>
    BY <1>3, LoadsSay DEF SendNotice
  <2>2. CASE board.joined /\ board' = [board EXCEPT !.inbox = @ + 1] /\ UNCHANGED missed
    <3>1. /\ board' \in Board /\ board'.inbox > 0 /\ board'.event = board.event
      BY <2>2, LoadsSay DEF Board
    <3> QED
      BY <2>1, <2>2, <3>1, LoadsSay DEF BoardInv, BoardTypeOK, LatestIsOfTheEvent, LatestIsCurrent,
         ShownIsCurrent, WillHear
  <2>3. CASE Misses /\ UNCHANGED board
    <3>1. missed' \in BOOLEAN /\ (missed => missed')
          /\ (~missed' => Len(loads) > 0 /\ ~loads[Len(loads)].read)
      BY <2>3, MissesSays
    <3> QED
      BY <2>1, <2>3, <3>1, LoadsSay DEF BoardInv, BoardTypeOK, LatestIsOfTheEvent, LatestIsCurrent,
         ShownIsCurrent, WillHear
  <2> QED
    BY <1>3, <2>2, <2>3 DEF SendNotice
<1>4. CASE Join
  <2>1. /\ board' \in Board /\ board'.event = board.event /\ board'.inbox = board.inbox
        /\ board'.stale = board.stale /\ board'.shown = board.shown /\ board'.stamp = board.stamp
        /\ UNCHANGED <<stamp, notices, loads, missed>>
    BY <1>4, LoadsSay DEF Join, Board
  <2> QED
    BY <2>1 DEF BoardInv, BoardTypeOK, LatestIsOfTheEvent, LatestIsCurrent, ShownIsCurrent, WillHear
<1>5. CASE LoseSocket
  <2>1. /\ board' \in Board /\ board'.event = board.event /\ board'.inbox = 0
        /\ board'.stale = board.stale /\ board'.shown = board.shown /\ board'.stamp = board.stamp
        /\ UNCHANGED <<stamp, notices, loads>>
    BY <1>5, LoadsSay DEF LoseSocket, Board
  <2>2. CASE board.inbox > 0
    <3>1. Misses
      BY <1>5, <2>2 DEF LoseSocket
    <3>2. missed' \in BOOLEAN /\ (missed => missed')
          /\ (~missed' => Len(loads) > 0 /\ ~loads[Len(loads)].read)
      BY <3>1, MissesSays
    <3> QED
      BY <2>1, <3>2, LoadsSay DEF BoardInv, BoardTypeOK, LatestIsOfTheEvent, LatestIsCurrent,
         ShownIsCurrent, WillHear
  <2>3. CASE ~(board.inbox > 0)
    <3>1. UNCHANGED missed
      BY <1>5, <2>3 DEF LoseSocket
    <3> QED
      BY <2>1, <2>3, <3>1, LoadsSay DEF BoardInv, BoardTypeOK, LatestIsOfTheEvent, LatestIsCurrent,
         ShownIsCurrent, WillHear
  <2> QED
    BY <2>2, <2>3
<1> QED
  BY <1>1, <1>2, <1>3, <1>4, <1>5

LEMMA ReadResultsKeeps ==
    ASSUME BoardInv, NEW i \in DOMAIN loads, ReadResults(i)
    PROVE  BoardInv'
<1> DEFINE x == [loads[i] EXCEPT !.read = TRUE, !.stamp = stamp[loads[i].event]]
<1>1. i \in 1 .. Len(loads) /\ loads[i] \in Load /\ loads[i].event \in Distances
  BY LoadsSay DEF Load
<1>2. /\ x \in Load /\ x.event = loads[i].event /\ x.late = loads[i].late
      /\ x.stamp = stamp[x.event]
  BY <1>1, LoadsSay DEF Load
<1>3. loads' = [loads EXCEPT ![i] = x] /\ UNCHANGED <<stamp, notices, board, missed>>
  BY <1>1, LoadsSay DEF ReadResults
<1> HIDE DEF x
<1>4. /\ loads' \in Seq(Load) /\ Len(loads') = Len(loads) /\ loads'[i] = x
      /\ \A j \in 1 .. Len(loads) : j # i => loads'[j] = loads[j]
      /\ DOMAIN loads' = 1 .. Len(loads) /\ loads' # <<>>
  BY <1>1, <1>2, <1>3, LoadsSay
<1>5. LatestIsOfTheEvent'
  BY <1>2, <1>3, <1>4, LoadsSay DEF BoardInv, LatestIsOfTheEvent
<1>6. LatestIsCurrent'
  BY <1>2, <1>3, <1>4, LoadsSay DEF BoardInv, LatestIsCurrent, WillHear
<1> QED
  BY <1>3, <1>4, <1>5, <1>6 DEF BoardInv, BoardTypeOK, ShownIsCurrent

LEMMA ShowResultsKeeps ==
    ASSUME BoardInv, NEW i \in DOMAIN loads, ShowResults(i)
    PROVE  BoardInv'
<1> DEFINE N == Len(loads)
           F == [n \in 1 .. N |-> [loads[n] EXCEPT !.late = @ \/ n < i]]
<1>1. i \in 1 .. N /\ N \in Nat /\ loads[i] \in Load /\ loads[i].read
  BY LoadsSay DEF ShowResults
<1>2. \A n \in 1 .. N : /\ F[n] \in Load /\ F[n].event = loads[n].event
                        /\ F[n].read = loads[n].read /\ F[n].stamp = loads[n].stamp
                        /\ F[n].late = (loads[n].late \/ n < i)
  BY LoadsSay DEF Load
<1>3. F \in Seq(Load) /\ Len(F) = N /\ DOMAIN F = 1 .. N
  <2>1. F \in [1 .. N -> Load] /\ N \in Nat
    BY <1>2, LoadsSay
  <2> HIDE DEF F
  <2> QED
    BY <2>1
<1>4. /\ loads' = RemoveAt(F, i)
      /\ board' = [board EXCEPT !.shown = loads[i].event, !.stamp = loads[i].stamp,
                                !.stale = loads[i].late]
      /\ UNCHANGED <<stamp, notices, missed>>
  BY LoadsSay DEF ShowResults
<1> HIDE DEF F
<1>5. /\ RemoveAt(F, i) \in Seq(Load) /\ Len(RemoveAt(F, i)) = Len(F) - 1
      /\ \A m \in 1 .. Len(F) - 1 : RemoveAt(F, i)[m] = IF m < i THEN F[m] ELSE F[m + 1]
  <2>1. F \in Seq(Load) /\ i \in DOMAIN F
    BY <1>1, <1>3
  <2> QED
    BY ONLY <2>1, RemovedSays
<1>6. /\ loads' \in Seq(Load) /\ Len(loads') = N - 1 /\ DOMAIN loads' = 1 .. N - 1
      /\ \A m \in 1 .. N - 1 : loads'[m] = IF m < i THEN F[m] ELSE F[m + 1]
  <2> DEFINE r == RemoveAt(F, i)
  <2>1. r \in Seq(Load) /\ Len(r) = N - 1 /\ loads' = r
        /\ \A m \in 1 .. N - 1 : r[m] = IF m < i THEN F[m] ELSE F[m + 1]
    BY <1>3, <1>4, <1>5
  <2> HIDE DEF r
  <2> QED
    BY <2>1
<1>7. /\ board' \in Board /\ board'.event = board.event /\ board'.inbox = board.inbox
      /\ board'.shown = loads[i].event /\ board'.stamp = loads[i].stamp
      /\ board'.stale = loads[i].late
  BY <1>1, <1>4, LoadsSay DEF Board, Load
<1> HIDE DEF N
<1>8. ASSUME NEW m \in 1 .. N - 1, ~loads'[m].late
      PROVE  /\ m + 1 \in 1 .. N /\ loads'[m].event = loads[m + 1].event
             /\ loads'[m].read = loads[m + 1].read /\ loads'[m].stamp = loads[m + 1].stamp
             /\ ~loads[m + 1].late
  <2>1. m \in 1 .. N /\ m + 1 \in 1 .. N
    BY <1>1
  <2>2. m < i => loads'[m].late
    BY <1>2, <1>6, <2>1
  <2>3. loads'[m] = F[m + 1] /\ ~(m + 1 < i)
    BY <1>1, <1>6, <1>8, <2>2
  <2> QED
    BY <1>2, <1>8, <2>1, <2>3
<1>9. LatestIsOfTheEvent'
  BY <1>6, <1>7, <1>8, LoadsSay DEF BoardInv, LatestIsOfTheEvent, N
<1>10. LatestIsCurrent'
  <2> SUFFICES ASSUME NEW m \in 1 .. N - 1, m = N - 1, loads'[m].read, ~loads'[m].late
               PROVE  loads'[m].stamp = stamp'[loads'[m].event] \/ WillHear'
    BY <1>6 DEF LatestIsCurrent
  <2>1. m + 1 = N
    BY <1>1
  <2>2. loads[m + 1].stamp = stamp[loads[m + 1].event] \/ WillHear
    BY <1>1, <1>8, <2>1, LoadsSay DEF BoardInv, LatestIsCurrent, N
  <2> QED
    BY <1>4, <1>7, <1>8, <2>2 DEF WillHear
<1>11. ShownIsCurrent'
  <2> SUFFICES ASSUME loads' = <<>>, ~loads[i].late
               PROVE  \/ board'.shown = board'.event /\ board'.stamp = stamp'[board'.event]
                      \/ WillHear'
    BY <1>7 DEF ShownIsCurrent
  <2>1. i = N /\ N = 1
    BY <1>1, <1>6
  <2>2. loads[i].event = board.event /\ (loads[i].stamp = stamp[board.event] \/ WillHear)
    BY <1>1, <2>1, LoadsSay DEF BoardInv, LatestIsOfTheEvent, LatestIsCurrent, N
  <2> QED
    BY <1>4, <1>7, <2>2 DEF WillHear
<1> QED
  BY <1>4, <1>6, <1>7, <1>9, <1>10, <1>11 DEF BoardInv, BoardTypeOK

LEMMA LoadFailsKeeps == ASSUME BoardInv, NEW i \in DOMAIN loads, LoadFails(i) PROVE BoardInv'
<1>1. loads \in Seq(Load) /\ i \in DOMAIN loads
  BY LoadsSay
<1>2. /\ RemoveAt(loads, i) \in Seq(Load) /\ Len(RemoveAt(loads, i)) = Len(loads) - 1
      /\ \A m \in 1 .. Len(loads) - 1 :
           RemoveAt(loads, i)[m] = IF m < i THEN loads[m] ELSE loads[m + 1]
  BY ONLY <1>1, RemovedSays
<1>3. /\ loads' \in Seq(Load) /\ DOMAIN loads' = 1 .. Len(loads) - 1
      /\ \A m \in 1 .. Len(loads) - 1 : loads'[m] = IF m < i THEN loads[m] ELSE loads[m + 1]
  <2> DEFINE r == RemoveAt(loads, i)
  <2>1. r \in Seq(Load) /\ Len(r) = Len(loads) - 1 /\ loads' = r
        /\ \A m \in 1 .. Len(loads) - 1 : r[m] = IF m < i THEN loads[m] ELSE loads[m + 1]
    BY <1>2 DEF LoadFails
  <2> HIDE DEF r
  <2> QED
    BY <2>1
<1>4. UNCHANGED <<stamp, notices, board>> /\ missed' = TRUE
  BY DEF LoadFails
<1>5. LatestIsOfTheEvent'
  BY <1>1, <1>3, <1>4, LoadsSay DEF BoardInv, LatestIsOfTheEvent
<1> QED
  BY <1>3, <1>4, <1>5 DEF BoardInv, BoardTypeOK, LatestIsCurrent, ShownIsCurrent, WillHear

LEMMA BoardStarts == BoardInit => BoardInv
<1> SUFFICES ASSUME NEW e \in Distances,
                    stamp = [d \in Distances |-> 0] /\ notices = 0,
                    board = [event |-> e, joined |-> FALSE, inbox |-> 0,
                             shown |-> e, stamp |-> 0, stale |-> FALSE],
                    loads = <<Asked(e), Asked(e)>> /\ missed = FALSE
             PROVE  BoardInv
  BY DEF BoardInit
<1>1. 0 \in Stamps
  BY BoardAssumption DEF Stamps
<1>2. BoardTypeOK
  <2>1. stamp \in [Distances -> Stamps] /\ board \in Board
    BY <1>1 DEF Board
  <2>2. loads \in Seq(Load)
    BY AskedSays
  <2> QED
    BY <2>1, <2>2 DEF BoardTypeOK
<1>3. Len(loads) = 2 /\ \A i \in DOMAIN loads : loads[i] = Asked(e)
  OBVIOUS
<1>4. Asked(e).event = e /\ ~Asked(e).read
  BY DEF Asked
<1> QED
  BY <1>2, <1>3, <1>4 DEF BoardInv, LatestIsOfTheEvent, LatestIsCurrent, ShownIsCurrent

LEMMA BoardSteps == BoardInv /\ [BoardNext]_boardVars => BoardInv'
<1> SUFFICES ASSUME BoardInv, [BoardNext]_boardVars PROVE BoardInv'
  OBVIOUS
<1>1. CASE UNCHANGED boardVars
  BY <1>1 DEF boardVars, BoardInv, BoardTypeOK, LatestIsOfTheEvent, LatestIsCurrent, ShownIsCurrent,
     WillHear
<1> QED
  BY <1>1, ReceiveKeeps, ChooseEventKeeps, SaidKeeps, ReadResultsKeeps, ShowResultsKeeps,
     LoadFailsKeeps DEF BoardNext

(* The invariant holds of the board, whatever is published, chosen, missed *)
(* and overtaken.                                                          *)
THEOREM BoardInvariance == BoardSpec => []BoardInv
BY BoardStarts, BoardSteps, PTL DEF BoardSpec

LEMMA BoardFollows == BoardInv => BoardCatchesUp
BY DEF BoardInv, BoardCatchesUp, ShownIsCurrent, WillHear

-----------------------------------------------------------------------------
(* The results tab.  Requests that are not too late ask for the event      *)
(* chosen.                                                                 *)
InTimeIsOfTheEvent ==
    \A i \in DOMAIN wanted : ~wanted[i].late => wanted[i].event = view.event

(* What they bring is as it is, or has been changed elsewhere.             *)
BroughtIsCurrent ==
    \A i \in DOMAIN wanted : wanted[i].step = "show" /\ ~wanted[i].late =>
      wanted[i].value = result[wanted[i].event] \/ unaware

(* The sign of a load is there while its request is.                       *)
LoadGoesOn == view.loading => \E i \in DOMAIN wanted : wanted[i].load

(* Without it the entries are those of the event chosen,                   *)
NamedAbove == view.loading \/ view.overtaken \/ view.shown = view.event

(* and as they are, with no request in flight.                             *)
ListedIsCurrent ==
    wanted # <<>> \/ view.overtaken \/ unaware \/ view.value = result[view.event]

(* The inductive invariant.                                                *)
ResultsTabInv ==
    /\ ResultsTabTypeOK /\ InTimeIsOfTheEvent /\ BroughtIsCurrent
    /\ LoadGoesOn /\ NamedAbove /\ ListedIsCurrent

LEMMA WantedSay ==
    ASSUME ResultsTabInv
    PROVE  /\ wanted \in Seq(Wanted) /\ Len(wanted) \in Nat /\ DOMAIN wanted = 1 .. Len(wanted)
           /\ \A i \in 1 .. Len(wanted) : wanted[i] \in Wanted
           /\ view \in View /\ unaware \in BOOLEAN /\ view.event \in Disciplines
           /\ result \in [Disciplines -> 0 .. MaxResults]
BY DEF ResultsTabInv, ResultsTabTypeOK, View

LEMMA LateSays ==
    ASSUME ResultsTabInv, NEW ids
    PROVE  /\ Late(ids) \in Seq(Wanted) /\ Len(Late(ids)) = Len(wanted)
           /\ DOMAIN Late(ids) = 1 .. Len(wanted)
           /\ \A i \in 1 .. Len(wanted) :
                /\ Late(ids)[i].event = wanted[i].event /\ Late(ids)[i].step = wanted[i].step
                /\ Late(ids)[i].load = wanted[i].load /\ Late(ids)[i].value = wanted[i].value
                /\ Late(ids)[i].late = (wanted[i].late \/ i \in ids)
<1> DEFINE F == [i \in 1 .. Len(wanted) |-> [wanted[i] EXCEPT !.late = @ \/ i \in ids]]
<1>1. Late(ids) = F
  BY WantedSay DEF Late
<1>2. \A i \in 1 .. Len(wanted) :
        /\ F[i] \in Wanted /\ F[i].event = wanted[i].event /\ F[i].step = wanted[i].step
        /\ F[i].load = wanted[i].load /\ F[i].value = wanted[i].value
        /\ F[i].late = (wanted[i].late \/ i \in ids)
  BY WantedSay DEF Wanted
<1>3. F \in Seq(Wanted) /\ Len(F) = Len(wanted) /\ DOMAIN F = 1 .. Len(wanted)
  <2>1. F \in [1 .. Len(wanted) -> Wanted] /\ Len(wanted) \in Nat
    BY <1>2, WantedSay
  <2> HIDE DEF F
  <2> QED
    BY <2>1
<1> HIDE DEF F
<1> QED
  BY <1>1, <1>2, <1>3

LEMMA RequestsSay ==
    ASSUME NEW e \in Disciplines
    PROVE  /\ LoadOf(e) \in Wanted /\ LoadOf(e).event = e /\ LoadOf(e).step = "read"
           /\ LoadOf(e).load
           /\ FinalizeOf(e) \in Wanted /\ FinalizeOf(e).event = e
           /\ FinalizeOf(e).step = "finalize"
<1>1. 0 \in 0 .. MaxResults
  BY ResultsTabAssumption
<1>2. LoadOf(e) = [event |-> e, step |-> "read", load |-> TRUE, value |-> 0, late |-> FALSE]
  BY DEF LoadOf
<1>3. LoadOf(e) \in Wanted
  BY <1>1, <1>2 DEF Wanted
<1>4. FinalizeOf(e) \in Wanted /\ FinalizeOf(e).event = LoadOf(e).event
      /\ FinalizeOf(e).step = "finalize"
  BY <1>3 DEF FinalizeOf, Wanted
<1> QED
  BY <1>2, <1>3, <1>4

LEMMA ChooseKeeps == ASSUME ResultsTabInv, NEW e \in Disciplines, Choose(e) PROVE ResultsTabInv'
<1> DEFINE b == Late(DOMAIN wanted)
           x == LoadOf(e)
           N == Len(wanted)
<1>1. /\ b \in Seq(Wanted) /\ Len(b) = N /\ N \in Nat
      /\ \A i \in 1 .. N : b[i].late
  BY LateSays, WantedSay
<1>2. x \in Wanted /\ x.event = e /\ x.step = "read" /\ x.load
  BY RequestsSay
<1>3. wanted' = Append(b, x) /\ unaware' = FALSE /\ UNCHANGED result
  BY DEF Choose
<1>4. view' \in View /\ view'.event = e /\ view'.loading
  BY WantedSay DEF Choose, View
<1> HIDE DEF b, x, N
<1>5. /\ wanted' \in Seq(Wanted) /\ DOMAIN wanted' = 1 .. N + 1
      /\ wanted'[N + 1] = x /\ \A i \in 1 .. N : wanted'[i] = b[i]
      /\ wanted' # <<>>
  BY <1>1, <1>2, <1>3
<1>6. InTimeIsOfTheEvent' /\ BroughtIsCurrent'
  BY <1>1, <1>2, <1>4, <1>5 DEF InTimeIsOfTheEvent, BroughtIsCurrent
<1>7. LoadGoesOn'
  BY <1>1, <1>2, <1>5 DEF LoadGoesOn
<1> QED
  BY <1>3, <1>4, <1>5, <1>6, <1>7, WantedSay DEF ResultsTabInv, ResultsTabTypeOK, NamedAbove,
     ListedIsCurrent

LEMMA FinalizeClickKeeps == ASSUME ResultsTabInv, FinalizeClick PROVE ResultsTabInv'
<1> DEFINE x == FinalizeOf(view.event)
           N == Len(wanted)
<1>1. x \in Wanted /\ x.event = view.event /\ x.step = "finalize"
  BY RequestsSay, WantedSay
<1>2. wanted' = Append(wanted, x) /\ UNCHANGED <<result, view, unaware>>
  BY DEF FinalizeClick
<1>3. N \in Nat /\ wanted \in Seq(Wanted) /\ DOMAIN wanted = 1 .. N
  BY WantedSay
<1> HIDE DEF x, N
<1>4. /\ wanted' \in Seq(Wanted) /\ DOMAIN wanted' = 1 .. N + 1
      /\ wanted'[N + 1] = x /\ \A i \in 1 .. N : wanted'[i] = wanted[i]
      /\ wanted' # <<>>
  <2>1. Len(wanted) = N
    BY DEF N
  <2> QED
    BY <1>1, <1>2, <1>3, <2>1
<1>5. InTimeIsOfTheEvent' /\ BroughtIsCurrent'
  BY <1>1, <1>2, <1>3, <1>4 DEF ResultsTabInv, InTimeIsOfTheEvent, BroughtIsCurrent
<1>6. LoadGoesOn'
  BY <1>2, <1>3, <1>4 DEF ResultsTabInv, LoadGoesOn
<1> QED
  BY <1>2, <1>4, <1>5, <1>6 DEF ResultsTabInv, ResultsTabTypeOK, NamedAbove, ListedIsCurrent

LEMMA FinalizedKeeps ==
    ASSUME ResultsTabInv, NEW i \in DOMAIN wanted, Finalized(i) PROVE ResultsTabInv'
<1> DEFINE e == wanted[i].event
           ids == {j \in DOMAIN wanted : wanted[j].event = e /\ wanted[j].step = "show"}
           b == Late(ids)
           x == [b[i] EXCEPT !.step = "read"]
           N == Len(wanted)
<1>1. /\ b \in Seq(Wanted) /\ Len(b) = N /\ N \in Nat /\ DOMAIN b = 1 .. N
      /\ \A j \in 1 .. N :
           /\ b[j].event = wanted[j].event /\ b[j].step = wanted[j].step
           /\ b[j].load = wanted[j].load /\ b[j].value = wanted[j].value
           /\ b[j].late = (wanted[j].late \/ j \in ids)
  BY LateSays, WantedSay
<1>2. i \in 1 .. N /\ wanted[i] \in Wanted /\ e \in Disciplines /\ wanted[i].step = "finalize"
      /\ DOMAIN wanted = 1 .. N /\ i \notin ids
  BY WantedSay DEF Wanted, Finalized
<1>3. /\ result' = [result EXCEPT ![e] = @ + 1] /\ UNCHANGED <<view, unaware>>
      /\ wanted' = [b EXCEPT ![i].step = "read"] /\ result[e] < MaxResults
  BY DEF Finalized
<1>4. /\ \A j \in 1 .. N : wanted[j].event = e /\ wanted[j].step = "show" => j \in ids
  BY <1>2
<1> HIDE DEF ids, b
<1>5. x \in Wanted /\ x.step = "read" /\ x.event = e /\ x.load = wanted[i].load
      /\ x.late = b[i].late
  <2>1. b[i] \in Wanted
    BY <1>1, <1>2
  <2> QED
    BY <1>1, <1>2, <2>1 DEF Wanted
<1>6. wanted' = [b EXCEPT ![i] = x]
  BY <1>1, <1>2, <1>3
<1> HIDE DEF x, N
<1>7. /\ wanted' \in Seq(Wanted) /\ DOMAIN wanted' = 1 .. N
      /\ wanted'[i] = x /\ \A j \in 1 .. N : j # i => wanted'[j] = b[j]
      /\ wanted' # <<>>
  BY <1>1, <1>2, <1>5, <1>6
<1>8. result' \in [Disciplines -> 0 .. MaxResults]
      /\ \A d \in Disciplines : d # e => result'[d] = result[d]
  <2>1. result[e] \in 0 .. MaxResults /\ result[e] + 1 \in 0 .. MaxResults
    BY <1>2, <1>3, WantedSay, ResultsTabAssumption
  <2> QED
    BY <1>2, <1>3, <2>1, WantedSay
<1> HIDE DEF e
<1>9. InTimeIsOfTheEvent'
  <2> SUFFICES ASSUME NEW j \in 1 .. N, ~wanted'[j].late
               PROVE  wanted'[j].event = view'.event
    BY <1>7 DEF InTimeIsOfTheEvent
  <2>1. wanted'[j].event = wanted[j].event /\ ~wanted[j].late
    BY <1>1, <1>2, <1>5, <1>7 DEF e
  <2> QED
    BY <1>2, <1>3, <2>1 DEF ResultsTabInv, InTimeIsOfTheEvent
<1>10. BroughtIsCurrent'
  <2> SUFFICES ASSUME NEW j \in 1 .. N, wanted'[j].step = "show", ~wanted'[j].late
               PROVE  wanted'[j].value = result'[wanted'[j].event] \/ unaware'
    BY <1>7 DEF BroughtIsCurrent
  <2>1. j # i /\ wanted'[j] = b[j]
    BY <1>5, <1>7
  <2>2. wanted[j].step = "show" /\ ~wanted[j].late /\ wanted[j].event # e
        /\ wanted[j].event \in Disciplines
    BY <1>1, <1>4, <2>1, WantedSay DEF Wanted, N
  <2>3. wanted[j].value = result[wanted[j].event] \/ unaware
    BY <1>2, <2>2 DEF ResultsTabInv, BroughtIsCurrent
  <2> QED
    BY <1>1, <1>3, <1>8, <2>1, <2>2, <2>3
<1>11. LoadGoesOn'
  BY <1>1, <1>2, <1>3, <1>5, <1>7 DEF ResultsTabInv, LoadGoesOn
<1> QED
  BY <1>3, <1>7, <1>8, <1>9, <1>10, <1>11 DEF ResultsTabInv, ResultsTabTypeOK, NamedAbove,
     ListedIsCurrent

LEMMA EntriesReadKeeps ==
    ASSUME ResultsTabInv, NEW i \in DOMAIN wanted, EntriesRead(i) PROVE ResultsTabInv'
<1> DEFINE x == [wanted[i] EXCEPT !.step = "show", !.value = result[wanted[i].event]]
           N == Len(wanted)
<1>1. i \in 1 .. N /\ wanted[i] \in Wanted /\ wanted[i].event \in Disciplines
      /\ N \in Nat /\ DOMAIN wanted = 1 .. N
  BY WantedSay DEF Wanted
<1>2. /\ x \in Wanted /\ x.event = wanted[i].event /\ x.load = wanted[i].load
      /\ x.late = wanted[i].late /\ x.value = result[x.event]
  BY <1>1, WantedSay DEF Wanted
<1>3. wanted' = [wanted EXCEPT ![i] = x] /\ UNCHANGED <<result, view, unaware>>
  BY <1>1, WantedSay DEF EntriesRead
<1> HIDE DEF x
<1>4. /\ wanted' \in Seq(Wanted) /\ DOMAIN wanted' = 1 .. N
      /\ wanted'[i] = x /\ \A j \in 1 .. N : j # i => wanted'[j] = wanted[j]
      /\ wanted' # <<>>
  BY <1>1, <1>2, <1>3, WantedSay
<1>5. InTimeIsOfTheEvent' /\ BroughtIsCurrent'
  BY <1>1, <1>2, <1>3, <1>4 DEF ResultsTabInv, InTimeIsOfTheEvent, BroughtIsCurrent
<1>6. LoadGoesOn'
  BY <1>1, <1>2, <1>3, <1>4 DEF ResultsTabInv, LoadGoesOn
<1> QED
  BY <1>3, <1>4, <1>5, <1>6 DEF ResultsTabInv, ResultsTabTypeOK, NamedAbove, ListedIsCurrent

(* Whatever request ends: the others are as they were.                     *)
LEMMA RequestEnds ==
    ASSUME ResultsTabInv, NEW i \in DOMAIN wanted, wanted' = RemoveAt(wanted, i),
           view' \in View, view'.event = view.event, UNCHANGED result, unaware' \in BOOLEAN,
           unaware => unaware', view'.loading => view.loading /\ ~wanted[i].load
    PROVE  /\ ResultsTabTypeOK' /\ InTimeIsOfTheEvent' /\ BroughtIsCurrent' /\ LoadGoesOn'
<1> DEFINE N == Len(wanted)
<1>1. wanted \in Seq(Wanted) /\ i \in DOMAIN wanted /\ i \in 1 .. N /\ N \in Nat
      /\ DOMAIN wanted = 1 .. N
  BY WantedSay
<1>2. /\ RemoveAt(wanted, i) \in Seq(Wanted) /\ Len(RemoveAt(wanted, i)) = Len(wanted) - 1
      /\ \A m \in 1 .. Len(wanted) - 1 :
           RemoveAt(wanted, i)[m] = IF m < i THEN wanted[m] ELSE wanted[m + 1]
  BY ONLY <1>1, RemovedSays
<1>3. /\ wanted' \in Seq(Wanted) /\ DOMAIN wanted' = 1 .. N - 1
      /\ \A m \in 1 .. N - 1 : wanted'[m] = IF m < i THEN wanted[m] ELSE wanted[m + 1]
  <2> DEFINE r == RemoveAt(wanted, i)
  <2>1. r \in Seq(Wanted) /\ Len(r) = N - 1 /\ wanted' = r
        /\ \A m \in 1 .. N - 1 : r[m] = IF m < i THEN wanted[m] ELSE wanted[m + 1]
    BY <1>2
  <2> HIDE DEF r
  <2> QED
    BY <2>1
<1> HIDE DEF N
<1>4. \A m \in 1 .. N - 1 : \E j \in 1 .. N : wanted'[m] = wanted[j]
  BY <1>1, <1>3
<1>5. InTimeIsOfTheEvent'
  <2> SUFFICES ASSUME NEW m \in 1 .. N - 1, ~wanted'[m].late
               PROVE  wanted'[m].event = view.event
    BY <1>3 DEF InTimeIsOfTheEvent
  <2>1. PICK j \in 1 .. N : wanted'[m] = wanted[j]
    BY <1>4
  <2> QED
    BY <1>1, <2>1 DEF ResultsTabInv, InTimeIsOfTheEvent
<1>6. BroughtIsCurrent'
  BY <1>1, <1>3, <1>4, ZenonT(60) DEF ResultsTabInv, BroughtIsCurrent
<1>7. LoadGoesOn'
  <2> SUFFICES ASSUME view.loading, ~wanted[i].load
               PROVE  \E m \in 1 .. N - 1 : wanted'[m].load
    BY <1>3 DEF LoadGoesOn
  <2>1. PICK j \in 1 .. N : wanted[j].load
    BY <1>1 DEF ResultsTabInv, LoadGoesOn
  <2>2. j # i
    BY <2>1
  <2>3. CASE j < i
    <3>1. j \in 1 .. N - 1 /\ wanted'[j] = wanted[j]
      BY <1>1, <1>3, <2>3
    <3> QED
      BY <2>1, <3>1
  <2>4. CASE j > i
    <3>1. j - 1 \in 1 .. N - 1 /\ ~(j - 1 < i) /\ (j - 1) + 1 = j
      BY <1>1, <2>4
    <3>2. wanted'[j - 1] = wanted[j]
      BY <1>3, <3>1
    <3> QED
      BY <2>1, <3>1, <3>2
  <2> QED
    BY <1>1, <2>2, <2>3, <2>4
<1> QED
  BY <1>3, <1>5, <1>6, <1>7, WantedSay DEF ResultsTabTypeOK

LEMMA ShowEntriesKeeps ==
    ASSUME ResultsTabInv, NEW i \in DOMAIN wanted, ShowEntriesOf(i) PROVE ResultsTabInv'
<1> DEFINE a == wanted[i]
<1>1. a \in Wanted /\ i \in 1 .. Len(wanted) /\ a.step = "show"
  BY WantedSay DEF ShowEntriesOf
<1>2. view' = WithEntries(a) /\ wanted' = RemoveAt(wanted, i) /\ UNCHANGED <<result, unaware>>
  BY DEF ShowEntriesOf
<1>3. /\ view' \in View /\ view'.event = view.event
      /\ view'.loading = (view.loading /\ ~a.load)
      /\ view'.shown = a.event /\ view'.value = a.value
      /\ view'.overtaken = (a.late /\ (a.load \/ ~view.loading))
  BY <1>1, <1>2, WantedSay DEF WithEntries, ComesLate, View, Wanted
<1>4. ResultsTabTypeOK' /\ InTimeIsOfTheEvent' /\ BroughtIsCurrent' /\ LoadGoesOn'
  BY <1>2, <1>3, RequestEnds, WantedSay
<1>5. ~a.late => a.event = view.event /\ (a.value = result[view.event] \/ unaware)
  BY <1>1 DEF ResultsTabInv, InTimeIsOfTheEvent, BroughtIsCurrent
<1>6. NamedAbove'
  BY <1>3, <1>5 DEF NamedAbove
<1>7. wanted' = <<>> => ~view'.loading
  BY <1>4 DEF LoadGoesOn
<1>8. ListedIsCurrent'
  BY <1>2, <1>3, <1>5, <1>7 DEF ListedIsCurrent
<1> QED
  BY <1>4, <1>6, <1>8 DEF ResultsTabInv

LEMMA RequestFailsKeeps ==
    ASSUME ResultsTabInv, NEW i \in DOMAIN wanted, RequestFails(i) PROVE ResultsTabInv'
<1>1. wanted[i] \in Wanted
  BY WantedSay
<1>2. wanted' = RemoveAt(wanted, i) /\ UNCHANGED result /\ unaware' = TRUE
  BY DEF RequestFails
<1>3. /\ view' \in View /\ view'.event = view.event /\ view'.shown = view.shown
      /\ view'.loading = (view.loading /\ ~wanted[i].load)
      /\ view'.overtaken = (view.overtaken \/ wanted[i].load)
  BY <1>1, WantedSay DEF RequestFails, View, Wanted
<1>4. ResultsTabTypeOK' /\ InTimeIsOfTheEvent' /\ BroughtIsCurrent' /\ LoadGoesOn'
  BY <1>2, <1>3, RequestEnds, WantedSay
<1>5. NamedAbove'
  BY <1>3 DEF ResultsTabInv, NamedAbove
<1> QED
  BY <1>2, <1>4, <1>5 DEF ResultsTabInv, ListedIsCurrent

LEMMA ResultsChangeKeeps ==
    ASSUME ResultsTabInv, NEW e \in Disciplines, ResultsChange(e) PROVE ResultsTabInv'
<1>1. /\ result' = [result EXCEPT ![e] = @ + 1] /\ result[e] < MaxResults
      /\ unaware' = (unaware \/ e = view.event) /\ UNCHANGED <<view, wanted>>
  BY DEF ResultsChange
<1>2. /\ result' \in [Disciplines -> 0 .. MaxResults]
      /\ \A d \in Disciplines : d # e => result'[d] = result[d]
  <2>1. result[e] \in 0 .. MaxResults /\ result[e] + 1 \in 0 .. MaxResults
    BY <1>1, WantedSay, ResultsTabAssumption
  <2> QED
    BY <1>1, <2>1, WantedSay
<1>3. unaware' \in BOOLEAN /\ (unaware => unaware') /\ (~unaware' => e # view.event)
  BY <1>1, WantedSay
<1>4. BroughtIsCurrent'
  <2> SUFFICES ASSUME NEW i \in DOMAIN wanted, wanted[i].step = "show", ~wanted[i].late, ~unaware'
               PROVE  wanted[i].value = result'[wanted[i].event]
    BY <1>1 DEF BroughtIsCurrent
  <2>1. wanted[i].event = view.event
    BY DEF ResultsTabInv, InTimeIsOfTheEvent
  <2>2. wanted[i].value = result[view.event]
    BY <1>3, <2>1 DEF ResultsTabInv, BroughtIsCurrent
  <2> QED
    BY <1>2, <1>3, <2>1, <2>2, WantedSay
<1>5. ListedIsCurrent'
  BY <1>1, <1>2, <1>3, WantedSay DEF ResultsTabInv, ListedIsCurrent
<1> QED
  BY <1>1, <1>2, <1>3, <1>4, <1>5 DEF ResultsTabInv, ResultsTabTypeOK, InTimeIsOfTheEvent,
     LoadGoesOn, NamedAbove

LEMMA ResultsTabStarts == ResultsTabInit => ResultsTabInv
<1> SUFFICES ASSUME NEW e \in Disciplines,
                    result = [d \in Disciplines |-> 0],
                    view = [event |-> e, shown |-> e, value |-> 0, loading |-> TRUE,
                            overtaken |-> FALSE],
                    wanted = <<LoadOf(e)>>, unaware = FALSE
             PROVE  ResultsTabInv
  BY DEF ResultsTabInit
<1>1. 0 \in 0 .. MaxResults
  BY ResultsTabAssumption
<1>2. view \in View /\ result \in [Disciplines -> 0 .. MaxResults]
  BY <1>1 DEF View
<1>3. wanted \in Seq(Wanted) /\ DOMAIN wanted = {1} /\ wanted[1] = LoadOf(e)
  BY RequestsSay
<1>4. LoadOf(e).event = e /\ LoadOf(e).step = "read" /\ LoadOf(e).load
  BY RequestsSay
<1>5. ResultsTabTypeOK
  BY <1>2, <1>3 DEF ResultsTabTypeOK
<1>6. InTimeIsOfTheEvent /\ BroughtIsCurrent /\ LoadGoesOn
  BY <1>3, <1>4 DEF InTimeIsOfTheEvent, BroughtIsCurrent, LoadGoesOn
<1> QED
  BY <1>5, <1>6 DEF ResultsTabInv, NamedAbove, ListedIsCurrent

LEMMA ResultsTabSteps == ResultsTabInv /\ [ResultsTabNext]_resultsTabVars => ResultsTabInv'
<1> SUFFICES ASSUME ResultsTabInv, [ResultsTabNext]_resultsTabVars PROVE ResultsTabInv'
  OBVIOUS
<1>1. CASE UNCHANGED resultsTabVars
  BY <1>1 DEF resultsTabVars, ResultsTabInv, ResultsTabTypeOK, InTimeIsOfTheEvent,
     BroughtIsCurrent, LoadGoesOn, NamedAbove, ListedIsCurrent
<1> QED
  BY <1>1, ChooseKeeps, FinalizeClickKeeps, FinalizedKeeps, EntriesReadKeeps, ShowEntriesKeeps,
     RequestFailsKeeps, ResultsChangeKeeps DEF ResultsTabNext

(* The invariant holds of the tab, whatever is chosen, finalized, changed  *)
(* and overtaken.                                                          *)
THEOREM ResultsTabInvariance == ResultsTabSpec => []ResultsTabInv
BY ResultsTabStarts, ResultsTabSteps, PTL DEF ResultsTabSpec

LEMMA ResultsTabFollows == ResultsTabInv => ResultsTabCatchesUp
BY DEF ResultsTabInv, ResultsTabCatchesUp, NamedAbove, ListedIsCurrent

-----------------------------------------------------------------------------
(* The panel.  A deactivation or a new password has revoked all sessions   *)
(* of its user; what it does to the panel is still to come.                *)
Emptying(c) == c.step = "list" /\ c.op \in {"close", "reset"}

(* After the answer at i the panel will be filled again.                   *)
LooksAgain(i) ==
    \E j \in DOMAIN chains :
      \/ chains[j].step = "read"
      \/ chains[j].step = "answer" /\ j > i
      \/ Emptying(chains[j]) /\ chains[j].user = chains[i].user

(* An answer that is not out of date tells the sessions there are, or the  *)
(* panel will be filled again.                                             *)
AnswersCurrent ==
    \A i \in DOMAIN chains : chains[i].step = "answer" /\ ~chains[i].late =>
      chains[i].shown = LoginsOf(chains[i].user) \/ LooksAgain(i)

(* Who was to lose all sessions, and was not surprised, has none.          *)
EmptiedIsEmpty ==
    \A i \in DOMAIN chains : Emptying(chains[i]) /\ ~chains[i].late =>
      LoginsOf(chains[i].user) = {}

(* The panel that is open will be filled again.                            *)
ShowsAgain ==
    \E j \in DOMAIN chains :
      \/ chains[j].step \in {"read", "answer"}
      \/ Emptying(chains[j]) /\ chains[j].user = panel.user

(* It shows the sessions there are, or will.                               *)
PanelCurrent ==
    odd \/ panel.user = NoUser \/ panel.shown = LoginsOf(panel.user) \/ ShowsAgain

(* The inductive invariant.                                                *)
AdminInv == AdminTypeOK /\ AnswersCurrent /\ EmptiedIsEmpty /\ PanelCurrent

(* The sessions of u among those of os.                                    *)
Held(os, u) == {s \in os : Holder[s] = u}

LEMMA ChainsSay ==
    ASSUME AdminInv
    PROVE  /\ chains \in Seq(Chain) /\ Len(chains) \in Nat /\ DOMAIN chains = 1 .. Len(chains)
           /\ \A i \in 1 .. Len(chains) : chains[i] \in Chain
           /\ panel \in Panel /\ open \in SUBSET Logins /\ odd \in BOOLEAN
BY DEF AdminInv, AdminTypeOK

LEMMA OutdatedSays ==
    ASSUME NEW cs \in Seq(Chain)
    PROVE  /\ Outdated(cs) \in Seq(Chain) /\ Len(Outdated(cs)) = Len(cs)
           /\ \A n \in 1 .. Len(cs) :
                /\ Outdated(cs)[n].step = cs[n].step /\ Outdated(cs)[n].op = cs[n].op
                /\ Outdated(cs)[n].user = cs[n].user /\ Outdated(cs)[n].shown = cs[n].shown
                /\ Outdated(cs)[n].late = (cs[n].late \/ cs[n].step = "answer")
<1> DEFINE F == [n \in 1 .. Len(cs) |-> [cs[n] EXCEPT !.late = @ \/ cs[n].step = "answer"]]
<1>1. Outdated(cs) = F
  BY DEF Outdated
<1>2. \A n \in 1 .. Len(cs) : cs[n] \in Chain
  OBVIOUS
<1>3. \A n \in 1 .. Len(cs) :
        /\ F[n] \in Chain /\ F[n].step = cs[n].step /\ F[n].op = cs[n].op
        /\ F[n].user = cs[n].user /\ F[n].shown = cs[n].shown
        /\ F[n].late = (cs[n].late \/ cs[n].step = "answer")
  BY <1>2 DEF Chain
<1>4. F \in Seq(Chain) /\ Len(F) = Len(cs)
  <2>1. F \in [1 .. Len(cs) -> Chain] /\ Len(cs) \in Nat
    BY <1>3
  <2> HIDE DEF F
  <2> QED
    BY <2>1
<1> HIDE DEF F
<1> QED
  BY <1>1, <1>3, <1>4

(* The list with and without its i-th chain, what is kept of it outdated.  *)
LEMMA WithoutSays ==
    ASSUME NEW cs \in Seq(Chain), NEW i \in DOMAIN cs
    PROVE  /\ RemoveAt(cs, i) \in Seq(Chain) /\ Len(RemoveAt(cs, i)) = Len(cs) - 1
           /\ Outdated(RemoveAt(cs, i)) \in Seq(Chain)
           /\ DOMAIN Outdated(RemoveAt(cs, i)) = 1 .. Len(cs) - 1
           /\ \A m \in 1 .. Len(cs) - 1 :
                LET j == IF m < i THEN m ELSE m + 1
                    o == Outdated(RemoveAt(cs, i))[m]
                IN  /\ o.step = cs[j].step /\ o.op = cs[j].op /\ o.user = cs[j].user
                    /\ o.shown = cs[j].shown
                    /\ o.late = (cs[j].late \/ cs[j].step = "answer")
<1>1. /\ RemoveAt(cs, i) \in Seq(Chain) /\ Len(RemoveAt(cs, i)) = Len(cs) - 1
      /\ \A m \in 1 .. Len(cs) - 1 :
           RemoveAt(cs, i)[m] = IF m < i THEN cs[m] ELSE cs[m + 1]
  BY RemovedSays
<1> DEFINE r == RemoveAt(cs, i)
           o == Outdated(r)
<1> HIDE DEF r
<1>2. /\ r \in Seq(Chain) /\ Len(r) = Len(cs) - 1 /\ Len(cs) \in Nat
      /\ \A m \in 1 .. Len(cs) - 1 : r[m] = IF m < i THEN cs[m] ELSE cs[m + 1]
  BY <1>1 DEF r
<1>3. /\ o \in Seq(Chain) /\ Len(o) = Len(r)
      /\ \A n \in 1 .. Len(r) :
           /\ o[n].step = r[n].step /\ o[n].op = r[n].op
           /\ o[n].user = r[n].user /\ o[n].shown = r[n].shown
           /\ o[n].late = (r[n].late \/ r[n].step = "answer")
  BY <1>2, OutdatedSays
<1> HIDE DEF o
<1>4. DOMAIN o = 1 .. Len(cs) - 1
  BY <1>2, <1>3
<1> QED
  BY <1>1, <1>2, <1>3, <1>4 DEF r, o

LEMMA EmptiedStays ==
    ASSUME AdminInv, open' \subseteq open,
           \A m \in DOMAIN chains' : Emptying(chains'[m]) /\ ~chains'[m].late =>
             \E j \in DOMAIN chains :
               Emptying(chains[j]) /\ ~chains[j].late /\ chains[j].user = chains'[m].user
    PROVE  EmptiedIsEmpty'
BY DEF AdminInv, EmptiedIsEmpty, LoginsOf

LEMMA ClickKeeps ==
    ASSUME AdminInv, NEW op \in {"look", "revoke", "change", "close", "reset"},
           NEW u \in People, NEW s \in Logins, Click(op, u, s)
    PROVE  AdminInv'
<1> DEFINE x == [op |-> op, user |-> u, login |-> s, was |-> panel.user,
                 step |-> IF op = "look" THEN "read" ELSE "act",
                 shown |-> {}, late |-> FALSE]
           N == Len(chains)
<1>1. /\ x \in Chain /\ x.step = (IF op = "look" THEN "read" ELSE "act")
  BY ChainsSay DEF Chain, Panel
<1>2. chains' = <<x>> \o chains /\ UNCHANGED <<open, odd>>
  BY DEF Click
<1>3. /\ panel' \in Panel /\ panel'.shown = panel.shown
      /\ op # "look" => panel'.user = panel.user
  BY ChainsSay DEF Click, Panel
<1> HIDE DEF x
<1>4. /\ chains' \in Seq(Chain) /\ Len(chains') = Len(chains) + 1 /\ chains'[1] = x
      /\ \A m \in 2 .. Len(chains) + 1 : chains'[m] = chains[m - 1]
  <2>1. chains \in Seq(Chain)
    BY ChainsSay
  <2>2. /\ <<x>> \o chains \in Seq(Chain) /\ Len(<<x>> \o chains) = Len(chains) + 1
        /\ (<<x>> \o chains)[1] = x
        /\ \A m \in 2 .. Len(chains) + 1 : (<<x>> \o chains)[m] = chains[m - 1]
    BY ONLY <1>1, <2>1, PutFirstSays
  <2> QED
    BY <1>2, <2>2
<1>5. N \in Nat /\ DOMAIN chains = 1 .. N /\ DOMAIN chains' = 1 .. N + 1
  BY <1>4, ChainsSay
<1>6. /\ \A j \in 1 .. N : j + 1 \in 1 .. N + 1 /\ chains'[j + 1] = chains[j]
      /\ \A m \in 2 .. N + 1 : m - 1 \in 1 .. N /\ chains'[m] = chains[m - 1]
  BY <1>4, <1>5
<1> HIDE DEF N
<1>7. AnswersCurrent'
  <2> SUFFICES ASSUME NEW m \in 1 .. N + 1, chains'[m].step = "answer", ~chains'[m].late
               PROVE  chains'[m].shown = LoginsOf(chains'[m].user) \/ LooksAgain(m)'
    BY <1>2, <1>5 DEF AnswersCurrent, LoginsOf
  <2>1. m \in 2 .. N + 1
    BY <1>1, <1>4, <1>5
  <2>2. chains[m - 1].shown = LoginsOf(chains[m - 1].user) \/ LooksAgain(m - 1)
    BY <1>5, <1>6, <2>1 DEF AdminInv, AnswersCurrent
  <2>3. LooksAgain(m - 1) => LooksAgain(m)'
    BY <1>5, <1>6, <2>1 DEF LooksAgain
  <2> QED
    BY <1>6, <2>1, <2>2, <2>3
<1>8. EmptiedIsEmpty'
  <2>1. \A m \in DOMAIN chains' : Emptying(chains'[m]) => m \in 2 .. N + 1
    BY <1>1, <1>4, <1>5 DEF Emptying
  <2> QED
    BY <1>2, <1>5, <1>6, <2>1, EmptiedStays
<1>9. PanelCurrent'
  <2>1. CASE op = "look"
    BY <1>1, <1>4, <1>5, <2>1 DEF PanelCurrent, ShowsAgain
  <2>2. CASE op # "look"
    <3>1. ShowsAgain => ShowsAgain'
      BY <1>3, <1>5, <1>6, <2>2 DEF ShowsAgain
    <3> QED
      BY <1>2, <1>3, <2>2, <3>1 DEF AdminInv, PanelCurrent, LoginsOf
  <2> QED
    BY <2>1, <2>2
<1> QED
  BY <1>2, <1>3, <1>4, <1>7, <1>8, <1>9 DEF AdminInv, AdminTypeOK

(* A chain goes on in its place.                                           *)
LEMMA GoesOnSays ==
    ASSUME AdminInv, NEW i \in DOMAIN chains, NEW c \in Chain, GoesOn(i, c)
    PROVE  /\ chains' \in Seq(Chain) /\ DOMAIN chains' = DOMAIN chains /\ chains'[i] = c
           /\ \A j \in DOMAIN chains : j # i => chains'[j] = chains[j]
BY ChainsSay DEF GoesOn

(* A chain ends that is none of those that look again.                     *)
LEMMA ChainEndsGood ==
    ASSUME AdminInv, NEW i \in DOMAIN chains, ChainEnds(i), UNCHANGED <<open, odd>>,
           chains[i].step = "act" \/ (chains[i].step = "list" /\ chains[i].op = "revoke"),
           panel' \in Panel, panel'.user = panel.user, panel'.shown = panel.shown
    PROVE  AdminInv'
<1> DEFINE N == Len(chains)
           q(j) == IF j < i THEN j ELSE j - 1
<1>1. chains \in Seq(Chain) /\ i \in DOMAIN chains /\ i \in 1 .. N /\ N \in Nat
      /\ DOMAIN chains = 1 .. N
  BY ChainsSay
<1>2. /\ RemoveAt(chains, i) \in Seq(Chain) /\ Len(RemoveAt(chains, i)) = Len(chains) - 1
      /\ \A m \in 1 .. Len(chains) - 1 :
           RemoveAt(chains, i)[m] = IF m < i THEN chains[m] ELSE chains[m + 1]
  BY ONLY <1>1, RemovedSays
<1>3. /\ chains' \in Seq(Chain) /\ DOMAIN chains' = 1 .. N - 1
      /\ \A m \in 1 .. N - 1 : chains'[m] = IF m < i THEN chains[m] ELSE chains[m + 1]
  <2> DEFINE r == RemoveAt(chains, i)
  <2>1. r \in Seq(Chain) /\ Len(r) = N - 1 /\ chains' = r
        /\ \A m \in 1 .. N - 1 : r[m] = IF m < i THEN chains[m] ELSE chains[m + 1]
    BY <1>2 DEF ChainEnds
  <2> HIDE DEF r
  <2> QED
    BY <2>1
<1> HIDE DEF N
<1>4. \A j \in 1 .. N : j # i => q(j) \in 1 .. N - 1 /\ chains'[q(j)] = chains[j]
  BY <1>1, <1>3, SMTT(60)
<1>5. \A m \in 1 .. N - 1 : \E j \in 1 .. N : j # i /\ chains'[m] = chains[j] /\ m = q(j)
  <2> TAKE m \in 1 .. N - 1
  <2>1. CASE m < i
    BY <1>1, <1>3, <2>1
  <2>2. CASE m >= i
    <3>1. m + 1 \in 1 .. N /\ m + 1 # i /\ m = q(m + 1) /\ chains'[m] = chains[m + 1]
      BY <1>1, <1>3, <2>2
    <3> QED
      BY <3>1
  <2> QED
    BY <1>1, <2>1, <2>2
<1>6. \A k, j \in 1 .. N : k # i /\ j # i /\ j > k => q(j) > q(k)
  BY <1>1
<1> HIDE DEF q
<1>7. AnswersCurrent'
  <2> SUFFICES ASSUME NEW m \in 1 .. N - 1, chains'[m].step = "answer", ~chains'[m].late
               PROVE  chains'[m].shown = LoginsOf(chains'[m].user) \/ LooksAgain(m)'
    BY <1>3 DEF AnswersCurrent, LoginsOf
  <2>1. PICK k \in 1 .. N : k # i /\ chains'[m] = chains[k] /\ m = q(k)
    BY <1>5
  <2>2. chains[k].shown = LoginsOf(chains[k].user) \/ LooksAgain(k)
    BY <1>1, <2>1 DEF AdminInv, AnswersCurrent
  <2>3. ASSUME LooksAgain(k)
        PROVE  LooksAgain(m)'
    <3>1. PICK j \in 1 .. N : \/ chains[j].step = "read"
                              \/ chains[j].step = "answer" /\ j > k
                              \/ Emptying(chains[j]) /\ chains[j].user = chains[k].user
      BY <1>1, <2>3 DEF LooksAgain
    <3>2. j # i
      BY <3>1 DEF Emptying
    <3> QED
      BY <1>3, <1>4, <1>6, <2>1, <3>1, <3>2 DEF LooksAgain
  <2> QED
    BY <2>1, <2>2, <2>3
<1>8. EmptiedIsEmpty'
  BY <1>1, <1>3, <1>5, EmptiedStays
<1>9. ShowsAgain => ShowsAgain'
  <2> SUFFICES ASSUME NEW j \in 1 .. N,
                      \/ chains[j].step \in {"read", "answer"}
                      \/ Emptying(chains[j]) /\ chains[j].user = panel.user
               PROVE  ShowsAgain'
    BY <1>1 DEF ShowsAgain
  <2>1. j # i
    BY DEF Emptying
  <2> QED
    BY <1>3, <1>4, <2>1 DEF ShowsAgain
<1> QED
  BY <1>3, <1>7, <1>8, <1>9, ChainsSay DEF AdminInv, AdminTypeOK, PanelCurrent, LoginsOf

LEMMA ActKeeps == ASSUME AdminInv, NEW i \in DOMAIN chains, Act(i) PROVE AdminInv'
<1> DEFINE c == chains[i]
<1>1. c \in Chain /\ c.step = "act" /\ open' = open \ Revokes(c) /\ UNCHANGED odd
  BY ChainsSay DEF Act
<1>2. open' \in SUBSET Logins /\ open' \subseteq open
  BY <1>1, ChainsSay
<1>3. CASE c.op # "revoke"
  <2> DEFINE x == [c EXCEPT !.step = "list"]
  <2>1. x \in Chain /\ x.step = "list" /\ x.op = c.op /\ x.user = c.user
    BY <1>1 DEF Chain
  <2>2. GoesOn(i, x) /\ UNCHANGED panel
    BY <1>3 DEF Act
  <2> HIDE DEF x
  <2>3. /\ chains' \in Seq(Chain) /\ DOMAIN chains' = DOMAIN chains /\ chains'[i] = x
        /\ \A j \in DOMAIN chains : j # i => chains'[j] = chains[j]
    BY <2>1, <2>2, GoesOnSays
  <2>4. c.op \in {"close", "reset"} => Held(open', c.user) = {} /\ Emptying(x)
    <3> SUFFICES ASSUME c.op \in {"close", "reset"}
                 PROVE  Held(open', c.user) = {} /\ Emptying(x)
      OBVIOUS
    <3>1. Revokes(c) = LoginsOf(c.user)
      BY DEF Revokes
    <3> QED
      BY <1>1, <2>1, <3>1 DEF LoginsOf, Held, Emptying
  <2>5. ASSUME NEW v, ~(c.op \in {"close", "reset"} /\ v = c.user)
        PROVE  Held(open', v) = LoginsOf(v)
    <3>1. \A s \in Revokes(c) : Holder[s] # v
      BY <1>3, <2>5 DEF Revokes, LoginsOf
    <3> QED
      BY <1>1, <3>1 DEF LoginsOf, Held
  <2>6. AnswersCurrent'
    <3> SUFFICES ASSUME NEW j \in DOMAIN chains, chains'[j].step = "answer", ~chains'[j].late
                 PROVE  chains'[j].shown = Held(open', chains'[j].user) \/ LooksAgain(j)'
      BY <2>3 DEF AnswersCurrent, LoginsOf, Held
    <3>1. j # i /\ chains'[j] = chains[j]
      BY <2>1, <2>3
    <3>2. CASE c.op \in {"close", "reset"} /\ chains[j].user = c.user
      BY <2>1, <2>3, <2>4, <3>1, <3>2 DEF LooksAgain
    <3>3. CASE ~(c.op \in {"close", "reset"} /\ chains[j].user = c.user)
      <4>1. chains[j].shown = LoginsOf(chains[j].user) \/ LooksAgain(j)
        BY <3>1 DEF AdminInv, AnswersCurrent
      <4>2. LooksAgain(j) => LooksAgain(j)'
        BY <1>1, <2>3, <3>1 DEF LooksAgain, Emptying
      <4> QED
        BY <2>5, <3>1, <3>3, <4>1, <4>2
    <3> QED
      BY <3>2, <3>3
  <2>7. EmptiedIsEmpty'
    <3> SUFFICES ASSUME NEW j \in DOMAIN chains, Emptying(chains'[j]), ~chains'[j].late
                 PROVE  Held(open', chains'[j].user) = {}
      BY <2>3 DEF EmptiedIsEmpty, LoginsOf, Held
    <3>1. CASE j = i
      BY <2>1, <2>3, <2>4, <3>1 DEF Emptying
    <3>2. CASE j # i
      <4>1. LoginsOf(chains[j].user) = {}
        BY <2>3, <3>2 DEF AdminInv, EmptiedIsEmpty
      <4> QED
        BY <1>2, <2>3, <3>2, <4>1 DEF LoginsOf, Held
    <3> QED
      BY <3>1, <3>2
  <2>8. PanelCurrent'
    <3>1. CASE c.op \in {"close", "reset"} /\ panel.user = c.user
      BY <2>1, <2>2, <2>3, <2>4, <3>1 DEF PanelCurrent, ShowsAgain
    <3>2. CASE ~(c.op \in {"close", "reset"} /\ panel.user = c.user)
      <4>1. ShowsAgain => ShowsAgain'
        BY <1>1, <2>2, <2>3 DEF ShowsAgain, Emptying
      <4>2. LoginsOf(panel.user)' = LoginsOf(panel.user)
        BY <2>2, <2>5, <3>2 DEF LoginsOf, Held
      <4> QED
        BY <1>1, <2>2, <4>1, <4>2 DEF AdminInv, PanelCurrent
    <3> QED
      BY <3>1, <3>2
  <2> QED
    BY <1>1, <1>2, <2>2, <2>3, <2>6, <2>7, <2>8 DEF AdminInv, AdminTypeOK
<1>4. CASE c.op = "revoke" /\ Revokes(c) = {}
  <2>1. ChainEnds(i) /\ panel' = [panel EXCEPT !.busy = FALSE] /\ UNCHANGED open
    BY <1>1, <1>4 DEF Act
  <2>2. panel' \in Panel /\ panel'.user = panel.user /\ panel'.shown = panel.shown
    BY <2>1, ChainsSay DEF Panel
  <2> QED
    BY <1>1, <2>1, <2>2, ChainEndsGood
<1>5. CASE c.op = "revoke" /\ Revokes(c) # {}
  <2> DEFINE x == [c EXCEPT !.step = "read"]
  <2>1. x \in Chain /\ x.step = "read"
    BY <1>1 DEF Chain
  <2>2. GoesOn(i, x) /\ panel' = [panel EXCEPT !.user = c.user, !.busy = TRUE]
    BY <1>5 DEF Act
  <2> HIDE DEF x
  <2>3. /\ chains' \in Seq(Chain) /\ DOMAIN chains' = DOMAIN chains /\ chains'[i] = x
        /\ \A j \in DOMAIN chains : j # i => chains'[j] = chains[j]
    BY <2>1, <2>2, GoesOnSays
  <2>4. panel' \in Panel
    BY <1>1, <2>2, ChainsSay DEF Panel, Chain
  <2>5. AnswersCurrent' /\ PanelCurrent'
    BY <2>1, <2>3 DEF AnswersCurrent, LooksAgain, PanelCurrent, ShowsAgain
  <2>6. EmptiedIsEmpty'
    <3>1. \A m \in DOMAIN chains' : Emptying(chains'[m]) => m # i
      BY <2>1, <2>3 DEF Emptying
    <3> QED
      BY <1>2, <2>3, <3>1, EmptiedStays
  <2> QED
    BY <1>1, <1>2, <2>3, <2>4, <2>5, <2>6, ChainsSay DEF AdminInv, AdminTypeOK
<1> QED
  BY <1>3, <1>4, <1>5

LEMMA LookKeeps == ASSUME AdminInv, NEW i \in DOMAIN chains, Look(i) PROVE AdminInv'
<1> DEFINE x == [chains[i] EXCEPT !.step = "answer", !.late = FALSE,
                                  !.shown = LoginsOf(chains[i].user)]
           N == Len(chains)
<1>1. chains \in Seq(Chain) /\ i \in DOMAIN chains /\ i \in 1 .. N /\ N \in Nat
      /\ DOMAIN chains = 1 .. N /\ chains[i] \in Chain
  BY ChainsSay
<1>2. x \in Chain /\ x.step = "answer" /\ x.shown = LoginsOf(x.user)
  <2>1. LoginsOf(chains[i].user) \in SUBSET Logins
    BY ChainsSay DEF LoginsOf
  <2> QED
    BY <1>1, <2>1 DEF Chain
<1>3. chains' = Append(RemoveAt(chains, i), x) /\ UNCHANGED <<open, panel, odd>>
  BY DEF Look
<1> HIDE DEF x
<1>4. /\ Append(RemoveAt(chains, i), x) \in Seq(Chain)
      /\ Len(Append(RemoveAt(chains, i), x)) = Len(chains)
      /\ Append(RemoveAt(chains, i), x)[Len(chains)] = x
      /\ \A m \in 1 .. Len(chains) - 1 :
           Append(RemoveAt(chains, i), x)[m] = IF m < i THEN chains[m] ELSE chains[m + 1]
  <2>1. chains \in Seq(Chain) /\ i \in DOMAIN chains /\ x \in Chain
    BY <1>1, <1>2
  <2>2. SentLast(Chain, chains, i, x, Append(RemoveAt(chains, i), x))
    BY ONLY <2>1, SentLastIs, Zenon
  <2> QED
    BY <2>2 DEF SentLast
<1>5. /\ chains' \in Seq(Chain) /\ DOMAIN chains' = 1 .. N /\ chains'[N] = x
      /\ \A m \in 1 .. N - 1 : chains'[m] = IF m < i THEN chains[m] ELSE chains[m + 1]
  <2> DEFINE r == Append(RemoveAt(chains, i), x)
  <2>1. r \in Seq(Chain) /\ Len(r) = N /\ chains' = r /\ r[N] = x
        /\ \A m \in 1 .. N - 1 : r[m] = IF m < i THEN chains[m] ELSE chains[m + 1]
    BY <1>3, <1>4
  <2> HIDE DEF r
  <2> QED
    BY <1>1, <2>1
<1> HIDE DEF N
<1>6. AnswersCurrent'
  <2> SUFFICES ASSUME NEW m \in 1 .. N, chains'[m].step = "answer"
               PROVE  chains'[m].shown = Held(open', chains'[m].user) \/ LooksAgain(m)'
    BY <1>5 DEF AnswersCurrent, LoginsOf, Held
  <2>1. CASE m = N
    BY <1>2, <1>3, <1>5, <2>1 DEF LoginsOf, Held
  <2>2. CASE m # N
    BY <1>1, <1>2, <1>5, <2>2 DEF LooksAgain
  <2> QED
    BY <2>1, <2>2
<1>7. PanelCurrent'
  BY <1>1, <1>2, <1>5 DEF PanelCurrent, ShowsAgain
<1>8. EmptiedIsEmpty'
  <2>1. ASSUME NEW m \in DOMAIN chains', Emptying(chains'[m])
        PROVE  \E j \in DOMAIN chains : chains'[m] = chains[j]
    <3>1. m \in 1 .. N - 1
      BY <1>1, <1>2, <1>5, <2>1 DEF Emptying
    <3>2. m \in 1 .. N /\ m + 1 \in 1 .. N
      BY <1>1, <3>1
    <3> QED
      BY <1>1, <1>5, <3>1, <3>2
  <2> QED
    BY <1>3, <2>1, EmptiedStays
<1> QED
  BY <1>3, <1>5, <1>6, <1>7, <1>8 DEF AdminInv, AdminTypeOK

(* Answers that are out of date need not be right.                         *)
LEMMA OutdatedGood ==
    ASSUME AdminInv, NEW cs \in Seq(Chain), chains' = Outdated(cs),
           open' \in SUBSET Logins, open' \subseteq open, odd' \in BOOLEAN, panel' \in Panel,
           PanelCurrent',
           \A m \in 1 .. Len(cs) : Emptying(cs[m]) /\ ~cs[m].late =>
             \E j \in DOMAIN chains :
               Emptying(chains[j]) /\ ~chains[j].late /\ chains[j].user = cs[m].user
    PROVE  AdminInv'
<1> DEFINE o == Outdated(cs)
<1>1. /\ o \in Seq(Chain) /\ Len(o) = Len(cs)
      /\ \A n \in 1 .. Len(cs) :
           /\ o[n].step = cs[n].step /\ o[n].op = cs[n].op
           /\ o[n].user = cs[n].user /\ o[n].shown = cs[n].shown
           /\ o[n].late = (cs[n].late \/ cs[n].step = "answer")
  BY OutdatedSays
<1>2. chains' = o
  OBVIOUS
<1> HIDE DEF o
<1>3. chains' \in Seq(Chain) /\ DOMAIN chains' = 1 .. Len(cs)
  BY <1>1, <1>2
<1>4. AnswersCurrent'
  BY <1>1, <1>2, <1>3, ZenonT(60) DEF AnswersCurrent
<1>5. EmptiedIsEmpty'
  <2>1. ASSUME NEW m \in DOMAIN chains', Emptying(chains'[m]), ~chains'[m].late
        PROVE  \E j \in DOMAIN chains :
                 Emptying(chains[j]) /\ ~chains[j].late /\ chains[j].user = chains'[m].user
    <3>1. m \in 1 .. Len(cs) /\ Emptying(cs[m]) /\ ~cs[m].late /\ chains'[m].user = cs[m].user
      BY <1>1, <1>2, <1>3, <2>1 DEF Emptying
    <3> QED
      BY <3>1
  <2> QED
    BY <2>1, EmptiedStays
<1> QED
  BY <1>3, <1>4, <1>5 DEF AdminInv, AdminTypeOK

LEMMA ChainFailsKeeps == ASSUME AdminInv, NEW i \in DOMAIN chains, ChainFails(i) PROVE AdminInv'
<1>1. chains \in Seq(Chain) /\ i \in DOMAIN chains /\ chains[i] \in Chain
      /\ i \in 1 .. Len(chains) /\ DOMAIN chains = 1 .. Len(chains)
  BY ChainsSay
<1>2. odd' = TRUE /\ PanelCurrent'
  BY DEF ChainFails, PanelCurrent
<1>3. open' \in SUBSET Logins /\ open' \subseteq open /\ panel' \in Panel
  <2>1. open' \in SUBSET Logins /\ open' \subseteq open
    BY ChainsSay DEF ChainFails
  <2>2. panel' \in Panel
    BY ChainsSay DEF ChainFails, Panel
  <2> QED
    BY <2>1, <2>2
<1>4. /\ RemoveAt(chains, i) \in Seq(Chain) /\ Len(RemoveAt(chains, i)) = Len(chains) - 1
      /\ \A m \in 1 .. Len(chains) - 1 :
           RemoveAt(chains, i)[m] = IF m < i THEN chains[m] ELSE chains[m + 1]
  BY ONLY <1>1, RemovedSays
<1>5. CASE chains' = Outdated(RemoveAt(chains, i))
  <2> DEFINE r == RemoveAt(chains, i)
  <2> HIDE DEF r
  <2>1. /\ r \in Seq(Chain) /\ chains' = Outdated(r)
        /\ \A m \in 1 .. Len(r) : \E j \in DOMAIN chains : r[m] = chains[j]
    BY <1>1, <1>4, <1>5, SMTT(60) DEF r
  <2> QED
    BY <1>2, <1>3, <2>1, OutdatedGood
<1>6. CASE chains[i].op = "revoke" /\ chains' = Outdated([chains EXCEPT ![i].step = "list"])
  <2> DEFINE x == [chains[i] EXCEPT !.step = "list"]
             r == [chains EXCEPT ![i] = x]
  <2>1. x \in Chain /\ x.op = "revoke"
    BY <1>1, <1>6 DEF Chain
  <2>2. chains' = Outdated(r)
    BY <1>1, <1>6
  <2> HIDE DEF x
  <2>3. /\ r \in Seq(Chain) /\ Len(r) = Len(chains) /\ r[i] = x
        /\ \A m \in 1 .. Len(chains) : m # i => r[m] = chains[m]
    BY <1>1, <2>1
  <2> HIDE DEF r
  <2>4. \A m \in 1 .. Len(r) : Emptying(r[m]) => \E j \in DOMAIN chains : r[m] = chains[j]
    BY <1>1, <2>1, <2>3 DEF Emptying
  <2> QED
    BY <1>2, <1>3, <2>2, <2>3, <2>4, OutdatedGood
<1> QED
  BY <1>5, <1>6 DEF ChainFails

(* The answer of the i-th chain is shown; it goes on, if it was to revoke  *)
(* a session, and ends otherwise.                                          *)
PlaceOf(i, j) == IF j < i \/ chains[i].op = "revoke" THEN j ELSE j - 1

LEMMA ShowLoginsSays ==
    ASSUME AdminInv, NEW i \in DOMAIN chains, ShowLogins(i)
    PROVE  /\ chains' \in Seq(Chain)
           /\ \A j \in DOMAIN chains \ {i} :
                /\ PlaceOf(i, j) \in DOMAIN chains'
                /\ chains'[PlaceOf(i, j)].step = chains[j].step
                /\ chains'[PlaceOf(i, j)].op = chains[j].op
                /\ chains'[PlaceOf(i, j)].user = chains[j].user
                /\ chains'[PlaceOf(i, j)].late =
                     (chains[j].late \/ (j < i /\ chains[j].step = "answer"))
                /\ j > i => chains'[PlaceOf(i, j)] = chains[j]
           /\ \A m \in DOMAIN chains' :
                \/ chains'[m].step = "list" /\ chains'[m].op = "revoke"
                \/ \E j \in DOMAIN chains \ {i} : m = PlaceOf(i, j)
<1> DEFINE c == chains[i]
           N == Len(chains)
           b == SubSeq(chains, 1, i - 1)
           o == Outdated(b)
           a == SubSeq(chains, i + 1, Len(chains))
<1>1. chains \in Seq(Chain) /\ i \in DOMAIN chains /\ i \in 1 .. N /\ N \in Nat
      /\ DOMAIN chains = 1 .. N /\ c \in Chain /\ c.step = "answer"
  BY ChainsSay DEF ShowLogins
<1>2. chains' = IF c.op = "revoke" THEN o \o <<[c EXCEPT !.step = "list"]>> \o a ELSE o \o a
  BY DEF ShowLogins
<1>3. b \in Seq(Chain) /\ Len(b) = i - 1 /\ \A m \in 1 .. i - 1 : b[m] = chains[m]
  <2>1. chains \in Seq(Chain) /\ i \in DOMAIN chains
    BY <1>1
  <2> QED
    BY ONLY <2>1, HeadSays
<1> HIDE DEF b
<1>4. /\ o \in Seq(Chain) /\ Len(o) = i - 1
      /\ \A n \in 1 .. i - 1 :
           /\ o[n].step = chains[n].step /\ o[n].op = chains[n].op
           /\ o[n].user = chains[n].user
           /\ o[n].late = (chains[n].late \/ chains[n].step = "answer")
  <2>1. /\ o \in Seq(Chain) /\ Len(o) = Len(b)
        /\ \A n \in 1 .. Len(b) :
             /\ o[n].step = b[n].step /\ o[n].op = b[n].op /\ o[n].user = b[n].user
             /\ o[n].late = (b[n].late \/ b[n].step = "answer")
    BY <1>3, OutdatedSays
  <2> HIDE DEF o
  <2> QED
    BY <1>3, <2>1
<1> HIDE DEF o
<1>5. CASE c.op = "revoke"
  <2> DEFINE x == [c EXCEPT !.step = "list"]
             p == Append(o, x)
  <2>1. x \in Chain /\ x.step = "list" /\ x.op = "revoke"
    BY <1>1, <1>5 DEF Chain
  <2> HIDE DEF x
  <2>2. /\ p \in Seq(Chain) /\ Len(p) = i /\ p[i] = x /\ \A m \in 1 .. i - 1 : p[m] = o[m]
    BY <1>1, <1>4, <2>1
  <2>3. p = o \o <<x>>
    BY <1>4, <2>1
  <2>4. a \in Seq(Chain) /\ Len(a) = N - i /\ \A m \in 1 .. N - i : a[m] = chains[i + m]
    BY <1>1, SMTT(60)
  <2> HIDE DEF a, p
  <2>5. chains' = p \o a
    BY <1>2, <1>5, <2>3 DEF x
  <2>6. /\ p \o a \in Seq(Chain) /\ Len(p \o a) = Len(p) + Len(a)
        /\ \A m \in 1 .. Len(p) + Len(a) :
             (p \o a)[m] = IF m <= Len(p) THEN p[m] ELSE a[m - Len(p)]
    BY <2>2, <2>4, JoinedSays
  <2>7. /\ chains' \in Seq(Chain) /\ Len(chains') = N
        /\ \A m \in 1 .. N : chains'[m] = IF m <= i THEN p[m] ELSE a[m - i]
    <3> DEFINE r == p \o a
    <3>1. /\ r \in Seq(Chain) /\ Len(r) = Len(p) + Len(a) /\ chains' = r
          /\ \A m \in 1 .. Len(p) + Len(a) :
               r[m] = IF m <= Len(p) THEN p[m] ELSE a[m - Len(p)]
      BY <2>5, <2>6
    <3> HIDE DEF r
    <3>2. Len(p) + Len(a) = N
      BY <1>1, <2>2, <2>4
    <3> QED
      BY <2>2, <3>1, <3>2
  <2>8. \A m \in i + 1 .. N : chains'[m] = chains[m]
    <3> TAKE m \in i + 1 .. N
    <3>1. m \in 1 .. N /\ ~(m <= i) /\ m - i \in 1 .. N - i /\ i + (m - i) = m
      BY <1>1
    <3> QED
      BY <2>4, <2>7, <3>1
  <2>9. chains'[i] = x /\ \A m \in 1 .. i - 1 : chains'[m] = o[m]
    BY <1>1, <2>2, <2>7
  <2>10. DOMAIN chains' = 1 .. N
    BY <1>1, <2>7
  <2>11. \A j \in 1 .. N : PlaceOf(i, j) = j
    BY <1>5 DEF PlaceOf
  <2>12. ASSUME NEW j \in 1 .. N, j # i
         PROVE  /\ PlaceOf(i, j) \in DOMAIN chains'
                /\ chains'[PlaceOf(i, j)].step = chains[j].step
                /\ chains'[PlaceOf(i, j)].op = chains[j].op
                /\ chains'[PlaceOf(i, j)].user = chains[j].user
                /\ chains'[PlaceOf(i, j)].late =
                     (chains[j].late \/ (j < i /\ chains[j].step = "answer"))
                /\ j > i => chains'[PlaceOf(i, j)] = chains[j]
    <3>1. CASE j < i
      <4>1. j \in 1 .. i - 1 /\ PlaceOf(i, j) = j /\ j \in DOMAIN chains' /\ chains'[j] = o[j] /\ ~(j > i)
        BY <1>1, <2>9, <2>10, <2>11, <3>1
      <4>2. /\ o[j].step = chains[j].step /\ o[j].op = chains[j].op /\ o[j].user = chains[j].user
            /\ o[j].late = (chains[j].late \/ chains[j].step = "answer")
        BY <1>4, <4>1
      <4> QED
        BY <3>1, <4>1, <4>2
    <3>2. CASE j > i
      <4>1. chains[j] \in Chain
        BY <1>1, ChainsSay DEF N
      <4>2. j \in i + 1 .. N /\ PlaceOf(i, j) = j /\ j \in DOMAIN chains' /\ ~(j < i)
        BY <1>1, <2>10, <2>11, <3>2
      <4>3. chains'[j] = chains[j]
        BY <2>8, <4>2
      <4> QED
        BY <4>1, <4>2, <4>3 DEF Chain
    <3> QED
      BY <1>1, <2>12, <3>1, <3>2
  <2>13. ASSUME NEW m \in DOMAIN chains'
         PROVE  \/ chains'[m].step = "list" /\ chains'[m].op = "revoke"
                \/ \E j \in DOMAIN chains \ {i} : m = PlaceOf(i, j)
    BY <1>1, <2>1, <2>9, <2>10, <2>11
  <2> QED
    BY <1>1, <2>7, <2>12, <2>13
<1>6. CASE c.op # "revoke"
  <2> DEFINE r == o \o SubSeq(chains, i + 1, Len(chains))
  <2>1. chains' = r
    BY <1>2, <1>6
  <2>2. /\ r \in Seq(Chain) /\ Len(r) = Len(chains) - 1
        /\ \A m \in 1 .. Len(chains) - 1 : r[m] = IF m < i THEN o[m] ELSE chains[m + 1]
    <3>1. chains \in Seq(Chain) /\ i \in DOMAIN chains /\ o \in Seq(Chain) /\ Len(o) = i - 1
      BY <1>1, <1>4
    <3> QED
      BY ONLY <3>1, AroundSays
  <2> HIDE DEF r
  <2>3. /\ chains' \in Seq(Chain) /\ DOMAIN chains' = 1 .. N - 1
        /\ \A m \in 1 .. N - 1 : chains'[m] = IF m < i THEN o[m] ELSE chains[m + 1]
    BY <1>1, <2>1, <2>2
  <2> HIDE DEF N
  <2>4. \A j \in 1 .. N : PlaceOf(i, j) = IF j < i THEN j ELSE j - 1
    BY <1>6 DEF PlaceOf
  <2>5. ASSUME NEW j \in 1 .. N, j < i
        PROVE  PlaceOf(i, j) \in 1 .. N - 1 /\ chains'[PlaceOf(i, j)] = o[j] /\ j \in 1 .. i - 1
    BY <1>1, <2>3, <2>4, <2>5
  <2>6. ASSUME NEW j \in 1 .. N, j > i
        PROVE  PlaceOf(i, j) \in 1 .. N - 1 /\ chains'[PlaceOf(i, j)] = chains[j]
    <3>1. PlaceOf(i, j) = j - 1 /\ j - 1 \in 1 .. N - 1 /\ ~(j - 1 < i) /\ (j - 1) + 1 = j
      BY <1>1, <2>4, <2>6
    <3> QED
      BY <2>3, <3>1
  <2>7. ASSUME NEW m \in 1 .. N - 1
        PROVE  \E j \in 1 .. N : j # i /\ m = PlaceOf(i, j)
    <3>1. CASE m < i
      BY <1>1, <2>4, <3>1
    <3>2. CASE m >= i
      <4>1. m + 1 \in 1 .. N /\ m + 1 # i /\ m = PlaceOf(i, m + 1)
        BY <1>1, <2>4, <3>2
      <4> QED
        BY <4>1
    <3> QED
      BY <1>1, <3>1, <3>2
  <2>8. ASSUME NEW j \in 1 .. N, j # i
        PROVE  /\ PlaceOf(i, j) \in DOMAIN chains'
               /\ chains'[PlaceOf(i, j)].step = chains[j].step
               /\ chains'[PlaceOf(i, j)].op = chains[j].op
               /\ chains'[PlaceOf(i, j)].user = chains[j].user
               /\ chains'[PlaceOf(i, j)].late =
                    (chains[j].late \/ (j < i /\ chains[j].step = "answer"))
               /\ j > i => chains'[PlaceOf(i, j)] = chains[j]
    <3>1. CASE j < i
      <4>1. j \in 1 .. i - 1 /\ PlaceOf(i, j) \in DOMAIN chains' /\ chains'[PlaceOf(i, j)] = o[j] /\ ~(j > i)
        BY <1>1, <2>3, <2>5, <3>1
      <4>2. /\ o[j].step = chains[j].step /\ o[j].op = chains[j].op /\ o[j].user = chains[j].user
            /\ o[j].late = (chains[j].late \/ chains[j].step = "answer")
        BY <1>4, <4>1
      <4> QED
        BY <3>1, <4>1, <4>2
    <3>2. CASE j > i
      <4>1. chains[j] \in Chain
        BY <1>1, ChainsSay DEF N
      <4> QED
        BY <1>1, <2>3, <2>6, <3>2, <4>1 DEF Chain
    <3> QED
      BY <1>1, <2>8, <3>1, <3>2
  <2> QED
    BY <1>1, <2>3, <2>7, <2>8
<1> QED
  BY <1>5, <1>6

LEMMA ShowLoginsKeeps == ASSUME AdminInv, NEW i \in DOMAIN chains, ShowLogins(i) PROVE AdminInv'
<1> DEFINE c == chains[i]
           N == Len(chains)
<1>1. i \in 1 .. N /\ N \in Nat /\ DOMAIN chains = 1 .. N /\ c \in Chain /\ c.step = "answer"
  BY ChainsSay DEF ShowLogins
<1>2. /\ odd' = (c.late \/ c.user # panel.user) /\ UNCHANGED open
      /\ panel' \in Panel /\ panel'.user = panel.user /\ panel'.shown = c.shown
      /\ odd' \in BOOLEAN
  BY <1>1, ChainsSay DEF ShowLogins, Panel, Chain
<1>3. /\ chains' \in Seq(Chain)
      /\ \A j \in 1 .. N : j # i =>
           /\ PlaceOf(i, j) \in DOMAIN chains'
           /\ chains'[PlaceOf(i, j)].step = chains[j].step
           /\ chains'[PlaceOf(i, j)].op = chains[j].op
           /\ chains'[PlaceOf(i, j)].user = chains[j].user
           /\ chains'[PlaceOf(i, j)].late = (chains[j].late \/ (j < i /\ chains[j].step = "answer"))
           /\ j > i => chains'[PlaceOf(i, j)] = chains[j]
      /\ \A m \in DOMAIN chains' :
           \/ chains'[m].step = "list" /\ chains'[m].op = "revoke"
           \/ \E j \in 1 .. N : j # i /\ m = PlaceOf(i, j)
  BY <1>1, ShowLoginsSays
<1>4. \A j, k \in 1 .. N : j # i /\ k # i /\ j > k => PlaceOf(i, j) > PlaceOf(i, k)
  BY <1>1 DEF PlaceOf
<1> HIDE DEF N, c
<1>5. ASSUME NEW j \in 1 .. N, LooksAgain(j), j >= i
      PROVE  \E k \in 1 .. N :
               /\ k # i
               /\ \/ chains[k].step = "read"
                  \/ chains[k].step = "answer" /\ k > j
                  \/ Emptying(chains[k]) /\ chains[k].user = chains[j].user
  <2>1. PICK k \in 1 .. N : \/ chains[k].step = "read"
                            \/ chains[k].step = "answer" /\ k > j
                            \/ Emptying(chains[k]) /\ chains[k].user = chains[j].user
    BY <1>1, <1>5 DEF LooksAgain
  <2>2. k # i
    BY <1>1, <1>5, <2>1 DEF Emptying, c
  <2> QED
    BY <2>1, <2>2
<1>6. AnswersCurrent'
  <2> SUFFICES ASSUME NEW m \in DOMAIN chains', chains'[m].step = "answer", ~chains'[m].late
               PROVE  chains'[m].shown = Held(open', chains'[m].user) \/ LooksAgain(m)'
    BY DEF AnswersCurrent, LoginsOf, Held
  <2>1. PICK j \in 1 .. N : j # i /\ m = PlaceOf(i, j)
    BY <1>3
  <2>2. j > i /\ chains'[m] = chains[j]
    <3>1. /\ chains'[m].step = chains[j].step
          /\ chains'[m].late = (chains[j].late \/ (j < i /\ chains[j].step = "answer"))
          /\ j > i => chains'[m] = chains[j]
      BY <1>3, <2>1
    <3>2. ~(j < i)
      BY <3>1
    <3> QED
      BY <1>1, <2>1, <3>1, <3>2
  <2>3. chains[j].shown = LoginsOf(chains[j].user) \/ LooksAgain(j)
    BY <1>1, <2>2 DEF AdminInv, AnswersCurrent
  <2>4. ASSUME LooksAgain(j)
        PROVE  LooksAgain(m)'
    <3>1. PICK k \in 1 .. N : /\ k # i
                              /\ \/ chains[k].step = "read"
                                 \/ chains[k].step = "answer" /\ k > j
                                 \/ Emptying(chains[k]) /\ chains[k].user = chains[j].user
      BY <1>1, <1>5, <2>2, <2>4
    <3>2. chains'[PlaceOf(i, k)].step = "answer" /\ k > j => PlaceOf(i, k) > m
      BY <1>4, <2>1, <3>1
    <3> QED
      BY <1>3, <2>2, <3>1, <3>2 DEF LooksAgain, Emptying
  <2> QED
    BY <1>2, <2>2, <2>3, <2>4 DEF LoginsOf, Held
<1>7. EmptiedIsEmpty'
  <2>1. ASSUME NEW m \in DOMAIN chains', Emptying(chains'[m]), ~chains'[m].late
        PROVE  \E j \in DOMAIN chains :
                 Emptying(chains[j]) /\ ~chains[j].late /\ chains[j].user = chains'[m].user
    <3>1. PICK j \in 1 .. N : j # i /\ m = PlaceOf(i, j)
      BY <1>3, <2>1 DEF Emptying
    <3>2. /\ chains'[m].step = chains[j].step /\ chains'[m].op = chains[j].op
          /\ chains'[m].user = chains[j].user
          /\ chains'[m].late = (chains[j].late \/ (j < i /\ chains[j].step = "answer"))
      BY <1>3, <3>1
    <3>3. Emptying(chains[j]) /\ ~chains[j].late
      BY <2>1, <3>2 DEF Emptying
    <3> QED
      BY <1>1, <3>2, <3>3
  <2> QED
    BY <1>2, <2>1, EmptiedStays
<1>8. PanelCurrent'
  <2> SUFFICES ASSUME ~c.late, c.user = panel.user, c.shown # LoginsOf(panel.user)
               PROVE  ShowsAgain'
    BY <1>2 DEF PanelCurrent, LoginsOf
  <2>1. LooksAgain(i)
    BY <1>1 DEF AdminInv, AnswersCurrent, c
  <2>2. PICK k \in 1 .. N : /\ k # i
                            /\ \/ chains[k].step = "read"
                               \/ chains[k].step = "answer" /\ k > i
                               \/ Emptying(chains[k]) /\ chains[k].user = c.user
    BY <1>1, <1>5, <2>1 DEF c
  <2> QED
    BY <1>2, <1>3, <2>2 DEF ShowsAgain, Emptying
<1> QED
  BY <1>2, <1>3, <1>6, <1>7, <1>8, ChainsSay DEF AdminInv, AdminTypeOK

LEMMA ListKeeps == ASSUME AdminInv, NEW i \in DOMAIN chains, List(i) PROVE AdminInv'
<1> DEFINE c == chains[i]
           mine == c.was = c.user
           unhidden == [panel EXCEPT !.hidden = FALSE]
<1>1. chains \in Seq(Chain) /\ i \in DOMAIN chains /\ c \in Chain /\ c.step = "list"
      /\ DOMAIN chains = 1 .. Len(chains) /\ Len(chains) \in Nat
  BY ChainsSay DEF List
<1>2. /\ odd' = (odd \/ (c.op \in {"close", "reset"} /\ (c.late \/ c.was # panel.user)))
      /\ UNCHANGED open /\ odd' \in BOOLEAN
  BY <1>1, ChainsSay DEF List, Chain
<1>3. unhidden \in Panel /\ unhidden.user = panel.user /\ unhidden.shown = panel.shown
  BY ChainsSay DEF Panel
<1>4. CASE c.op = "reset" /\ mine
  <2> DEFINE x == [c EXCEPT !.step = "read"]
  <2>1. x \in Chain /\ x.step = "read"
    BY <1>1 DEF Chain
  <2>2. GoesOn(i, x) /\ panel' = [unhidden EXCEPT !.user = c.user, !.busy = TRUE]
    BY <1>4 DEF List
  <2> HIDE DEF x
  <2>3. /\ chains' \in Seq(Chain) /\ DOMAIN chains' = DOMAIN chains /\ chains'[i] = x
        /\ \A j \in DOMAIN chains : j # i => chains'[j] = chains[j]
    BY <2>1, <2>2, GoesOnSays
  <2>4. panel' \in Panel
    BY <1>1, <1>3, <2>2 DEF Panel, Chain
  <2>5. AnswersCurrent' /\ PanelCurrent'
    BY <2>1, <2>3 DEF AnswersCurrent, LooksAgain, PanelCurrent, ShowsAgain
  <2>6. EmptiedIsEmpty'
    <3>1. \A m \in DOMAIN chains' : Emptying(chains'[m]) => m # i
      BY <2>1, <2>3 DEF Emptying
    <3> QED
      BY <1>2, <2>3, <3>1, EmptiedStays
  <2> QED
    BY <1>2, <2>3, <2>4, <2>5, <2>6, ChainsSay DEF AdminInv, AdminTypeOK
<1>5. CASE c.op = "revoke"
  <2>1. panel' = [unhidden EXCEPT !.busy = FALSE] /\ ChainEnds(i) /\ odd' = odd
    BY <1>2, <1>5, ChainsSay DEF List
  <2>2. panel' \in Panel /\ panel'.user = panel.user /\ panel'.shown = panel.shown
    BY <1>3, <2>1 DEF Panel
  <2> QED
    BY <1>1, <1>2, <1>5, <2>1, <2>2, ChainEndsGood
<1>6. CASE ~(c.op = "reset" /\ mine) /\ c.op # "revoke"
  <2> DEFINE r == RemoveAt(chains, i)
  <2>1. /\ chains' = Outdated(r)
        /\ panel' = IF c.op = "close" /\ mine THEN [unhidden EXCEPT !.shown = {}] ELSE unhidden
    BY <1>6 DEF List
  <2>2. /\ r \in Seq(Chain) /\ Len(r) = Len(chains) - 1
        /\ \A m \in 1 .. Len(chains) - 1 : r[m] = IF m < i THEN chains[m] ELSE chains[m + 1]
    <3>1. chains \in Seq(Chain) /\ i \in DOMAIN chains
      BY <1>1
    <3> QED
      BY ONLY <3>1, RemovedSays
  <2> HIDE DEF r
  <2>3. panel' \in Panel /\ panel'.user = panel.user
        /\ panel'.shown = IF c.op = "close" /\ mine THEN {} ELSE panel.shown
    BY <1>3, <2>1 DEF Panel
  <2>4. \A m \in 1 .. Len(r) : \E j \in DOMAIN chains : r[m] = chains[j]
    BY <1>1, <2>2
  <2>5. ShowsAgain => ShowsAgain' \/ (Emptying(c) /\ c.user = panel.user)
    <3> SUFFICES ASSUME NEW j \in DOMAIN chains, j # i,
                        \/ chains[j].step \in {"read", "answer"}
                        \/ Emptying(chains[j]) /\ chains[j].user = panel.user
                 PROVE  ShowsAgain'
      BY <1>1 DEF ShowsAgain
    <3>1. PICK m \in 1 .. Len(r) : r[m] = chains[j]
      <4>1. CASE j < i
        BY <1>1, <2>2, <4>1
      <4>2. CASE j > i
        <5>1. j - 1 \in 1 .. Len(r) /\ ~(j - 1 < i) /\ (j - 1) + 1 = j
          BY <1>1, <2>2, <4>2
        <5> QED
          BY <2>2, <5>1
      <4> QED
        BY <1>1, <4>1, <4>2
    <3>2. /\ DOMAIN chains' = 1 .. Len(r) /\ chains'[m].step = r[m].step
          /\ chains'[m].op = r[m].op /\ chains'[m].user = r[m].user
      <4> DEFINE o == Outdated(r)
      <4>1. o \in Seq(Chain) /\ Len(o) = Len(r)
            /\ o[m].step = r[m].step /\ o[m].op = r[m].op /\ o[m].user = r[m].user
        BY <2>2, OutdatedSays
      <4> HIDE DEF o
      <4>2. chains' = o
        BY <2>1 DEF o
      <4> QED
        BY <4>1, <4>2
    <3> QED
      BY <2>3, <3>1, <3>2 DEF ShowsAgain, Emptying
  <2>6. PanelCurrent'
    <3> SUFFICES ASSUME ~odd', panel.user # NoUser
                 PROVE  panel'.shown = LoginsOf(panel.user) \/ ShowsAgain'
      BY <1>2, <2>3 DEF PanelCurrent, LoginsOf
    <3>1. ~odd /\ (c.op \in {"close", "reset"} => ~c.late /\ c.was = panel.user)
      BY <1>2
    <3>2. CASE c.op = "close" /\ mine
      <4>1. LoginsOf(c.user) = {}
        BY <1>1, <3>1, <3>2 DEF AdminInv, EmptiedIsEmpty, Emptying
      <4> QED
        BY <2>3, <3>1, <3>2, <4>1
    <3>3. CASE ~(c.op = "close" /\ mine)
      <4>1. panel.shown = LoginsOf(panel.user) \/ ShowsAgain
        BY <3>1 DEF AdminInv, PanelCurrent
      <4>2. ~(Emptying(c) /\ c.user = panel.user)
        BY <1>6, <3>1, <3>3 DEF Emptying
      <4> QED
        BY <2>3, <2>5, <3>3, <4>1, <4>2
    <3> QED
      BY <3>2, <3>3
  <2>7. open' \in SUBSET Logins /\ open' \subseteq open
    BY <1>2, ChainsSay
  <2> QED
    BY <1>2, <2>1, <2>2, <2>3, <2>4, <2>6, <2>7, OutdatedGood
<1> QED
  BY <1>4, <1>5, <1>6

(* Somebody logs in or out: no answer on its way counts.                   *)
LEMMA SurpriseKeeps ==
    ASSUME AdminInv, NEW s \in Logins, LogIn(s) \/ LogOut(s)
    PROVE  AdminInv'
<1> DEFINE F == [n \in 1 .. Len(chains) |->
                   [chains[n] EXCEPT !.late = @ \/ chains[n].step \in {"answer", "list"}]]
<1>1. /\ chains' = F /\ odd' = TRUE /\ UNCHANGED panel
      /\ open' \in SUBSET Logins
  BY ChainsSay DEF LogIn, LogOut, Surprise
<1>2. \A n \in 1 .. Len(chains) :
        /\ F[n] \in Chain /\ F[n].step = chains[n].step
        /\ F[n].step \in {"answer", "list"} => F[n].late
  BY ChainsSay DEF Chain
<1>3. F \in Seq(Chain) /\ DOMAIN F = 1 .. Len(chains)
  <2>1. F \in [1 .. Len(chains) -> Chain] /\ Len(chains) \in Nat
    BY <1>2, ChainsSay
  <2> HIDE DEF F
  <2> QED
    BY <2>1
<1> HIDE DEF F
<1>4. AnswersCurrent' /\ EmptiedIsEmpty'
  BY <1>1, <1>2, <1>3 DEF AnswersCurrent, EmptiedIsEmpty, Emptying
<1> QED
  BY <1>1, <1>3, <1>4, ChainsSay DEF AdminInv, AdminTypeOK, PanelCurrent

LEMMA AdminStarts == AdminInit => AdminInv
<1> SUFFICES ASSUME AdminInit PROVE AdminInv
  OBVIOUS
<1>1. chains = <<>> /\ panel.user = NoUser /\ open \in SUBSET Logins /\ odd \in BOOLEAN
  BY DEF AdminInit
<1>2. panel \in Panel
  <2>1. {} \in SUBSET Logins
    OBVIOUS
  <2> QED
    BY <2>1 DEF AdminInit, Panel
<1>3. chains \in Seq(Chain)
  BY <1>1
<1>4. DOMAIN chains = {}
  BY <1>1
<1> QED
  BY <1>1, <1>2, <1>3, <1>4 DEF AdminInv, AdminTypeOK, AnswersCurrent, EmptiedIsEmpty, PanelCurrent

LEMMA AdminSteps == AdminInv /\ [AdminNext]_adminVars => AdminInv'
<1> SUFFICES ASSUME AdminInv, [AdminNext]_adminVars PROVE AdminInv'
  OBVIOUS
<1>1. CASE UNCHANGED adminVars
  BY <1>1 DEF adminVars, AdminInv, AdminTypeOK, AnswersCurrent, LooksAgain, EmptiedIsEmpty,
     PanelCurrent, ShowsAgain, LoginsOf
<1> QED
  BY <1>1, ClickKeeps, ActKeeps, LookKeeps, ShowLoginsKeeps, ListKeeps, ChainFailsKeeps,
     SurpriseKeeps DEF AdminNext

(* The invariant holds of the panel, whatever is clicked, revoked, lost    *)
(* and overtaken.                                                          *)
THEOREM AdminInvariance == AdminSpec => []AdminInv
BY AdminStarts, AdminSteps, PTL DEF AdminSpec

LEMMA PanelFollows == AdminInv => PanelCatchesUp
BY DEF AdminInv, PanelCatchesUp, PanelCurrent, ShowsAgain

-----------------------------------------------------------------------------
(* The line: its jobs are queued, each is there once, none is in hand.     *)
LineGood ==
    /\ \A i \in 1 .. Len(memQueue) :
         /\ memQueue[i] \in DOMAIN memJob /\ memQueue[i] # hand
         /\ memJob[memQueue[i]].status = "queued"
    /\ \A i, n \in 1 .. Len(memQueue) : memQueue[i] = memQueue[n] => i = n

(* What is queued is in line or in hand, what is processed is in hand.     *)
CarriedGood ==
    /\ busy => hand # Nobody
    /\ hand # Nobody =>
         /\ hand \in DOMAIN memJob
         /\ memJob[hand].status = IF busy THEN "processing" ELSE "queued"
    /\ \A j \in DOMAIN memJob : memJob[j].status = "queued" /\ j # hand =>
         \E i \in 1 .. Len(memQueue) : memQueue[i] = j
    /\ \A j \in DOMAIN memJob : memJob[j].status = "processing" => busy /\ j = hand

(* What is said of a job is in its record; what is queued has an attempt   *)
(* left, and what was never said to exist has had none.                    *)
ToldGood ==
    /\ \A j \in DOMAIN memJob :
         /\ told[j].status = memJob[j].status /\ told[j].attempts = memJob[j].attempts
         /\ memJob[j].status = "queued" => memJob[j].attempts < MemRetries
    /\ \A j \in MemJobs : told[j].status = "absent" => told[j].attempts = 0

KeysGood ==
    \A k \in DOMAIN memKey : ~memKey[k].old =>
      memKey[k].job \in DOMAIN memJob /\ ~memJob[memKey[k].job].old

(* The inductive invariant.                                                *)
MemoryInv == MemoryTypeOK /\ LineGood /\ CarriedGood /\ ToldGood /\ KeysGood

-----------------------------------------------------------------------------
LEMMA StartsGood == MemoryInit => MemoryInv
<1> SUFFICES ASSUME MemoryInit PROVE MemoryInv
  OBVIOUS
<1>1. /\ DOMAIN memJob = {} /\ DOMAIN memKey = {} /\ memQueue \in Seq(MemJobs)
      /\ 1 .. Len(memQueue) = {}
  BY DEF MemoryInit
<1>2. [status |-> "absent", attempts |-> 0] \in Told
  BY MemoryAssumption DEF Told
<1>3. MemoryTypeOK
  BY <1>1, <1>2 DEF MemoryInit, MemoryTypeOK
<1>4. LineGood /\ CarriedGood /\ ToldGood /\ KeysGood
  BY <1>1 DEF MemoryInit, LineGood, CarriedGood, ToldGood, KeysGood
<1> QED
  BY <1>3, <1>4 DEF MemoryInv

(* Removing a set of jobs that are finished and old, and old keys.         *)
LEMMA CleanUpGood == MemoryInv /\ CleanUp => MemoryInv'
<1> SUFFICES ASSUME MemoryInv, CleanUp PROVE MemoryInv'
  OBVIOUS
<1> USE DEF CleanUp, OnlyOf, MemoryInv
<1>1. /\ DOMAIN memJob' = JobsKept /\ \A j \in JobsKept : memJob'[j] = memJob[j]
      /\ DOMAIN memKey' = KeysKept /\ \A k \in KeysKept : memKey'[k] = memKey[k]
      /\ JobsKept \subseteq DOMAIN memJob /\ KeysKept \subseteq DOMAIN memKey
  BY DEF JobsKept, KeysKept
<1>2. \A j \in DOMAIN memJob : memJob[j].status = "queued" \/ ~memJob[j].old => j \in JobsKept
  BY DEF JobsKept, Ended
<1>3. MemoryTypeOK'
  BY <1>1 DEF MemoryTypeOK
<1>4. LineGood'
  BY <1>1, <1>2 DEF LineGood
<1>5. CarriedGood'
  BY <1>1, <1>2 DEF CarriedGood
<1>6. ToldGood'
  BY <1>1 DEF ToldGood
<1>7. KeysGood'
  BY <1>1, <1>2 DEF KeysGood, KeysKept
<1> QED
  BY <1>3, <1>4, <1>5, <1>6, <1>7

(* One more job in line.                                                   *)
LEMMA AppendLine ==
    ASSUME NEW j, NEW S, NEW s \in Seq(S), j \in S
    PROVE  /\ Append(s, j) \in Seq(S)
           /\ Len(Append(s, j)) = Len(s) + 1
           /\ \A i \in 1 .. Len(s) : Append(s, j)[i] = s[i]
           /\ Append(s, j)[Len(s) + 1] = j
OBVIOUS

LEMMA SubmitGood ==
    ASSUME MemoryInv, NEW j \in MemJobs, NEW k \in MemKeys, Submit(j, k)
    PROVE  MemoryInv'
<1> USE DEF MemoryInv
<1> DEFINE new == [status |-> "queued", attempts |-> 0, old |-> FALSE]
           row == [job |-> j, old |-> FALSE]
<1>0. ~busy /\ hand' = hand /\ busy' = busy
  BY DEF Submit
<1>1. /\ DOMAIN memJob' = JobsKept \cup {j} /\ memJob'[j] = new
      /\ \A i \in JobsKept : i # j => memJob'[i] = memJob[i]
      /\ JobsKept \subseteq DOMAIN memJob
  BY DEF Submit, With, OnlyOf, JobsKept
<1>2. /\ DOMAIN memKey' = KeysKept \cup {k} /\ memKey'[k] = row
      /\ \A i \in KeysKept : i # k => memKey'[i] = memKey[i]
      /\ KeysKept \subseteq DOMAIN memKey
  BY DEF Submit, With, OnlyOf, KeysKept
<1>3. j \notin DOMAIN memJob
  <2>1. told[j].status = "absent"
    BY DEF Submit
  <2> QED
    BY <2>1 DEF ToldGood, MemoryTypeOK, MemJob
<1>4. \A i \in DOMAIN memJob : memJob[i].status = "queued" \/ ~memJob[i].old => i \in JobsKept
  BY DEF JobsKept, Ended
<1>5. memQueue \in Seq(MemJobs) /\ Len(memQueue) \in Nat /\ memQueue' = Append(memQueue, j)
  BY DEF Submit, MemoryTypeOK
<1>6. /\ memQueue' \in Seq(MemJobs)
      /\ Len(memQueue') = Len(memQueue) + 1
      /\ \A i \in 1 .. Len(memQueue) : memQueue'[i] = memQueue[i]
      /\ memQueue'[Len(memQueue) + 1] = j
  BY <1>5, AppendLine
<1>7. /\ told' \in [MemJobs -> Told]
      /\ told'[j] = [status |-> "queued", attempts |-> 0]
      /\ \A i \in MemJobs : i # j => told'[i] = told[i]
  <2>1. told \in [MemJobs -> Told] /\ told[j].status = "absent" /\ told[j].attempts = 0
        /\ told' = [told EXCEPT ![j].status = "queued"]
    BY DEF Submit, ToldGood, MemoryTypeOK
  <2> QED
    BY <2>1 DEF Told
<1>8. MemoryTypeOK'
  <2>1. new \in MemJob
    BY MemoryAssumption DEF MemJob
  <2>2. DOMAIN memJob' \subseteq MemJobs /\ \A i \in DOMAIN memJob' : memJob'[i] \in MemJob
    BY <1>1, <2>1 DEF MemoryTypeOK
  <2>3. /\ DOMAIN memKey' \subseteq MemKeys
        /\ \A i \in DOMAIN memKey' : memKey'[i] \in [job : MemJobs, old : BOOLEAN]
    <3>1. row \in [job : MemJobs, old : BOOLEAN]
      OBVIOUS
    <3> QED
      BY <1>2, <3>1 DEF MemoryTypeOK
  <2> QED
    BY <1>0, <1>6, <1>7, <2>2, <2>3 DEF MemoryTypeOK
<1>9. LineGood'
  <2>1. \A i \in 1 .. Len(memQueue) : memQueue[i] # j /\ memQueue[i] \in JobsKept
    BY <1>3, <1>4 DEF LineGood
  <2>2. hand # j
    BY <1>3, MemoryAssumption DEF CarriedGood
  <2>3. \A i \in 1 .. Len(memQueue') :
          i \in 1 .. Len(memQueue) \/ i = Len(memQueue) + 1
    BY <1>5, <1>6
  <2>4. \A i \in 1 .. Len(memQueue') :
          /\ memQueue'[i] \in DOMAIN memJob' /\ memQueue'[i] # hand'
          /\ memJob'[memQueue'[i]].status = "queued"
    <3> SUFFICES ASSUME NEW i \in 1 .. Len(memQueue')
                 PROVE  /\ memQueue'[i] \in DOMAIN memJob' /\ memQueue'[i] # hand'
                        /\ memJob'[memQueue'[i]].status = "queued"
      OBVIOUS
    <3>1. CASE i \in 1 .. Len(memQueue)
      BY <3>1, <1>0, <1>1, <1>6, <2>1 DEF LineGood
    <3>2. CASE i = Len(memQueue) + 1
      BY <3>2, <1>0, <1>1, <1>6, <2>2
    <3> QED
      BY <2>3, <3>1, <3>2
  <2>5. \A i, n \in 1 .. Len(memQueue') : memQueue'[i] = memQueue'[n] => i = n
    BY <1>6, <2>1, <2>3 DEF LineGood
  <2> QED
    BY <2>4, <2>5 DEF LineGood
<1>10. CarriedGood'
  <2>1. hand # Nobody => hand \in JobsKept /\ hand # j
    BY <1>0, <1>3, <1>4 DEF CarriedGood
  <2>2. \A i \in DOMAIN memJob' : memJob'[i].status = "queued" /\ i # hand' =>
          \E n \in 1 .. Len(memQueue') : memQueue'[n] = i
    <3> SUFFICES ASSUME NEW i \in DOMAIN memJob', memJob'[i].status = "queued", i # hand'
                 PROVE  \E n \in 1 .. Len(memQueue') : memQueue'[n] = i
      OBVIOUS
    <3>1. CASE i = j
      BY <3>1, <1>5, <1>6
    <3>2. CASE i # j
      <4>1. \E n \in 1 .. Len(memQueue) : memQueue[n] = i
        BY <3>2, <1>0, <1>1 DEF CarriedGood
      <4> QED
        BY <4>1, <1>5, <1>6
    <3> QED
      BY <3>1, <3>2
  <2>3. \A i \in DOMAIN memJob' : memJob'[i].status = "processing" => busy' /\ i = hand'
    BY <1>0, <1>1 DEF CarriedGood
  <2> QED
    BY <1>0, <1>1, <2>1, <2>2, <2>3 DEF CarriedGood
<1>11. ToldGood'
  BY <1>1, <1>3, <1>7, MemoryAssumption DEF ToldGood, MemoryTypeOK
<1>12. KeysGood'
  BY <1>1, <1>2, <1>3, <1>4 DEF KeysGood, KeysKept
<1> QED
  BY <1>8, <1>9, <1>10, <1>11, <1>12

LEMMA KeyAgesGood ==
    ASSUME MemoryInv, NEW k \in MemKeys, KeyAges(k)
    PROVE  MemoryInv'
<1>1. /\ DOMAIN memKey' = DOMAIN memKey
      /\ k \in DOMAIN memKey /\ memKey'[k] = [memKey[k] EXCEPT !.old = TRUE]
      /\ \A i \in DOMAIN memKey : i # k => memKey'[i] = memKey[i]
      /\ UNCHANGED <<memJob, memQueue, hand, busy, told>>
  BY DEF KeyAges, KeysKept
<1>2. memKey'[k] \in [job : MemJobs, old : BOOLEAN] /\ memKey'[k].old
  BY <1>1 DEF MemoryInv, MemoryTypeOK
<1>3. MemoryTypeOK'
  BY <1>1, <1>2 DEF MemoryInv, MemoryTypeOK
<1>4. LineGood' /\ CarriedGood' /\ ToldGood'
  BY <1>1 DEF MemoryInv, LineGood, CarriedGood, ToldGood
<1>5. KeysGood'
  BY <1>1, <1>2 DEF MemoryInv, KeysGood
<1> QED
  BY <1>3, <1>4, <1>5 DEF MemoryInv

LEMMA JobAgesGood ==
    ASSUME MemoryInv, NEW j \in DOMAIN memJob, JobAges(j)
    PROVE  MemoryInv'
<1>1. /\ DOMAIN memJob' = DOMAIN memJob
      /\ memJob'[j] = [memJob[j] EXCEPT !.old = TRUE]
      /\ \A i \in DOMAIN memJob : i # j => memJob'[i] = memJob[i]
      /\ UNCHANGED <<memQueue, memKey, hand, busy, told>>
      /\ \A k \in DOMAIN memKey : ~memKey[k].old => memKey[k].job # j
  BY DEF JobAges, KeysKept
<1>2. /\ \A i \in DOMAIN memJob : memJob[i] \in MemJob
      /\ memJob[j] \in MemJob
  BY DEF MemoryInv, MemoryTypeOK
<1>3. \A i \in DOMAIN memJob : /\ memJob'[i] \in MemJob
                               /\ memJob'[i].status = memJob[i].status
                               /\ memJob'[i].attempts = memJob[i].attempts
  BY <1>1, <1>2 DEF MemJob
<1>4. MemoryTypeOK'
  BY <1>1, <1>3 DEF MemoryInv, MemoryTypeOK
<1>5. LineGood' /\ CarriedGood'
  BY <1>1, <1>3 DEF MemoryInv, LineGood, CarriedGood
<1>6. ToldGood' /\ KeysGood'
  BY <1>1, <1>3 DEF MemoryInv, ToldGood, KeysGood
<1> QED
  BY <1>4, <1>5, <1>6 DEF MemoryInv

(* One job less in line.                                                   *)
LEMMA TailLine ==
    ASSUME NEW S, NEW s \in Seq(S), s # <<>>
    PROVE  /\ Head(s) = s[1] /\ Len(s) \in Nat \ {0} /\ Head(s) \in S
           /\ Tail(s) \in Seq(S) /\ Len(Tail(s)) = Len(s) - 1
           /\ \A i \in 1 .. Len(s) - 1 : Tail(s)[i] = s[i + 1]
OBVIOUS

LEMMA PullGood == MemoryInv /\ Pull => MemoryInv'
<1> SUFFICES ASSUME MemoryInv, Pull PROVE MemoryInv'
  OBVIOUS
<1> USE DEF MemoryInv
<1>1. /\ memQueue \in Seq(MemJobs) /\ memQueue # <<>> /\ memQueue' = Tail(memQueue)
      /\ hand = Nobody /\ hand' = Head(memQueue)
      /\ UNCHANGED <<memJob, memKey, busy, told>>
  BY DEF Pull, MemoryTypeOK
<1>2. /\ Len(memQueue) \in Nat \ {0} /\ hand' = memQueue[1] /\ hand' \in MemJobs
      /\ memQueue' \in Seq(MemJobs) /\ Len(memQueue') = Len(memQueue) - 1
      /\ \A i \in 1 .. Len(memQueue) - 1 : memQueue'[i] = memQueue[i + 1]
  BY <1>1, TailLine
<1>3. ~busy
  BY <1>1 DEF CarriedGood
<1>4. hand' \in DOMAIN memJob /\ memJob[hand'].status = "queued"
  BY <1>2 DEF LineGood
<1>5. MemoryTypeOK'
  BY <1>1, <1>2 DEF MemoryTypeOK
<1>6. LineGood'
  BY <1>1, <1>2 DEF LineGood
<1>7. CarriedGood'
  <2>1. \A j \in DOMAIN memJob : memJob[j].status = "queued" /\ j # hand' =>
          \E i \in 1 .. Len(memQueue') : memQueue'[i] = j
    <3> SUFFICES ASSUME NEW j \in DOMAIN memJob, memJob[j].status = "queued", j # hand'
                 PROVE  \E i \in 1 .. Len(memQueue') : memQueue'[i] = j
      OBVIOUS
    <3>1. j # hand
      BY <1>1, MemoryAssumption DEF MemoryTypeOK
    <3>2. PICK n \in 1 .. Len(memQueue) : memQueue[n] = j
      BY <3>1 DEF CarriedGood
    <3>3. n - 1 \in 1 .. Len(memQueue') /\ memQueue'[n - 1] = j
      BY <1>2, <3>2
    <3> QED
      BY <3>3
  <2> QED
    BY <1>1, <1>3, <1>4, <2>1 DEF CarriedGood
<1>8. ToldGood' /\ KeysGood'
  BY <1>1 DEF ToldGood, KeysGood
<1> QED
  BY <1>5, <1>6, <1>7, <1>8

-----------------------------------------------------------------------------
(* The job in hand gets a new status.                                      *)
LEMMA BecomesSays ==
    ASSUME MemoryInv, hand # Nobody, NEW s \in {"queued", "processing", "completed", "failed"},
           NEW n \in 0 .. MemRetries, Becomes(hand, s, n),
           s = "queued" => n < MemRetries
    PROVE  /\ hand \in DOMAIN memJob /\ hand \in MemJobs
           /\ DOMAIN memJob' = DOMAIN memJob
           /\ memJob'[hand] = [status |-> s, attempts |-> n, old |-> FALSE]
           /\ \A j \in DOMAIN memJob : j # hand => memJob'[j] = memJob[j]
           /\ \A j \in DOMAIN memJob : memJob'[j] \in MemJob
           /\ told' \in [MemJobs -> Told]
           /\ ToldGood'
           /\ memKey' = memKey => KeysGood'
<1> USE DEF MemoryInv
<1>1. hand \in DOMAIN memJob /\ hand \in MemJobs
  BY DEF CarriedGood, MemoryTypeOK
<1>2. /\ DOMAIN memJob' = DOMAIN memJob
      /\ memJob'[hand] = [status |-> s, attempts |-> n, old |-> FALSE]
      /\ \A j \in DOMAIN memJob : j # hand => memJob'[j] = memJob[j]
  BY <1>1 DEF Becomes
<1>3. \A j \in DOMAIN memJob : memJob'[j] \in MemJob
  <2>1. [status |-> s, attempts |-> n, old |-> FALSE] \in MemJob
    BY DEF MemJob
  <2> QED
    BY <1>2, <2>1 DEF MemoryTypeOK
<1>4. /\ told' \in [MemJobs -> Told]
      /\ told'[hand] = [status |-> s, attempts |-> n]
      /\ \A j \in MemJobs : j # hand => told'[j] = told[j]
  <2>1. [status |-> s, attempts |-> n] \in Told
    BY DEF Told
  <2> QED
    BY <1>1, <2>1 DEF Becomes, MemoryTypeOK
<1>5. ToldGood'
  BY <1>1, <1>2, <1>4 DEF ToldGood, MemoryTypeOK
<1>6. memKey' = memKey => KeysGood'
  BY <1>2 DEF KeysGood
<1> QED
  BY <1>1, <1>2, <1>3, <1>4, <1>5, <1>6

LEMMA GenerateGood == MemoryInv /\ Generate => MemoryInv'
<1> SUFFICES ASSUME MemoryInv, Generate PROVE MemoryInv'
  OBVIOUS
<1> USE DEF MemoryInv
<1> DEFINE n == memJob[hand].attempts + 1
<1>1. /\ hand # Nobody /\ ~busy /\ busy' /\ Becomes(hand, "processing", n)
      /\ UNCHANGED <<memQueue, memKey, hand>> /\ busy' = TRUE
  BY DEF Generate
<1>2. n \in 0 .. MemRetries
  <2>1. hand \in DOMAIN memJob /\ memJob[hand].status = "queued"
    BY <1>1 DEF CarriedGood
  <2>2. memJob[hand].attempts \in 0 .. MemRetries /\ memJob[hand].attempts < MemRetries
    BY <2>1 DEF MemoryTypeOK, MemJob, ToldGood
  <2> QED
    BY <2>2, MemoryAssumption
<1> HIDE DEF n
<1>3. /\ hand \in DOMAIN memJob /\ hand \in MemJobs
      /\ DOMAIN memJob' = DOMAIN memJob
      /\ memJob'[hand] = [status |-> "processing", attempts |-> n, old |-> FALSE]
      /\ \A j \in DOMAIN memJob : j # hand => memJob'[j] = memJob[j]
      /\ \A j \in DOMAIN memJob : memJob'[j] \in MemJob
      /\ told' \in [MemJobs -> Told] /\ ToldGood' /\ KeysGood'
  BY <1>1, <1>2, BecomesSays
<1>4. MemoryTypeOK'
  BY <1>1, <1>3 DEF MemoryTypeOK
<1>5. LineGood'
  BY <1>1, <1>3 DEF LineGood
<1>6. CarriedGood'
  BY <1>1, <1>3 DEF CarriedGood
<1> QED
  BY <1>3, <1>4, <1>5, <1>6

(* The worker has ended the job in hand.                                   *)
LEMMA EndGood ==
    ASSUME MemoryInv, hand # Nobody, busy, NEW s \in {"completed", "failed"},
           Becomes(hand, s, memJob[hand].attempts),
           busy' = FALSE, hand' = Nobody, UNCHANGED <<memQueue, memKey>>
    PROVE  MemoryInv'
<1> USE DEF MemoryInv
<1> DEFINE n == memJob[hand].attempts
<1>1. n \in 0 .. MemRetries
  BY DEF CarriedGood, MemoryTypeOK, MemJob
<1> HIDE DEF n
<1>2. Becomes(hand, s, n)
  BY DEF n
<1>3. /\ hand \in DOMAIN memJob /\ hand \in MemJobs
      /\ DOMAIN memJob' = DOMAIN memJob
      /\ memJob'[hand] = [status |-> s, attempts |-> n, old |-> FALSE]
      /\ \A j \in DOMAIN memJob : j # hand => memJob'[j] = memJob[j]
      /\ \A j \in DOMAIN memJob : memJob'[j] \in MemJob
      /\ told' \in [MemJobs -> Told] /\ ToldGood' /\ KeysGood'
  BY <1>1, <1>2, BecomesSays
<1>4. MemoryTypeOK'
  BY <1>3 DEF MemoryTypeOK
<1>5. LineGood'
  <2>1. \A i \in 1 .. Len(memQueue) : memQueue[i] # Nobody
    BY MemoryAssumption DEF LineGood, MemoryTypeOK
  <2> QED
    BY <1>3, <2>1 DEF LineGood
<1>6. CarriedGood'
  BY <1>3 DEF CarriedGood
<1> QED
  BY <1>3, <1>4, <1>5, <1>6

LEMMA GeneratedGood == MemoryInv /\ Generated => MemoryInv'
<1> SUFFICES ASSUME MemoryInv, Generated PROVE MemoryInv'
  OBVIOUS
<1>1. hand # Nobody
  BY DEF MemoryInv, CarriedGood, Generated
<1> QED
  BY <1>1, EndGood DEF Generated

LEMMA GenerationFailsGood == MemoryInv /\ GenerationFails => MemoryInv'
<1> SUFFICES ASSUME MemoryInv, GenerationFails PROVE MemoryInv'
  OBVIOUS
<1> DEFINE n == memJob[hand].attempts
<1>1. hand # Nobody /\ busy
  BY DEF MemoryInv, CarriedGood, GenerationFails
<1>2. CASE ~(n < MemRetries)
  <2>1. Becomes(hand, "failed", n) /\ busy' = FALSE /\ hand' = Nobody /\ UNCHANGED <<memQueue, memKey>>
    BY <1>2 DEF GenerationFails
  <2> QED
    BY <1>1, <2>1, EndGood
<1>3. CASE n < MemRetries
  <2>1. /\ Becomes(hand, "queued", n) /\ busy' = FALSE /\ hand' = Nobody /\ UNCHANGED memKey
        /\ memQueue' = Append(memQueue, hand) /\ n < MemRetries
    BY <1>3 DEF GenerationFails
  <2>2. n \in 0 .. MemRetries /\ hand \in MemJobs /\ memQueue \in Seq(MemJobs) /\ Len(memQueue) \in Nat
    BY <1>1 DEF MemoryInv, CarriedGood, MemoryTypeOK, MemJob
  <2> HIDE DEF n
  <2>3. /\ hand \in DOMAIN memJob
        /\ DOMAIN memJob' = DOMAIN memJob
        /\ memJob'[hand] = [status |-> "queued", attempts |-> n, old |-> FALSE]
        /\ \A j \in DOMAIN memJob : j # hand => memJob'[j] = memJob[j]
        /\ \A j \in DOMAIN memJob : memJob'[j] \in MemJob
        /\ told' \in [MemJobs -> Told] /\ ToldGood' /\ KeysGood'
    BY <1>1, <2>1, <2>2, BecomesSays
  <2>4. /\ memQueue' \in Seq(MemJobs)
        /\ Len(memQueue') = Len(memQueue) + 1
        /\ \A i \in 1 .. Len(memQueue) : memQueue'[i] = memQueue[i]
        /\ memQueue'[Len(memQueue) + 1] = hand
    BY <2>1, <2>2, AppendLine
  <2>5. \A i \in 1 .. Len(memQueue') : i \in 1 .. Len(memQueue) \/ i = Len(memQueue) + 1
    BY <2>2, <2>4
  <2>6. MemoryTypeOK'
    BY <2>1, <2>3, <2>4 DEF MemoryInv, MemoryTypeOK
  <2>7. LineGood'
    <3>1. \A i \in 1 .. Len(memQueue') :
            /\ memQueue'[i] \in DOMAIN memJob' /\ memQueue'[i] # hand'
            /\ memJob'[memQueue'[i]].status = "queued"
      <4> SUFFICES ASSUME NEW i \in 1 .. Len(memQueue')
                   PROVE  /\ memQueue'[i] \in DOMAIN memJob' /\ memQueue'[i] # hand'
                          /\ memJob'[memQueue'[i]].status = "queued"
        OBVIOUS
      <4>1. memQueue'[i] # Nobody
        BY <2>4, MemoryAssumption
      <4>2. CASE i \in 1 .. Len(memQueue)
        BY <4>1, <4>2, <2>1, <2>3, <2>4 DEF MemoryInv, LineGood
      <4>3. CASE i = Len(memQueue) + 1
        BY <4>1, <4>3, <2>1, <2>3, <2>4
      <4> QED
        BY <2>5, <4>2, <4>3
    <3>2. \A i, k \in 1 .. Len(memQueue') : memQueue'[i] = memQueue'[k] => i = k
      BY <2>4, <2>5 DEF MemoryInv, LineGood
    <3> QED
      BY <3>1, <3>2 DEF LineGood
  <2>8. CarriedGood'
    <3>1. \A j \in DOMAIN memJob' : memJob'[j].status = "queued" =>
            \E i \in 1 .. Len(memQueue') : memQueue'[i] = j
      <4> SUFFICES ASSUME NEW j \in DOMAIN memJob', memJob'[j].status = "queued"
                   PROVE  \E i \in 1 .. Len(memQueue') : memQueue'[i] = j
        OBVIOUS
      <4>1. CASE j = hand
        BY <4>1, <2>2, <2>4
      <4>2. CASE j # hand
        <5>1. \E i \in 1 .. Len(memQueue) : memQueue[i] = j
          BY <4>2, <2>3 DEF MemoryInv, CarriedGood
        <5> QED
          BY <5>1, <2>2, <2>4
      <4> QED
        BY <4>1, <4>2
    <3> QED
      BY <2>1, <2>3, <3>1 DEF MemoryInv, CarriedGood
  <2> QED
    BY <2>3, <2>6, <2>7, <2>8 DEF MemoryInv
<1> QED
  BY <1>2, <1>3

LEMMA MemoryLostGood == MemoryInv /\ MemoryLost => MemoryInv'
<1> SUFFICES ASSUME MemoryInv, MemoryLost PROVE MemoryInv'
  OBVIOUS
<1>1. /\ memJob' = <<>> /\ memQueue' = <<>> /\ memKey' = <<>>
      /\ hand' = Nobody /\ busy' = FALSE /\ told' = told
  BY DEF MemoryLost
<1>2. /\ DOMAIN memJob' = {} /\ DOMAIN memKey' = {} /\ memQueue' \in Seq(MemJobs)
      /\ 1 .. Len(memQueue') = {}
  BY <1>1
<1>3. MemoryTypeOK'
  BY <1>1, <1>2 DEF MemoryInv, MemoryTypeOK
<1>4. LineGood' /\ CarriedGood' /\ KeysGood'
  BY <1>1, <1>2 DEF LineGood, CarriedGood, KeysGood
<1>5. ToldGood'
  BY <1>1, <1>2 DEF MemoryInv, ToldGood
<1> QED
  BY <1>3, <1>4, <1>5 DEF MemoryInv

LEMMA StepGood == MemoryInv /\ [MemoryNext]_memoryVars => MemoryInv'
<1> SUFFICES ASSUME MemoryInv, [MemoryNext]_memoryVars PROVE MemoryInv'
  OBVIOUS
<1>1. CASE UNCHANGED memoryVars
  BY <1>1 DEF memoryVars, MemoryInv, MemoryTypeOK, LineGood, CarriedGood, ToldGood, KeysGood
<1>2. CASE \E j \in MemJobs, k \in MemKeys : Submit(j, k)
  BY <1>2, SubmitGood
<1>3. CASE \E k \in MemKeys : KeyAges(k)
  BY <1>3, KeyAgesGood
<1>4. CASE \E j \in DOMAIN memJob : JobAges(j)
  BY <1>4, JobAgesGood
<1> QED
  BY <1>1, <1>2, <1>3, <1>4, CleanUpGood, PullGood, GenerateGood, GeneratedGood,
     GenerationFailsGood, MemoryLostGood
  DEF MemoryNext

(* The invariant holds whenever the process ends.                          *)
THEOREM MemoryInvariance == MemorySpec => []MemoryInv
BY StartsGood, StepGood, PTL DEF MemorySpec

-----------------------------------------------------------------------------
(* What is removed is never needed (main.py:341-357, 396-410).             *)
THEOREM NothingRemoved == MemorySpec => []NothingNeededIsRemoved
<1>1. MemoryInv => NothingNeededIsRemoved
  <2> SUFFICES ASSUME MemoryInv PROVE NothingNeededIsRemoved
    OBVIOUS
  <2> USE DEF MemoryInv
  <2>0. DOMAIN memQueue = 1 .. Len(memQueue)
    BY DEF MemoryTypeOK
  <2>1. \A j \in DOMAIN memJob : ~Ended(j) =>
          IF j = hand THEN \A i \in DOMAIN memQueue : memQueue[i] # j
          ELSE \E i \in DOMAIN memQueue : \A n \in DOMAIN memQueue : (memQueue[n] = j) <=> (n = i)
    <3> SUFFICES ASSUME NEW j \in DOMAIN memJob, ~Ended(j)
                 PROVE  IF j = hand THEN \A i \in DOMAIN memQueue : memQueue[i] # j
                        ELSE \E i \in DOMAIN memQueue :
                               \A n \in DOMAIN memQueue : (memQueue[n] = j) <=> (n = i)
      OBVIOUS
    <3>1. CASE j = hand
      BY <2>0, <3>1 DEF LineGood
    <3>2. CASE j # hand
      <4>1. memJob[j].status = "queued"
        BY <3>2 DEF Ended, MemoryTypeOK, MemJob, CarriedGood
      <4>2. PICK i \in 1 .. Len(memQueue) : memQueue[i] = j
        BY <3>2, <4>1 DEF CarriedGood
      <4> QED
        BY <2>0, <3>2, <4>2 DEF LineGood
    <3> QED
      BY <3>1, <3>2
  <2> QED
    BY <2>0, <2>1 DEF NothingNeededIsRemoved, LineGood, CarriedGood, KeysGood, KeysKept
<1> QED
  BY MemoryInvariance, <1>1, PTL

-----------------------------------------------------------------------------
(* A job moves in DocxJob as it does in what is said of it.                *)
LEMMA MoveSays ==
    ASSUME told \in [MemJobs -> Told], NEW j \in MemJobs, NEW s, NEW n,
           told' = [told EXCEPT ![j] = [status |-> s, attempts |-> n]]
    PROVE  /\ [i \in MemJobs |-> told'[i].status] =
                [[i \in MemJobs |-> told[i].status] EXCEPT ![j] = s]
           /\ [i \in MemJobs |-> told'[i].attempts] =
                [[i \in MemJobs |-> told[i].attempts] EXCEPT ![j] = n]
OBVIOUS

LEMMA StepImplements ==
    MemoryInv /\ [MemoryNext]_memoryVars => [Job!JobNext]_(Job!jobVars)
<1> SUFFICES ASSUME MemoryInv, [MemoryNext]_memoryVars PROVE [Job!JobNext]_(Job!jobVars)
  OBVIOUS
<1> USE DEF MemoryInv
<1>0. told \in [MemJobs -> Told]
  BY DEF MemoryTypeOK
<1>1. CASE told' = told
  BY <1>1 DEF Job!jobVars
<1>2. ASSUME NEW j \in MemJobs, NEW k \in MemKeys, Submit(j, k) PROVE Job!JobNext
  <2>1. /\ told[j].status = "absent" /\ told[j].attempts = 0
        /\ told' = [told EXCEPT ![j] = [status |-> "queued", attempts |-> 0]]
    <3>1. told[j].status = "absent" /\ told' = [told EXCEPT ![j].status = "queued"]
      BY <1>2 DEF Submit
    <3>2. told[j].attempts = 0 /\ told[j] \in Told
      BY <1>0, <3>1 DEF ToldGood
    <3>3. [told[j] EXCEPT !.status = "queued"] = [status |-> "queued", attempts |-> 0]
      BY <3>2 DEF Told
    <3> QED
      BY <1>0, <3>1, <3>2, <3>3
  <2>2. Job!Accept(j)
    BY <1>0, <2>1, MoveSays DEF Job!Accept, Job!Move
  <2> QED
    BY <2>2 DEF Job!JobNext
<1>3. ASSUME NEW j \in MemJobs, j = hand, Generate PROVE Job!JobNext
  <2>1. told[j].status = "queued" /\ told[j].attempts < MemRetries
        /\ told[j].attempts = memJob[j].attempts
    BY <1>3 DEF Generate, CarriedGood, ToldGood
  <2>2. told' = [told EXCEPT ![j] = [status |-> "processing", attempts |-> told[j].attempts + 1]]
    BY <1>3, <2>1 DEF Generate, Becomes
  <2>3. Job!Begin(j)
    BY <1>0, <2>1, <2>2, MoveSays DEF Job!Begin, Job!Move
  <2> QED
    BY <2>3 DEF Job!JobNext, Job!Progress
<1>4. ASSUME NEW j \in MemJobs, j = hand, busy
      PROVE  /\ told[j].status = "processing"
             /\ told[j].attempts = memJob[j].attempts
             /\ told[j].attempts \in 0 .. MemRetries
  BY <1>4 DEF CarriedGood, ToldGood, MemoryTypeOK, MemJob
<1>5. ASSUME NEW j \in MemJobs, j = hand, Generated PROVE Job!JobNext
  <2>1. told' = [told EXCEPT ![j] = [status |-> "completed", attempts |-> told[j].attempts]]
    BY <1>4, <1>5 DEF Generated, Becomes
  <2>2. Job!Complete(j)
    BY <1>0, <1>4, <1>5, <2>1, MoveSays DEF Generated, Job!Complete, Job!Move
  <2> QED
    BY <2>2 DEF Job!JobNext, Job!Progress
<1>6. ASSUME NEW j \in MemJobs, j = hand, GenerationFails PROVE Job!JobNext
  <2>1. /\ told[j].status = "processing"
        /\ told[j].attempts = memJob[j].attempts
        /\ told[j].attempts \in 0 .. MemRetries
    BY <1>4, <1>6 DEF GenerationFails
  <2>2. CASE told[j].attempts < MemRetries
    <3>1. told' = [told EXCEPT ![j] = [status |-> "queued", attempts |-> told[j].attempts]]
      BY <1>6, <2>1, <2>2 DEF GenerationFails, Becomes
    <3>2. Job!Again(j)
      BY <1>0, <2>1, <2>2, <3>1, MoveSays DEF Job!Again, Job!Move
    <3> QED
      BY <3>2 DEF Job!JobNext, Job!Progress
  <2>3. CASE ~(told[j].attempts < MemRetries)
    <3>1. told' = [told EXCEPT ![j] = [status |-> "failed", attempts |-> told[j].attempts]]
      BY <1>6, <2>1, <2>3 DEF GenerationFails, Becomes
    <3>2. told[j].attempts = MemRetries
      BY <2>1, <2>3, MemoryAssumption
    <3>3. Job!Fail(j)
      BY <1>0, <2>1, <3>1, <3>2, MoveSays DEF Job!Fail, Job!Move
    <3> QED
      BY <3>3 DEF Job!JobNext, Job!Progress
  <2> QED
    BY <2>2, <2>3
<1>7. CASE CleanUp \/ Pull \/ MemoryLost \/ UNCHANGED memoryVars
  BY <1>1, <1>7 DEF CleanUp, Pull, MemoryLost, memoryVars
<1>8. CASE (\E k \in MemKeys : KeyAges(k)) \/ (\E j \in DOMAIN memJob : JobAges(j))
  BY <1>1, <1>8 DEF KeyAges, JobAges
<1>9. Generate \/ Generated \/ GenerationFails => hand \in MemJobs
  BY DEF Generate, Generated, GenerationFails, CarriedGood, MemoryTypeOK
<1> QED
  BY <1>2, <1>3, <1>5, <1>6, <1>7, <1>8, <1>9 DEF MemoryNext

LEMMA InitImplements == MemoryInit => Job!JobInit
BY DEF MemoryInit, Job!JobInit

(* The pipeline in memory implements the lifecycle of a job, through any   *)
(* number of restarts (main.py:316-357, 428-509).                          *)
THEOREM MemoryRefines == MemorySpec => MemoryImplementsJob
<1>1. MemoryInit => Job!JobInit
  BY InitImplements
<1>2. MemoryInv /\ [MemoryNext]_memoryVars => [Job!JobNext]_(Job!jobVars)
  BY StepImplements
<1> QED
  BY <1>1, <1>2, MemoryInvariance, PTL DEF MemorySpec, MemoryImplementsJob, Job!JobSpec

-----------------------------------------------------------------------------
(* A behaviour of the office is one of each of its parts: the one that was *)
(* chosen goes on, and the others stay as they are.                        *)
LEMMA PartsStart ==
    OfficeInit => /\ part \in Parts
                  /\ AuthInit /\ DraftInit /\ MemoryInit /\ BoardInit /\ AdminInit /\ FlagInit
                  /\ ResultsTabInit
BY DEF OfficeInit

LEMMA PartsStep ==
    [OfficeNext]_officeVars => /\ UNCHANGED part
                               /\ [AuthNext]_authVars /\ [DraftNext]_draftVars
                               /\ [MemoryNext]_memoryVars /\ [BoardNext]_boardVars
                               /\ [AdminNext]_adminVars /\ [FlagNext]_flagVars
                               /\ [ResultsTabNext]_resultsTabVars
BY DEF OfficeNext, Frozen, officeVars

LEMMA OfficeIsItsParts ==
    OfficeSpec => /\ [](part \in Parts)
                  /\ AuthSpec /\ DraftSpec /\ MemorySpec /\ BoardSpec /\ AdminSpec /\ FlagSpec
                  /\ ResultsTabSpec
<1>1. part \in Parts /\ UNCHANGED part => (part \in Parts)'
  OBVIOUS
<1> QED
  BY <1>1, PartsStart, PartsStep, PTL
  DEF OfficeSpec, AuthSpec, DraftSpec, MemorySpec, BoardSpec, AdminSpec, FlagSpec,
      ResultsTabSpec

(* Every part keeps its types.                                             *)
THEOREM OfficeTypesCorrect == OfficeSpec => []OfficeTypeOK
<1>1. /\ part \in Parts /\ AuthTypeOK
      /\ DraftInv /\ MemoryInv /\ BoardInv /\ AdminInv /\ FlagInv /\ ResultsTabInv
      => OfficeTypeOK
  BY DEF Parts, OfficeTypeOK, DraftInv, MemoryInv, BoardInv, AdminInv, FlagInv, ResultsTabInv
<1> QED
  BY <1>1, OfficeIsItsParts, AuthTypeCorrect, DraftInvariance, MemoryInvariance,
     BoardInvariance, AdminInvariance, FlagInvariance, ResultsTabInvariance, PTL

(* Once nothing is on its way, the board of a competition, the panel with  *)
(* the sessions of a user, the page with the flags and the tab with the    *)
(* results of an event show what there is, unless something has happened   *)
(* that they are not told of (live.gateway.ts:67, admin/page.tsx:232-304,  *)
(* useFeatureFlags.ts:16-50, ResultsTab.tsx:32-49).                        *)
THEOREM PagesFollow == OfficeSpec => []PagesCatchUp
<1>1. BoardInv /\ AdminInv /\ FlagInv /\ ResultsTabInv => PagesCatchUp
  BY BoardFollows, PanelFollows, FlagsFollow, ResultsTabFollows DEF PagesCatchUp
<1> QED
  BY <1>1, OfficeIsItsParts, BoardInvariance, AdminInvariance, FlagInvariance,
     ResultsTabInvariance, PTL

=============================================================================
