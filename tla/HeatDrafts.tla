------------------------------ MODULE HeatDrafts ------------------------------
(***************************************************************************)
(* What the secretary's page keeps of the times typed into it and not yet  *)
(* saved: a draft per event and heat in the storage of the browser, which  *)
(* outlives the page.  The results of a heat are one value here.  Others   *)
(* save, finalize and reopen too, so the server may answer anything: what  *)
(* the entries shown say of a heat is chosen when the page looks at it.    *)
(*                                                                         *)
(* An action includes the effects React runs after it: the form is filled  *)
(* from the entries shown and the draft of the heat chosen, and then the   *)
(* form is written to that draft.  A draft names the entries it is about;  *)
(* `of' is their event, which is not the event chosen as long as the       *)
(* entries of the event before are shown.                                  *)
(***************************************************************************)
EXTENDS Naturals

CONSTANTS
    Events, FirstEvent,  \* the events of the competition, and the first of them
    Heats, FirstHeat,    \* heats of an event, and the first of them
    Marks, Blank,        \* results of a heat, and none
    NoEvent              \* no event

ASSUME DraftAssumption ==
    /\ FirstEvent \in Events /\ FirstHeat \in Heats /\ Blank \in Marks
    /\ NoEvent \notin Events

VARIABLES
    draft,   \* draft[<<e, h>>]: a draft in the storage
    page,    \* the page of the secretary
    saving,  \* a save under way: at most one
    typed    \* typed[<<e, h>>]: what was typed last, is not saved and was not
             \* overwritten by coming back to its event, for one heat at a time,
             \* any of those that were typed into

draftVars == <<draft, page, saving, typed>>

-----------------------------------------------------------------------------
Keys   == Events \X Heats
Draft  == [of : Events, value : Marks]
Page   == [open : BOOLEAN, loading : BOOLEAN, event : Events, heat : Heats,
           shown : Events \cup {NoEvent}, final : BOOLEAN, form : Marks]
Save   == [state : {"none", "sent", "committed"}, key : Keys,
           of : Events, value : Marks]

NoPage == [open |-> FALSE, loading |-> FALSE, event |-> FirstEvent, heat |-> FirstHeat,
           shown |-> NoEvent, final |-> FALSE, form |-> Blank]
NoSave == [state |-> "none", key |-> <<FirstEvent, FirstHeat>>, of |-> FirstEvent,
           value |-> Blank]

(* Types of the storage, the page and what was typed.                      *)
DraftTypeOK ==
    /\ DOMAIN draft \subseteq Keys /\ \A k \in DOMAIN draft : draft[k] \in Draft
    /\ page \in Page /\ saving \in Save
    /\ DOMAIN typed \subseteq Keys /\ \A k \in DOMAIN typed : typed[k] \in Marks

Set(f, x, y) == [z \in DOMAIN f \cup {x} |-> IF z = x THEN y ELSE f[z]]
Drop(f, x)   == [z \in DOMAIN f \ {x} |-> f[z]]
Key(p)       == <<p.event, p.heat>>
Saving       == saving.state # "none"

(* What was typed into heat k is saved, given up or not accounted for.     *)
Forgets(k) == typed' = Drop(typed, k)

(* Mutant: the draft is not looked at when the form is filled.             *)
FilledAnew(p, d, v) == [p EXCEPT !.form = v]

(* The form: the heat chosen, from its draft if that is about the entries  *)
(* shown, and else v, which these say.                                     *)
Filled(p, d, v) ==
    [p EXCEPT !.form = IF Key(p) \in DOMAIN d /\ d[Key(p)].of = p.shown
                       THEN d[Key(p)].value ELSE v]

(* The storage d after the form of p is written, which is done unless the  *)
(* event is finalized.                                                     *)
Writes(p)  == p.shown # NoEvent /\ ~p.final
Kept(p, d) == IF Writes(p) THEN Set(d, Key(p), [of |-> p.shown, value |-> p.form]) ELSE d

(* The page becomes p with the form filled, and the storage d with that    *)
(* written.                                                                *)
Renders(p, d) ==
    \E v \in Marks : page' = Filled(p, d, v) /\ draft' = Kept(Filled(p, d, v), d)

(* The page shows entries of e that the server has sent.                   *)
Shows(p, e, d) ==
    \E final \in BOOLEAN : Renders([p EXCEPT !.shown = e, !.final = final], d)

-----------------------------------------------------------------------------
Open ==
    /\ ~page.open
    /\ page' = [NoPage EXCEPT !.open = TRUE, !.loading = TRUE]
    /\ UNCHANGED <<draft, saving, typed>>

(* The page is closed or crashes; what it was doing is forgotten.          *)
Close ==
    /\ page.open
    /\ page' = NoPage /\ saving' = NoSave
    /\ UNCHANGED <<draft, typed>>

(* Another event: its entries are asked for, and until they come those of  *)
(* the event before are shown, and written to its drafts, of the heat that *)
(* was chosen and of the first.                                            *)
SelectEvent(e) ==
    LET p    == [page EXCEPT !.event = e, !.loading = TRUE]
        q(v) == Filled([p EXCEPT !.heat = FirstHeat], draft, v)
    IN  /\ page.open /\ e # page.event
        /\ \E v \in Marks : page' = q(v) /\ draft' = Kept(q(v), Kept(p, draft))
        /\ typed' = [k \in {j \in DOMAIN typed : j[1] # e} |-> typed[k]]
        /\ UNCHANGED saving

SelectHeat(h) ==
    /\ page.open /\ page.shown # NoEvent /\ h # page.heat
    /\ Renders([page EXCEPT !.heat = h], draft)
    /\ UNCHANGED <<saving, typed>>

EntriesArrive ==
    /\ page.loading
    /\ Shows([page EXCEPT !.loading = FALSE], page.event, draft)
    /\ UNCHANGED <<saving, typed>>

EntriesFail ==
    /\ page.loading
    /\ page' = [NoPage EXCEPT !.open = TRUE, !.event = page.event, !.heat = page.heat]
    /\ UNCHANGED <<draft, saving, typed>>

Entered(v) == [page EXCEPT !.form = v]

(* Whatever is typed into the heat shown goes to the draft at once.  It is *)
(* not accounted for while the entries shown are not those of the event    *)
(* chosen, or a save is under way that will change what is shown or drop   *)
(* the draft.                                                              *)
Type(v) ==
    LET p == Entered(v)
        k == <<page.shown, page.heat>>
        hasty == \/ page.shown # page.event
                 \/ Saving /\ (saving.key[1] # page.event \/ saving.key = Key(page))
    IN  /\ Writes(page)
        /\ page' = p /\ draft' = Kept(p, draft)
        /\ \/ ~hasty /\ typed' = Set(<<>>, k, v)
           \/ IF k \in DOMAIN typed THEN hasty /\ Forgets(k) ELSE UNCHANGED typed
        /\ UNCHANGED saving

(* A save sends the heat as it is in the form.                             *)
SaveSend ==
    /\ Writes(page) /\ ~Saving
    /\ saving' = [state |-> "sent", key |-> Key(page), of |-> page.shown, value |-> page.form]
    /\ UNCHANGED <<draft, page, typed>>

SaveCommit ==
    LET k == <<saving.of, saving.key[2]>> IN
    /\ saving.state = "sent"
    /\ saving' = [saving EXCEPT !.state = "committed"]
    /\ IF k \in DOMAIN typed /\ typed[k] = saving.value
       THEN Forgets(k)
       ELSE UNCHANGED typed
    /\ UNCHANGED <<draft, page>>

(* Refused by the server, or without an answer; the drafts stay.           *)
SaveFails ==
    /\ Saving
    /\ saving' = NoSave
    /\ UNCHANGED <<draft, page, typed>>

(* The entries are loaded again, and the draft that was saved is dropped.  *)
SaveDone ==
    /\ saving.state = "committed"
    /\ saving' = NoSave
    /\ Shows(page, saving.key[1], Drop(draft, saving.key))
    /\ UNCHANGED typed

(* Reloading gives up what was typed into the heat.                        *)
Reload ==
    LET k == Key(page) IN
    /\ Writes(page) /\ page.shown = page.event
    /\ Forgets(k)
    /\ Shows(page, page.event, Drop(draft, k))
    /\ UNCHANGED saving

(* Finalizing, or taking it back, shows the entries anew.                  *)
Finalize ==
    /\ page.open /\ page.shown = page.event
    /\ Shows(page, page.event, draft)
    /\ UNCHANGED <<saving, typed>>

-----------------------------------------------------------------------------
DraftInit ==
    /\ draft = <<>> /\ page = NoPage /\ saving = NoSave
    /\ typed = <<>>

DraftNext ==
    \/ Open \/ Close \/ EntriesArrive \/ EntriesFail
    \/ \E e \in Events : SelectEvent(e)
    \/ \E h \in Heats : SelectHeat(h)
    \/ \E v \in Marks : Type(v)
    \/ SaveSend \/ SaveCommit \/ SaveFails \/ SaveDone
    \/ Reload \/ Finalize

DraftSpec == DraftInit /\ [][DraftNext]_draftVars

-----------------------------------------------------------------------------
(* What was typed into a heat and not saved is in the draft of that heat,  *)
(* whatever became of the page since: closed, crashed, opened again, other *)
(* heats, saves that failed, entries that somebody else has changed, the   *)
(* event finalized and that taken back.  Excepted is what was typed during *)
(* a save of the same heat or under another event's name, and what the     *)
(* secretary comes back to from another event: choosing an event           *)
(* overwrites its drafts with the form of the one before                   *)
(* (secretary/page.tsx:132-345).                                           *)
DraftKeepsTyped ==
    \A k \in DOMAIN typed :
      k \in DOMAIN draft /\ draft[k] = [of |-> k[1], value |-> typed[k]]
=============================================================================
