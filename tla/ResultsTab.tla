------------------------------- MODULE ResultsTab -------------------------------
(***************************************************************************)
(* The results tab of a competition (ResultsTab.tsx): it shows the entries *)
(* of the event chosen, and finalizes it.  Nothing it asks for is given up *)
(* when another event is chosen, and whatever load ends takes the sign     *)
(* away that a load goes on.  The results of an event are a counter that   *)
(* is raised when they change.                                             *)
(***************************************************************************)
EXTENDS Naturals, Sequences, SequencesExt

CONSTANTS
    Disciplines,  \* the events of the competition
    MaxResults,   \* bound: changes of the results of an event
    MaxClicks     \* bound: requests in flight

ASSUME ResultsTabAssumption == MaxResults \in Nat

VARIABLES
    result,   \* result[e]: how often the results of e have changed
    view,     \* the tab
    wanted,   \* its requests in flight, in the order they were made
    unaware   \* may there be something the tab has not asked for since?

resultsTabVars == <<result, view, wanted, unaware>>

-----------------------------------------------------------------------------
View    == [event : Disciplines, shown : Disciplines, value : 0 .. MaxResults,
            loading : BOOLEAN, overtaken : BOOLEAN]
Wanted == [event : Disciplines, step : {"finalize", "read", "show"},
            load : BOOLEAN, value : 0 .. MaxResults, late : BOOLEAN]

(* Types of the results, the tab and its requests.                         *)
ResultsTabTypeOK ==
    /\ result \in [Disciplines -> 0 .. MaxResults]
    /\ view \in View /\ wanted \in Seq(Wanted) /\ unaware \in BOOLEAN

LoadOf(e)     == [event |-> e, step |-> "read", load |-> TRUE, value |-> 0, late |-> FALSE]
FinalizeOf(e) == [LoadOf(e) EXCEPT !.step = "finalize", !.load = FALSE]

(* What the requests i of ids bring is late from now on.                   *)
Late(ids) == [i \in DOMAIN wanted |-> [wanted[i] EXCEPT !.late = @ \/ i \in ids]]

-----------------------------------------------------------------------------
Choose(e) ==
    /\ e # view.event /\ Len(wanted) < MaxClicks
    /\ view' = [view EXCEPT !.event = e, !.loading = TRUE, !.overtaken = FALSE]
    /\ wanted' = Append(Late(DOMAIN wanted), LoadOf(e))
    /\ unaware' = FALSE
    /\ UNCHANGED result

(* The button finalizes whatever event is chosen, finalized or not.        *)
FinalizeClick ==
    /\ Len(wanted) < MaxClicks
    /\ wanted' = Append(wanted, FinalizeOf(view.event))
    /\ UNCHANGED <<result, view, unaware>>

Finalized(i) ==
    LET e == wanted[i].event
        read == {j \in DOMAIN wanted : wanted[j].event = e /\ wanted[j].step = "show"}
    IN
    /\ wanted[i].step = "finalize" /\ result[e] < MaxResults
    /\ result' = [result EXCEPT ![e] = @ + 1]
    /\ wanted' = [Late(read) EXCEPT ![i].step = "read"]
    /\ UNCHANGED <<view, unaware>>

EntriesRead(i) ==
    /\ wanted[i].step = "read"
    /\ wanted' = [wanted EXCEPT ![i].step = "show", ![i].value = result[wanted[i].event]]
    /\ UNCHANGED <<result, view, unaware>>

(* The user may see, or see later on, entries that a has brought too late. *)
ComesLate(a) == a.late /\ (a.load \/ ~view.loading)

(* Mutant: whatever shows entries takes the sign of a load away.           *)
ShowUnannounced(a) ==
    [view EXCEPT !.shown = a.event, !.value = a.value, !.loading = FALSE,
                 !.overtaken = ComesLate(a)]

(* The tab with the entries that a brings.                                 *)
WithEntries(a) ==
    [view EXCEPT !.shown = a.event, !.value = a.value, !.loading = @ /\ ~a.load,
                 !.overtaken = ComesLate(a)]

ShowEntriesOf(i) ==
    /\ wanted[i].step = "show"
    /\ view' = WithEntries(wanted[i])
    /\ wanted' = RemoveAt(wanted, i)
    /\ UNCHANGED <<result, unaware>>

(* Refused, or without an answer: what is shown stays.                     *)
RequestFails(i) ==
    /\ view' = [view EXCEPT !.loading = @ /\ ~wanted[i].load,
                            !.overtaken = @ \/ wanted[i].load]
    /\ wanted' = RemoveAt(wanted, i)
    /\ unaware' = TRUE
    /\ UNCHANGED result

(* Others save, finalize and reopen; the tab does not hear of it.          *)
ResultsChange(e) ==
    /\ result[e] < MaxResults
    /\ result' = [result EXCEPT ![e] = @ + 1]
    /\ unaware' = (unaware \/ e = view.event)
    /\ UNCHANGED <<view, wanted>>

-----------------------------------------------------------------------------
(* The tab is opened: it shows no entries while the first load goes on.    *)
ResultsTabInit ==
    \E e \in Disciplines :
      /\ result = [d \in Disciplines |-> 0]
      /\ view = [event |-> e, shown |-> e, value |-> 0, loading |-> TRUE, overtaken |-> FALSE]
      /\ wanted = <<LoadOf(e)>> /\ unaware = FALSE

ResultsTabNext ==
    \/ \E e \in Disciplines : Choose(e) \/ ResultsChange(e)
    \/ FinalizeClick
    \/ \E i \in DOMAIN wanted :
         Finalized(i) \/ EntriesRead(i) \/ ShowEntriesOf(i) \/ RequestFails(i)

ResultsTabSpec == ResultsTabInit /\ [][ResultsTabNext]_resultsTabVars

-----------------------------------------------------------------------------
(* Where the tab lists entries, and not the sign of a load, they are those *)
(* of the event named above them, which its button finalizes, unless an    *)
(* answer to something asked before came last or a load has failed.  And   *)
(* with nothing in flight they are as the server has them, unless somebody *)
(* else has changed them since (ResultsTab.tsx:32-49).                     *)
ResultsTabCatchesUp ==
    /\ view.loading \/ view.overtaken \/ view.shown = view.event
    /\ wanted = <<>> /\ ~view.overtaken /\ ~unaware =>
         view.value = result[view.event]
=============================================================================
