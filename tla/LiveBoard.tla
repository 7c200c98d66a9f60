------------------------------- MODULE LiveBoard -------------------------------
(***************************************************************************)
(* The live results of a competition: the notifications of the backend     *)
(* (ResultsService, LiveGateway) and a page showing one event.  A change   *)
(* of results is committed, and only then a notification is on its way,    *)
(* that nobody waits for; the page loads the results again for each one it *)
(* receives, and shows the answers in the order they come.                 *)
(***************************************************************************)
EXTENDS Naturals, Sequences, SequencesExt

CONSTANTS
    Distances,     \* the events of the competition
    MaxPublished,  \* bound: changes of the results of an event
    MaxLoads       \* bound: loads in flight at the same time

ASSUME BoardAssumption == MaxPublished \in Nat

VARIABLES
    stamp,    \* stamp[e]: how often the results of e were changed
    notices,  \* notifications not yet sent
    board,    \* the page
    loads,    \* its loads in flight, in the order they were asked for
    missed    \* may the page lag behind without hearing of it?

boardVars == <<stamp, notices, board, loads, missed>>

-----------------------------------------------------------------------------
Stamps == 0 .. MaxPublished
Board  == [event : Distances, joined : BOOLEAN, inbox : Nat,
           shown : Distances, stamp : Stamps, stale : BOOLEAN]
Load   == [event : Distances, read : BOOLEAN, stamp : Stamps, late : BOOLEAN]

(* Types of the results, the page and what is on its way between them.     *)
BoardTypeOK ==
    /\ stamp \in [Distances -> Stamps] /\ notices \in Nat
    /\ board \in Board /\ loads \in Seq(Load) /\ missed \in BOOLEAN

Asked(e) == [event |-> e, read |-> FALSE, stamp |-> 0, late |-> FALSE]

(* The page asks for the results of e: they will be as of a later time     *)
(* than now, so nothing that was missed is missed any longer.              *)
Asks(e, before) ==
    /\ Len(before) < MaxLoads
    /\ loads' = Append(before, Asked(e)) /\ missed' = FALSE

(* What the page does not hear of, it learns if the load it asked for last *)
(* has yet to read.                                                        *)
Misses == missed' = (missed \/ loads = <<>> \/ Last(loads).read)

-----------------------------------------------------------------------------
(* A heat is saved, or an event finalized or reopened.                     *)
Publish(e) ==
    /\ stamp[e] < MaxPublished
    /\ stamp' = [stamp EXCEPT ![e] = @ + 1]
    /\ notices' = notices + 1
    /\ UNCHANGED <<board, loads, missed>>

(* A single result is saved, of which no one is notified.                  *)
PublishQuietly(e) ==
    /\ stamp[e] < MaxPublished
    /\ stamp' = [stamp EXCEPT ![e] = @ + 1]
    /\ IF e = board.event THEN Misses ELSE UNCHANGED missed
    /\ UNCHANGED <<notices, board, loads>>

(* A notification goes to whoever is in the room, unless the feature flag  *)
(* is off, cannot be read, or the backend ends before.                     *)
SendNotice ==
    /\ notices > 0
    /\ notices' = notices - 1
    /\ \/ board.joined /\ board' = [board EXCEPT !.inbox = @ + 1] /\ UNCHANGED missed
       \/ Misses /\ UNCHANGED board
    /\ UNCHANGED <<stamp, loads>>

-----------------------------------------------------------------------------
(* The page joins the room whenever its socket is connected, and does not  *)
(* load anything then.                                                     *)
Join ==
    /\ ~board.joined
    /\ board' = [board EXCEPT !.joined = TRUE]
    /\ UNCHANGED <<stamp, notices, loads, missed>>

LoseSocket ==
    /\ board.joined
    /\ board' = [board EXCEPT !.joined = FALSE, !.inbox = 0]
    /\ IF board.inbox > 0 THEN Misses ELSE UNCHANGED missed
    /\ UNCHANGED <<stamp, notices, loads>>

(* Mutant: no second load while there is one.                              *)
ReceiveOnce ==
    /\ board.inbox > 0
    /\ board' = [board EXCEPT !.inbox = @ - 1]
    /\ IF loads = <<>> THEN Asks(board.event, loads) ELSE UNCHANGED <<loads, missed>>
    /\ UNCHANGED <<stamp, notices>>

Receive ==
    /\ board.inbox > 0
    /\ board' = [board EXCEPT !.inbox = @ - 1]
    /\ Asks(board.event, loads)
    /\ UNCHANGED <<stamp, notices>>

Refresh ==
    /\ Asks(board.event, loads)
    /\ UNCHANGED <<stamp, notices, board>>

(* Another event is loaded, over a socket of its own; what is in flight    *)
(* for the event before is not cancelled.                                  *)
ChooseEvent(e) ==
    /\ e # board.event
    /\ board' = [board EXCEPT !.event = e, !.joined = FALSE, !.inbox = 0]
    /\ Asks(e, [i \in DOMAIN loads |-> [loads[i] EXCEPT !.late = TRUE]])
    /\ UNCHANGED <<stamp, notices>>

(* A load reads the results, and is answered, or fails.                    *)
ReadResults(i) ==
    /\ ~loads[i].read
    /\ loads' = [loads EXCEPT ![i].read = TRUE, ![i].stamp = stamp[loads[i].event]]
    /\ UNCHANGED <<stamp, notices, board, missed>>

ShowResults(i) ==
    LET a == loads[i] IN
    /\ a.read
    /\ board' = [board EXCEPT !.shown = a.event, !.stamp = a.stamp, !.stale = a.late]
    /\ loads' = RemoveAt([n \in DOMAIN loads |->
                            [loads[n] EXCEPT !.late = @ \/ n < i]], i)
    /\ UNCHANGED <<stamp, notices, missed>>

LoadFails(i) ==
    /\ loads' = RemoveAt(loads, i)
    /\ missed' = TRUE
    /\ UNCHANGED <<stamp, notices, board>>

-----------------------------------------------------------------------------
(* The page has opened: it loads its first event twice, once when it gets  *)
(* to know the events and once because one is chosen.                      *)
BoardInit ==
    \E e \in Distances :
      /\ stamp = [d \in Distances |-> 0] /\ notices = 0
      /\ board = [event |-> e, joined |-> FALSE, inbox |-> 0,
                  shown |-> e, stamp |-> 0, stale |-> FALSE]
      /\ loads = <<Asked(e), Asked(e)>> /\ missed = FALSE

BoardNext ==
    \/ \E e \in Distances : Publish(e) \/ PublishQuietly(e) \/ ChooseEvent(e)
    \/ SendNotice \/ Join \/ LoseSocket \/ Receive \/ Refresh
    \/ \E i \in DOMAIN loads : ReadResults(i) \/ ShowResults(i) \/ LoadFails(i)

BoardSpec == BoardInit /\ [][BoardNext]_boardVars

-----------------------------------------------------------------------------
(* As soon as nothing is on its way, the page shows the event chosen as it *)
(* is, or has missed a change since it last asked (of a single result,     *)
(* while it was not in the room, or because a notification or a load was   *)
(* lost), or shows an answer that a later one, or another choice, has      *)
(* overtaken: then it stays behind until somebody does something           *)
(* (live/page.tsx:29-69, live.gateway.ts:67-71).                           *)
BoardCatchesUp ==
    notices = 0 /\ board.inbox = 0 /\ loads = <<>> /\ ~missed /\ ~board.stale =>
      board.shown = board.event /\ board.stamp = stamp[board.event]
=============================================================================
