---------------------------- MODULE ExportClients ----------------------------
(***************************************************************************)
(* Exports of protocols as their users see them: browsers that submit a    *)
(* DOCX job through the backend, poll it and download the document         *)
(* (docx-download.ts), requests of the synchronous endpoints, for which    *)
(* the backend does the same (requestDocxQueued), and the job pipeline of  *)
(* DocxQueue under them, while the competition is edited.                  *)
(*                                                                         *)
(* The backend keeps nothing between two requests: it maps the statuses    *)
(* and turns an answer other than 200 into a 502.                          *)
(***************************************************************************)
EXTENDS DocxQueue

CONSTANTS
    Clients,    \* exports going on at the same time
    MaxPolls,   \* DOCX_QUEUE_MAX_POLLS, or polls before the deadline
    NoHandler   \* no handler of docx-service

ASSUME ExportAssumption ==
    /\ MaxPolls \in Nat \ {0}
    /\ NoHandler \notin Handlers

VARIABLES
    data,     \* what the competition's protocol holds now, as its key
    client    \* client[c]: the step and the local variables of an export

exportVars == <<vars, data, client>>

-----------------------------------------------------------------------------
(* submit: a browser waits for the handler via, request: a synchronous     *)
(* endpoint does; poll: between two polls of job; download, fetch: job is  *)
(* done.  told is what the user was told last; asked is the payload that   *)
(* the backend read.                                                       *)
Submits     == {"submit", "request"}
ClientSteps == {"idle", "poll", "download", "fetch"} \cup Submits
Outcomes    == {"nothing", "saved", "failed", "timeout", "error"}
Export      == [pc : ClientSteps, via : Handlers \cup {NoHandler},
                job : Jobs \cup {NoJob}, polls : 0 .. MaxPolls,
                asked : Keys \cup {NoKey}, told : Outcomes]

Ended(told) == [pc |-> "idle", via |-> NoHandler, job |-> NoJob, polls |-> 0,
                asked |-> NoKey, told |-> told]

ClientTypeOK == data \in Keys /\ client \in [Clients -> Export]

Idle(c)         == client[c].pc = "idle"
WaitsFor(c, h)  == client[c].pc \in Submits /\ client[c].via = h
Becomes(c, x)   == client' = [client EXCEPT ![c] = x]
End(c, told)    == Becomes(c, Ended(told))

(* What an export does with a status: it ends its loop on a final one, and *)
(* gives up after the last poll.  The toast of a failure keeps its job.    *)
Failed(x)  == [Ended("failed") EXCEPT !.job = x.job]
Patient(x) == IF x.polls = MaxPolls THEN Ended("timeout")
              ELSE [x EXCEPT !.pc = "poll"]

(* Mutants: a poll too many; a running job taken for a failed one.         *)
HeardOnceMore(x, status) ==
    CASE status = "completed" -> [x EXCEPT !.pc = "download"]
      [] status = "failed"    -> Failed(x)
      [] OTHER -> IF x.polls > MaxPolls THEN Ended("timeout")
                  ELSE [x EXCEPT !.pc = "poll"]
HeardUnmapped(x, status) ==
    CASE status = "completed" -> [x EXCEPT !.pc = "download"]
      [] status = "queued"    -> Patient(x)
      [] OTHER                -> Failed(x)

Heard(x, status) ==
    CASE status = "completed" -> [x EXCEPT !.pc = "download"]
      [] status = "failed"    -> Failed(x)
      [] OTHER                -> Patient(x)

-----------------------------------------------------------------------------
(* The user clicks: the backend reads the competition and submits a job    *)
(* under the hash of what it read.                                         *)
Asking(step, h) ==
    [Ended("nothing") EXCEPT !.pc = step, !.via = h, !.asked = data]

(* Mutant: the payload is one that was read for an earlier export.         *)
ClickCached(c, h, step) ==
    /\ Idle(c)
    /\ \E k \in Keys : SubmitResolve(h, k)
    /\ Becomes(c, Asking(step, h))
    /\ UNCHANGED data

Click(c, h, step) ==
    /\ Idle(c)
    /\ SubmitResolve(h, data)
    /\ Becomes(c, Asking(step, h))
    /\ UNCHANGED data

(* The service answers with a job and its status, to the export that waits *)
(* for it, if that did not give up.  A browser looks at the status, the    *)
(* synchronous endpoint polls first.                                       *)
Answer(h, j, status) ==
    LET Follow(c) == [client[c] EXCEPT !.pc = "poll", !.via = NoHandler,
                                       !.job = j]
        Heeded(c) == IF client[c].pc = "submit" THEN Heard(Follow(c), status)
                    ELSE Follow(c)
    IN  client' = [c \in Clients |->
                     IF WaitsFor(c, h) THEN Heeded(c) ELSE client[c]]

AnswerExisting(h) ==
    /\ SubmitReplyExisting(h)
    /\ Answer(h, api[h].job, meta[api[h].job].status)
    /\ UNCHANGED data

AnswerNew(h) ==
    /\ SubmitEnqueue(h)
    /\ Answer(h, api[h].job, "queued")
    /\ UNCHANGED data

(* The backend's request to the service times out; the service goes on     *)
(* with it (AbortSignal.timeout in submitDocxQueueJob).                    *)
SubmitTimesOut(c) ==
    /\ client[c].pc \in Submits
    /\ End(c, "error")
    /\ UNCHANGED <<vars, data>>

(* Mutant: polls that are not counted.                                     *)
PollUncounted(c) ==
    LET j == client[c].job IN
    /\ client[c].pc = "poll"
    /\ IF meta[j].status = "absent" THEN End(c, "error")
       ELSE Becomes(c, Heard(client[c], meta[j].status))
    /\ UNCHANGED <<vars, data>>

(* GET /jobs/{job_id}: a job that is not there is a 404, so a 502.         *)
Poll(c) ==
    LET j == client[c].job IN
    /\ client[c].pc = "poll"
    /\ IF meta[j].status = "absent" THEN End(c, "error")
       ELSE Becomes(c, Heard([client[c] EXCEPT !.polls = @ + 1],
                             meta[j].status))
    /\ UNCHANGED <<vars, data>>

(* GET /jobs/{job_id}/download reads the record, and then the document.    *)
DownloadRecord(c) ==
    /\ client[c].pc = "download"
    /\ IF meta[client[c].job].status = "completed"
       THEN Becomes(c, [client[c] EXCEPT !.pc = "fetch"])
       ELSE End(c, "error")
    /\ UNCHANGED <<vars, data>>

DownloadDocument(c) ==
    /\ client[c].pc = "fetch"
    /\ End(c, IF client[c].job \in result THEN "saved" ELSE "error")
    /\ UNCHANGED <<vars, data>>

(* The service or Redis does not answer a poll or a download.              *)
RequestFails(c) ==
    /\ Faults \cap {"crash", "redis"} # {}
    /\ client[c].pc \in {"poll", "download", "fetch"}
    /\ End(c, "error")
    /\ UNCHANGED <<vars, data>>

(* The submit handler raises, or its process goes away with the others.    *)
Unanswered(lost) ==
    client' = [c \in Clients |-> IF \E h \in lost : WaitsFor(c, h) THEN Ended("error")
                                 ELSE client[c]]

HandlerFails(h) == SubmitFails(h) /\ Unanswered({h}) /\ UNCHANGED data

ServiceRestarts(s) == Restart(s) /\ Unanswered(HandlersOf(s)) /\ UNCHANGED data

(* Somebody edits the competition; an edit can be taken back.              *)
Edit(k) ==
    /\ k # data
    /\ data' = k
    /\ UNCHANGED <<vars, client>>

-----------------------------------------------------------------------------
ExportInit ==
    /\ Init
    /\ data \in Keys
    /\ client = [c \in Clients |-> Ended("nothing")]

ClientStep(c) ==
    SubmitTimesOut(c) \/ Poll(c) \/ DownloadRecord(c) \/ DownloadDocument(c)

HandlerStep(h) ==
    /\ SubmitStaleKey(h) \/ SubmitCreate(h) \/ SubmitRegister(h)
    /\ UNCHANGED <<data, client>>

WorkerGoesOn(s) ==
    /\ WorkerStep(s) \/ WorkerDies(s) \/ CompletingSaveFails(s)
    /\ UNCHANGED <<data, client>>

ExportNext ==
    \/ \E c \in Clients :
         \/ ClientStep(c) \/ RequestFails(c)
         \/ \E h \in Handlers, step \in Submits : Click(c, h, step)
    \/ \E h \in Handlers :
         HandlerStep(h) \/ AnswerExisting(h) \/ AnswerNew(h) \/ HandlerFails(h)
    \/ \E s \in Services : WorkerGoesOn(s) \/ ServiceRestarts(s)
    \/ \E x \in RedisKeys : Expire(x) /\ UNCHANGED <<data, client>>
    \/ \E k \in Keys : Edit(k)

(* The timers of an export go on, whatever the service does.               *)
ExportSpec ==
    /\ ExportInit /\ [][ExportNext]_exportVars
    /\ \A c \in Clients : WF_exportVars(ClientStep(c))

-----------------------------------------------------------------------------
(* Properties.                                                             *)

(* Every export ends with a file or a message, even if its job never ends  *)
(* (docx-download.ts:30-61, export.controller.ts:225-243).                 *)
EveryExportEnds == \A c \in Clients : ~Idle(c) ~> Idle(c)

(* The job an export follows, new or found by its key, was made from what  *)
(* the backend read for it, however the competition is edited meanwhile:   *)
(* nobody downloads an outdated document (export.controller.ts:252-266).   *)
JobIsWhatWasAsked ==
    \A c \in Clients :
      client[c].pc \in {"poll", "download", "fetch"} =>
        LET m == meta[client[c].job]
        IN  m.status = "absent" \/ m.payload = client[c].asked

(* A user is told of a failure only when no document will come of the job: *)
(* never between two attempts (docx-download.ts:38-48).                    *)
FailureIsFinal ==
    \A c \in Clients :
      client[c].told = "failed" =>
        meta[client[c].job].status \in {"failed", "absent"}

(* Who was told that the document is there gets it, unless the worker has  *)
(* published the job and not yet the document, or stopped in between, or   *)
(* the job expired, or the completing save failed and the job goes on      *)
(* (main.py:316-325, 539-553).                                             *)
Refused(c) ==
    \/ client[c].pc = "download" /\ meta[client[c].job].status # "completed"
    \/ client[c].pc = "fetch" /\ client[c].job \notin result
DoneIsDownloadable ==
    \A c \in Clients : Refused(c) =>
      LET j == client[c].job IN
      \/ meta[j].status = "absent"
      \/ j \in orphans
      \/ \E s \in Services : /\ WorkerHolds(s, j)
                             /\ worker[s].pc \in {"saveResult", "except"}
      \/ "redis" \in Faults /\ meta[j].status # "completed"

=============================================================================
