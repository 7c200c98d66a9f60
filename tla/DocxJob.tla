------------------------------- MODULE DocxJob -------------------------------
(***************************************************************************)
(* What the DOCX job pipeline promises its clients, whatever stores the    *)
(* jobs: a job is accepted once, is generated at most MaxRetries times,    *)
(* one generation at a time, and ends completed, or failed after its last  *)
(* attempt; an accepted job does not stay unfinished.                      *)
(***************************************************************************)
EXTENDS Integers

CONSTANTS Jobs, MaxRetries

VARIABLES
    status,    \* status[j]: what GET /jobs/{job_id} answers, or "absent"
    attempts   \* attempts[j]: generations begun

jobVars == <<status, attempts>>

JobTypeOK ==
    /\ status \in [Jobs -> {"absent", "queued", "processing", "completed",
                            "failed"}]
    /\ attempts \in [Jobs -> 0 .. MaxRetries]

Move(j, from, to) ==
    /\ status[j] = from
    /\ status' = [status EXCEPT ![j] = to]

Accept(j) == Move(j, "absent", "queued") /\ attempts[j] = 0 /\ UNCHANGED attempts

Begin(j) ==
    /\ Move(j, "queued", "processing")
    /\ attempts[j] < MaxRetries
    /\ attempts' = [attempts EXCEPT ![j] = @ + 1]

Complete(j) == Move(j, "processing", "completed") /\ UNCHANGED attempts

Again(j) ==
    /\ Move(j, "processing", "queued")
    /\ attempts[j] < MaxRetries
    /\ UNCHANGED attempts

Fail(j) ==
    /\ Move(j, "processing", "failed")
    /\ attempts[j] = MaxRetries
    /\ UNCHANGED attempts

Progress(j) == Begin(j) \/ Complete(j) \/ Again(j) \/ Fail(j)

JobInit ==
    /\ status = [j \in Jobs |-> "absent"]
    /\ attempts = [j \in Jobs |-> 0]

JobNext == \E j \in Jobs : Accept(j) \/ Progress(j)

JobSpec == JobInit /\ [][JobNext]_jobVars

FairJobSpec == JobSpec /\ \A j \in Jobs : WF_jobVars(Progress(j))

=============================================================================
