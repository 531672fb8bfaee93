------------------------------- MODULE JobBoard -------------------------------
(***************************************************************************)
(* What the job system promises, with no worker, queue or request in       *)
(* sight: rows are inserted QUEUED when their key is free and afterwards   *)
(* take only the moves of the shared transition table, one row at a time.  *)
(* Jobs.tla is shown to implement this.                                    *)
(***************************************************************************)
EXTENDS JobStates

VARIABLE status

Init == status = [j \in Job |-> "NONE"]

\* A row appears.
Insert(j) ==
  /\ status[j] = "NONE"
  /\ KeyFree(status, j)
  /\ status' = [status EXCEPT ![j] = "QUEUED"]

\* A row takes a move that assertTransition lets through.
Move(j, to) ==
  /\ canTransition(status[j], to)
  /\ status' = [status EXCEPT ![j] = to]

Next == \E j \in Job : Insert(j) \/ \E to \in JOB_STATUSES : Move(j, to)

Spec == Init /\ [][Next]_status

-----------------------------------------------------------------------------
TypeOK == status \in [Job -> JOB_STATUSES \union {"NONE"}]

\* "Two mutating jobs against one cluster cannot run concurrently": of the rows
\* that carry one key at most one is active (ACTIVE_JOB_STATUSES, the index
\* jobs_one_active_per_key).
OneActivePerKey ==
  \A i, j \in Job : Rivals(i, j) =>
    ~ (status[i] \in ACTIVE_JOB_STATUSES /\ status[j] \in ACTIVE_JOB_STATUSES)

\* "A job in one of these will never change again": no step moves a row out of a
\* terminal status (TERMINAL_JOB_STATUSES, and the empty rows of TRANSITIONS).
TerminalIsFinal ==
  [][\A j \in Job : status[j] \in TERMINAL_JOB_STATUSES => status'[j] = status[j]]_status
=============================================================================
