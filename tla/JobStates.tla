------------------------------ MODULE JobStates ------------------------------
(***************************************************************************)
(* The vocabulary of the job system that the API and the worker share:     *)
(* packages/shared/src/jobs.ts, with the concurrency key that the          *)
(* partial unique index jobs_one_active_per_key of the migration reads.    *)
(*                                                                         *)
(* "NONE" stands for a row that has not been inserted.                     *)
(***************************************************************************)
EXTENDS Naturals

CONSTANTS
  Job,      \* the rows of table jobs that may ever be inserted
  Key,      \* concurrency keys, "cluster:<id>" in the code
  NoKey,    \* a job that mutates no cluster holds no key
  KeyOf     \* the key each row is inserted with

ASSUME KeyAssumption == NoKey \notin Key /\ KeyOf \in [Job -> Key \union {NoKey}]

TERMINAL_JOB_STATUSES ==
  {"SUCCEEDED", "PARTIALLY_SUCCEEDED", "FAILED", "ROLLED_BACK", "CANCELLED"}

ACTIVE_JOB_STATUSES ==
  {"QUEUED", "PREFLIGHT", "WAITING_APPROVAL", "RUNNING", "VALIDATING"}

JOB_STATUSES == ACTIVE_JOB_STATUSES \union TERMINAL_JOB_STATUSES

\* The statuses in which a job belongs to a worker process.
OWNED == {"PREFLIGHT", "RUNNING", "VALIDATING"}

\* The statuses an API request may end a job from by itself.
UNHELD_OR_RUNNING == {"QUEUED", "WAITING_APPROVAL", "RUNNING"}  \* faulty: RUNNING is a worker's
UNHELD == {"QUEUED", "WAITING_APPROVAL"}

RETRYABLE == {"FAILED", "CANCELLED", "ROLLED_BACK"}

TRANSITIONS ==
  [ QUEUED           |-> {"PREFLIGHT", "RUNNING", "CANCELLED", "FAILED"},
    PREFLIGHT        |-> {"WAITING_APPROVAL", "RUNNING", "CANCELLED", "FAILED"},
    WAITING_APPROVAL |-> {"QUEUED", "CANCELLED", "FAILED"},
    RUNNING          |-> {"WAITING_APPROVAL", "VALIDATING"} \union TERMINAL_JOB_STATUSES,
    VALIDATING       |-> TERMINAL_JOB_STATUSES ]

canTransition(from, to) == from \in DOMAIN TRANSITIONS /\ to \in TRANSITIONS[from]

\* Two different rows inserted with the same, non-null key.
Rivals(i, j) == i # j /\ KeyOf[i] # NoKey /\ KeyOf[i] = KeyOf[j]

\* What the unique index demands of an insert: no other active row has the key.
KeyFree(st, j) == \A i \in Job : Rivals(i, j) => st[i] \notin ACTIVE_JOB_STATUSES
=============================================================================
