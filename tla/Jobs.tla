-------------------------------- MODULE Jobs --------------------------------
(***************************************************************************)
(* The job system: the rows the API and the worker processes share in      *)
(* PostgreSQL, the queue and cancel flags they share in Redis, the         *)
(* requests the API has in flight, the runs the worker processes have in   *)
(* hand, and the reconciler.                                               *)
(*                                                                         *)
(* One action is one database statement or transaction, or one Redis       *)
(* command, with the local code up to the next await.  A handler of        *)
(* several awaits is a sequence of actions driven by the program counter   *)
(* of a run or by the record of an API request, so that every interleaving *)
(* of processes at an await is a behaviour.                                *)
(***************************************************************************)
EXTENDS JobStates, FiniteSets

CONSTANTS
  Worker,    \* worker processes; a restarted process is another element
  NoWorker,  \* worker_id is null
  NSteps,    \* steps of the playbook
  Gates,     \* the steps that are approval gates
  Optional,  \* the steps with a `when` that may answer no
  MaxCalls,  \* bound: API requests in flight at once
  Faults     \* what may go wrong, a subset of FaultKinds

Step == 1 .. NSteps

\* crash: a worker process dies.  stall: a live process fails to renew in time.
\* dberror: a statement of a run throws.  playbook: playbookFor throws.
\* apiloss: the API process dies, or its database does, between two awaits.
\* redisloss: Redis is flushed or refuses an enqueue.
FaultKinds == {"crash", "stall", "dberror", "playbook", "apiloss", "redisloss"}

ASSUME JobsAssumption ==
  /\ NoWorker \notin Worker
  /\ NSteps \in Nat
  /\ Gates \subseteq Step /\ Optional \subseteq Step
  /\ MaxCalls \in Nat
  /\ Faults \subseteq FaultKinds

VARIABLES
  \* PostgreSQL
  status,       \* jobs.status, "NONE" before the insert
  owner,        \* jobs.worker_id
  lease,        \* jobs.lease_until: "none" (null), "live" (ahead), "lapsed" (past)
  cancelAsked,  \* jobs.cancel_requested_at is set
  step,         \* job_steps.status per step, "NONE" before the row exists
  approval,     \* approvals.decision per gate, "none" before the row exists
  \* Redis
  queue,        \* how many waiting entries of the jobs queue carry this job
  flag,         \* the cancel flag jobCancelKey(job)
  \* worker processes
  up,           \* the process is alive
  run,          \* run[w][j]: the call of runJob for j in process w
  settling,     \* the reconciler's step updates still to come for a failed row
  \* API
  calls,        \* requests between two of their awaits
  \* history
  begunAfter    \* steps that began after the cancellation was recorded

rows  == <<status, owner, lease, cancelAsked, step, approval>>
redis == <<queue, flag>>
procs == <<up, run, settling>>
vars  == <<rows, redis, procs, calls, begunAfter>>

-----------------------------------------------------------------------------
(* Types and helpers *)

STEP_STATUSES == {"NONE", "PENDING", "RUNNING", "SKIPPED", "SUCCEEDED", "FAILED"}

Pc == {"idle", "picked", "claimed", "created", "loading", "boundary", "step", "starting",
       "working", "parking", "marking", "skipping", "cleaning", "closing"}

\* Why a run leaves its loop early: the status it will try to write.
Exit == {"CANCELLED", "FAILED", "PARTIALLY_SUCCEEDED"}

RunState == [ pc      : Pc,
              at      : 1 .. NSteps + 1,   \* the loop variable
              seen    : SUBSET Step,       \* `recorded`: steps known to be done
              aborted : BOOLEAN,           \* controller.signal.aborted
              lost    : BOOLEAN,           \* the renewal found the job taken
              exit    : Exit,
              hit     : BOOLEAN ]          \* the step at `at` was interrupted

NoRun == [ pc |-> "idle", at |-> 1, seen |-> {}, aborted |-> FALSE, lost |-> FALSE,
           exit |-> "FAILED", hit |-> FALSE ]

Ops == {"enqueue", "requeue", "cancel", "flag", "settle", "dequeue",
        "approve", "approved", "reject", "rejected", "unwind"}

Call == [op : Ops, job : Job, was : JOB_STATUSES \union {"NONE"}, gate : 0 .. NSteps]

Request(op, j) == [op |-> op, job |-> j, was |-> "NONE", gate |-> 0]

Settling == [by : Worker \union {NoWorker}, left : {"none", "RUNNING", "PENDING"}]

\* A run between its claim and its `finally`: its timers tick, its code may write.
InRun(w, j) == run[w][j].pc \notin {"idle", "picked", "closing"}

\* The condition in front of every status write of a run (move's guard).
Held(w, j, st) == owner[j] = w /\ status[j] = st

\* lostJobWhere: nobody holds this.
LostJobUnread(j)  == status[j] = "RUNNING" /\ lease[j] # "live"  \* faulty: forgets PREFLIGHT
LostJobAtStart(j) == status[j] \in OWNED                         \* faulty: ignores the lease
LostJob(j) == status[j] \in OWNED /\ lease[j] # "live"

\* The condition of the claim.
ClaimableIfFree(j) == status[j] \notin {"NONE"} \union OWNED  \* faulty: does not ask for QUEUED
Claimable(j) == status[j] = "QUEUED"

\* The gate's row says it may be passed.
PassedUnlessRejected(j, s) == approval[j][s] # "rejected"  \* faulty: silence is consent
Passed(j, s) == approval[j][s] = "approved"

DoneStatuses == {"SUCCEEDED", "SKIPPED"}

\* cancelRequested: the signal is the fast path, the column the record.
CancelSignalled(w, j) == run[w][j].aborted /\ ~ run[w][j].lost  \* faulty: the signal only
CancelRequested(w, j) ==
  (run[w][j].aborted /\ ~ run[w][j].lost) \/ cancelAsked[j]

Goto(w, j, pc) == run' = [run EXCEPT ![w][j].pc = pc]

\* A status write of a run: all of it when the row is still held, none of it and
\* OwnershipLost when it is not.  Either way the run is on its way out.
LeaveAs(w, j, from, to) ==
  /\ IF Held(w, j, from)
     THEN /\ status' = [status EXCEPT ![j] = to]
          /\ lease' = [lease EXCEPT ![j] = "none"]
     ELSE UNCHANGED <<status, lease>>
  /\ Goto(w, j, "closing")

Settle(steps, open, to) == [s \in Step |-> IF steps[s] \in open THEN to ELSE steps[s]]

-----------------------------------------------------------------------------
(* The API: create, retry, cancel, decide *)

\* A request is admitted while the bound on requests in flight allows it.
Admit(c) == Cardinality(calls) < MaxCalls /\ calls' = calls \union {c}

\* The request c goes on to its next await, or is over.
Continue(c, next) == calls' = (calls \ {c}) \union {next}
Return(c)         == calls' = calls \ {c}

\* JobsService.create: the insert, refused by the unique index when the key is held.
Create(j) ==
  /\ status[j] = "NONE"
  /\ KeyFree(status, j)
  /\ Admit(Request("enqueue", j))
  /\ status' = [status EXCEPT ![j] = "QUEUED"]
  /\ UNCHANGED <<owner, lease, cancelAsked, step, approval, redis, procs, begunAfter>>

\* JobsService.retry: a new row with the key of one that ended badly.
Retry(parent, j) ==
  /\ status[parent] \in RETRYABLE
  /\ KeyOf[j] = KeyOf[parent]
  /\ Create(j)

\* QueueService.enqueueJob: one more entry, whatever is already there.
Enqueue(c) ==
  /\ c.op \in {"enqueue", "requeue"}
  /\ queue' = [queue EXCEPT ![c.job] = @ + 1]
  /\ Return(c)
  /\ UNCHANGED <<rows, flag, procs, begunAfter>>

\* create's catch: the queue refused the job, so the row is failed if still QUEUED.
EnqueueFails(c) ==
  /\ "redisloss" \in Faults
  /\ c.op = "enqueue"
  /\ status' = IF status[c.job] = "QUEUED" THEN [status EXCEPT ![c.job] = "FAILED"] ELSE status
  /\ Return(c)
  /\ UNCHANGED <<owner, lease, cancelAsked, step, approval, redis, procs, begunAfter>>

\* cancel reads the row.
CancelRead(j) ==
  /\ status[j] \in ACTIVE_JOB_STATUSES
  /\ Admit([Request("cancel", j) EXCEPT !.was = status[j]])
  /\ UNCHANGED <<rows, redis, procs, begunAfter>>

\* cancel of a job it read as nobody's: finish it here, or fall through to the
\* running-job path when a worker or another request was faster.
CancelUnheld(c) ==
  /\ c.op = "cancel"
  /\ c.was \in UNHELD
  /\ IF status[c.job] = c.was
     THEN /\ status' = [status EXCEPT ![c.job] = "CANCELLED"]
          /\ cancelAsked' = [cancelAsked EXCEPT ![c.job] = TRUE]
          /\ Continue(c, Request("settle", c.job))
     ELSE /\ Continue(c, Request("cancel", c.job))
          /\ UNCHANGED <<status, cancelAsked>>
  /\ UNCHANGED <<owner, lease, step, approval, redis, procs, begunAfter>>

\* cancel of a job a worker has: record the request unless the job has ended.
CancelHeld(c) ==
  /\ c.op = "cancel"
  /\ c.was \notin UNHELD
  /\ cancelAsked' = [cancelAsked EXCEPT ![c.job] = @ \/ status[c.job] \notin TERMINAL_JOB_STATUSES]
  /\ Continue(c, Request("flag", c.job))
  /\ UNCHANGED <<status, owner, lease, step, approval, redis, procs, begunAfter>>

\* ... and raise the flag in Redis, without looking at the row again.
RaiseFlag(c) ==
  /\ c.op = "flag"
  /\ flag' = [flag EXCEPT ![c.job] = TRUE]
  /\ Return(c)
  /\ UNCHANGED <<rows, queue, procs, begunAfter>>

\* The step rows of a job the API ended ("settle": cancelled, "unwind": rejected).
SettleSteps(c) ==
  /\ c.op \in {"settle", "unwind"}
  /\ step' = [step EXCEPT ![c.job] = Settle(@, {"PENDING", "RUNNING"}, "SKIPPED")]
  /\ IF c.op = "settle" THEN Continue(c, Request("dequeue", c.job)) ELSE Return(c)
  /\ UNCHANGED <<status, owner, lease, cancelAsked, approval, redis, procs, begunAfter>>

\* QueueService.dequeueJob: every waiting entry that carries the job.
Dequeue(c) ==
  /\ c.op = "dequeue"
  /\ queue' = [queue EXCEPT ![c.job] = 0]
  /\ Return(c)
  /\ UNCHANGED <<rows, flag, procs, begunAfter>>

\* decide reads a parked job and the undecided approval it will decide.
DecideRead(j, verdict, s) ==
  /\ status[j] = "WAITING_APPROVAL"
  /\ approval[j][s] = "pending"
  /\ Admit([Request(verdict, j) EXCEPT !.gate = s])
  /\ UNCHANGED <<rows, redis, procs, begunAfter>>

\* The first decision on the approval stands; a later one is refused.
DecideWrite(c) ==
  /\ c.op \in {"approve", "reject"}
  /\ LET verdict == IF c.op = "approve" THEN "approved" ELSE "rejected"
     IN IF approval[c.job][c.gate] = "pending"
        THEN /\ approval' = [approval EXCEPT ![c.job][c.gate] = verdict]
             /\ Continue(c, Request(verdict, c.job))
        ELSE Return(c) /\ UNCHANGED approval
  /\ UNCHANGED <<status, owner, lease, cancelAsked, step, redis, procs, begunAfter>>

\* The condition of the two moves out of WAITING_APPROVAL.
ParkedOrNot(j) == status[j] # "NONE"  \* faulty: the write has no guard
Parked(j) == status[j] = "WAITING_APPROVAL"

\* The approved job needs a fresh queue entry.
RequeueNot(c) == Return(c)  \* faulty: relies on the entry of the first run
Requeue(c) == Continue(c, Request("requeue", c.job))

\* Approved: back to QUEUED if still parked.  The result of the write is not
\* looked at, and the job is enqueued in any case.
Approved(c) ==
  /\ c.op = "approved"
  /\ status' = IF Parked(c.job) THEN [status EXCEPT ![c.job] = "QUEUED"] ELSE status
  /\ Requeue(c)
  /\ UNCHANGED <<owner, lease, cancelAsked, step, approval, redis, procs, begunAfter>>

\* Rejected: FAILED if still parked, and the step rows settled in any case.
Rejected(c) ==
  /\ c.op = "rejected"
  /\ status' = IF Parked(c.job) THEN [status EXCEPT ![c.job] = "FAILED"] ELSE status
  /\ Continue(c, Request("unwind", c.job))
  /\ UNCHANGED <<owner, lease, cancelAsked, step, approval, redis, procs, begunAfter>>

\* The request dies at an await and is never finished.
CallLost(c) ==
  /\ "apiloss" \in Faults
  /\ Return(c)
  /\ UNCHANGED <<rows, redis, procs, begunAfter>>

-----------------------------------------------------------------------------
(* The runner: runJob in a worker process *)

\* BullMQ hands an entry to a process.  From here on Redis no longer has it
\* (maxStalledCount 0: an entry whose process dies is not handed out again).
Pickup(w, j) ==
  /\ up[w]
  /\ queue[j] > 0
  /\ run[w][j].pc = "idle"
  /\ queue' = [queue EXCEPT ![j] = @ - 1]
  /\ Goto(w, j, "picked")
  /\ UNCHANGED <<rows, flag, up, settling, calls, begunAfter>>

\* What the claim writes besides the status.
Take(w, j) ==
  /\ owner' = [owner EXCEPT ![j] = w]
  /\ lease' = [lease EXCEPT ![j] = "live"]

\* QUEUED -> PREFLIGHT if it still is QUEUED, with the lease, in one write.
Claim(w, j) ==
  /\ run[w][j].pc = "picked"
  /\ IF Claimable(j)
     THEN /\ status' = [status EXCEPT ![j] = "PREFLIGHT"]
          /\ Take(w, j)
          /\ run' = [run EXCEPT ![w][j] = [NoRun EXCEPT !.pc = "claimed"]]
     ELSE Goto(w, j, "idle") /\ UNCHANGED <<status, owner, lease>>
  /\ UNCHANGED <<cancelAsked, step, approval, redis, up, settling, calls,
                 begunAfter>>

\* playbookFor throws: no step, no cleanup.
PlaybookFails(w, j) ==
  /\ "playbook" \in Faults
  /\ run[w][j].pc = "claimed"
  /\ LeaveAs(w, j, "PREFLIGHT", "FAILED")
  /\ UNCHANGED <<owner, cancelAsked, step, approval, redis, up, settling, calls,
                 begunAfter>>

\* The step rows that do not exist yet, without a guard on the job.
CreateSteps(w, j) ==
  /\ run[w][j].pc = "claimed"
  /\ step' = [step EXCEPT ![j] = Settle(@, {"NONE"}, "PENDING")]
  /\ Goto(w, j, "created")
  /\ UNCHANGED <<status, owner, lease, cancelAsked, approval, redis, up, settling, calls,
                 begunAfter>>

\* PREFLIGHT -> RUNNING.
Start(w, j) ==
  /\ run[w][j].pc = "created"
  /\ IF Held(w, j, "PREFLIGHT")
     THEN status' = [status EXCEPT ![j] = "RUNNING"] /\ Goto(w, j, "loading")
     ELSE UNCHANGED status /\ Goto(w, j, "closing")
  /\ UNCHANGED <<owner, lease, cancelAsked, step, approval, redis, up, settling, calls,
                 begunAfter>>

\* `recorded`: the steps earlier runs of this job finished.
KnownDoneIfSeen(j) == {s \in Step : step[j][s] # "RUNNING"}  \* faulty: PENDING counts
KnownDone(j) == {s \in Step : step[j][s] \in DoneStatuses}

Load(w, j) ==
  /\ run[w][j].pc = "loading"
  /\ run' = [run EXCEPT ![w][j].pc = "boundary",
                        ![w][j].seen = KnownDone(j)]
  /\ UNCHANGED <<rows, redis, up, settling, calls, begunAfter>>

\* The head of the loop: pass a step that is done, else look for a cancellation.
Boundary(w, j) ==
  LET r == run[w][j]
  IN /\ r.pc = "boundary"
     /\ r.at <= NSteps
     /\ run' = [run EXCEPT ![w][j] =
          IF r.at \in r.seen THEN [r EXCEPT !.at = @ + 1]
          ELSE IF CancelRequested(w, j)
               THEN [r EXCEPT !.pc = "skipping", !.exit = "CANCELLED", !.hit = FALSE]
               ELSE [r EXCEPT !.pc = "step"]]
     /\ UNCHANGED <<rows, redis, up, settling, calls, begunAfter>>

\* The loop is through: RUNNING -> SUCCEEDED.
Succeed(w, j) ==
  /\ run[w][j].pc = "boundary"
  /\ run[w][j].at > NSteps
  /\ LeaveAs(w, j, "RUNNING", "SUCCEEDED")
  /\ UNCHANGED <<owner, cancelAsked, step, approval, redis, up, settling, calls,
                 begunAfter>>

\* The step at hand is done with status `to`; on to the next.
StepDoneAndNext(w, j, to) ==  \* faulty: passes over the step after it
  LET s == run[w][j].at
  IN /\ step' = [step EXCEPT ![j][s] = to]
     /\ run' = [run EXCEPT ![w][j].pc = "boundary", ![w][j].at = s + 2,
                           ![w][j].seen = @ \union {s}]
StepDone(w, j, to) ==
  LET s == run[w][j].at
  IN /\ step' = [step EXCEPT ![j][s] = to]
     /\ run' = [run EXCEPT ![w][j].pc = "boundary", ![w][j].at = s + 1,
                           ![w][j].seen = @ \union {s}]

\* `when` answers no.
StepNotNeeded(w, j) ==
  /\ run[w][j].pc = "step"
  /\ run[w][j].at \in Optional
  /\ StepDone(w, j, "SKIPPED")
  /\ UNCHANGED <<status, owner, lease, cancelAsked, approval, redis, up, settling, calls,
                 begunAfter>>

\* The row says RUNNING, without a guard ...
MarkRunning(w, j) ==
  /\ run[w][j].pc = "step"
  /\ run[w][j].at \notin Gates
  /\ step' = [step EXCEPT ![j][run[w][j].at] = "RUNNING"]
  /\ Goto(w, j, "starting")
  /\ UNCHANGED <<status, owner, lease, cancelAsked, approval, redis, up, settling, calls,
                 begunAfter>>

\* ... and step.run is entered only if the job is still held.
BeginStep(w, j) ==
  /\ run[w][j].pc = "starting"
  /\ IF Held(w, j, "RUNNING")
     THEN /\ Goto(w, j, "working")
          /\ begunAfter' = [begunAfter EXCEPT ![j] = IF cancelAsked[j] THEN @ + 1 ELSE @]
     ELSE Goto(w, j, "closing") /\ UNCHANGED begunAfter
  /\ UNCHANGED <<rows, redis, up, settling, calls>>

\* step.run returned: recorded without a guard.
StepSucceeds(w, j) ==
  /\ run[w][j].pc = "working"
  /\ StepDone(w, j, "SUCCEEDED")
  /\ UNCHANGED <<status, owner, lease, cancelAsked, approval, redis, up, settling, calls,
                 begunAfter>>

\* step.run threw.  A taken job is let go; an abort makes it a cancellation
\* whatever the error was; otherwise the job fails, or stops part-way.
StepThrows(w, j, exit) ==
  LET r == run[w][j]
  IN /\ r.pc = "working"
     /\ run' = [run EXCEPT ![w][j] =
          IF r.lost THEN [r EXCEPT !.pc = "closing"]
          ELSE [r EXCEPT !.pc = "marking", !.hit = TRUE,
                         !.exit = IF r.aborted THEN "CANCELLED" ELSE exit]]
     /\ UNCHANGED <<rows, redis, up, settling, calls, begunAfter>>

\* A progress report of step.run missed its guard: OwnershipLost.
ProgressMissed(w, j) ==
  /\ run[w][j].pc = "working"
  /\ ~ Held(w, j, "RUNNING")
  /\ Goto(w, j, "closing")
  /\ UNCHANGED <<rows, redis, up, settling, calls, begunAfter>>

\* The interrupted step is recorded as failed, without a guard.
MarkFailed(w, j) ==
  /\ run[w][j].pc = "marking"
  /\ step' = [step EXCEPT ![j][run[w][j].at] = "FAILED"]
  /\ Goto(w, j, "skipping")
  /\ UNCHANGED <<status, owner, lease, cancelAsked, approval, redis, up, settling, calls,
                 begunAfter>>

\* The steps a run that leaves its loop did not get to.
RemainingAfter(r) == {s \in Step : s \notin r.seen /\ s > r.at}  \* faulty: not the one at hand
Remaining(r) == {s \in Step : s \notin r.seen /\ ~ (r.hit /\ s = r.at)}

\* skipRemaining: those of them whose rows are still open.
SkipRemaining(w, j) ==
  LET r == run[w][j]
  IN /\ r.pc = "skipping"
     /\ step' = [step EXCEPT ![j] = [s \in Step |->
          IF s \in Remaining(r) /\ @[s] \in {"PENDING", "RUNNING"} THEN "SKIPPED" ELSE @[s]]]
     /\ Goto(w, j, "cleaning")
     /\ UNCHANGED <<status, owner, lease, cancelAsked, approval, redis, up, settling, calls,
                 begunAfter>>

\* The playbook's cleanup returned or threw; now RUNNING -> the exit.
Finish(w, j) ==
  /\ run[w][j].pc = "cleaning"
  /\ LeaveAs(w, j, "RUNNING", run[w][j].exit)
  /\ UNCHANGED <<owner, cancelAsked, step, approval, redis, up, settling, calls,
                 begunAfter>>

\* approvalGate, decided and approved.
PassGate(w, j) ==
  /\ run[w][j].pc = "step"
  /\ run[w][j].at \in Gates
  /\ Passed(j, run[w][j].at)
  /\ StepDone(w, j, "SUCCEEDED")
  /\ UNCHANGED <<status, owner, lease, cancelAsked, approval, redis, up, settling, calls,
                 begunAfter>>

\* approvalGate otherwise: the approval row is written first if there is none.
OpenGate(w, j) ==
  LET s == run[w][j].at
  IN /\ run[w][j].pc = "step"
     /\ s \in Gates
     /\ ~ Passed(j, s)
     /\ approval' = [approval EXCEPT ![j][s] = IF @ = "none" THEN "pending" ELSE @]
     /\ Goto(w, j, IF approval[j][s] = "rejected" THEN "closing" ELSE "parking")
     /\ UNCHANGED <<status, owner, lease, cancelAsked, step, redis, up, settling, calls,
                    begunAfter>>

\* The parked row names no worker any more.
ReleaseNot(w, j) == UNCHANGED owner  \* faulty: worker_id is left behind
Release(w, j) == owner' = IF Held(w, j, "RUNNING") THEN [owner EXCEPT ![j] = NoWorker] ELSE owner

\* ... then RUNNING -> WAITING_APPROVAL, and the job belongs to nobody.
Park(w, j) ==
  /\ run[w][j].pc = "parking"
  /\ LeaveAs(w, j, "RUNNING", "WAITING_APPROVAL")
  /\ Release(w, j)
  /\ UNCHANGED <<cancelAsked, step, approval, redis, up, settling, calls,
                 begunAfter>>

\* finally: the timers stop and the flag is deleted, whoever raised it and when.
Close(w, j) ==
  /\ run[w][j].pc = "closing"
  /\ flag' = [flag EXCEPT ![j] = FALSE]
  /\ run' = [run EXCEPT ![w][j] = NoRun]
  /\ UNCHANGED <<rows, queue, up, settling, calls, begunAfter>>

\* The renewal timer: push the lease ahead, or learn that the job was taken.
Renew(w, j) ==
  /\ InRun(w, j)
  /\ IF owner[j] = w /\ status[j] \in OWNED
     THEN lease' = [lease EXCEPT ![j] = "live"] /\ UNCHANGED run
     ELSE /\ run' = [run EXCEPT ![w][j].lost = TRUE, ![w][j].aborted = TRUE]
          /\ UNCHANGED lease
  /\ UNCHANGED <<status, owner, cancelAsked, step, approval, redis, up, settling, calls,
                 begunAfter>>

\* The cancellation timer sees the flag.
Watch(w, j) ==
  /\ InRun(w, j)
  /\ flag[j]
  /\ run' = [run EXCEPT ![w][j].aborted = TRUE]
  /\ UNCHANGED <<rows, redis, up, settling, calls, begunAfter>>

\* A statement outside step.run throws something else than OwnershipLost: the run
\* ends, the row keeps its status, and nobody renews the lease any more.
Abandon(w, j) ==
  /\ "dberror" \in Faults
  /\ run[w][j].pc \notin {"idle", "working", "closing"}
  /\ Goto(w, j, IF run[w][j].pc = "picked" THEN "idle" ELSE "closing")
  /\ UNCHANGED <<rows, redis, up, settling, calls, begunAfter>>

-----------------------------------------------------------------------------
(* Time, the reconciler, and what goes wrong around the processes *)

\* The lease of a row nobody renews runs out.
LeaseRunsOut(j) ==
  /\ lease[j] = "live"
  /\ \A w \in Worker : owner[j] = w => ~ InRun(w, j)
  /\ lease' = [lease EXCEPT ![j] = "lapsed"]
  /\ UNCHANGED <<status, owner, cancelAsked, step, approval, redis, procs, calls, begunAfter>>

\* A process that is alive renews too late: a pause, or a database it cannot reach.
Stall(w, j) ==
  /\ "stall" \in Faults
  /\ owner[j] = w /\ InRun(w, j)
  /\ lease[j] = "live"
  /\ lease' = [lease EXCEPT ![j] = "lapsed"]
  /\ UNCHANGED <<status, owner, cancelAsked, step, approval, redis, procs, calls, begunAfter>>

\* What the reconciler makes of a lost job: it is failed, and not retried.
ConcludeByRetry(j) ==  \* faulty: hands the job to the next worker
  /\ status' = [status EXCEPT ![j] = "QUEUED"]
  /\ queue' = [queue EXCEPT ![j] = @ + 1]
Conclude(j) ==
  /\ status' = [status EXCEPT ![j] = "FAILED"]
  /\ UNCHANGED queue

\* reconcileLostJobs: a row nobody holds is failed, in one conditional write ...
Reconcile(v, j) ==
  /\ up[v]
  /\ LostJob(j)
  /\ Conclude(j)
  /\ lease' = [lease EXCEPT ![j] = "none"]
  /\ settling' = [settling EXCEPT ![j] = [by |-> v, left |-> "RUNNING"]]
  /\ UNCHANGED <<owner, cancelAsked, step, approval, flag, up, run, calls, begunAfter>>

\* ... and then its steps: what was running failed, what was to come skipped.
ReconcileSteps(v, j) ==
  LET s == settling[j]
  IN /\ up[v]
     /\ s.by = v
     /\ s.left # "none"
     /\ IF s.left = "RUNNING"
        THEN /\ step' = [step EXCEPT ![j] = Settle(@, {"RUNNING"}, "FAILED")]
             /\ settling' = [settling EXCEPT ![j].left = "PENDING"]
        ELSE /\ step' = [step EXCEPT ![j] = Settle(@, {"PENDING"}, "SKIPPED")]
             /\ settling' = [settling EXCEPT ![j] = [by |-> NoWorker, left |-> "none"]]
     /\ UNCHANGED <<status, owner, lease, cancelAsked, approval, redis, up, run, calls, begunAfter>>

\* A process dies with everything it has in memory; one is left.
Crash(w) ==
  /\ "crash" \in Faults
  /\ up[w]
  /\ \E v \in Worker \ {w} : up[v]
  /\ up' = [up EXCEPT ![w] = FALSE]
  /\ run' = [run EXCEPT ![w] = [j \in Job |-> NoRun]]
  /\ UNCHANGED <<rows, redis, settling, calls, begunAfter>>

\* Redis is flushed: the waiting entries and the flags are gone.
RedisLoss ==
  /\ "redisloss" \in Faults
  /\ queue' = [j \in Job |-> 0]
  /\ flag' = [j \in Job |-> FALSE]
  /\ UNCHANGED <<rows, procs, calls, begunAfter>>

-----------------------------------------------------------------------------
(* The specification *)

Init ==
  /\ status = [j \in Job |-> "NONE"]
  /\ owner = [j \in Job |-> NoWorker]
  /\ lease = [j \in Job |-> "none"]
  /\ cancelAsked = [j \in Job |-> FALSE]
  /\ step = [j \in Job |-> [s \in Step |-> "NONE"]]
  /\ approval = [j \in Job |-> [s \in Gates |-> "none"]]
  /\ queue = [j \in Job |-> 0]
  /\ flag = [j \in Job |-> FALSE]
  /\ up = [w \in Worker |-> TRUE]
  /\ run = [w \in Worker |-> [j \in Job |-> NoRun]]
  /\ settling = [j \in Job |-> [by |-> NoWorker, left |-> "none"]]
  /\ calls = {}
  /\ begunAfter = [j \in Job |-> 0]

\* What people ask of the API.
User ==
  \E j \in Job :
    \/ Create(j)
    \/ \E parent \in Job : Retry(parent, j)
    \/ CancelRead(j)
    \/ \E verdict \in {"approve", "reject"}, s \in Gates : DecideRead(j, verdict, s)

\* What the API does on the way.
Api(c) ==
  \/ Enqueue(c) \/ CancelUnheld(c) \/ CancelHeld(c) \/ RaiseFlag(c)
  \/ SettleSteps(c) \/ Dequeue(c) \/ DecideWrite(c) \/ Approved(c) \/ Rejected(c)

\* The code of one run from its claim to its `finally`.
Runner(w, j) ==
  \/ Claim(w, j) \/ CreateSteps(w, j) \/ Start(w, j) \/ Load(w, j)
  \/ Boundary(w, j) \/ Succeed(w, j) \/ StepNotNeeded(w, j) \/ MarkRunning(w, j)
  \/ BeginStep(w, j) \/ StepSucceeds(w, j) \/ ProgressMissed(w, j)
  \/ \E exit \in {"FAILED", "PARTIALLY_SUCCEEDED"} : StepThrows(w, j, exit)
  \/ MarkFailed(w, j) \/ SkipRemaining(w, j) \/ Finish(w, j)
  \/ PassGate(w, j) \/ OpenGate(w, j) \/ Park(w, j) \/ Close(w, j)

Fault ==
  \/ \E c \in calls : EnqueueFails(c) \/ CallLost(c)
  \/ \E w \in Worker, j \in Job : PlaybookFails(w, j) \/ Abandon(w, j) \/ Stall(w, j)
  \/ \E w \in Worker : Crash(w)
  \/ RedisLoss

Next ==
  \/ User
  \/ \E c \in calls : Api(c)
  \/ \E w \in Worker, j \in Job :
       Pickup(w, j) \/ Runner(w, j) \/ Renew(w, j) \/ Watch(w, j)
       \/ Reconcile(w, j) \/ ReconcileSteps(w, j)
  \/ \E j \in Job : LeaseRunsOut(j)
  \/ Fault

Spec == Init /\ [][Next]_vars

\* A live process keeps executing its code and its timers, steps return, the
\* reconciler's interval keeps firing in some process, requests are carried
\* through.  Nobody has to create, cancel or decide anything, and no fault has
\* to happen.
Fairness ==
  /\ \A w \in Worker, j \in Job :
       WF_vars(Runner(w, j)) /\ WF_vars(Watch(w, j)) /\ WF_vars(ReconcileSteps(w, j))
  /\ \A j \in Job :
       /\ WF_vars(\E w \in Worker : Pickup(w, j))
       /\ WF_vars(\E w \in Worker : Reconcile(w, j))
       /\ WF_vars(LeaseRunsOut(j))
       /\ \A op \in Ops : WF_vars(\E c \in calls : c.job = j /\ c.op = op /\ Api(c))

FairSpec == Spec /\ Fairness
-----------------------------------------------------------------------------
(* Properties *)

Board == INSTANCE JobBoard

TypeOK ==
  /\ status \in [Job -> JOB_STATUSES \union {"NONE"}]
  /\ owner \in [Job -> Worker \union {NoWorker}]
  /\ lease \in [Job -> {"none", "live", "lapsed"}]
  /\ cancelAsked \in [Job -> BOOLEAN]
  /\ step \in [Job -> [Step -> STEP_STATUSES]]
  /\ approval \in [Job -> [Gates -> {"none", "pending", "approved", "rejected"}]]
  /\ queue \in [Job -> Nat]
  /\ flag \in [Job -> BOOLEAN]
  /\ up \in [Worker -> BOOLEAN]
  /\ run \in [Worker -> [Job -> RunState]]
  /\ settling \in [Job -> Settling]
  /\ calls \subseteq Call
  /\ begunAfter \in [Job -> Nat]

\* The job system is the board: rows appear when their key is free and take only
\* moves of the shared table, whoever writes them and however late.
ImplementsBoard == Board!Spec

\* A job is run by one process at a time: a job the reconciler took is never handed
\* out again, and a job parked at a gate has been let go of before it is requeued.
OneRunPerJob ==
  \A j \in Job, v, w \in Worker : InRun(v, j) /\ InRun(w, j) => v = w

\* "Queued and Waiting for approval belong to nobody" (ADR-035): no run is left in
\* the job and no claim on it, so whoever claims it next finds it free.
UnheldIsFree ==
  \A j \in Job : status[j] \in UNHELD =>
    owner[j] = NoWorker /\ lease[j] = "none" /\ \A w \in Worker : ~ InRun(w, j)

\* "Preflight, Running and Validating belong to one worker": a run whose job is
\* still owned by anyone is that owner's, so a guard on worker_id and status
\* never stops the rightful run and the reconciler can always find the row.
OwnedIsHeld ==
  \A j \in Job : status[j] \in OWNED =>
    /\ owner[j] # NoWorker /\ lease[j] # "none"
    /\ \A w \in Worker : InRun(w, j) => owner[j] = w

\* So the row of a job says who holds it, at every moment, and nobody else does.
HeldAsRecorded == UnheldIsFree /\ OwnedIsHeld

\* "Reject fails it, and nothing after the gate runs": a step is begun only when
\* every gate before it that was needed has been approved.
GateHolds ==
  \A w \in Worker, j \in Job : run[w][j].pc \in {"starting", "working"} =>
    \A g \in Gates : g < run[w][j].at => approval[j][g] = "approved" \/ step[j][g] = "SKIPPED"

\* "Succeeded: finished, and every step succeeded" or was not needed, over every run
\* the job took and whatever other processes wrote to its steps meanwhile.
SuccessIsComplete ==
  \A j \in Job : status[j] = "SUCCEEDED" =>
    /\ \A s \in Step : step[j][s] \in DoneStatuses
    /\ \A g \in Gates : step[j][g] = "SUCCEEDED" => approval[j][g] = "approved"

\* Cancelling "stops at the next safe point": the step that had already passed its
\* check may still begin, and no other, even if Redis has lost the flag.
StopsAfterCancel == \A j \in Job : begunAfter[j] <= 1

\* Of the rows that carry one key at most one is active.
OneActivePerKey == Board!OneActivePerKey

\* "Two mutating jobs against one cluster cannot run concurrently": the steps and
\* cleanups of two rows with one key are never executing at the same time.
AtWork(j) == \E w \in Worker : run[w][j].pc \in {"working", "cleaning"}
KeyIsExclusive == \A i, j \in Job : Rivals(i, j) => ~ (AtWork(i) /\ AtWork(j))

\* A job that has ended keeps its record: its steps are only ever closed, as failed
\* or skipped, by whoever ended it.
EndedStepsOnlyClose ==
  [][\A j \in Job, s \in Step :
       status[j] \in TERMINAL_JOB_STATUSES /\ step'[j][s] # step[j][s]
         => step'[j][s] \in {"FAILED", "SKIPPED"}]_vars

\* "Killing the worker mid-job leaves the job reconciled to FAILED, not stuck in
\* RUNNING": no job stays with a worker for ever.
NeverStuckInWorker ==
  \A j \in Job : status[j] \in OWNED ~> status[j] \notin OWNED

\* A queued job is claimed, cancelled or failed sooner or later.
QueuedIsServed == \A j \in Job : status[j] = "QUEUED" ~> status[j] # "QUEUED"

\* "Approve lets it carry on from the gate; Reject fails it": a decision that was
\* recorded is never the last thing that happens to the job.
DecisionTakesEffect ==
  \A j \in Job, g \in Gates :
    /\ approval[j][g] = "approved" ~>
         step[j][g] = "SUCCEEDED" \/ status[j] \in TERMINAL_JOB_STATUSES
    /\ approval[j][g] = "rejected" ~> status[j] \in TERMINAL_JOB_STATUSES \ {"SUCCEEDED"}

\* Once a job has ended no step of it is left open, unless a process died or stalled: one
\* that dies leaves what it had still to write, and one that stalls writes too late.
Undisturbed == \A w \in Worker : up[w] /\ \A j \in Job : InRun(w, j) => lease[j] # "lapsed"
EndedIsSettled ==
  []Undisturbed =>
    \A j \in Job : status[j] \in TERMINAL_JOB_STATUSES ~>
      [](\A s \in Step : step[j][s] \notin {"PENDING", "RUNNING"})
=============================================================================
