------------------------------ MODULE JobsProofs ------------------------------
(***************************************************************************)
(* What the job system guarantees for every number of rows, keys,          *)
(* processes, steps and gates, and under every combination of faults.      *)
(***************************************************************************)
EXTENDS Jobs, TLAPS

-----------------------------------------------------------------------------
(* Types *)

\* The counters of a run in the body of the loop point at a step.
AtStep == {"step", "starting", "working", "parking", "marking"}

RunsAtStep == \A w \in Worker, j \in Job : run[w][j].pc \in AtStep => run[w][j].at \in Step

TypeInv == TypeOK /\ RunsAtStep

\* Requests are calls, whatever status or gate they carry.
LEMMA RequestIsCall ==
  ASSUME NEW op \in Ops, NEW j \in Job
  PROVE  /\ Request(op, j) \in Call
         /\ \A st \in JOB_STATUSES : [Request(op, j) EXCEPT !.was = st] \in Call
         /\ \A s \in Gates : [Request(op, j) EXCEPT !.gate = s] \in Call
<1>1. 0 \in 0 .. NSteps /\ Gates \subseteq 0 .. NSteps
  BY JobsAssumption DEF Step
<1>2. Request(op, j) \in Call
  BY <1>1 DEF Request, Call
<1> QED
  BY <1>1, <1>2 DEF Call

\* Admitting, continuing or ending a request keeps the set of requests well typed.
LEMMA CallsType ==
  ASSUME TypeInv, NEW c \in Call,
         \/ Admit(c)
         \/ \E d \in calls : Continue(d, c) \/ Return(d)
  PROVE  calls' \subseteq Call
BY DEF TypeInv, TypeOK, Admit, Continue, Return

LEMMA ReturnType ==
  ASSUME TypeInv, NEW c, Return(c)
  PROVE  calls' \subseteq Call
BY DEF TypeInv, TypeOK, Return

LEMMA SettleType ==
  ASSUME NEW steps \in [Step -> STEP_STATUSES], NEW open, NEW to \in STEP_STATUSES
  PROVE  Settle(steps, open, to) \in [Step -> STEP_STATUSES]
BY DEF Settle

\* Replacing one run by another keeps the table of runs well typed.
LEMMA RunUpdate ==
  ASSUME TypeInv, NEW w \in Worker, NEW j \in Job, NEW r \in RunState,
         r.pc \in AtStep => r.at \in Step,
         run' = [run EXCEPT ![w][j] = r]
  PROVE  run' \in [Worker -> [Job -> RunState]] /\ RunsAtStep'
BY DEF TypeInv, TypeOK, RunsAtStep

LEMMA GotoType ==
  ASSUME TypeInv, NEW w \in Worker, NEW j \in Job, NEW pc \in Pc,
         pc \in AtStep => run[w][j].pc \in AtStep,
         Goto(w, j, pc)
  PROVE  run' \in [Worker -> [Job -> RunState]] /\ RunsAtStep'
<1>1. run[w][j] \in RunState
  BY DEF TypeInv, TypeOK
<1>2. [run[w][j] EXCEPT !.pc = pc] \in RunState
  BY <1>1 DEF RunState
<1>3. run' = [run EXCEPT ![w][j] = [run[w][j] EXCEPT !.pc = pc]]
  BY DEF Goto, TypeInv, TypeOK
<1>4. pc \in AtStep => run[w][j].at \in Step
  BY DEF TypeInv, RunsAtStep
<1> QED
  BY <1>1, <1>2, <1>3, <1>4, RunUpdate DEF RunState

LEMMA LeaveType ==
  ASSUME TypeInv, NEW w \in Worker, NEW j \in Job, NEW from, NEW to \in JOB_STATUSES,
         LeaveAs(w, j, from, to)
  PROVE  /\ status' \in [Job -> JOB_STATUSES \union {"NONE"}]
         /\ lease' \in [Job -> {"none", "live", "lapsed"}]
         /\ run' \in [Worker -> [Job -> RunState]] /\ RunsAtStep'
<1>1. Goto(w, j, "closing") /\ "closing" \in Pc /\ "closing" \notin AtStep
  BY DEF LeaveAs, Pc, AtStep
<1>2. run' \in [Worker -> [Job -> RunState]] /\ RunsAtStep'
  BY <1>1, GotoType
<1> QED
  BY <1>2, ZenonT(60) DEF LeaveAs, TypeInv, TypeOK

\* Recording a step as done moves the counter at most one past the last step.
LEMMA StepDoneType ==
  ASSUME TypeInv, NEW w \in Worker, NEW j \in Job, NEW to \in STEP_STATUSES,
         run[w][j].pc \in AtStep, StepDone(w, j, to)
  PROVE  /\ step' \in [Job -> [Step -> STEP_STATUSES]]
         /\ run' \in [Worker -> [Job -> RunState]] /\ RunsAtStep'
<1> DEFINE s == run[w][j].at
           r == [run[w][j] EXCEPT !.pc = "boundary", !.at = s + 1, !.seen = @ \union {s}]
<1>1. run[w][j] \in RunState /\ s \in Step /\ s + 1 \in 1 .. NSteps + 1
  BY JobsAssumption DEF TypeInv, TypeOK, RunsAtStep, Step
<1>2. r \in RunState /\ r.pc = "boundary"
  BY <1>1 DEF RunState, Pc
<1>3. run' = [run EXCEPT ![w][j] = r]
  BY DEF StepDone, TypeInv, TypeOK
<1>4. run' \in [Worker -> [Job -> RunState]] /\ RunsAtStep'
  BY <1>2, <1>3, RunUpdate DEF AtStep
<1> QED
  BY <1>1, <1>4 DEF StepDone, TypeInv, TypeOK

LEMMA NoRunType == NoRun \in RunState /\ NoRun.pc = "idle"
<1>1. 1 \in 1 .. NSteps + 1
  BY JobsAssumption
<1> QED
  BY <1>1 DEF NoRun, RunState, Pc, Exit

LEMMA InitType == Init => TypeInv
BY JobsAssumption DEF Init, TypeInv, RunsAtStep, TypeOK, AtStep, NoRun, RunState, Pc, Exit, Step,
                      JOB_STATUSES, STEP_STATUSES, Settling

\* A request that is admitted, and every step of one that is in flight.
LEMMA RequestKeepsType ==
  ASSUME TypeInv, User \/ \E c \in calls : Api(c) \/ EnqueueFails(c) \/ CallLost(c)
  PROVE  TypeInv'
<1> USE DEF TypeInv, TypeOK, rows, redis, procs
<1>1. ASSUME NEW j \in Job, Create(j) PROVE TypeInv'
  <2>1. Request("enqueue", j) \in Call
    BY RequestIsCall DEF Ops
  <2>2. calls' \subseteq Call
    BY <1>1, <2>1, CallsType DEF Create
  <2> QED
    BY <1>1, <2>2 DEF Create, JOB_STATUSES, ACTIVE_JOB_STATUSES, RunsAtStep
<1>2. ASSUME NEW j \in Job, CancelRead(j) PROVE TypeInv'
  <2>1. status[j] \in JOB_STATUSES
    BY <1>2 DEF CancelRead, JOB_STATUSES
  <2>2. [Request("cancel", j) EXCEPT !.was = status[j]] \in Call
    BY <2>1, RequestIsCall DEF Ops
  <2>3. calls' \subseteq Call
    BY <1>2, <2>2, CallsType DEF CancelRead
  <2> QED
    BY <1>2, <2>3 DEF CancelRead, RunsAtStep
<1>3. ASSUME NEW j \in Job, NEW verdict \in {"approve", "reject"}, NEW s \in Gates,
             DecideRead(j, verdict, s)
      PROVE  TypeInv'
  <2>1. [Request(verdict, j) EXCEPT !.gate = s] \in Call
    BY RequestIsCall DEF Ops
  <2>2. calls' \subseteq Call
    BY <1>3, <2>1, CallsType DEF DecideRead
  <2> QED
    BY <1>3, <2>2 DEF DecideRead, RunsAtStep
<1>4. ASSUME NEW c \in calls, Api(c) \/ EnqueueFails(c) \/ CallLost(c) PROVE TypeInv'
  <2>1. c.job \in Job /\ c.gate \in 0 .. NSteps /\ c.was \in JOB_STATUSES \union {"NONE"}
    BY DEF Call
  <2>2. \A op \in Ops : Request(op, c.job) \in Call
    BY <2>1, RequestIsCall
  <2>3. CASE Enqueue(c)
    <3>1. calls' \subseteq Call
      BY <2>3, ReturnType DEF Enqueue
    <3> QED
      BY <2>1, <2>3, <3>1 DEF Enqueue, RunsAtStep
  <2>4. CASE EnqueueFails(c)
    <3>1. calls' \subseteq Call
      BY <2>4, ReturnType DEF EnqueueFails
    <3> QED
      BY <2>1, <2>4, <3>1 DEF EnqueueFails, RunsAtStep, JOB_STATUSES, TERMINAL_JOB_STATUSES
  <2>5. CASE CallLost(c)
    <3>1. calls' \subseteq Call
      BY <2>5, ReturnType DEF CallLost
    <3> QED
      BY <2>5, <3>1 DEF CallLost, RunsAtStep
  <2>6. CASE CancelUnheld(c)
    <3>1. calls' \subseteq Call
      BY <2>2, <2>6 DEF CancelUnheld, Continue, Ops
    <3> QED
      BY <2>1, <2>6, <3>1 DEF CancelUnheld, RunsAtStep, JOB_STATUSES, TERMINAL_JOB_STATUSES
  <2>7. CASE CancelHeld(c)
    <3>1. calls' \subseteq Call
      BY <2>2, <2>7 DEF CancelHeld, Continue, Ops
    <3> QED
      BY <2>1, <2>7, <3>1 DEF CancelHeld, RunsAtStep
  <2>8. CASE RaiseFlag(c)
    <3>1. calls' \subseteq Call
      BY <2>8, ReturnType DEF RaiseFlag
    <3> QED
      BY <2>1, <2>8, <3>1 DEF RaiseFlag, RunsAtStep
  <2>9. CASE SettleSteps(c)
    <3>1. calls' \subseteq Call
      BY <2>2, <2>9 DEF SettleSteps, Continue, Return, Ops
    <3>2. Settle(step[c.job], {"PENDING", "RUNNING"}, "SKIPPED") \in [Step -> STEP_STATUSES]
      BY <2>1, SettleType DEF STEP_STATUSES
    <3> QED
      BY <2>1, <2>9, <3>1, <3>2 DEF SettleSteps, RunsAtStep
  <2>10. CASE Dequeue(c)
    <3>1. calls' \subseteq Call
      BY <2>10, ReturnType DEF Dequeue
    <3> QED
      BY <2>1, <2>10, <3>1 DEF Dequeue, RunsAtStep
  <2>11. CASE DecideWrite(c)
    <3>1. calls' \subseteq Call
      BY <2>2, <2>11 DEF DecideWrite, Continue, Return, Ops
    <3>2. PICK verdict \in {"approved", "rejected"} :
            approval' \in {approval, [approval EXCEPT ![c.job][c.gate] = verdict]}
      BY <2>11 DEF DecideWrite
    <3>3. approval' \in [Job -> [Gates -> {"none", "pending", "approved", "rejected"}]]
      <4>1. CASE approval' = approval
        BY <4>1
      <4>2. CASE approval' = [approval EXCEPT ![c.job][c.gate] = verdict]
        <5>1. [approval[c.job] EXCEPT ![c.gate] = verdict]
                \in [Gates -> {"none", "pending", "approved", "rejected"}]
          BY <2>1
        <5> QED
          BY <2>1, <4>2, <5>1
      <4> QED
        BY <3>2, <4>1, <4>2
    <3>4. UNCHANGED <<status, owner, lease, cancelAsked, step, queue, flag, up, run, settling, begunAfter>>
      BY <2>11 DEF DecideWrite
    <3> QED
      BY <3>1, <3>3, <3>4 DEF RunsAtStep
  <2>12. CASE Approved(c)
    <3>1. calls' \subseteq Call
      BY <2>2, <2>12 DEF Approved, Requeue, Continue, Ops
    <3> QED
      BY <2>1, <2>12, <3>1 DEF Approved, RunsAtStep, JOB_STATUSES, ACTIVE_JOB_STATUSES
  <2>13. CASE Rejected(c)
    <3>1. calls' \subseteq Call
      BY <2>2, <2>13 DEF Rejected, Continue, Ops
    <3> QED
      BY <2>1, <2>13, <3>1 DEF Rejected, RunsAtStep, JOB_STATUSES, TERMINAL_JOB_STATUSES
  <2> QED
    BY <1>4, <2>3, <2>4, <2>5, <2>6, <2>7, <2>8, <2>9, <2>10, <2>11, <2>12, <2>13 DEF Api
<1> QED
  BY <1>1, <1>2, <1>3, <1>4 DEF User, Retry

\* Every action of a run, its timers included.
LEMMA RunKeepsType ==
  ASSUME TypeInv, NEW w \in Worker, NEW j \in Job,
         \/ Pickup(w, j) \/ Runner(w, j) \/ Renew(w, j) \/ Watch(w, j)
         \/ PlaybookFails(w, j) \/ Abandon(w, j)
  PROVE  TypeInv'
<1> USE DEF rows, redis, procs
<1>1. run[w][j] \in RunState /\ run[w][j].at \in 1 .. NSteps + 1
  BY DEF TypeInv, TypeOK, RunState
<1>2. CASE Pickup(w, j)
  <2>1. run' \in [Worker -> [Job -> RunState]] /\ RunsAtStep'
    BY <1>2, GotoType DEF Pickup, Pc, AtStep
  <2> QED
    BY <1>2, <2>1 DEF Pickup, TypeInv, TypeOK
<1>3. CASE Claim(w, j)
  <2>1. CASE Claimable(j)
    <3> DEFINE r == [NoRun EXCEPT !.pc = "claimed"]
    <3>1. r \in RunState /\ r.pc = "claimed"
      BY NoRunType DEF RunState, Pc
    <3>2. run' \in [Worker -> [Job -> RunState]] /\ RunsAtStep'
      BY <1>3, <2>1, <3>1, RunUpdate DEF Claim, AtStep
    <3>3. /\ status' = [status EXCEPT ![j] = "PREFLIGHT"]
          /\ owner' = [owner EXCEPT ![j] = w] /\ lease' = [lease EXCEPT ![j] = "live"]
          /\ UNCHANGED <<cancelAsked, step, approval, redis, up, settling, calls, begunAfter>>
      BY <1>3, <2>1 DEF Claim, Take
    <3> QED
      BY <3>2, <3>3 DEF TypeInv, TypeOK, JOB_STATUSES, ACTIVE_JOB_STATUSES
  <2>2. CASE ~ Claimable(j)
    <3>1. run' \in [Worker -> [Job -> RunState]] /\ RunsAtStep'
      BY <1>3, <2>2, GotoType DEF Claim, Pc, AtStep
    <3> QED
      BY <1>3, <2>2, <3>1 DEF Claim, TypeInv, TypeOK
  <2> QED
    BY <2>1, <2>2
<1>4. CASE PlaybookFails(w, j)
  <2>1. "FAILED" \in JOB_STATUSES
    BY DEF JOB_STATUSES, TERMINAL_JOB_STATUSES
  <2> QED
    BY <1>4, <2>1, LeaveType DEF PlaybookFails, TypeInv, TypeOK
<1>5. CASE CreateSteps(w, j)
  <2>1. run' \in [Worker -> [Job -> RunState]] /\ RunsAtStep'
    BY <1>5, GotoType DEF CreateSteps, Pc, AtStep
  <2>2. Settle(step[j], {"NONE"}, "PENDING") \in [Step -> STEP_STATUSES]
    BY SettleType DEF STEP_STATUSES, TypeInv, TypeOK
  <2> QED
    BY <1>5, <2>1, <2>2 DEF CreateSteps, TypeInv, TypeOK
<1>6. CASE Start(w, j)
  <2>1. run' \in [Worker -> [Job -> RunState]] /\ RunsAtStep'
    BY <1>6, GotoType DEF Start, Pc, AtStep
  <2> QED
    BY <1>6, <2>1 DEF Start, TypeInv, TypeOK, JOB_STATUSES, ACTIVE_JOB_STATUSES
<1>7. CASE Load(w, j)
  <2> DEFINE r == [run[w][j] EXCEPT !.pc = "boundary", !.seen = KnownDone(j)]
  <2>1. r \in RunState /\ r.pc \notin AtStep
    BY <1>1 DEF RunState, Pc, KnownDone, AtStep
  <2>2. run' = [run EXCEPT ![w][j] = r]
    BY <1>7 DEF Load, TypeInv, TypeOK
  <2>3. run' \in [Worker -> [Job -> RunState]] /\ RunsAtStep'
    BY <2>1, <2>2, RunUpdate
  <2> QED
    BY <1>7, <2>3 DEF Load, TypeInv, TypeOK
<1>8. CASE Boundary(w, j)
  <2> DEFINE r == run[w][j]
             next == IF r.at \in r.seen THEN [r EXCEPT !.at = @ + 1]
                     ELSE IF CancelRequested(w, j)
                          THEN [r EXCEPT !.pc = "skipping", !.exit = "CANCELLED", !.hit = FALSE]
                          ELSE [r EXCEPT !.pc = "step"]
  <2>1. r.pc = "boundary" /\ r.at \in Step /\ r.at + 1 \in 1 .. NSteps + 1
    BY <1>1, <1>8, JobsAssumption DEF Boundary, Step
  <2>2. next \in RunState /\ (next.pc \in AtStep => next.at \in Step)
    BY <1>1, <2>1 DEF RunState, Pc, Exit, AtStep
  <2>3. run' \in [Worker -> [Job -> RunState]] /\ RunsAtStep'
    BY <1>8, <2>2, RunUpdate DEF Boundary
  <2> QED
    BY <1>8, <2>3 DEF Boundary, TypeInv, TypeOK
<1>9. CASE Succeed(w, j)
  <2>1. "SUCCEEDED" \in JOB_STATUSES
    BY DEF JOB_STATUSES, TERMINAL_JOB_STATUSES
  <2> QED
    BY <1>9, <2>1, LeaveType DEF Succeed, TypeInv, TypeOK
<1>10. CASE StepNotNeeded(w, j)
  BY <1>10, StepDoneType DEF StepNotNeeded, AtStep, STEP_STATUSES, TypeInv, TypeOK
<1>11. CASE MarkRunning(w, j)
  <2>1. run' \in [Worker -> [Job -> RunState]] /\ RunsAtStep'
    BY <1>11, GotoType DEF MarkRunning, Pc, AtStep
  <2> QED
    BY <1>11, <2>1 DEF MarkRunning, TypeInv, TypeOK, STEP_STATUSES
<1>12. CASE BeginStep(w, j)
  <2>1. run' \in [Worker -> [Job -> RunState]] /\ RunsAtStep'
    BY <1>12, GotoType DEF BeginStep, Pc, AtStep
  <2>2. begunAfter' \in [Job -> Nat]
    <3>1. begunAfter' \in {begunAfter, [begunAfter EXCEPT ![j] = begunAfter[j]],
                           [begunAfter EXCEPT ![j] = begunAfter[j] + 1]}
      BY <1>12 DEF BeginStep, TypeInv, TypeOK
    <3> QED
      BY <3>1 DEF TypeInv, TypeOK
  <2>3. UNCHANGED <<rows, redis, up, settling, calls>>
    BY <1>12 DEF BeginStep
  <2> QED
    BY <2>1, <2>2, <2>3 DEF TypeInv, TypeOK
<1>13. CASE StepSucceeds(w, j)
  BY <1>13, StepDoneType DEF StepSucceeds, AtStep, STEP_STATUSES, TypeInv, TypeOK
<1>14. ASSUME NEW exit \in {"FAILED", "PARTIALLY_SUCCEEDED"}, StepThrows(w, j, exit) PROVE TypeInv'
  <2> DEFINE r == run[w][j]
             next == IF r.lost THEN [r EXCEPT !.pc = "closing"]
                     ELSE [r EXCEPT !.pc = "marking", !.hit = TRUE,
                                    !.exit = IF r.aborted THEN "CANCELLED" ELSE exit]
  <2>1. r.at \in Step
    BY <1>14 DEF StepThrows, TypeInv, RunsAtStep, AtStep
  <2>2. next \in RunState /\ (next.pc \in AtStep => next.at \in Step)
    BY <1>1, <2>1 DEF RunState, Pc, Exit, AtStep
  <2>3. run' \in [Worker -> [Job -> RunState]] /\ RunsAtStep'
    BY <1>14, <2>2, RunUpdate DEF StepThrows
  <2> QED
    BY <1>14, <2>3 DEF StepThrows, TypeInv, TypeOK
<1>15. CASE ProgressMissed(w, j)
  <2>1. run' \in [Worker -> [Job -> RunState]] /\ RunsAtStep'
    BY <1>15, GotoType DEF ProgressMissed, Pc, AtStep
  <2> QED
    BY <1>15, <2>1 DEF ProgressMissed, TypeInv, TypeOK
<1>16. CASE MarkFailed(w, j)
  <2>1. run' \in [Worker -> [Job -> RunState]] /\ RunsAtStep'
    BY <1>16, GotoType DEF MarkFailed, Pc, AtStep
  <2> QED
    BY <1>16, <2>1 DEF MarkFailed, TypeInv, TypeOK, STEP_STATUSES
<1>17. CASE SkipRemaining(w, j)
  <2>1. run' \in [Worker -> [Job -> RunState]] /\ RunsAtStep'
    BY <1>17, GotoType DEF SkipRemaining, Pc, AtStep
  <2> QED
    BY <1>17, <2>1 DEF SkipRemaining, TypeInv, TypeOK, STEP_STATUSES
<1>18. CASE Finish(w, j)
  <2>1. run[w][j].exit \in JOB_STATUSES
    BY <1>1 DEF RunState, Exit, JOB_STATUSES, TERMINAL_JOB_STATUSES
  <2> QED
    BY <1>18, <2>1, LeaveType DEF Finish, TypeInv, TypeOK
<1>19. CASE PassGate(w, j)
  BY <1>19, StepDoneType DEF PassGate, AtStep, STEP_STATUSES, TypeInv, TypeOK
<1>20. CASE OpenGate(w, j)
  <2>1. run' \in [Worker -> [Job -> RunState]] /\ RunsAtStep'
    BY <1>20, GotoType DEF OpenGate, Pc, AtStep
  <2> QED
    BY <1>20, <2>1 DEF OpenGate, TypeInv, TypeOK
<1>21. CASE Park(w, j)
  <2>1. "WAITING_APPROVAL" \in JOB_STATUSES
    BY DEF JOB_STATUSES, ACTIVE_JOB_STATUSES
  <2>2. owner' \in [Job -> Worker \union {NoWorker}]
    BY <1>21 DEF Park, Release, TypeInv, TypeOK
  <2> QED
    BY <1>21, <2>1, <2>2, LeaveType DEF Park, TypeInv, TypeOK
<1>22. CASE Close(w, j)
  <2>1. NoRun \in RunState /\ NoRun.pc \notin AtStep
    BY NoRunType DEF AtStep
  <2>2. run' \in [Worker -> [Job -> RunState]] /\ RunsAtStep'
    BY <1>22, <2>1, RunUpdate DEF Close
  <2> QED
    BY <1>22, <2>2 DEF Close, TypeInv, TypeOK
<1>23. CASE Renew(w, j)
  <2> DEFINE r == [run[w][j] EXCEPT !.lost = TRUE, !.aborted = TRUE]
  <2>1. r \in RunState /\ r.pc = run[w][j].pc /\ r.at = run[w][j].at
    BY <1>1 DEF RunState
  <2>2. run' = run \/ run' = [run EXCEPT ![w][j] = r]
    BY <1>23, ZenonT(60) DEF Renew, TypeInv, TypeOK
  <2>3. r.pc \in AtStep => r.at \in Step
    BY <2>1 DEF TypeInv, RunsAtStep
  <2>4. run' \in [Worker -> [Job -> RunState]] /\ RunsAtStep'
    <3>1. CASE run' = run
      BY <3>1 DEF TypeInv, TypeOK, RunsAtStep
    <3>2. CASE run' = [run EXCEPT ![w][j] = r]
      BY <2>1, <2>3, <3>2, RunUpdate
    <3> QED
      BY <2>2, <3>1, <3>2
  <2> QED
    BY <1>23, <2>4 DEF Renew, TypeInv, TypeOK
<1>24. CASE Watch(w, j)
  <2> DEFINE r == [run[w][j] EXCEPT !.aborted = TRUE]
  <2>1. r \in RunState /\ r.pc = run[w][j].pc /\ r.at = run[w][j].at
    BY <1>1 DEF RunState
  <2>2. run' = [run EXCEPT ![w][j] = r]
    BY <1>24 DEF Watch, TypeInv, TypeOK
  <2>3. run' \in [Worker -> [Job -> RunState]] /\ RunsAtStep'
    BY <2>1, <2>2, RunUpdate DEF TypeInv, RunsAtStep
  <2> QED
    BY <1>24, <2>3 DEF Watch, TypeInv, TypeOK
<1>25. CASE Abandon(w, j)
  <2>1. run' \in [Worker -> [Job -> RunState]] /\ RunsAtStep'
    BY <1>25, GotoType DEF Abandon, Pc, AtStep
  <2> QED
    BY <1>25, <2>1 DEF Abandon, TypeInv, TypeOK
<1> QED
  BY <1>2, <1>3, <1>4, <1>5, <1>6, <1>7, <1>8, <1>9, <1>10, <1>11, <1>12, <1>13, <1>14, <1>15,
     <1>16, <1>17, <1>18, <1>19, <1>20, <1>21, <1>22, <1>23, <1>24, <1>25 DEF Runner

\* The reconciler, time, and the faults that strike from outside.
LEMMA SurroundingsKeepType ==
  ASSUME TypeInv,
         \/ \E w \in Worker, j \in Job :
              Reconcile(w, j) \/ ReconcileSteps(w, j) \/ Stall(w, j)
         \/ \E j \in Job : LeaseRunsOut(j)
         \/ \E w \in Worker : Crash(w)
         \/ RedisLoss
  PROVE  TypeInv'
<1> USE DEF rows, redis, procs
<1>1. ASSUME NEW w \in Worker, NEW j \in Job, Reconcile(w, j) PROVE TypeInv'
  BY <1>1 DEF Reconcile, Conclude, TypeInv, TypeOK, RunsAtStep, Settling, JOB_STATUSES,
              TERMINAL_JOB_STATUSES
<1>2. ASSUME NEW w \in Worker, NEW j \in Job, ReconcileSteps(w, j) PROVE TypeInv'
  <2>1. /\ Settle(step[j], {"RUNNING"}, "FAILED") \in [Step -> STEP_STATUSES]
        /\ Settle(step[j], {"PENDING"}, "SKIPPED") \in [Step -> STEP_STATUSES]
    BY SettleType DEF STEP_STATUSES, TypeInv, TypeOK
  <2>2. step' \in [Job -> [Step -> STEP_STATUSES]]
    BY <1>2, <2>1 DEF ReconcileSteps, TypeInv, TypeOK
  <2>3. settling' \in [Job -> Settling]
    <3>1. settling[j] \in Settling
      BY DEF TypeInv, TypeOK
    <3>2. /\ [settling[j] EXCEPT !.left = "PENDING"] \in Settling
          /\ [by |-> NoWorker, left |-> "none"] \in Settling
      BY <3>1 DEF Settling
    <3>3. \/ settling' = [settling EXCEPT ![j] = [settling[j] EXCEPT !.left = "PENDING"]]
          \/ settling' = [settling EXCEPT ![j] = [by |-> NoWorker, left |-> "none"]]
      BY <1>2 DEF ReconcileSteps, TypeInv, TypeOK
    <3> QED
      BY <3>2, <3>3 DEF TypeInv, TypeOK
  <2> QED
    BY <1>2, <2>2, <2>3 DEF ReconcileSteps, TypeInv, TypeOK, RunsAtStep
<1>3. ASSUME NEW w \in Worker, NEW j \in Job, Stall(w, j) PROVE TypeInv'
  BY <1>3 DEF Stall, TypeInv, TypeOK, RunsAtStep
<1>4. ASSUME NEW j \in Job, LeaseRunsOut(j) PROVE TypeInv'
  BY <1>4 DEF LeaseRunsOut, TypeInv, TypeOK, RunsAtStep
<1>5. ASSUME NEW w \in Worker, Crash(w) PROVE TypeInv'
  <2>1. NoRun \in RunState /\ NoRun.pc \notin AtStep
    BY NoRunType DEF AtStep
  <2>2. run' \in [Worker -> [Job -> RunState]] /\ RunsAtStep'
    BY <1>5, <2>1 DEF Crash, TypeInv, TypeOK, RunsAtStep
  <2> QED
    BY <1>5, <2>2 DEF Crash, TypeInv, TypeOK
<1>6. CASE RedisLoss
  BY <1>6 DEF RedisLoss, TypeInv, TypeOK, RunsAtStep
<1> QED
  BY <1>1, <1>2, <1>3, <1>4, <1>5, <1>6

LEMMA NextKeepsType == TypeInv /\ [Next]_vars => TypeInv'
<1>1. CASE UNCHANGED vars
  BY <1>1 DEF vars, rows, redis, procs, TypeInv, TypeOK, RunsAtStep
<1>2. CASE Next
  BY <1>2, RequestKeepsType, RunKeepsType, SurroundingsKeepType DEF Next, Fault
<1> QED
  BY <1>1, <1>2

\* Every variable keeps its type: in particular the counter of a run never leaves the
\* playbook, and no write gives a row a status outside the ten.
THEOREM TypeCorrect == Spec => []TypeOK
<1>1. TypeInv => TypeOK
  BY DEF TypeInv
<1> QED
  BY InitType, NextKeepsType, <1>1, PTL DEF Spec

-----------------------------------------------------------------------------
(* The job system implements the board *)

\* The moves the code makes, each from the status its write is conditional on.
LEMMA MovesInTable ==
  /\ canTransition("QUEUED", "PREFLIGHT") /\ canTransition("PREFLIGHT", "RUNNING")
  /\ canTransition("PREFLIGHT", "FAILED")
  /\ canTransition("RUNNING", "WAITING_APPROVAL") /\ canTransition("WAITING_APPROVAL", "QUEUED")
  /\ canTransition("RUNNING", "SUCCEEDED")
  /\ \A exit \in Exit : canTransition("RUNNING", exit)
  /\ \A st \in UNHELD : canTransition(st, "CANCELLED") /\ canTransition(st, "FAILED")
  /\ \A st \in OWNED : canTransition(st, "FAILED")
BY DEF canTransition, TRANSITIONS, TERMINAL_JOB_STATUSES, Exit, UNHELD, OWNED

\* The board's instance has the vocabulary of this module.
LEMMA SameVocabulary ==
  /\ Board!JOB_STATUSES = JOB_STATUSES
  /\ Board!ACTIVE_JOB_STATUSES = ACTIVE_JOB_STATUSES
  /\ Board!TRANSITIONS = TRANSITIONS
<1>1. Board!TERMINAL_JOB_STATUSES = TERMINAL_JOB_STATUSES
  BY DEF Board!TERMINAL_JOB_STATUSES, TERMINAL_JOB_STATUSES
<1>2. Board!ACTIVE_JOB_STATUSES = ACTIVE_JOB_STATUSES
  BY DEF Board!ACTIVE_JOB_STATUSES, ACTIVE_JOB_STATUSES
<1> QED
  BY <1>1, <1>2 DEF Board!JOB_STATUSES, JOB_STATUSES, Board!TRANSITIONS, TRANSITIONS

\* A conditional write is a move of the board, or no step of it.
LEMMA WriteIsMove ==
  ASSUME NEW j \in Job, NEW to \in JOB_STATUSES, canTransition(status[j], to),
         status' = [status EXCEPT ![j] = to]
  PROVE  [Board!Next]_status
<1>1. Board!Move(j, to)
  BY SameVocabulary DEF Board!Move, Board!canTransition, canTransition
<1> QED
  BY <1>1, SameVocabulary DEF Board!Next

LEMMA LeaveIsMove ==
  ASSUME NEW w \in Worker, NEW j \in Job, NEW from, NEW to \in JOB_STATUSES,
         canTransition(from, to), LeaveAs(w, j, from, to)
  PROVE  [Board!Next]_status
BY WriteIsMove DEF LeaveAs, Held

\* A row appears only through the insert, and the index has looked at every other row.
LEMMA CreateIsInsert ==
  ASSUME NEW j \in Job, Create(j)
  PROVE  [Board!Next]_status
<1>1. Board!KeyFree(status, j)
  BY SameVocabulary DEF Create, KeyFree, Board!KeyFree, Rivals, Board!Rivals
<1>2. Board!Insert(j)
  BY <1>1 DEF Create, Board!Insert
<1> QED
  BY <1>2 DEF Board!Next

\* Every step of the job system is one step of the board, or none.
LEMMA StepOnBoard ==
  ASSUME TypeInv, [Next]_vars
  PROVE  [Board!Next]_status
<1> USE DEF rows
<1>a. ACTIVE_JOB_STATUSES \union TERMINAL_JOB_STATUSES = JOB_STATUSES
  BY DEF JOB_STATUSES
<1>b. {"QUEUED", "PREFLIGHT", "WAITING_APPROVAL", "RUNNING", "FAILED", "CANCELLED", "SUCCEEDED"}
        \union Exit \subseteq JOB_STATUSES
  BY DEF JOB_STATUSES, ACTIVE_JOB_STATUSES, TERMINAL_JOB_STATUSES, Exit
<1>1. CASE UNCHANGED vars
  BY <1>1 DEF vars
<1>2. CASE User
  BY <1>2, CreateIsInsert DEF User, Retry, CancelRead, DecideRead
<1>3. ASSUME NEW c \in calls, Api(c) \/ EnqueueFails(c) \/ CallLost(c) PROVE [Board!Next]_status
  <2>1. c.job \in Job
    BY DEF TypeInv, TypeOK, Call
  <2>2. CASE CancelUnheld(c)
    BY <1>b, <2>1, <2>2, MovesInTable, WriteIsMove DEF CancelUnheld
  <2>3. CASE Approved(c)
    BY <1>b, <2>1, <2>3, MovesInTable, WriteIsMove DEF Approved, Parked
  <2>4. CASE Rejected(c)
    BY <1>b, <2>1, <2>4, MovesInTable, WriteIsMove DEF Rejected, Parked, UNHELD
  <2>5. CASE EnqueueFails(c)
    BY <1>b, <2>1, <2>5, MovesInTable, WriteIsMove DEF EnqueueFails, UNHELD
  <2>6. CASE \/ Enqueue(c) \/ CancelHeld(c) \/ RaiseFlag(c) \/ SettleSteps(c) \/ Dequeue(c)
            \/ DecideWrite(c) \/ CallLost(c)
    BY <2>6 DEF Enqueue, CancelHeld, RaiseFlag, SettleSteps, Dequeue, DecideWrite, CallLost
  <2> QED
    BY <1>3, <2>2, <2>3, <2>4, <2>5, <2>6 DEF Api
<1>4. ASSUME NEW w \in Worker, NEW j \in Job,
             Runner(w, j) \/ PlaybookFails(w, j)
      PROVE  [Board!Next]_status
  <2>1. CASE Claim(w, j)
    BY <1>b, <2>1, MovesInTable, WriteIsMove DEF Claim, Claimable
  <2>2. CASE PlaybookFails(w, j)
    BY <1>b, <2>2, MovesInTable, LeaveIsMove DEF PlaybookFails
  <2>3. CASE Start(w, j)
    BY <1>b, <2>3, MovesInTable, WriteIsMove DEF Start, Held
  <2>4. CASE Succeed(w, j)
    BY <1>b, <2>4, MovesInTable, LeaveIsMove DEF Succeed
  <2>5. CASE Finish(w, j)
    <3>1. run[w][j].exit \in Exit
      BY DEF TypeInv, TypeOK, RunState
    <3> QED
      BY <1>b, <2>5, <3>1, MovesInTable, LeaveIsMove DEF Finish
  <2>6. CASE Park(w, j)
    BY <1>b, <2>6, MovesInTable, LeaveIsMove DEF Park
  <2>7. CASE \/ CreateSteps(w, j) \/ Load(w, j) \/ Boundary(w, j) \/ StepNotNeeded(w, j)
            \/ MarkRunning(w, j) \/ BeginStep(w, j) \/ StepSucceeds(w, j) \/ ProgressMissed(w, j)
            \/ (\E exit \in {"FAILED", "PARTIALLY_SUCCEEDED"} : StepThrows(w, j, exit))
            \/ MarkFailed(w, j) \/ SkipRemaining(w, j) \/ PassGate(w, j) \/ OpenGate(w, j)
            \/ Close(w, j)
    BY <2>7 DEF CreateSteps, Load, Boundary, StepNotNeeded, MarkRunning, BeginStep, StepSucceeds,
                ProgressMissed, StepThrows, MarkFailed, SkipRemaining, PassGate, OpenGate, Close
  <2> QED
    BY <1>4, <2>1, <2>2, <2>3, <2>4, <2>5, <2>6, <2>7 DEF Runner
<1>5. ASSUME NEW w \in Worker, NEW j \in Job,
             \/ Pickup(w, j) \/ Renew(w, j) \/ Watch(w, j) \/ Reconcile(w, j)
             \/ ReconcileSteps(w, j) \/ Abandon(w, j) \/ Stall(w, j)
      PROVE  [Board!Next]_status
  <2>1. CASE Reconcile(w, j)
    BY <1>b, <2>1, MovesInTable, WriteIsMove DEF Reconcile, Conclude, LostJob
  <2> QED
    BY <1>5, <2>1 DEF Pickup, Renew, Watch, ReconcileSteps, Abandon, Stall
<1>6. CASE (\E j \in Job : LeaseRunsOut(j)) \/ (\E w \in Worker : Crash(w)) \/ RedisLoss
  BY <1>6 DEF LeaseRunsOut, Crash, RedisLoss
<1> QED
  BY <1>1, <1>2, <1>3, <1>4, <1>5, <1>6 DEF Next, Fault

\* Refinement: whatever requests, runs, reconcilers and faults do, the rows follow the
\* board.  Each write is conditional on the status it starts from, so typing is all
\* the invariant this needs.
THEOREM JobsImplementBoard == Spec => ImplementsBoard
<1>1. Init => Board!Init
  BY DEF Init, Board!Init
<1>2. TypeInv /\ [Next]_vars => [Board!Next]_status
  BY StepOnBoard
<1> QED
  BY <1>1, <1>2, InitType, NextKeepsType, PTL DEF Spec, ImplementsBoard, Board!Spec

\* "Two mutating jobs against one cluster cannot run concurrently", of the rows: an
\* insert finds the key free, and a move starts from a row that already had the key.
THEOREM KeysAreExclusive == Spec => []OneActivePerKey
<1> USE SameVocabulary DEF Board!OneActivePerKey, Board!Rivals, Rivals
<1>1. Init => OneActivePerKey
  BY DEF Init, OneActivePerKey, ACTIVE_JOB_STATUSES
<1>2. TypeInv /\ OneActivePerKey /\ [Next]_vars => OneActivePerKey'
  <2> SUFFICES ASSUME TypeInv, OneActivePerKey, [Board!Next]_status PROVE OneActivePerKey'
    BY StepOnBoard
  <2> USE DEF TypeInv, TypeOK, OneActivePerKey
  <2>1. CASE UNCHANGED status
    BY <2>1
  <2>2. ASSUME NEW j \in Job, Board!Insert(j) PROVE OneActivePerKey'
    BY <2>2 DEF Board!Insert, Board!KeyFree
  <2>3. ASSUME NEW j \in Job, NEW to \in JOB_STATUSES, Board!Move(j, to) PROVE OneActivePerKey'
    <3>1. status[j] \in ACTIVE_JOB_STATUSES
      BY <2>3 DEF Board!Move, Board!canTransition, TRANSITIONS, ACTIVE_JOB_STATUSES
    <3> QED
      BY <2>3, <3>1 DEF Board!Move
  <2> QED
    BY <2>1, <2>2, <2>3 DEF Board!Next
<1> QED
  BY <1>1, <1>2, InitType, NextKeepsType, PTL DEF Spec

-----------------------------------------------------------------------------
(* Who has a job in hand *)

\* A row that belongs to nobody, or does not exist yet, carries no claim and no run.
IsFree(j) == owner[j] = NoWorker /\ lease[j] = "none" /\ \A w \in Worker : ~ InRun(w, j)

\* The three invariants about one row, with what they need of a row that is not there.
HoldAt(j) ==
  /\ \A v, w \in Worker : InRun(v, j) /\ InRun(w, j) => v = w
  /\ status[j] \in UNHELD \union {"NONE"} => IsFree(j)
  /\ status[j] \in OWNED =>
       /\ owner[j] # NoWorker /\ lease[j] # "none"
       /\ \A w \in Worker : InRun(w, j) => owner[j] = w

HoldInv == \A j \in Job : HoldAt(j)

\* A step of one run leaves every other run as it is ...
OthersKept(w, j) ==
  \A v \in Worker, i \in Job : v # w \/ i # j => run'[v][i] = run[v][i]

\* ... and no run is in hand after the step that was not in hand before.
RunsOnlyEnd == \A w \in Worker, j \in Job : InRun(w, j)' => InRun(w, j)

LEMMA GotoEffect ==
  ASSUME TypeInv, NEW w \in Worker, NEW j \in Job, NEW pc \in Pc, Goto(w, j, pc)
  PROVE  /\ run'[w][j] = [run[w][j] EXCEPT !.pc = pc]
         /\ run'[w][j].pc = pc /\ run'[w][j].at = run[w][j].at /\ run'[w][j].seen = run[w][j].seen
         /\ OthersKept(w, j)
<1>1. run[w][j] \in RunState
  BY DEF TypeInv, TypeOK
<1>2. run'[w][j] = [run[w][j] EXCEPT !.pc = pc] /\ OthersKept(w, j)
  BY DEF Goto, TypeInv, TypeOK, OthersKept
<1> QED
  BY <1>1, <1>2 DEF RunState

LEMMA StepDoneEffect ==
  ASSUME TypeInv, NEW w \in Worker, NEW j \in Job, NEW to, StepDone(w, j, to)
  PROVE  /\ run'[w][j].pc = "boundary" /\ run'[w][j].at = run[w][j].at + 1
         /\ run'[w][j].seen = run[w][j].seen \union {run[w][j].at}
         /\ OthersKept(w, j)
<1> DEFINE s == run[w][j].at
           r == [run[w][j] EXCEPT !.pc = "boundary", !.at = s + 1, !.seen = @ \union {s}]
<1>1. run[w][j] \in RunState
  BY DEF TypeInv, TypeOK
<1>2. run'[w][j] = r /\ OthersKept(w, j)
  BY DEF StepDone, TypeInv, TypeOK, OthersKept
<1>3. r.pc = "boundary" /\ r.at = s + 1 /\ r.seen = run[w][j].seen \union {s}
  BY <1>1 DEF RunState
<1> QED
  BY <1>2, <1>3

\* The code of a run after its claim, and the timers, touch no other run.
LEMMA OwnRunOnly ==
  ASSUME TypeInv, NEW w \in Worker, NEW j \in Job,
         \/ Pickup(w, j) \/ Runner(w, j) \/ Renew(w, j) \/ Watch(w, j)
         \/ PlaybookFails(w, j) \/ Abandon(w, j)
  PROVE  OthersKept(w, j)
<1> USE DEF TypeInv, TypeOK, OthersKept
<1>1. CASE Pickup(w, j) \/ CreateSteps(w, j) \/ Start(w, j) \/ MarkRunning(w, j)
           \/ BeginStep(w, j) \/ ProgressMissed(w, j) \/ MarkFailed(w, j)
           \/ SkipRemaining(w, j) \/ OpenGate(w, j) \/ Abandon(w, j)
  BY <1>1 DEF Pickup, CreateSteps, Start, MarkRunning, BeginStep, ProgressMissed, MarkFailed,
              SkipRemaining, OpenGate, Abandon, Goto
<1>2. CASE PlaybookFails(w, j) \/ Succeed(w, j) \/ Finish(w, j) \/ Park(w, j)
  BY <1>2 DEF PlaybookFails, Succeed, Finish, Park, LeaveAs, Goto
<1>3. CASE StepNotNeeded(w, j) \/ StepSucceeds(w, j) \/ PassGate(w, j)
  BY <1>3 DEF StepNotNeeded, StepSucceeds, PassGate, StepDone
<1>4. CASE Claim(w, j) \/ Load(w, j) \/ Boundary(w, j) \/ Close(w, j)
  BY <1>4 DEF Claim, Load, Boundary, Close, Goto
<1>5. CASE \E exit \in {"FAILED", "PARTIALLY_SUCCEEDED"} : StepThrows(w, j, exit)
  BY <1>5 DEF StepThrows
<1>6. CASE Renew(w, j) \/ Watch(w, j)
  BY <1>6 DEF Renew, Watch
<1> QED
  BY <1>1, <1>2, <1>3, <1>4, <1>5, <1>6 DEF Runner

\* A run that is in hand, or that ends, brings no new one.
LEMMA StepsBringNoRun ==
  ASSUME TypeInv, NEW w \in Worker, NEW j \in Job,
         \/ Pickup(w, j) \/ Runner(w, j) \/ Renew(w, j) \/ Watch(w, j)
         \/ PlaybookFails(w, j) \/ Abandon(w, j),
         ~ (Claim(w, j) /\ Claimable(j))
  PROVE  RunsOnlyEnd
<1>1. OthersKept(w, j)
  BY OwnRunOnly
<1>2. InRun(w, j)' => InRun(w, j)
  <2>1. CASE Pickup(w, j) \/ Claim(w, j) \/ Abandon(w, j)
    <3>1. PICK pc \in {"idle", "picked", "closing"} : Goto(w, j, pc)
      BY <2>1 DEF Pickup, Claim, Abandon
    <3>2. pc \in Pc
      BY DEF Pc
    <3>3. run'[w][j].pc = pc
      BY <3>1, <3>2, GotoEffect, ZenonT(60)
    <3> QED
      BY <3>3 DEF InRun
  <2>2. CASE Close(w, j)
    BY <2>2, NoRunType DEF Close, InRun, TypeInv, TypeOK
  <2>3. CASE Runner(w, j) /\ ~ Claim(w, j) /\ ~ Close(w, j)
    <3>1. run[w][j].pc \notin {"idle", "picked", "closing"}
      BY <2>3 DEF Runner, CreateSteps, Start, Load, Boundary, Succeed, StepNotNeeded, MarkRunning,
                  BeginStep, StepSucceeds, ProgressMissed, StepThrows, MarkFailed, SkipRemaining,
                  Finish, PassGate, OpenGate, Park
    <3> QED
      BY <3>1 DEF InRun
  <2>4. CASE PlaybookFails(w, j) \/ Renew(w, j) \/ Watch(w, j)
    BY <2>4 DEF PlaybookFails, Renew, Watch, InRun
  <2> QED
    BY <2>1, <2>2, <2>3, <2>4
<1> QED
  BY <1>1, <1>2 DEF OthersKept, RunsOnlyEnd, InRun

\* A row of which nothing changes but the time left on its claim, and that no run
\* takes in hand, stays as well held as it was.
LEMMA RowKeepsHold ==
  ASSUME HoldInv, NEW j \in Job,
         status'[j] = status[j], owner'[j] = owner[j],
         lease'[j] = "none" <=> lease[j] = "none",
         RunsOnlyEnd
  PROVE  HoldAt(j)'
BY DEF HoldInv, HoldAt, IsFree, RunsOnlyEnd

\* A row that ends is held by nobody in particular.
LEMMA EndedRowHolds ==
  ASSUME HoldInv, NEW j \in Job, status'[j] \in TERMINAL_JOB_STATUSES, RunsOnlyEnd
  PROVE  HoldAt(j)'
<1>1. status'[j] \notin OWNED \union UNHELD \union {"NONE"}
  BY DEF TERMINAL_JOB_STATUSES, OWNED, UNHELD
<1> QED
  BY <1>1 DEF HoldInv, HoldAt, RunsOnlyEnd

\* An exit is a conditional write: it ends the row or leaves it alone.
LEMMA LeaveKeepsHold ==
  ASSUME TypeInv, HoldInv, NEW w \in Worker, NEW j \in Job, NEW from, NEW to \in TERMINAL_JOB_STATUSES,
         LeaveAs(w, j, from, to), UNCHANGED owner, RunsOnlyEnd
  PROVE  HoldInv'
<1>1. ASSUME NEW i \in Job PROVE HoldAt(i)'
  <2>1. CASE i = j /\ Held(w, j, from)
    BY <2>1, EndedRowHolds DEF LeaveAs, TypeInv, TypeOK
  <2>2. CASE i # j \/ ~ Held(w, j, from)
    <3>1. status'[i] = status[i] /\ lease'[i] = lease[i]
      BY <2>2 DEF LeaveAs, TypeInv, TypeOK
    <3> QED
      BY <3>1, RowKeepsHold
  <2> QED
    BY <2>1, <2>2
<1> QED
  BY <1>1 DEF HoldInv

LEMMA RequestKeepsHold ==
  ASSUME TypeInv, HoldInv, User \/ \E c \in calls : Api(c) \/ EnqueueFails(c) \/ CallLost(c)
  PROVE  HoldInv'
<1> USE DEF rows, redis, procs
<1>1. run' = run /\ RunsOnlyEnd
  <2>1. run' = run
    BY DEF User, Create, Retry, CancelRead, DecideRead, Api, Enqueue, CancelUnheld, CancelHeld,
           RaiseFlag, SettleSteps, Dequeue, DecideWrite, Approved, Rejected, EnqueueFails, CallLost
  <2> QED
    BY <2>1 DEF RunsOnlyEnd, InRun
<1>2. ASSUME NEW j \in Job, Create(j) PROVE HoldInv'
  <2>1. ASSUME NEW i \in Job PROVE HoldAt(i)'
    <3>1. CASE i = j
      BY <1>1, <1>2, <3>1 DEF Create, HoldInv, HoldAt, IsFree, InRun, TypeInv, TypeOK, OWNED, UNHELD
    <3>2. CASE i # j
      BY <1>1, <1>2, <3>2, RowKeepsHold DEF Create, TypeInv, TypeOK
    <3> QED
      BY <3>1, <3>2
  <2> QED
    BY <2>1 DEF HoldInv
<1>3. ASSUME UNCHANGED <<status, owner, lease>> PROVE HoldInv'
  BY <1>1, <1>3, RowKeepsHold DEF HoldInv
<1>4. ASSUME NEW c \in calls, CancelUnheld(c) \/ EnqueueFails(c) \/ Rejected(c) PROVE HoldInv'
  <2>1. c.job \in Job
    BY DEF TypeInv, TypeOK, Call
  <2>2. PICK to \in TERMINAL_JOB_STATUSES : status' \in {status, [status EXCEPT ![c.job] = to]}
    BY <1>4 DEF CancelUnheld, EnqueueFails, Rejected, TERMINAL_JOB_STATUSES
  <2>3. UNCHANGED <<owner, lease>>
    BY <1>4 DEF CancelUnheld, EnqueueFails, Rejected
  <2>4. ASSUME NEW i \in Job PROVE HoldAt(i)'
    <3>1. CASE status'[i] = status[i]
      BY <1>1, <2>3, <3>1, RowKeepsHold
    <3>2. CASE status'[i] # status[i]
      <4>1. status'[i] = to
        BY <2>1, <2>2, <3>2 DEF TypeInv, TypeOK
      <4> QED
        BY <1>1, <4>1, EndedRowHolds
    <3> QED
      BY <3>1, <3>2
  <2> QED
    BY <2>4 DEF HoldInv
<1>5. ASSUME NEW c \in calls, Approved(c) PROVE HoldInv'
  <2>1. c.job \in Job
    BY DEF TypeInv, TypeOK, Call
  <2>2. ASSUME NEW i \in Job PROVE HoldAt(i)'
    <3>1. CASE status'[i] = status[i]
      BY <1>1, <1>5, <3>1, RowKeepsHold DEF Approved
    <3>2. CASE status'[i] # status[i]
      <4>1. i = c.job /\ status[i] = "WAITING_APPROVAL" /\ status'[i] = "QUEUED"
        BY <1>5, <2>1, <3>2 DEF Approved, Parked, TypeInv, TypeOK
      <4> QED
        BY <1>1, <1>5, <4>1 DEF Approved, HoldInv, HoldAt, IsFree, InRun, OWNED, UNHELD
    <3> QED
      BY <3>1, <3>2
  <2> QED
    BY <2>2 DEF HoldInv
<1>6. CASE \E j \in Job : CancelRead(j) \/ \E verdict \in {"approve", "reject"}, s \in Gates : DecideRead(j, verdict, s)
  BY <1>3, <1>6 DEF CancelRead, DecideRead
<1>7. ASSUME NEW c \in calls,
             \/ Enqueue(c) \/ CancelHeld(c) \/ RaiseFlag(c) \/ SettleSteps(c) \/ Dequeue(c)
             \/ DecideWrite(c) \/ CallLost(c)
      PROVE  HoldInv'
  BY <1>3, <1>7 DEF Enqueue, CancelHeld, RaiseFlag, SettleSteps, Dequeue, DecideWrite, CallLost
<1> QED
  BY <1>2, <1>4, <1>5, <1>6, <1>7 DEF User, Retry, Api

LEMMA RunKeepsHold ==
  ASSUME TypeInv, HoldInv, NEW w \in Worker, NEW j \in Job,
         \/ Pickup(w, j) \/ Runner(w, j) \/ Renew(w, j) \/ Watch(w, j)
         \/ PlaybookFails(w, j) \/ Abandon(w, j)
  PROVE  HoldInv'
<1> USE DEF rows, redis, procs
<1>1. ASSUME RunsOnlyEnd, UNCHANGED <<status, owner, lease>> PROVE HoldInv'
  BY <1>1, RowKeepsHold DEF HoldInv
<1>2. Exit \union {"FAILED", "SUCCEEDED"} \subseteq TERMINAL_JOB_STATUSES
  BY DEF Exit, TERMINAL_JOB_STATUSES
<1>3. CASE Claim(w, j)
  <2>1. CASE Claimable(j)
    <3>1. /\ status[j] = "QUEUED" /\ status' = [status EXCEPT ![j] = "PREFLIGHT"]
          /\ owner' = [owner EXCEPT ![j] = w] /\ lease' = [lease EXCEPT ![j] = "live"]
          /\ OthersKept(w, j)
      BY <1>3, <2>1, OwnRunOnly DEF Claim, Claimable, Take, Runner
    <3>2. \A v \in Worker : ~ InRun(v, j)
      BY <3>1 DEF HoldInv, HoldAt, IsFree, UNHELD
    <3>3. HoldAt(j)'
      <4>1. \A v \in Worker : InRun(v, j)' => v = w
        BY <3>1, <3>2 DEF OthersKept, InRun
      <4>2. status'[j] = "PREFLIGHT" /\ owner'[j] = w /\ lease'[j] = "live" /\ w # NoWorker
        BY <3>1, JobsAssumption DEF TypeInv, TypeOK
      <4> QED
        BY <4>1, <4>2 DEF HoldAt, UNHELD
    <3>4. ASSUME NEW i \in Job, i # j PROVE HoldAt(i)'
      <4>1. status'[i] = status[i] /\ owner'[i] = owner[i] /\ lease'[i] = lease[i]
        BY <3>1, <3>4 DEF TypeInv, TypeOK
      <4>2. \A v \in Worker : InRun(v, i)' => InRun(v, i)
        BY <3>1, <3>4 DEF OthersKept, InRun
      <4> QED
        BY <4>1, <4>2 DEF HoldInv, HoldAt, IsFree
    <3> QED
      BY <3>3, <3>4 DEF HoldInv
  <2>2. CASE ~ Claimable(j)
    BY <1>1, <1>3, <2>2, StepsBringNoRun DEF Claim, Runner
  <2> QED
    BY <2>1, <2>2
<1> SUFFICES ASSUME ~ Claim(w, j) PROVE HoldInv'
  BY <1>3
<1>4. RunsOnlyEnd
  BY StepsBringNoRun
<1>5. CASE PlaybookFails(w, j)
  BY <1>2, <1>4, <1>5, LeaveKeepsHold DEF PlaybookFails
<1>6. CASE Succeed(w, j)
  BY <1>2, <1>4, <1>6, LeaveKeepsHold DEF Succeed
<1>7. CASE Finish(w, j)
  <2>1. run[w][j].exit \in Exit
    BY DEF TypeInv, TypeOK, RunState
  <2> QED
    BY <1>2, <1>4, <1>7, <2>1, LeaveKeepsHold DEF Finish
<1>8. CASE Start(w, j)
  <2>1. CASE Held(w, j, "PREFLIGHT")
    <3>1. /\ status[j] = "PREFLIGHT" /\ status' = [status EXCEPT ![j] = "RUNNING"]
          /\ UNCHANGED <<owner, lease>>
      BY <1>8, <2>1 DEF Start, Held
    <3>2. HoldAt(j)'
      <4>1. status'[j] = "RUNNING"
        BY <3>1 DEF TypeInv, TypeOK
      <4> QED
        BY <1>4, <3>1, <4>1 DEF HoldInv, HoldAt, IsFree, RunsOnlyEnd, OWNED, UNHELD
    <3>3. ASSUME NEW i \in Job, i # j PROVE HoldAt(i)'
      BY <1>4, <3>1, <3>3, RowKeepsHold DEF TypeInv, TypeOK
    <3> QED
      BY <3>2, <3>3 DEF HoldInv
  <2>2. CASE ~ Held(w, j, "PREFLIGHT")
    BY <1>1, <1>4, <1>8, <2>2 DEF Start
  <2> QED
    BY <2>1, <2>2
<1>9. CASE Park(w, j)
  <2>1. CASE Held(w, j, "RUNNING")
    <3>1. /\ status[j] = "RUNNING" /\ owner[j] = w
          /\ status' = [status EXCEPT ![j] = "WAITING_APPROVAL"]
          /\ lease' = [lease EXCEPT ![j] = "none"] /\ owner' = [owner EXCEPT ![j] = NoWorker]
      BY <1>9, <2>1 DEF Park, LeaveAs, Release, Held
    <3>2. HoldAt(j)'
      <4>1. /\ status'[j] = "WAITING_APPROVAL" /\ lease'[j] = "none" /\ owner'[j] = NoWorker
        BY <3>1 DEF TypeInv, TypeOK
      <4>2. ~ InRun(w, j)'
        BY <1>9, GotoEffect DEF Park, LeaveAs, Pc, InRun
      <4>3. \A v \in Worker : InRun(v, j)' => v = w
        BY <1>4, <3>1 DEF HoldInv, HoldAt, RunsOnlyEnd, OWNED
      <4>4. \A v \in Worker : ~ InRun(v, j)'
        BY <4>2, <4>3
      <4> QED
        BY <4>1, <4>4 DEF HoldAt, IsFree, OWNED
    <3>3. ASSUME NEW i \in Job, i # j PROVE HoldAt(i)'
      BY <1>4, <3>1, <3>3, RowKeepsHold DEF TypeInv, TypeOK
    <3> QED
      BY <3>2, <3>3 DEF HoldInv
  <2>2. CASE ~ Held(w, j, "RUNNING")
    BY <1>1, <1>4, <1>9, <2>2 DEF Park, LeaveAs, Release, TypeInv, TypeOK
  <2> QED
    BY <2>1, <2>2
<1>10. CASE Renew(w, j)
  <2>1. \A i \in Job : lease'[i] = "none" <=> lease[i] = "none"
    BY <1>10 DEF Renew, HoldInv, HoldAt, TypeInv, TypeOK
  <2> QED
    BY <1>4, <1>10, <2>1, RowKeepsHold DEF Renew, HoldInv
<1>11. CASE \/ Pickup(w, j) \/ Watch(w, j) \/ Abandon(w, j) \/ CreateSteps(w, j) \/ Load(w, j)
            \/ Boundary(w, j) \/ StepNotNeeded(w, j) \/ MarkRunning(w, j) \/ BeginStep(w, j)
            \/ StepSucceeds(w, j) \/ ProgressMissed(w, j)
            \/ (\E exit \in {"FAILED", "PARTIALLY_SUCCEEDED"} : StepThrows(w, j, exit))
            \/ MarkFailed(w, j) \/ SkipRemaining(w, j) \/ PassGate(w, j) \/ OpenGate(w, j)
            \/ Close(w, j)
  <2>1. UNCHANGED <<status, owner, lease>>
    BY <1>11 DEF Pickup, Watch, Abandon, CreateSteps, Load, Boundary, StepNotNeeded, MarkRunning,
                 BeginStep, StepSucceeds, ProgressMissed, StepThrows, MarkFailed, SkipRemaining,
                 PassGate, OpenGate, Close
  <2> QED
    BY <1>1, <1>4, <2>1
<1> QED
  BY <1>5, <1>6, <1>7, <1>8, <1>9, <1>10, <1>11 DEF Runner

LEMMA SurroundingsKeepHold ==
  ASSUME TypeInv, HoldInv,
         \/ \E w \in Worker, j \in Job :
              Reconcile(w, j) \/ ReconcileSteps(w, j) \/ Stall(w, j)
         \/ \E j \in Job : LeaseRunsOut(j)
         \/ \E w \in Worker : Crash(w)
         \/ RedisLoss
  PROVE  HoldInv'
<1> USE DEF rows, redis, procs
<1>1. RunsOnlyEnd
  <2>1. CASE \E w \in Worker : Crash(w)
    BY <2>1, NoRunType DEF Crash, RunsOnlyEnd, InRun, TypeInv, TypeOK
  <2>2. CASE run' = run
    BY <2>2 DEF RunsOnlyEnd, InRun
  <2> QED
    BY <2>1, <2>2 DEF Reconcile, ReconcileSteps, Stall, LeaseRunsOut, RedisLoss
<1>2. ASSUME NEW w \in Worker, NEW j \in Job, Reconcile(w, j) PROVE HoldInv'
  <2>1. HoldAt(j)'
    BY <1>1, <1>2, EndedRowHolds DEF Reconcile, Conclude, TypeInv, TypeOK, TERMINAL_JOB_STATUSES
  <2>2. ASSUME NEW i \in Job, i # j PROVE HoldAt(i)'
    BY <1>1, <1>2, <2>2, RowKeepsHold DEF Reconcile, Conclude, TypeInv, TypeOK
  <2> QED
    BY <2>1, <2>2 DEF HoldInv
<1>3. CASE \/ \E w \in Worker, j \in Job : ReconcileSteps(w, j) \/ Stall(w, j)
           \/ \E j \in Job : LeaseRunsOut(j)
           \/ \E w \in Worker : Crash(w)
           \/ RedisLoss
  <2>1. UNCHANGED <<status, owner>> /\ \A i \in Job : lease'[i] = "none" <=> lease[i] = "none"
    BY <1>3 DEF ReconcileSteps, Stall, LeaseRunsOut, Crash, RedisLoss, TypeInv, TypeOK
  <2> QED
    BY <1>1, <2>1, RowKeepsHold DEF HoldInv
<1> QED
  BY <1>2, <1>3

LEMMA InitHold == Init => HoldInv
<1> SUFFICES ASSUME Init, NEW j \in Job PROVE HoldAt(j)
  BY DEF HoldInv
<1>1. \A w \in Worker : ~ InRun(w, j)
  BY NoRunType DEF Init, InRun
<1>2. status[j] = "NONE" /\ owner[j] = NoWorker /\ lease[j] = "none"
  BY DEF Init
<1> QED
  BY <1>1, <1>2 DEF HoldAt, IsFree, OWNED

LEMMA NextKeepsHold == TypeInv /\ HoldInv /\ [Next]_vars => HoldInv'
<1>1. TypeInv /\ HoldInv /\ UNCHANGED vars => HoldInv'
  BY DEF vars, rows, procs, HoldInv, HoldAt, IsFree, InRun
<1>2. TypeInv /\ HoldInv /\ Next => HoldInv'
  BY RequestKeepsHold, RunKeepsHold, SurroundingsKeepHold DEF Next, Fault
<1> QED
  BY <1>1, <1>2

LEMMA HoldAlways == Spec => [](TypeInv /\ HoldInv)
BY InitType, NextKeepsType, InitHold, NextKeepsHold, PTL DEF Spec

\* No job is ever in the hands of two processes.  Stalls, abandoned runs and lost
\* entries included: what a process needs to take a job is a QUEUED row, and a QUEUED
\* row is one that nobody has.
THEOREM RunsAreExclusive == Spec => []OneRunPerJob
<1>1. HoldInv => OneRunPerJob
  BY DEF HoldInv, HoldAt, OneRunPerJob
<1> QED
  BY <1>1, HoldAlways, PTL

\* A queued or parked row carries no claim and no run.
THEOREM UnheldRowsAreFree == Spec => []UnheldIsFree
<1>1. HoldInv => UnheldIsFree
  BY DEF HoldInv, HoldAt, IsFree, UnheldIsFree
<1> QED
  BY <1>1, HoldAlways, PTL

\* A row with a worker names it, and the reconciler can tell when it is lost.
THEOREM OwnedRowsAreHeld == Spec => []OwnedIsHeld
<1>1. HoldInv => OwnedIsHeld
  BY DEF HoldInv, HoldAt, OwnedIsHeld
<1> QED
  BY <1>1, HoldAlways, PTL

\* The row of a job says at every moment which process holds it, if any.
THEOREM RowsSayWhoHolds == Spec => []HeldAsRecorded
<1>1. UnheldIsFree /\ OwnedIsHeld => HeldAsRecorded
  BY DEF HeldAsRecorded
<1> QED
  BY <1>1, UnheldRowsAreFree, OwnedRowsAreHeld, PTL

-----------------------------------------------------------------------------
(* One job at a time per key *)

\* A run in hand has a row that is owned and a lease that is good.  A stalled process is
\* the one that does not: its lease runs out while it works.
LiveAt(j) == \A w \in Worker : InRun(w, j) => status[j] \in OWNED /\ lease[j] = "live"
LiveInv == \A j \in Job : LiveAt(j)

\* Of a row that stays owned with its lease, or has no run, nothing more is to be shown.
LEMMA RowKeepsLive ==
  ASSUME LiveInv, NEW j \in Job, RunsOnlyEnd,
         \/ status'[j] = status[j] /\ lease'[j] \in {lease[j], "live"}
         \/ \A w \in Worker : ~ InRun(w, j)
  PROVE  LiveAt(j)'
BY DEF LiveInv, LiveAt, RunsOnlyEnd

\* A row that is not owned has no run.
LEMMA NotOwnedNoRun ==
  ASSUME LiveInv, NEW j \in Job, status[j] \notin OWNED
  PROVE  \A w \in Worker : ~ InRun(w, j)
BY DEF LiveInv, LiveAt

LEMMA RequestKeepsLive ==
  ASSUME TypeInv, LiveInv, User \/ \E c \in calls : Api(c) \/ EnqueueFails(c) \/ CallLost(c)
  PROVE  LiveInv'
<1> USE DEF rows, redis, procs
<1>1. RunsOnlyEnd /\ UNCHANGED lease
  <2>1. UNCHANGED <<run, lease>>
    BY DEF User, Create, Retry, CancelRead, DecideRead, Api, Enqueue, CancelUnheld, CancelHeld,
           RaiseFlag, SettleSteps, Dequeue, DecideWrite, Approved, Rejected, EnqueueFails, CallLost
  <2> QED
    BY <2>1 DEF RunsOnlyEnd, InRun
<1>2. ASSUME NEW i \in Job, status'[i] # status[i] PROVE status[i] \notin OWNED
  <2>1. CASE User
    BY <1>2, <2>1 DEF User, Create, Retry, CancelRead, DecideRead, TypeInv, TypeOK, OWNED
  <2>2. ASSUME NEW c \in calls, Api(c) \/ EnqueueFails(c) \/ CallLost(c)
        PROVE  status[i] \notin OWNED
    <3>1. c.job \in Job
      BY DEF TypeInv, TypeOK, Call
    <3>2. status[c.job] \in OWNED => UNCHANGED status
      BY <2>2 DEF Api, Enqueue, CancelUnheld, CancelHeld, RaiseFlag, SettleSteps, Dequeue,
                  DecideWrite, Approved, Rejected, EnqueueFails, CallLost, Parked, UNHELD, OWNED
    <3>3. i # c.job => status'[i] = status[i]
      BY <2>2, <3>1 DEF Api, Enqueue, CancelUnheld, CancelHeld, RaiseFlag, SettleSteps, Dequeue,
                  DecideWrite, Approved, Rejected, EnqueueFails, CallLost, TypeInv, TypeOK
    <3> QED
      BY <1>2, <3>2, <3>3
  <2> QED
    BY <2>1, <2>2
<1>3. ASSUME NEW i \in Job PROVE LiveAt(i)'
  BY <1>1, <1>2, NotOwnedNoRun, RowKeepsLive
<1> QED
  BY <1>3 DEF LiveInv

\* An exit leaves the row alone, or the run that had it is over.
LEMMA LeaveKeepsLive ==
  ASSUME TypeInv, HoldInv, LiveInv, NEW w \in Worker, NEW j \in Job, NEW from \in OWNED, NEW to,
         LeaveAs(w, j, from, to), RunsOnlyEnd
  PROVE  LiveInv'
<1>1. ASSUME NEW i \in Job, i # j PROVE LiveAt(i)'
  BY <1>1, RowKeepsLive DEF LeaveAs, TypeInv, TypeOK
<1>2. ~ InRun(w, j)'
  BY GotoEffect DEF LeaveAs, Pc, InRun
<1>3. CASE Held(w, j, from)
  <2>1. \A v \in Worker : InRun(v, j) => v = w
    BY <1>3 DEF Held, HoldInv, HoldAt
  <2> QED
    BY <1>1, <1>2, <2>1 DEF LiveInv, LiveAt, RunsOnlyEnd
<1>4. CASE ~ Held(w, j, from)
  BY <1>1, <1>4, RowKeepsLive DEF LeaveAs, LiveInv
<1> QED
  BY <1>3, <1>4

LEMMA RunKeepsLive ==
  ASSUME TypeInv, HoldInv, LiveInv, NEW w \in Worker, NEW j \in Job,
         \/ Pickup(w, j) \/ Runner(w, j) \/ Renew(w, j) \/ Watch(w, j)
         \/ PlaybookFails(w, j) \/ Abandon(w, j)
  PROVE  LiveInv'
<1> USE DEF rows, redis, procs
<1>1. CASE Claim(w, j) /\ Claimable(j)
  <2>1. /\ status' = [status EXCEPT ![j] = "PREFLIGHT"] /\ lease' = [lease EXCEPT ![j] = "live"]
        /\ OthersKept(w, j)
    BY <1>1, OwnRunOnly DEF Claim, Take, Runner
  <2>2. LiveAt(j)'
    BY <2>1 DEF LiveAt, TypeInv, TypeOK, OWNED
  <2>3. ASSUME NEW i \in Job, i # j PROVE LiveAt(i)'
    BY <2>1, <2>3 DEF LiveInv, LiveAt, OthersKept, InRun, TypeInv, TypeOK
  <2> QED
    BY <2>2, <2>3 DEF LiveInv
<1> SUFFICES ASSUME ~ (Claim(w, j) /\ Claimable(j)) PROVE LiveInv'
  BY <1>1
<1>2. RunsOnlyEnd
  BY StepsBringNoRun
<1>3. "PREFLIGHT" \in OWNED /\ "RUNNING" \in OWNED
  BY DEF OWNED
<1>4. CASE PlaybookFails(w, j) \/ Succeed(w, j) \/ Finish(w, j) \/ Park(w, j)
  BY <1>2, <1>3, <1>4, LeaveKeepsLive DEF PlaybookFails, Succeed, Finish, Park
<1>5. CASE Start(w, j)
  <2>1. CASE Held(w, j, "PREFLIGHT")
    <3>1. status' = [status EXCEPT ![j] = "RUNNING"] /\ UNCHANGED lease
      BY <1>5, <2>1 DEF Start
    <3>2. status'[j] \in OWNED /\ status[j] \in OWNED
      BY <1>3, <2>1, <3>1 DEF Held, TypeInv, TypeOK
    <3>3. \A i \in Job : i # j => status'[i] = status[i]
      BY <3>1 DEF TypeInv, TypeOK
    <3> QED
      BY <1>2, <3>1, <3>2, <3>3 DEF LiveInv, LiveAt, RunsOnlyEnd
  <2>2. CASE ~ Held(w, j, "PREFLIGHT")
    BY <1>2, <1>5, <2>2, RowKeepsLive DEF Start, LiveInv
  <2> QED
    BY <2>1, <2>2
<1>6. CASE Renew(w, j)
  BY <1>2, <1>6, RowKeepsLive DEF Renew, LiveInv, TypeInv, TypeOK
<1>7. CASE \/ Pickup(w, j) \/ Watch(w, j) \/ Abandon(w, j) \/ CreateSteps(w, j) \/ Load(w, j)
           \/ Boundary(w, j) \/ StepNotNeeded(w, j) \/ MarkRunning(w, j) \/ BeginStep(w, j)
           \/ StepSucceeds(w, j) \/ ProgressMissed(w, j)
           \/ (\E exit \in {"FAILED", "PARTIALLY_SUCCEEDED"} : StepThrows(w, j, exit))
           \/ MarkFailed(w, j) \/ SkipRemaining(w, j) \/ PassGate(w, j) \/ OpenGate(w, j)
           \/ Close(w, j) \/ (Claim(w, j) /\ ~ Claimable(j))
  <2>1. UNCHANGED <<status, lease>>
    BY <1>7 DEF Pickup, Watch, Abandon, CreateSteps, Load, Boundary, StepNotNeeded, MarkRunning,
                BeginStep, StepSucceeds, ProgressMissed, StepThrows, MarkFailed, SkipRemaining,
                PassGate, OpenGate, Close, Claim
  <2> QED
    BY <1>2, <2>1, RowKeepsLive DEF LiveInv
<1> QED
  BY <1>4, <1>5, <1>6, <1>7 DEF Runner

LEMMA SurroundingsKeepLive ==
  ASSUME TypeInv, HoldInv, LiveInv,
         \/ \E w \in Worker, j \in Job : Reconcile(w, j) \/ ReconcileSteps(w, j)
         \/ \E j \in Job : LeaseRunsOut(j)
         \/ \E w \in Worker : Crash(w)
         \/ RedisLoss
  PROVE  LiveInv'
<1> USE DEF rows, redis, procs
<1>1. RunsOnlyEnd
  <2>1. CASE \E w \in Worker : Crash(w)
    BY <2>1, NoRunType DEF Crash, RunsOnlyEnd, InRun, TypeInv, TypeOK
  <2>2. CASE run' = run
    BY <2>2 DEF RunsOnlyEnd, InRun
  <2> QED
    BY <2>1, <2>2 DEF Reconcile, ReconcileSteps, LeaseRunsOut, RedisLoss
<1>2. ASSUME NEW v \in Worker, NEW j \in Job, Reconcile(v, j) PROVE LiveInv'
  <2>1. \A w \in Worker : ~ InRun(w, j)
    BY <1>2 DEF Reconcile, LostJob, LiveInv, LiveAt
  <2>2. \A i \in Job : i # j => status'[i] = status[i] /\ lease'[i] = lease[i]
    BY <1>2 DEF Reconcile, Conclude, TypeInv, TypeOK
  <2> QED
    BY <1>1, <2>1, <2>2, RowKeepsLive DEF LiveInv
<1>3. ASSUME NEW j \in Job, LeaseRunsOut(j) PROVE LiveInv'
  <2>1. \A w \in Worker : ~ InRun(w, j)
    BY <1>3 DEF LeaseRunsOut, HoldInv, HoldAt, LiveInv, LiveAt
  <2>2. \A i \in Job : i # j => status'[i] = status[i] /\ lease'[i] = lease[i]
    BY <1>3 DEF LeaseRunsOut, TypeInv, TypeOK
  <2> QED
    BY <1>1, <2>1, <2>2, RowKeepsLive DEF LiveInv
<1>4. CASE \/ \E w \in Worker, j \in Job : ReconcileSteps(w, j)
           \/ \E w \in Worker : Crash(w)
           \/ RedisLoss
  <2>1. UNCHANGED <<status, lease>>
    BY <1>4 DEF ReconcileSteps, Crash, RedisLoss
  <2> QED
    BY <1>1, <2>1, RowKeepsLive DEF LiveInv
<1> QED
  BY <1>2, <1>3, <1>4

LEMMA LiveAlways ==
  ASSUME "stall" \notin Faults
  PROVE  Spec => [](TypeInv /\ LiveInv)
<1>1. Init => LiveInv
  BY NoRunType DEF Init, LiveInv, LiveAt, InRun
<1>2. TypeInv /\ HoldInv /\ LiveInv /\ [Next]_vars => LiveInv'
  <2>1. LiveInv /\ UNCHANGED vars => LiveInv'
    BY DEF vars, rows, procs, LiveInv, LiveAt, InRun
  <2>2. \A w \in Worker, j \in Job : ~ Stall(w, j)
    BY DEF Stall
  <2>3. TypeInv /\ HoldInv /\ LiveInv /\ Next => LiveInv'
    BY <2>2, RequestKeepsLive, RunKeepsLive, SurroundingsKeepLive DEF Next, Fault
  <2> QED
    BY <2>1, <2>3
<1> QED
  BY <1>1, <1>2, HoldAlways, PTL DEF Spec

\* "Two mutating jobs against one cluster cannot run concurrently", of the work itself:
\* as long as no process stalls past its lease, whatever else fails.  One that does goes
\* on with its step after the reconciler has freed the key.
THEOREM WorkIsExclusive ==
  ASSUME "stall" \notin Faults
  PROVE  Spec => []KeyIsExclusive
<1>1. OneActivePerKey /\ LiveInv => KeyIsExclusive
  <2> SUFFICES ASSUME OneActivePerKey, LiveInv, NEW i \in Job, NEW j \in Job, Rivals(i, j),
                      AtWork(i), AtWork(j)
               PROVE  FALSE
    BY DEF KeyIsExclusive
  <2>1. status[i] \in OWNED /\ status[j] \in OWNED
    BY DEF AtWork, InRun, LiveInv, LiveAt
  <2>2. OWNED \subseteq ACTIVE_JOB_STATUSES
    BY DEF OWNED, ACTIVE_JOB_STATUSES
  <2> QED
    BY <2>1, <2>2, SameVocabulary
    DEF OneActivePerKey, Board!OneActivePerKey, Board!Rivals, Rivals
<1> QED
  BY <1>1, LiveAlways, KeysAreExclusive, PTL

\* Whoever writes to the steps of a job that has ended closes them, as failed or skipped:
\* no run is left that could write to them without looking at the row, again as long as
\* no process stalls past its lease.
LEMMA StepsClose ==
  ASSUME TypeInv, LiveInv, [Next]_vars, NEW j \in Job, NEW s \in Step,
         status[j] \in TERMINAL_JOB_STATUSES, step'[j][s] # step[j][s]
  PROVE  step'[j][s] \in {"FAILED", "SKIPPED"}
<1> USE DEF rows
<1>0. step \in [Job -> [Step -> STEP_STATUSES]]
  BY DEF TypeInv, TypeOK
<1>1. \A w \in Worker : ~ InRun(w, j)
  BY NotOwnedNoRun DEF TERMINAL_JOB_STATUSES, OWNED
<1>2. CASE UNCHANGED vars
  BY <1>2 DEF vars
<1>3. CASE User \/ \E c \in calls : Api(c) \/ EnqueueFails(c) \/ CallLost(c)
  <2>1. PICK c \in calls : SettleSteps(c)
    BY <1>3 DEF User, Create, Retry, CancelRead, DecideRead, Api, Enqueue, CancelUnheld, CancelHeld,
           RaiseFlag, Dequeue, DecideWrite, Approved, Rejected, EnqueueFails, CallLost
  <2>2. step' = [step EXCEPT ![c.job] = Settle(@, {"PENDING", "RUNNING"}, "SKIPPED")]
    BY <2>1 DEF SettleSteps
  <2>3. CASE c.job = j
    BY <1>0, <2>2, <2>3 DEF Settle
  <2>4. CASE c.job # j
    BY <1>0, <2>2, <2>4
  <2> QED
    BY <2>3, <2>4
<1>4. ASSUME NEW w \in Worker, NEW i \in Job,
             \/ Pickup(w, i) \/ Runner(w, i) \/ Renew(w, i) \/ Watch(w, i)
             \/ PlaybookFails(w, i) \/ Abandon(w, i)
      PROVE  FALSE
  <2>1. \/ CreateSteps(w, i) \/ StepNotNeeded(w, i) \/ MarkRunning(w, i) \/ StepSucceeds(w, i)
        \/ MarkFailed(w, i) \/ SkipRemaining(w, i) \/ PassGate(w, i)
    BY <1>4 DEF Runner, Pickup, Renew, Watch, PlaybookFails, Abandon, Claim, Start, Load, Boundary,
           Succeed, BeginStep, StepThrows, ProgressMissed, Finish, OpenGate, Park, Close
  <2>2. InRun(w, i)
    BY <2>1 DEF InRun, CreateSteps, StepNotNeeded, MarkRunning, StepSucceeds, MarkFailed,
           SkipRemaining, PassGate
  <2>3. i # j
    BY <1>1, <2>2
  <2>4. step'[j] = step[j]
    BY <2>1, <2>3 DEF CreateSteps, StepNotNeeded, MarkRunning, StepSucceeds, MarkFailed,
           SkipRemaining, PassGate, StepDone, TypeInv, TypeOK
  <2> QED
    BY <2>4
<1>5. CASE \E v \in Worker, i \in Job : Reconcile(v, i) \/ ReconcileSteps(v, i) \/ Stall(v, i)
  <2>1. PICK v \in Worker, i \in Job : ReconcileSteps(v, i)
    BY <1>5 DEF Reconcile, Stall
  <2>2. \/ step' = [step EXCEPT ![i] = Settle(@, {"RUNNING"}, "FAILED")]
        \/ step' = [step EXCEPT ![i] = Settle(@, {"PENDING"}, "SKIPPED")]
    BY <2>1 DEF ReconcileSteps
  <2>3. CASE i = j
    BY <1>0, <2>2, <2>3 DEF Settle
  <2>4. CASE i # j
    BY <1>0, <2>2, <2>4
  <2> QED
    BY <2>3, <2>4
<1>6. CASE (\E i \in Job : LeaseRunsOut(i)) \/ (\E w \in Worker : Crash(w)) \/ RedisLoss
  BY <1>6 DEF LeaseRunsOut, Crash, RedisLoss
<1> QED
  BY <1>2, <1>3, <1>4, <1>5, <1>6 DEF Next, Fault

\* A job that has ended keeps its record: of its steps only those that are open change,
\* and they are closed.
THEOREM EndedRecordsClose ==
  ASSUME "stall" \notin Faults
  PROVE  Spec => EndedStepsOnlyClose
<1>1. TypeInv /\ LiveInv /\ [Next]_vars =>
        [\A j \in Job, s \in Step :
           status[j] \in TERMINAL_JOB_STATUSES /\ step'[j][s] # step[j][s]
             => step'[j][s] \in {"FAILED", "SKIPPED"}]_vars
  BY StepsClose
<1> QED
  BY <1>1, LiveAlways, PTL DEF Spec, EndedStepsOnlyClose

-----------------------------------------------------------------------------
(* Gates *)

\* A gate that need not hold a run up: approved, or not needed, or closed unvisited.
Cleared(j, g) == approval[j][g] = "approved" \/ step[j][g] = "SKIPPED"

\* The pcs of a run that is executing a step of its own, which no gate has.
InStep == {"starting", "working", "marking"}

GateRows == \A j \in Job, g \in Gates : step[j][g] = "SUCCEEDED" => approval[j][g] = "approved"

RunGates(w, j) ==
  /\ \A g \in Gates : g \in run[w][j].seen \/ g < run[w][j].at => Cleared(j, g)
  /\ run[w][j].pc \in InStep => run[w][j].at \notin Gates

GateInv == GateRows /\ \A w \in Worker, j \in Job : RunGates(w, j)

\* What is cleared stays cleared.
ClearedKept == \A j \in Job, g \in Gates : Cleared(j, g) => Cleared(j, g)'

LEMMA GatesAreSteps == Gates \subseteq Step /\ \A s \in Step : s \in Nat /\ ~ (s < 1)
BY JobsAssumption DEF Step

\* A row of steps in which no gate succeeds anew and no skipped gate is reopened.
LEMMA GateRowKept ==
  ASSUME GateRows, UNCHANGED approval,
         \A j \in Job, g \in Gates :
           /\ step'[j][g] = "SUCCEEDED" => step[j][g] = "SUCCEEDED"
           /\ step[j][g] = "SKIPPED" => step'[j][g] = "SKIPPED"
  PROVE  GateRows' /\ ClearedKept
BY DEF GateRows, ClearedKept, Cleared

\* Writing one step that is not a gate.
LEMMA OffGateWrite ==
  ASSUME TypeInv, GateRows, UNCHANGED approval, NEW j \in Job, NEW s \in Step \ Gates, NEW to,
         step' = [step EXCEPT ![j][s] = to]
  PROVE  GateRows' /\ ClearedKept
<1>1. \A i \in Job, g \in Gates : step'[i][g] = step[i][g]
  BY GatesAreSteps DEF TypeInv, TypeOK
<1> QED
  BY <1>1, GateRowKept

\* Settling the steps of a job leaves those that are done alone.
LEMMA SettleWrite ==
  ASSUME TypeInv, GateRows, UNCHANGED approval, NEW j \in Job,
         NEW open, NEW to, "SKIPPED" \notin open, to # "SUCCEEDED",
         step' = [step EXCEPT ![j] = Settle(@, open, to)]
  PROVE  GateRows' /\ ClearedKept
<1>1. \A s \in Step : step'[j][s] = IF step[j][s] \in open THEN to ELSE step[j][s]
  BY DEF Settle, TypeInv, TypeOK
<1>2. \A i \in Job : i # j => step'[i] = step[i]
  BY DEF TypeInv, TypeOK
<1>3. \A i \in Job, g \in Gates :
        /\ step'[i][g] = "SUCCEEDED" => step[i][g] = "SUCCEEDED"
        /\ step[i][g] = "SKIPPED" => step'[i][g] = "SKIPPED"
  BY <1>1, <1>2, GatesAreSteps
<1> QED
  BY <1>3, GateRowKept

\* An approval that changes was not approved before.
LEMMA ApprovalWrite ==
  ASSUME GateRows, UNCHANGED step,
         \A j \in Job, g \in Gates : approval[j][g] = "approved" => approval'[j][g] = "approved"
  PROVE  GateRows' /\ ClearedKept
BY DEF GateRows, ClearedKept, Cleared

\* A run whose counters stand still keeps to its gates while rows only clear.
LEMMA CountersKept ==
  ASSUME ClearedKept, NEW w \in Worker, NEW j \in Job, RunGates(w, j),
         run'[w][j].at = run[w][j].at, run'[w][j].seen = run[w][j].seen,
         run'[w][j].pc \in InStep => run[w][j].at \notin Gates
  PROVE  RunGates(w, j)'
BY DEF RunGates, ClearedKept

LEMMA RunsKept ==
  ASSUME GateInv, ClearedKept, GateRows', UNCHANGED run
  PROVE  GateInv'
BY CountersKept DEF GateInv, RunGates

\* One run moves, the others see only rows that clear.
LEMMA OneRunMoves ==
  ASSUME GateInv, ClearedKept, GateRows', NEW w \in Worker, NEW j \in Job, OthersKept(w, j),
         RunGates(w, j)'
  PROVE  GateInv'
<1>1. ASSUME NEW v \in Worker, NEW i \in Job, v # w \/ i # j PROVE RunGates(v, i)'
  BY <1>1, CountersKept DEF GateInv, RunGates, OthersKept
<1> QED
  BY <1>1 DEF GateInv

LEMMA RequestKeepsGates ==
  ASSUME TypeInv, GateInv, User \/ \E c \in calls : Api(c) \/ EnqueueFails(c) \/ CallLost(c)
  PROVE  GateInv'
<1> USE DEF rows, redis, procs
<1>0. GateRows /\ UNCHANGED run
  BY DEF GateInv, User, Create, Retry, CancelRead, DecideRead, Api, Enqueue, CancelUnheld, CancelHeld,
         RaiseFlag, SettleSteps, Dequeue, DecideWrite, Approved, Rejected, EnqueueFails, CallLost
<1>1. ASSUME NEW c \in calls, SettleSteps(c) PROVE GateInv'
  <2>1. c.job \in Job
    BY DEF TypeInv, TypeOK, Call
  <2> QED
    BY <1>0, <1>1, <2>1, SettleWrite, RunsKept DEF SettleSteps
<1>2. ASSUME NEW c \in calls, DecideWrite(c) PROVE GateInv'
  <2>1. c.job \in Job
    BY DEF TypeInv, TypeOK, Call
  <2>2. CASE approval[c.job][c.gate] = "pending"
    <3>1. PICK verdict : approval' = [approval EXCEPT ![c.job][c.gate] = verdict]
      BY <1>2, <2>2 DEF DecideWrite
    <3>2. \A j \in Job, g \in Gates : approval[j][g] = "approved" => approval'[j][g] = "approved"
      BY <2>1, <2>2, <3>1 DEF TypeInv, TypeOK
    <3> QED
      BY <1>0, <1>2, <3>2, ApprovalWrite, RunsKept DEF DecideWrite
  <2>3. CASE approval[c.job][c.gate] # "pending"
    BY <1>0, <1>2, <2>3, ApprovalWrite, RunsKept DEF DecideWrite
  <2> QED
    BY <2>2, <2>3
<1>3. ASSUME UNCHANGED <<step, approval>> PROVE GateInv'
  BY <1>0, <1>3, ApprovalWrite, RunsKept
<1>4. CASE User
  BY <1>3, <1>4 DEF User, Create, Retry, CancelRead, DecideRead
<1>5. ASSUME NEW c \in calls,
             \/ Enqueue(c) \/ CancelUnheld(c) \/ CancelHeld(c) \/ RaiseFlag(c) \/ Dequeue(c)
             \/ Approved(c) \/ Rejected(c) \/ EnqueueFails(c) \/ CallLost(c)
      PROVE  GateInv'
  BY <1>3, <1>5 DEF Enqueue, CancelUnheld, CancelHeld, RaiseFlag, Dequeue, Approved, Rejected,
                    EnqueueFails, CallLost
<1> QED
  BY <1>1, <1>2, <1>4, <1>5 DEF Api

LEMMA RunKeepsGates ==
  ASSUME TypeInv, GateInv, NEW w \in Worker, NEW j \in Job,
         \/ Pickup(w, j) \/ Runner(w, j) \/ Renew(w, j) \/ Watch(w, j)
         \/ PlaybookFails(w, j) \/ Abandon(w, j)
  PROVE  GateInv'
<1> USE DEF rows, redis, procs
<1>0. GateRows /\ RunGates(w, j) /\ OthersKept(w, j)
  BY OwnRunOnly DEF GateInv
<1>a. run[w][j] \in RunState
  BY DEF TypeInv, TypeOK
<1>1. ASSUME UNCHANGED <<step, approval>>, run'[w][j].at = run[w][j].at,
             run'[w][j].seen = run[w][j].seen,
             run'[w][j].pc \in InStep => run[w][j].at \notin Gates
      PROVE  GateInv'
  BY <1>0, <1>1, ApprovalWrite, CountersKept, OneRunMoves
<1>2. ASSUME UNCHANGED <<step, approval>>, run'[w][j] \in {NoRun, [NoRun EXCEPT !.pc = "claimed"]}
      PROVE  GateInv'
  <2>1. run'[w][j].at = 1 /\ run'[w][j].seen = {} /\ run'[w][j].pc \notin InStep
    BY <1>2 DEF NoRun, InStep
  <2>2. RunGates(w, j)'
    BY <2>1, GatesAreSteps DEF RunGates
  <2> QED
    BY <1>0, <1>2, <2>2, ApprovalWrite, OneRunMoves
<1>3. ASSUME NEW pc \in Pc \ InStep, Goto(w, j, pc), UNCHANGED <<step, approval>> PROVE GateInv'
  BY <1>1, <1>3, GotoEffect, ZenonT(60)
<1>4. CASE Claim(w, j)
  <2>1. CASE Claimable(j)
    BY <1>2, <1>4, <2>1 DEF Claim, TypeInv, TypeOK
  <2>2. CASE ~ Claimable(j)
    BY <1>3, <1>4, <2>2 DEF Claim, Pc, InStep
  <2> QED
    BY <2>1, <2>2
<1>5. CASE Close(w, j)
  BY <1>2, <1>5 DEF Close, TypeInv, TypeOK
<1>6. CASE PlaybookFails(w, j) \/ Succeed(w, j) \/ Finish(w, j) \/ Park(w, j)
  BY <1>3, <1>6 DEF PlaybookFails, Succeed, Finish, Park, LeaveAs, Pc, InStep
<1>7. CASE Pickup(w, j) \/ Start(w, j) \/ ProgressMissed(w, j) \/ Abandon(w, j)
  <2>1. PICK pc \in {"picked", "loading", "closing", "idle"} : Goto(w, j, pc)
    BY <1>7 DEF Pickup, Start, ProgressMissed, Abandon
  <2>2. pc \in Pc \ InStep
    BY DEF Pc, InStep
  <2>3. UNCHANGED <<step, approval>>
    BY <1>7 DEF Pickup, Start, ProgressMissed, Abandon
  <2> QED
    BY <1>3, <2>1, <2>2, <2>3
<1>8. CASE CreateSteps(w, j)
  <2>1. GateRows' /\ ClearedKept
    BY <1>0, <1>8, SettleWrite DEF CreateSteps
  <2>2. Goto(w, j, "created") /\ "created" \in Pc \ InStep
    BY <1>8 DEF CreateSteps, Pc, InStep
  <2> QED
    BY <1>0, <2>1, <2>2, GotoEffect, CountersKept, OneRunMoves, ZenonT(60)
<1>9. CASE Load(w, j)
  <2> DEFINE r == [run[w][j] EXCEPT !.pc = "boundary", !.seen = KnownDone(j)]
  <2>1. run'[w][j] = r
    BY <1>9 DEF Load, TypeInv, TypeOK
  <2>2. r.pc = "boundary" /\ r.at = run[w][j].at /\ r.seen = KnownDone(j)
    BY <1>a DEF RunState
  <2>3. \A g \in Gates : g \in KnownDone(j) => Cleared(j, g)
    BY <1>0 DEF KnownDone, DoneStatuses, GateRows, Cleared
  <2>4. UNCHANGED <<step, approval>>
    BY <1>9 DEF Load
  <2>5. RunGates(w, j)'
    BY <1>0, <2>1, <2>2, <2>3, <2>4 DEF RunGates, Cleared, InStep
  <2> QED
    BY <1>0, <2>4, <2>5, ApprovalWrite, OneRunMoves
<1>10. CASE Boundary(w, j)
  <2> DEFINE r == run[w][j]
  <2>1. UNCHANGED <<step, approval>>
    BY <1>10 DEF Boundary
  <2>2. CASE r.at \in r.seen
    <3>1. run'[w][j] = [r EXCEPT !.at = @ + 1] /\ r.pc = "boundary"
      BY <1>10, <2>2 DEF Boundary, TypeInv, TypeOK
    <3>2. run'[w][j].at = r.at + 1 /\ run'[w][j].seen = r.seen /\ run'[w][j].pc = "boundary"
      BY <1>a, <3>1 DEF RunState
    <3>3. \A g \in Gates : g < r.at + 1 => g < r.at \/ g = r.at
      BY <1>a, GatesAreSteps DEF RunState
    <3>4. RunGates(w, j)'
      BY <1>0, <2>1, <2>2, <3>2, <3>3 DEF RunGates, Cleared, InStep
    <3> QED
      BY <1>0, <2>1, <3>4, ApprovalWrite, OneRunMoves
  <2>3. CASE r.at \notin r.seen
    <3>1. run'[w][j] \in {[r EXCEPT !.pc = "skipping", !.exit = "CANCELLED", !.hit = FALSE],
                          [r EXCEPT !.pc = "step"]}
      BY <1>10, <2>3 DEF Boundary, TypeInv, TypeOK
    <3>2. run'[w][j].at = r.at /\ run'[w][j].seen = r.seen /\ run'[w][j].pc \notin InStep
      BY <1>a, <3>1 DEF RunState, InStep
    <3> QED
      BY <1>1, <2>1, <3>2
  <2> QED
    BY <2>2, <2>3
<1>11. CASE StepNotNeeded(w, j) \/ StepSucceeds(w, j) \/ PassGate(w, j)
  <2> DEFINE s == run[w][j].at
  <2>1. s \in Step /\ UNCHANGED approval
    BY <1>11 DEF StepNotNeeded, StepSucceeds, PassGate, TypeInv, RunsAtStep, AtStep
  <2>2. PICK to \in {"SUCCEEDED", "SKIPPED"} :
          StepDone(w, j, to) /\ (to = "SUCCEEDED" /\ s \in Gates => approval[j][s] = "approved")
    BY <1>0, <1>11 DEF StepNotNeeded, StepSucceeds, PassGate, Passed, RunGates, InStep
  <2>3. /\ step'[j][s] = to
        /\ \A i \in Job, g \in Gates : i # j \/ g # s => step'[i][g] = step[i][g]
    BY <2>1, <2>2, GatesAreSteps DEF StepDone, TypeInv, TypeOK
  <2>4. GateRows' /\ ClearedKept
    BY <1>0, <2>1, <2>2, <2>3 DEF GateRows, ClearedKept, Cleared
  <2>5. /\ run'[w][j].pc = "boundary" /\ run'[w][j].at = s + 1
        /\ run'[w][j].seen = run[w][j].seen \union {s}
    BY <2>2, StepDoneEffect
  <2>6. \A g \in Gates : g \in run[w][j].seen \union {s} \/ g < s + 1
                           => g \in run[w][j].seen \/ g < s \/ g = s
    BY <2>1, GatesAreSteps
  <2>7. RunGates(w, j)'
    <3>1. ASSUME NEW g \in Gates, g \in run'[w][j].seen \/ g < run'[w][j].at PROVE Cleared(j, g)'
      <4>1. CASE g \in run[w][j].seen \/ g < s
        BY <1>0, <2>4, <4>1 DEF RunGates, ClearedKept
      <4>2. CASE g = s
        BY <2>1, <2>2, <2>3, <4>2 DEF Cleared
      <4> QED
        BY <2>5, <2>6, <3>1, <4>1, <4>2
    <3> QED
      BY <2>5, <3>1 DEF RunGates, InStep
  <2> QED
    BY <1>0, <2>4, <2>7, OneRunMoves
<1>12. CASE MarkRunning(w, j)
  <2>1. run[w][j].at \in Step \ Gates
    BY <1>12 DEF MarkRunning, TypeInv, RunsAtStep, AtStep
  <2>2. GateRows' /\ ClearedKept
    BY <1>0, <1>12, <2>1, OffGateWrite DEF MarkRunning
  <2>3. Goto(w, j, "starting") /\ "starting" \in Pc
    BY <1>12 DEF MarkRunning, Pc
  <2> QED
    BY <1>0, <2>1, <2>2, <2>3, GotoEffect, CountersKept, OneRunMoves
<1>13. CASE BeginStep(w, j)
  <2>1. run[w][j].at \notin Gates /\ UNCHANGED <<step, approval>>
    BY <1>0, <1>13 DEF BeginStep, RunGates, InStep
  <2>2. PICK pc \in {"working", "closing"} : Goto(w, j, pc)
    BY <1>13 DEF BeginStep
  <2>3. pc \in Pc
    BY DEF Pc
  <2> QED
    BY <1>1, <2>1, <2>2, <2>3, GotoEffect
<1>14. ASSUME NEW exit \in {"FAILED", "PARTIALLY_SUCCEEDED"}, StepThrows(w, j, exit) PROVE GateInv'
  <2> DEFINE r == run[w][j]
  <2>1. run[w][j].at \notin Gates /\ UNCHANGED <<step, approval>>
    BY <1>0, <1>14 DEF StepThrows, RunGates, InStep
  <2>2. run'[w][j] = IF r.lost THEN [r EXCEPT !.pc = "closing"]
                     ELSE [r EXCEPT !.pc = "marking", !.hit = TRUE,
                                    !.exit = IF r.aborted THEN "CANCELLED" ELSE exit]
    BY <1>14 DEF StepThrows, TypeInv, TypeOK
  <2>3. run'[w][j].at = r.at /\ run'[w][j].seen = r.seen
    BY <1>a, <2>2 DEF RunState
  <2> QED
    BY <1>1, <2>1, <2>3
<1>15. CASE MarkFailed(w, j)
  <2>1. run[w][j].at \in Step \ Gates
    BY <1>0, <1>15 DEF MarkFailed, TypeInv, RunsAtStep, AtStep, RunGates, InStep
  <2>2. GateRows' /\ ClearedKept
    BY <1>0, <1>15, <2>1, OffGateWrite DEF MarkFailed
  <2>3. Goto(w, j, "skipping") /\ "skipping" \in Pc \ InStep
    BY <1>15 DEF MarkFailed, Pc, InStep
  <2> QED
    BY <1>0, <2>2, <2>3, GotoEffect, CountersKept, OneRunMoves, ZenonT(60)
<1>16. CASE SkipRemaining(w, j)
  <2>1. \A i \in Job, s \in Step :
          step'[i][s] = IF i = j /\ s \in Remaining(run[w][j]) /\ step[j][s] \in {"PENDING", "RUNNING"}
                        THEN "SKIPPED" ELSE step[i][s]
    BY <1>16 DEF SkipRemaining, TypeInv, TypeOK
  <2>2. UNCHANGED approval
    BY <1>16 DEF SkipRemaining
  <2>3. GateRows' /\ ClearedKept
    BY <1>0, <2>1, <2>2, GateRowKept, GatesAreSteps
  <2>4. Goto(w, j, "cleaning") /\ "cleaning" \in Pc \ InStep
    BY <1>16 DEF SkipRemaining, Pc, InStep
  <2> QED
    BY <1>0, <2>3, <2>4, GotoEffect, CountersKept, OneRunMoves, ZenonT(60)
<1>17. CASE OpenGate(w, j)
  <2>1. \A i \in Job, g \in Gates : approval[i][g] = "approved" => approval'[i][g] = "approved"
    BY <1>17 DEF OpenGate, TypeInv, TypeOK
  <2>2. GateRows' /\ ClearedKept
    BY <1>0, <1>17, <2>1, ApprovalWrite DEF OpenGate
  <2>3. PICK pc \in {"closing", "parking"} : Goto(w, j, pc)
    BY <1>17 DEF OpenGate
  <2>4. pc \in Pc \ InStep
    BY DEF Pc, InStep
  <2> QED
    BY <1>0, <2>2, <2>3, <2>4, GotoEffect, CountersKept, OneRunMoves, ZenonT(60)
<1>18. CASE Renew(w, j) \/ Watch(w, j)
  <2>1. UNCHANGED <<step, approval>>
    BY <1>18 DEF Renew, Watch
  <2>2. run'[w][j] \in {run[w][j], [run[w][j] EXCEPT !.lost = TRUE, !.aborted = TRUE],
                        [run[w][j] EXCEPT !.aborted = TRUE]}
    <3>1. CASE Renew(w, j)
      <4> DEFINE r == [run[w][j] EXCEPT !.lost = TRUE, !.aborted = TRUE]
      <4>1. run' = run \/ run' = [run EXCEPT ![w][j] = r]
        BY <3>1, ZenonT(60) DEF Renew, TypeInv, TypeOK
      <4> QED
        BY <4>1 DEF TypeInv, TypeOK
    <3>2. CASE Watch(w, j)
      BY <3>2 DEF Watch, TypeInv, TypeOK
    <3> QED
      BY <1>18, <3>1, <3>2
  <2>3. /\ run'[w][j].at = run[w][j].at /\ run'[w][j].seen = run[w][j].seen
        /\ run'[w][j].pc = run[w][j].pc
    BY <1>a, <2>2 DEF RunState
  <2> QED
    BY <1>0, <1>1, <2>1, <2>3 DEF RunGates
<1> QED
  BY <1>4, <1>5, <1>6, <1>7, <1>8, <1>9, <1>10, <1>11, <1>12, <1>13, <1>14, <1>15, <1>16, <1>17,
     <1>18 DEF Runner

LEMMA SurroundingsKeepGates ==
  ASSUME TypeInv, GateInv,
         \/ \E w \in Worker, j \in Job :
              Reconcile(w, j) \/ ReconcileSteps(w, j) \/ Stall(w, j)
         \/ \E j \in Job : LeaseRunsOut(j)
         \/ \E w \in Worker : Crash(w)
         \/ RedisLoss
  PROVE  GateInv'
<1> USE DEF rows, redis, procs
<1>0. GateRows
  BY DEF GateInv
<1>1. ASSUME NEW w \in Worker, NEW j \in Job, ReconcileSteps(w, j) PROVE GateInv'
  <2>1. CASE settling[j].left = "RUNNING"
    <3>1. step' = [step EXCEPT ![j] = Settle(@, {"RUNNING"}, "FAILED")] /\ UNCHANGED <<approval, run>>
      BY <1>1, <2>1 DEF ReconcileSteps
    <3> QED
      BY <1>0, <3>1, SettleWrite, RunsKept
  <2>2. CASE settling[j].left # "RUNNING"
    <3>1. step' = [step EXCEPT ![j] = Settle(@, {"PENDING"}, "SKIPPED")] /\ UNCHANGED <<approval, run>>
      BY <1>1, <2>2 DEF ReconcileSteps
    <3> QED
      BY <1>0, <3>1, SettleWrite, RunsKept
  <2> QED
    BY <2>1, <2>2
<1>2. ASSUME NEW w \in Worker, Crash(w) PROVE GateInv'
  <2>1. GateRows' /\ ClearedKept
    BY <1>0, <1>2, ApprovalWrite DEF Crash
  <2>2. ASSUME NEW v \in Worker, NEW j \in Job PROVE RunGates(v, j)'
    <3>1. CASE v # w
      <4>1. run'[v][j] = run[v][j]
        BY <1>2, <3>1 DEF Crash, TypeInv, TypeOK
      <4>2. RunGates(v, j)
        BY <1>0 DEF GateInv
      <4>3. run'[v][j].pc \in InStep => run[v][j].at \notin Gates
        BY <4>1, <4>2 DEF RunGates
      <4> QED
        BY <2>1, <4>1, <4>2, <4>3, CountersKept
    <3>2. CASE v = w
      <4>1. run'[v][j] = NoRun
        BY <1>2, <3>2 DEF Crash, TypeInv, TypeOK
      <4>2. NoRun.at = 1 /\ NoRun.seen = {} /\ NoRun.pc \notin InStep
        BY DEF NoRun, InStep
      <4> QED
        BY <4>1, <4>2, GatesAreSteps DEF RunGates
    <3> QED
      BY <3>1, <3>2
  <2> QED
    BY <2>1, <2>2 DEF GateInv
<1>3. CASE (\E w \in Worker, j \in Job : Reconcile(w, j) \/ Stall(w, j))
           \/ (\E j \in Job : LeaseRunsOut(j)) \/ RedisLoss
  <2>1. UNCHANGED <<step, approval, run>>
    BY <1>3 DEF Reconcile, Stall, LeaseRunsOut, RedisLoss
  <2> QED
    BY <1>0, <2>1, ApprovalWrite, RunsKept
<1> QED
  BY <1>1, <1>2, <1>3

LEMMA InitGates == Init => GateInv
<1> SUFFICES ASSUME Init PROVE GateInv
  OBVIOUS
<1>1. GateRows
  BY GatesAreSteps DEF Init, GateRows
<1>2. NoRun.at = 1 /\ NoRun.seen = {} /\ NoRun.pc \notin InStep
  BY DEF NoRun, InStep
<1>3. \A w \in Worker, j \in Job : run[w][j] = NoRun
  BY DEF Init
<1> QED
  BY <1>1, <1>2, <1>3, GatesAreSteps DEF GateInv, RunGates

LEMMA NextKeepsGates == TypeInv /\ GateInv /\ [Next]_vars => GateInv'
<1>1. TypeInv /\ GateInv /\ UNCHANGED vars => GateInv'
  BY DEF vars, rows, procs, GateInv, GateRows, RunGates, Cleared
<1>2. TypeInv /\ GateInv /\ Next => GateInv'
  BY RequestKeepsGates, RunKeepsGates, SurroundingsKeepGates DEF Next, Fault
<1> QED
  BY <1>1, <1>2

\* Nothing after a gate runs unless the gate was approved or not needed, in however
\* many runs the job is executed, after whatever crashes, and even by a process that
\* has lost the job.  It does not rest on the job having one run at a time.
THEOREM GatesHold == Spec => []GateHolds
<1>1. GateInv => GateHolds
  BY DEF GateInv, RunGates, Cleared, GateHolds
<1> QED
  BY <1>1, InitType, NextKeepsType, InitGates, NextKeepsGates, PTL DEF Spec

-----------------------------------------------------------------------------
(* Cancellation *)

\* Once a step has begun after the cancellation, no run is on its way into another.
StopAt(j) ==
  /\ begunAfter[j] <= 1
  /\ begunAfter[j] # 0 =>
       cancelAsked[j] /\ \A w \in Worker : run[w][j].pc \notin {"step", "starting"}

StopInv == \A j \in Job : StopAt(j)

\* No run enters the check of a step, or the step, but from the check before it.
NoNewStep ==
  \A w \in Worker, j \in Job :
    run'[w][j].pc \in {"step", "starting"} =>
      run[w][j].pc \in {"step", "starting"} \/ ~ cancelAsked[j]

\* While nothing is begun and no cancellation forgotten, that is enough.
LEMMA StopKept ==
  ASSUME StopInv, UNCHANGED begunAfter, NoNewStep,
         \A j \in Job : cancelAsked[j] => cancelAsked'[j]
  PROVE  StopInv'
BY DEF StopInv, StopAt, NoNewStep

\* A run passes the boundary of a step only while no cancellation is recorded.
LEMMA RunTakesNoNewStep ==
  ASSUME TypeInv, NEW w \in Worker, NEW j \in Job,
         \/ Pickup(w, j) \/ Runner(w, j) \/ Renew(w, j) \/ Watch(w, j)
         \/ PlaybookFails(w, j) \/ Abandon(w, j)
  PROVE  NoNewStep
<1> DEFINE Entered == {"step", "starting"}
<1>0. OthersKept(w, j) /\ run[w][j] \in RunState
  BY OwnRunOnly DEF TypeInv, TypeOK
<1>1. ASSUME NEW pc \in Pc, pc \notin Entered \/ run[w][j].pc \in Entered, Goto(w, j, pc)
      PROVE  run'[w][j].pc \in Entered => run[w][j].pc \in Entered
  BY <1>1, GotoEffect, ZenonT(60)
<1>2. run'[w][j].pc \in Entered => run[w][j].pc \in Entered \/ ~ cancelAsked[j]
  <2>1. CASE Claim(w, j)
    <3>1. CASE Claimable(j)
      BY <2>1, <3>1 DEF Claim, NoRun, TypeInv, TypeOK
    <3>2. CASE ~ Claimable(j)
      BY <1>1, <2>1, <3>2 DEF Claim, Pc
    <3> QED
      BY <3>1, <3>2
  <2>2. CASE Close(w, j)
    BY <2>2, NoRunType DEF Close, TypeInv, TypeOK
  <2>3. CASE \/ PlaybookFails(w, j) \/ Succeed(w, j) \/ Finish(w, j) \/ Park(w, j)
             \/ CreateSteps(w, j) \/ Start(w, j) \/ MarkRunning(w, j) \/ BeginStep(w, j)
             \/ ProgressMissed(w, j) \/ MarkFailed(w, j) \/ SkipRemaining(w, j) \/ OpenGate(w, j)
             \/ Pickup(w, j) \/ Abandon(w, j)
    <3>1. PICK pc \in Pc : Goto(w, j, pc) /\ (pc \notin Entered \/ run[w][j].pc \in Entered)
      <4>1. CASE PlaybookFails(w, j) \/ Succeed(w, j) \/ Finish(w, j) \/ Park(w, j)
        BY <4>1 DEF PlaybookFails, Succeed, Finish, Park, LeaveAs, Pc
      <4>2. CASE CreateSteps(w, j) \/ Start(w, j) \/ ProgressMissed(w, j) \/ MarkFailed(w, j)
                 \/ SkipRemaining(w, j) \/ Pickup(w, j)
        BY <4>2 DEF CreateSteps, Start, ProgressMissed, MarkFailed, SkipRemaining, Pickup, Pc
      <4>3. CASE MarkRunning(w, j) \/ BeginStep(w, j)
        BY <4>3 DEF MarkRunning, BeginStep, Pc
      <4>4. CASE OpenGate(w, j) \/ Abandon(w, j)
        BY <4>4 DEF OpenGate, Abandon, Pc
      <4> QED
        BY <2>3, <4>1, <4>2, <4>3, <4>4
    <3> QED
      BY <1>1, <3>1
  <2>4. CASE Load(w, j)
    <3>1. run'[w][j] = [run[w][j] EXCEPT !.pc = "boundary", !.seen = KnownDone(j)]
      BY <2>4 DEF Load, TypeInv, TypeOK
    <3> QED
      BY <1>0, <3>1 DEF RunState
  <2>5. CASE Boundary(w, j)
    <3> DEFINE r == run[w][j]
    <3>1. cancelAsked[j] => run'[w][j] \in {[r EXCEPT !.at = @ + 1],
            [r EXCEPT !.pc = "skipping", !.exit = "CANCELLED", !.hit = FALSE]}
      BY <2>5 DEF Boundary, CancelRequested, TypeInv, TypeOK
    <3>2. cancelAsked[j] => run'[w][j].pc \in {"boundary", "skipping"}
      <4>1. r.pc = "boundary"
        BY <2>5 DEF Boundary
      <4>2. [r EXCEPT !.at = @ + 1].pc = "boundary"
        BY <1>0, <4>1 DEF RunState
      <4>3. [r EXCEPT !.pc = "skipping", !.exit = "CANCELLED", !.hit = FALSE].pc = "skipping"
        BY <1>0 DEF RunState
      <4> QED
        BY <3>1, <4>2, <4>3
    <3> QED
      BY <3>2
  <2>6. CASE StepNotNeeded(w, j) \/ StepSucceeds(w, j) \/ PassGate(w, j)
    <3>1. \E to : StepDone(w, j, to)
      BY <2>6 DEF StepNotNeeded, StepSucceeds, PassGate
    <3> QED
      BY <3>1, StepDoneEffect
  <2>7. ASSUME NEW exit \in {"FAILED", "PARTIALLY_SUCCEEDED"}, StepThrows(w, j, exit)
        PROVE  run'[w][j].pc \notin Entered
    <3> DEFINE r == run[w][j]
    <3>1. run'[w][j] = IF r.lost THEN [r EXCEPT !.pc = "closing"]
                       ELSE [r EXCEPT !.pc = "marking", !.hit = TRUE,
                                      !.exit = IF r.aborted THEN "CANCELLED" ELSE exit]
      BY <2>7 DEF StepThrows, TypeInv, TypeOK
    <3> QED
      BY <1>0, <3>1 DEF RunState
  <2>8. CASE Renew(w, j)
    <3> DEFINE r == [run[w][j] EXCEPT !.lost = TRUE, !.aborted = TRUE]
    <3>1. run' = run \/ run' = [run EXCEPT ![w][j] = r]
      BY <2>8, ZenonT(60) DEF Renew, TypeInv, TypeOK
    <3>2. r.pc = run[w][j].pc
      BY <1>0 DEF RunState
    <3>3. run'[w][j] = run[w][j] \/ run'[w][j] = r
      BY <3>1 DEF TypeInv, TypeOK
    <3> QED
      BY <3>2, <3>3
  <2>9. CASE Watch(w, j)
    <3>1. run'[w][j] = [run[w][j] EXCEPT !.aborted = TRUE]
      BY <2>9 DEF Watch, TypeInv, TypeOK
    <3> QED
      BY <1>0, <3>1 DEF RunState
  <2> QED
    BY <2>1, <2>2, <2>3, <2>4, <2>5, <2>6, <2>7, <2>8, <2>9 DEF Runner
<1> QED
  BY <1>0, <1>2 DEF OthersKept, NoNewStep

\* The step that had already passed its check may begin; nothing is counted before
\* the cancellation, and no other run has the job in hand.
LEMMA BeginKeepsStop ==
  ASSUME TypeInv, HoldInv, StopInv, NEW w \in Worker, NEW j \in Job, BeginStep(w, j)
  PROVE  StopInv'
<1> USE DEF rows
<1>1. NoNewStep /\ UNCHANGED cancelAsked
  BY RunTakesNoNewStep DEF BeginStep, Runner
<1>2. CASE Held(w, j, "RUNNING") /\ cancelAsked[j]
  <2>1. begunAfter[j] = 0
    BY DEF BeginStep, StopInv, StopAt, TypeInv, TypeOK
  <2>2. /\ begunAfter' = [begunAfter EXCEPT ![j] = begunAfter[j] + 1]
        /\ Goto(w, j, "working")
    BY <1>2 DEF BeginStep
  <2>3. \A v \in Worker : v # w => ~ InRun(v, j)
    BY DEF BeginStep, InRun, HoldInv, HoldAt
  <2>4. run'[w][j].pc = "working" /\ OthersKept(w, j)
    BY <2>2, GotoEffect DEF Pc
  <2>5. \A v \in Worker : run'[v][j].pc \notin {"step", "starting"}
    BY <2>3, <2>4 DEF OthersKept, InRun
  <2>6. begunAfter'[j] = 1 /\ \A i \in Job : i # j => begunAfter'[i] = begunAfter[i]
    BY <2>1, <2>2 DEF TypeInv, TypeOK
  <2>7. StopAt(j)'
    BY <1>1, <1>2, <2>5, <2>6 DEF StopAt
  <2>8. ASSUME NEW i \in Job, i # j PROVE StopAt(i)'
    BY <1>1, <2>6, <2>8 DEF StopInv, StopAt, NoNewStep
  <2> QED
    BY <2>7, <2>8 DEF StopInv
<1>3. CASE ~ (Held(w, j, "RUNNING") /\ cancelAsked[j])
  <2>1. begunAfter' = begunAfter
    BY <1>3 DEF BeginStep, TypeInv, TypeOK
  <2> QED
    BY <1>1, <2>1, StopKept
<1> QED
  BY <1>2, <1>3

LEMMA NextKeepsStop == TypeInv /\ HoldInv /\ StopInv /\ [Next]_vars => StopInv'
<1> SUFFICES ASSUME TypeInv, HoldInv, StopInv, [Next]_vars PROVE StopInv'
  OBVIOUS
<1> USE DEF rows, redis, procs
<1>1. CASE UNCHANGED vars
  BY <1>1 DEF vars, StopInv, StopAt
<1>2. CASE User \/ \E c \in calls : Api(c) \/ EnqueueFails(c) \/ CallLost(c)
  <2>1. UNCHANGED <<run, begunAfter>>
    BY <1>2 DEF User, Create, Retry, CancelRead, DecideRead, Api, Enqueue, CancelUnheld, CancelHeld,
           RaiseFlag, SettleSteps, Dequeue, DecideWrite, Approved, Rejected, EnqueueFails, CallLost
  <2>2. \A j \in Job : cancelAsked[j] => cancelAsked'[j]
    BY <1>2, ZenonT(60) DEF User, Create, Retry, CancelRead, DecideRead, Api, Enqueue, CancelUnheld, CancelHeld,
           RaiseFlag, SettleSteps, Dequeue, DecideWrite, Approved, Rejected, EnqueueFails, CallLost,
           TypeInv, TypeOK
  <2> QED
    BY <2>1, <2>2, StopKept DEF NoNewStep
<1>3. ASSUME NEW w \in Worker, NEW j \in Job,
             \/ Pickup(w, j) \/ Runner(w, j) \/ Renew(w, j) \/ Watch(w, j)
             \/ PlaybookFails(w, j) \/ Abandon(w, j)
      PROVE  StopInv'
  <2>1. CASE BeginStep(w, j)
    BY <2>1, BeginKeepsStop
  <2>2. CASE ~ BeginStep(w, j)
    <3>1. UNCHANGED <<cancelAsked, begunAfter>>
      BY <1>3, <2>2 DEF Runner, Pickup, Renew, Watch, PlaybookFails, Abandon, Claim, CreateSteps,
           Start, Load, Boundary, Succeed, StepNotNeeded, MarkRunning, StepSucceeds, StepThrows,
           ProgressMissed, MarkFailed, SkipRemaining, Finish, PassGate, OpenGate, Park, Close
    <3> QED
      BY <1>3, <3>1, RunTakesNoNewStep, StopKept
  <2> QED
    BY <2>1, <2>2
<1>4. CASE \/ \E w \in Worker, j \in Job : Reconcile(w, j) \/ ReconcileSteps(w, j) \/ Stall(w, j)
           \/ \E j \in Job : LeaseRunsOut(j)
           \/ \E w \in Worker : Crash(w)
           \/ RedisLoss
  <2>1. UNCHANGED <<cancelAsked, begunAfter>>
    BY <1>4 DEF Reconcile, ReconcileSteps, Stall, LeaseRunsOut, Crash, RedisLoss
  <2>2. NoNewStep
    <3>1. CASE \E w \in Worker : Crash(w)
      BY <3>1, NoRunType DEF Crash, NoNewStep, TypeInv, TypeOK
    <3>2. CASE run' = run
      BY <3>2 DEF NoNewStep
    <3> QED
      BY <1>4, <3>1, <3>2 DEF Reconcile, ReconcileSteps, Stall, LeaseRunsOut, RedisLoss
  <2> QED
    BY <2>1, <2>2, StopKept
<1> QED
  BY <1>1, <1>2, <1>3, <1>4 DEF Next, Fault

\* A cancellation lets at most one more step begin.  It rests on the column, which
\* no one clears, not on the flag, and on the job having one run at a time.
THEOREM CancellationStops == Spec => []StopsAfterCancel
<1>1. Init => StopInv
  <2> SUFFICES ASSUME Init, NEW j \in Job PROVE StopAt(j)
    BY DEF StopInv
  <2>1. begunAfter[j] = 0
    BY DEF Init
  <2> QED
    BY <2>1 DEF StopAt
<1>2. StopInv => StopsAfterCancel
  BY DEF StopInv, StopAt, StopsAfterCancel
<1> QED
  BY <1>1, <1>2, NextKeepsStop, HoldAlways, PTL DEF Spec

-----------------------------------------------------------------------------
(* Success *)

\* A run that holds its job has left nothing undone behind it; and once the job has
\* succeeded, no run is left that could write to its steps.
DoneRow(j, s) == step[j][s] \in DoneStatuses
AtHand == {"step", "starting", "working", "marking"}

RunDone(w, j) == InRun(w, j) =>
  /\ run[w][j].pc \in AtHand => run[w][j].at \notin run[w][j].seen
  /\ status[j] \in OWNED =>
       \A s \in Step : s \in run[w][j].seen \/ s < run[w][j].at => DoneRow(j, s)

EndAt(j) == status[j] = "SUCCEEDED" =>
  (\A s \in Step : DoneRow(j, s)) /\ \A w \in Worker : ~ InRun(w, j)

DoneInv == \A j \in Job : EndAt(j) /\ \A w \in Worker : RunDone(w, j)

\* What most steps do to the rows: what is done stays done, and no row is claimed or succeeds.
DoneKept(j) == \A s \in Step : DoneRow(j, s) => DoneRow(j, s)'
NoneClaimed == \A j \in Job : status'[j] \in OWNED => status[j] \in OWNED
NoneSucceeds == \A j \in Job : status'[j] = "SUCCEEDED" => status[j] = "SUCCEEDED"

\* Runs that are left are as they were.
RunsSame == \A w \in Worker, j \in Job : InRun(w, j)' => run'[w][j] = run[w][j]

LEMMA SettledStaysDone ==
  ASSUME TypeInv, NEW j \in Job, NEW open, NEW to, open \intersect DoneStatuses = {},
         step' = [step EXCEPT ![j] = Settle(@, open, to)]
  PROVE  \A i \in Job : DoneKept(i)
<1>1. \A s \in Step : step'[j][s] = IF step[j][s] \in open THEN to ELSE step[j][s]
  BY DEF Settle, TypeInv, TypeOK
<1>2. \A i \in Job : i # j => step'[i] = step[i]
  BY DEF TypeInv, TypeOK
<1> QED
  BY <1>1, <1>2 DEF DoneKept, DoneRow

LEMMA StillDone ==
  ASSUME DoneInv, \A j \in Job : DoneKept(j), NoneClaimed, NoneSucceeds, RunsSame
  PROVE  DoneInv'
<1>1. \A w \in Worker, j \in Job : InRun(w, j)' => InRun(w, j)
  BY DEF RunsSame, InRun
<1>2. ASSUME NEW w \in Worker, NEW j \in Job PROVE RunDone(w, j)'
  BY <1>1 DEF DoneInv, RunDone, DoneKept, NoneClaimed, RunsSame
<1>3. ASSUME NEW j \in Job PROVE EndAt(j)'
  BY <1>1 DEF DoneInv, EndAt, DoneKept, NoneSucceeds
<1> QED
  BY <1>2, <1>3 DEF DoneInv

\* One run moves.  It may write to the steps of its job only while it is in hand, and then
\* it is the only one.
LEMMA OneRunDone ==
  ASSUME HoldInv, DoneInv, NEW w \in Worker, NEW j \in Job, OthersKept(w, j), RunsOnlyEnd,
         NoneClaimed, NoneSucceeds, \A i \in Job : i # j => DoneKept(i),
         InRun(w, j) \/ DoneKept(j), RunDone(w, j)'
  PROVE  DoneInv'
<1>1. ASSUME NEW i \in Job, i # j PROVE EndAt(i)' /\ \A v \in Worker : RunDone(v, i)'
  <2>1. \A v \in Worker : run'[v][i] = run[v][i] /\ (InRun(v, i)' <=> InRun(v, i))
    BY <1>1 DEF OthersKept, InRun
  <2>2. EndAt(i)'
    BY <1>1, <2>1 DEF DoneInv, EndAt, DoneKept, NoneSucceeds
  <2>3. \A v \in Worker : RunDone(v, i)'
    BY <1>1, <2>1 DEF DoneInv, RunDone, DoneKept, NoneClaimed
  <2> QED
    BY <2>2, <2>3
<1>2. ASSUME NEW v \in Worker, v # w PROVE RunDone(v, j)'
  <2>1. run'[v][j] = run[v][j] /\ (InRun(v, j)' <=> InRun(v, j))
    BY <1>2 DEF OthersKept, InRun
  <2>2. InRun(v, j) => ~ InRun(w, j)
    BY <1>2 DEF HoldInv, HoldAt
  <2> QED
    BY <2>1, <2>2 DEF DoneInv, RunDone, DoneKept, NoneClaimed
<1>3. EndAt(j)'
  BY DEF DoneInv, EndAt, DoneKept, NoneSucceeds, RunsOnlyEnd
<1> QED
  BY <1>1, <1>2, <1>3 DEF DoneInv

LEMMA RequestKeepsDone ==
  ASSUME TypeInv, DoneInv, User \/ \E c \in calls : Api(c) \/ EnqueueFails(c) \/ CallLost(c)
  PROVE  DoneInv'
<1> USE DEF rows, redis, procs
<1>1. RunsSame
  <2>1. UNCHANGED run
    BY DEF User, Create, Retry, CancelRead, DecideRead, Api, Enqueue, CancelUnheld, CancelHeld,
           RaiseFlag, SettleSteps, Dequeue, DecideWrite, Approved, Rejected, EnqueueFails, CallLost
  <2> QED
    BY <2>1 DEF RunsSame
<1>2. NoneClaimed /\ NoneSucceeds
  <2>1. ASSUME NEW i \in Job, status'[i] # status[i]
        PROVE  status'[i] \in {"QUEUED", "FAILED", "CANCELLED"}
    <3>1. CASE User
      BY <2>1, <3>1 DEF User, Create, Retry, CancelRead, DecideRead, TypeInv, TypeOK
    <3>2. ASSUME NEW c \in calls, Api(c) \/ EnqueueFails(c) \/ CallLost(c)
          PROVE  status'[i] \in {"QUEUED", "FAILED", "CANCELLED"}
      <4>1. PICK to \in {"QUEUED", "FAILED", "CANCELLED"} :
              status' \in {status, [status EXCEPT ![c.job] = to]}
        BY <3>2 DEF Api, Enqueue, CancelUnheld, CancelHeld, RaiseFlag, SettleSteps, Dequeue,
                    DecideWrite, Approved, Rejected, EnqueueFails, CallLost
      <4> QED
        BY <2>1, <4>1 DEF TypeInv, TypeOK
    <3> QED
      BY <3>1, <3>2
  <2> QED
    BY <2>1 DEF NoneClaimed, NoneSucceeds, OWNED
<1>3. ASSUME NEW c \in calls, SettleSteps(c) PROVE DoneInv'
  <2>1. c.job \in Job
    BY DEF TypeInv, TypeOK, Call
  <2>2. {"PENDING", "RUNNING"} \intersect DoneStatuses = {}
    BY DEF DoneStatuses
  <2>3. step' = [step EXCEPT ![c.job] = Settle(@, {"PENDING", "RUNNING"}, "SKIPPED")]
    BY <1>3 DEF SettleSteps
  <2>4. \A i \in Job : DoneKept(i)
    BY <2>1, <2>2, <2>3, SettledStaysDone
  <2> QED
    BY <1>1, <1>2, <2>4, StillDone
<1>4. ASSUME UNCHANGED step PROVE DoneInv'
  BY <1>1, <1>2, <1>4, StillDone DEF DoneKept, DoneRow
<1>5. CASE User
  BY <1>4, <1>5 DEF User, Create, Retry, CancelRead, DecideRead
<1>6. ASSUME NEW c \in calls,
             \/ Enqueue(c) \/ CancelUnheld(c) \/ CancelHeld(c) \/ RaiseFlag(c) \/ Dequeue(c)
             \/ DecideWrite(c) \/ Approved(c) \/ Rejected(c) \/ EnqueueFails(c) \/ CallLost(c)
      PROVE  DoneInv'
  BY <1>4, <1>6 DEF Enqueue, CancelUnheld, CancelHeld, RaiseFlag, Dequeue, DecideWrite, Approved,
                    Rejected, EnqueueFails, CallLost
<1> QED
  BY <1>3, <1>5, <1>6 DEF Api

\* The claim and the end: a claimed job has a run that has passed nothing yet, and a job
\* succeeds in the run that has passed everything.
LEMMA ClaimKeepsDone ==
  ASSUME TypeInv, HoldInv, DoneInv, NEW w \in Worker, NEW j \in Job, Claim(w, j), Claimable(j)
  PROVE  DoneInv'
<1>1. /\ status[j] = "QUEUED" /\ status' = [status EXCEPT ![j] = "PREFLIGHT"]
      /\ OthersKept(w, j) /\ UNCHANGED step
  BY OwnRunOnly DEF Claim, Claimable, Runner
<1>2. \A v \in Worker : ~ InRun(v, j)
  BY <1>1 DEF HoldInv, HoldAt, IsFree, UNHELD
<1>3. run'[w][j].pc = "claimed" /\ run'[w][j].at = 1 /\ run'[w][j].seen = {}
  <2>1. run'[w][j] = [NoRun EXCEPT !.pc = "claimed"]
    BY DEF Claim, TypeInv, TypeOK
  <2> QED
    BY <2>1 DEF NoRun
<1>4. RunDone(w, j)'
  BY <1>3, GatesAreSteps DEF RunDone, AtHand
<1>5. \A v \in Worker, i \in Job : v # w \/ i # j => (InRun(v, i)' <=> InRun(v, i))
  BY <1>1 DEF OthersKept, InRun
<1>6. ASSUME NEW v \in Worker, NEW i \in Job, v # w \/ i # j PROVE RunDone(v, i)'
  <2>1. CASE i = j
    BY <1>2, <1>5, <1>6, <2>1 DEF RunDone
  <2>2. CASE i # j
    BY <1>1, <1>5, <2>2 DEF DoneInv, RunDone, OthersKept, DoneRow, TypeInv, TypeOK
  <2> QED
    BY <2>1, <2>2
<1>7. ASSUME NEW i \in Job PROVE EndAt(i)'
  BY <1>1, <1>5 DEF DoneInv, EndAt, DoneRow, TypeInv, TypeOK
<1> QED
  BY <1>4, <1>6, <1>7 DEF DoneInv

LEMMA SucceedKeepsDone ==
  ASSUME TypeInv, HoldInv, DoneInv, NEW w \in Worker, NEW j \in Job, Succeed(w, j)
  PROVE  DoneInv'
<1>1. OthersKept(w, j) /\ RunsOnlyEnd /\ UNCHANGED step
  BY OwnRunOnly, StepsBringNoRun DEF Succeed, Claim, Runner
<1>2. ~ InRun(w, j)'
  BY GotoEffect DEF Succeed, LeaveAs, Pc, InRun
<1>3. \A i \in Job : DoneKept(i)
  BY <1>1 DEF DoneKept, DoneRow
<1>4. CASE Held(w, j, "RUNNING")
  <2>1. status' = [status EXCEPT ![j] = "SUCCEEDED"] /\ status[j] \in OWNED /\ InRun(w, j)
    BY <1>4 DEF Succeed, LeaveAs, Held, InRun, OWNED
  <2>2. \A s \in Step : s < run[w][j].at
    <3>1. run[w][j].at \in Nat /\ run[w][j].at > NSteps
      BY JobsAssumption DEF Succeed, TypeInv, TypeOK, RunState
    <3> QED
      BY <3>1, JobsAssumption DEF Step
  <2>3. \A s \in Step : DoneRow(j, s)
    BY <2>1, <2>2 DEF DoneInv, RunDone
  <2>4. \A v \in Worker : ~ InRun(v, j)'
    BY <1>1, <1>2, <2>1 DEF HoldInv, HoldAt, RunsOnlyEnd
  <2>5. EndAt(j)' /\ \A v \in Worker : RunDone(v, j)'
    BY <1>1, <2>3, <2>4 DEF EndAt, RunDone, DoneRow
  <2>6. ASSUME NEW i \in Job, i # j PROVE EndAt(i)' /\ \A v \in Worker : RunDone(v, i)'
    <3>1. \A v \in Worker : run'[v][i] = run[v][i] /\ (InRun(v, i)' <=> InRun(v, i))
      BY <1>1, <2>6 DEF OthersKept, InRun
    <3>2. status'[i] = status[i]
      BY <2>1, <2>6 DEF TypeInv, TypeOK
    <3> QED
      BY <1>1, <3>1, <3>2 DEF DoneInv, EndAt, RunDone, DoneRow
  <2> QED
    BY <2>5, <2>6 DEF DoneInv
<1>5. CASE ~ Held(w, j, "RUNNING")
  <2>1. UNCHANGED status
    BY <1>5 DEF Succeed, LeaveAs
  <2> QED
    BY <1>1, <1>2, <1>3, <2>1, OneRunDone DEF NoneClaimed, NoneSucceeds, RunDone
<1> QED
  BY <1>4, <1>5

LEMMA RunKeepsDone ==
  ASSUME TypeInv, HoldInv, DoneInv, NEW w \in Worker, NEW j \in Job,
         \/ Pickup(w, j) \/ Runner(w, j) \/ Renew(w, j) \/ Watch(w, j)
         \/ PlaybookFails(w, j) \/ Abandon(w, j)
  PROVE  DoneInv'
<1> USE DEF rows, redis, procs
<1> SUFFICES ASSUME ~ (Claim(w, j) /\ Claimable(j)), ~ Succeed(w, j) PROVE DoneInv'
  BY ClaimKeepsDone, SucceedKeepsDone
<1>0. OthersKept(w, j) /\ RunsOnlyEnd /\ RunDone(w, j)
  BY OwnRunOnly, StepsBringNoRun DEF DoneInv
<1>a. run[w][j] \in RunState
  BY DEF TypeInv, TypeOK
<1>b. NoneClaimed /\ NoneSucceeds
  <2>1. ASSUME NEW i \in Job, status'[i] # status[i]
        PROVE  (status[i] \in OWNED \/ status'[i] \notin OWNED) /\ status'[i] # "SUCCEEDED"
    <3>1. CASE PlaybookFails(w, j) \/ Finish(w, j) \/ Park(w, j)
      <4>1. run[w][j].exit \in Exit
        BY <1>a DEF RunState
      <4>2. PICK to \in Exit \union {"WAITING_APPROVAL"} :
              status' \in {status, [status EXCEPT ![j] = to]}
        BY <3>1, <4>1 DEF PlaybookFails, Finish, Park, LeaveAs, Exit
      <4> QED
        BY <2>1, <4>2 DEF Exit, OWNED, TypeInv, TypeOK
    <3>2. CASE Start(w, j)
      BY <2>1, <3>2 DEF Start, Held, OWNED, TypeInv, TypeOK
    <3>3. CASE \/ Pickup(w, j) \/ Watch(w, j) \/ Abandon(w, j) \/ CreateSteps(w, j) \/ Load(w, j)
               \/ Boundary(w, j) \/ StepNotNeeded(w, j) \/ MarkRunning(w, j) \/ BeginStep(w, j)
               \/ StepSucceeds(w, j) \/ ProgressMissed(w, j)
               \/ (\E exit \in {"FAILED", "PARTIALLY_SUCCEEDED"} : StepThrows(w, j, exit))
               \/ MarkFailed(w, j) \/ SkipRemaining(w, j) \/ PassGate(w, j) \/ OpenGate(w, j)
               \/ Close(w, j) \/ (Claim(w, j) /\ ~ Claimable(j)) \/ Renew(w, j)
      BY <2>1, <3>3 DEF Pickup, Watch, Abandon, CreateSteps, Load, Boundary, StepNotNeeded,
                  MarkRunning, BeginStep, StepSucceeds, ProgressMissed, StepThrows, MarkFailed,
                  SkipRemaining, PassGate, OpenGate, Close, Claim, Renew
    <3> QED
      BY <3>1, <3>2, <3>3 DEF Runner
  <2> QED
    BY <2>1 DEF NoneClaimed, NoneSucceeds
\* Steps that write to no step row of any job.
<1>1. ASSUME UNCHANGED step, RunDone(w, j)' PROVE DoneInv'
  BY <1>0, <1>b, <1>1, OneRunDone DEF DoneKept, DoneRow
<1>2. ASSUME UNCHANGED step, run'[w][j].at = run[w][j].at, run'[w][j].seen = run[w][j].seen,
             run'[w][j].pc \in AtHand => run[w][j].pc \in AtHand
      PROVE  DoneInv'
  <2>1. RunDone(w, j)'
    BY <1>0, <1>b, <1>2 DEF RunDone, RunsOnlyEnd, NoneClaimed, DoneRow
  <2> QED
    BY <1>1, <1>2, <2>1
<1>3. ASSUME NEW pc \in Pc, Goto(w, j, pc), UNCHANGED step,
             pc \in AtHand => run[w][j].pc \in AtHand
      PROVE  DoneInv'
  <2>1. /\ run'[w][j].pc = pc /\ run'[w][j].at = run[w][j].at
        /\ run'[w][j].seen = run[w][j].seen
    BY <1>3, GotoEffect, ZenonT(60)
  <2> QED
    BY <1>2, <1>3, <2>1
<1>4. CASE PlaybookFails(w, j) \/ Finish(w, j) \/ Park(w, j)
  BY <1>3, <1>4 DEF PlaybookFails, Finish, Park, LeaveAs, Pc, AtHand
<1>5. CASE \/ Pickup(w, j) \/ (Claim(w, j) /\ ~ Claimable(j)) \/ Start(w, j)
           \/ ProgressMissed(w, j) \/ Abandon(w, j) \/ OpenGate(w, j)
  <2>1. PICK pc \in {"picked", "loading", "closing", "idle", "parking"} : Goto(w, j, pc)
    BY <1>5 DEF Pickup, Claim, Start, ProgressMissed, Abandon, OpenGate
  <2>2. pc \in Pc /\ pc \notin AtHand
    BY DEF Pc, AtHand
  <2>3. UNCHANGED step
    BY <1>5 DEF Pickup, Claim, Start, ProgressMissed, Abandon, OpenGate
  <2> QED
    BY <1>3, <2>1, <2>2, <2>3
<1>6. CASE BeginStep(w, j)
  <2>1. PICK pc \in {"working", "closing"} : Goto(w, j, pc)
    BY <1>6 DEF BeginStep
  <2>2. pc \in Pc /\ run[w][j].pc \in AtHand /\ UNCHANGED step
    BY <1>6 DEF BeginStep, Pc, AtHand
  <2> QED
    BY <1>3, <2>1, <2>2
<1>7. CASE Close(w, j)
  <2>1. ~ InRun(w, j)'
    BY <1>7, NoRunType DEF Close, InRun, TypeInv, TypeOK
  <2> QED
    BY <1>1, <1>7, <2>1 DEF Close, RunDone
<1>8. CASE Load(w, j)
  <2> DEFINE r == [run[w][j] EXCEPT !.pc = "boundary", !.seen = KnownDone(j)]
  <2>1. run'[w][j] = r /\ UNCHANGED <<step, status>>
    BY <1>8 DEF Load, TypeInv, TypeOK
  <2>2. r.pc = "boundary" /\ r.at = run[w][j].at /\ r.seen = KnownDone(j)
    BY <1>a DEF RunState
  <2>3. InRun(w, j)
    BY <1>8 DEF Load, InRun
  <2>4. RunDone(w, j)'
    BY <1>0, <2>1, <2>2, <2>3 DEF RunDone, DoneRow, KnownDone, AtHand
  <2> QED
    BY <1>1, <2>1, <2>4
<1>9. CASE Boundary(w, j)
  <2> DEFINE r == run[w][j]
  <2>1. UNCHANGED <<step, status>> /\ InRun(w, j) /\ r.pc = "boundary" /\ r.at \in Nat
    BY <1>9, <1>a, JobsAssumption DEF Boundary, InRun, RunState
  <2>2. CASE r.at \in r.seen
    <3>1. run'[w][j] = [r EXCEPT !.at = @ + 1]
      BY <1>9, <2>2 DEF Boundary, TypeInv, TypeOK
    <3>2. run'[w][j].at = r.at + 1 /\ run'[w][j].seen = r.seen /\ run'[w][j].pc = "boundary"
      BY <1>a, <2>1, <3>1 DEF RunState
    <3>3. \A s \in Step : s < r.at + 1 => s < r.at \/ s \in r.seen
      BY <2>1, <2>2, GatesAreSteps
    <3>4. RunDone(w, j)'
      BY <1>0, <2>1, <3>2, <3>3 DEF RunDone, DoneRow, AtHand
    <3> QED
      BY <1>1, <2>1, <3>4
  <2>3. CASE r.at \notin r.seen
    <3>1. run'[w][j] \in {[r EXCEPT !.pc = "skipping", !.exit = "CANCELLED", !.hit = FALSE],
                          [r EXCEPT !.pc = "step"]}
      BY <1>9, <2>3 DEF Boundary, TypeInv, TypeOK
    <3>2. run'[w][j].at = r.at /\ run'[w][j].seen = r.seen
      BY <1>a, <3>1 DEF RunState
    <3>3. RunDone(w, j)'
      BY <1>0, <2>1, <2>3, <3>2 DEF RunDone, DoneRow
    <3> QED
      BY <1>1, <2>1, <3>3
  <2> QED
    BY <2>2, <2>3
<1>10. ASSUME NEW exit \in {"FAILED", "PARTIALLY_SUCCEEDED"}, StepThrows(w, j, exit)
       PROVE  DoneInv'
  <2> DEFINE r == run[w][j]
  <2>1. run'[w][j] = IF r.lost THEN [r EXCEPT !.pc = "closing"]
                     ELSE [r EXCEPT !.pc = "marking", !.hit = TRUE,
                                    !.exit = IF r.aborted THEN "CANCELLED" ELSE exit]
    BY <1>10 DEF StepThrows, TypeInv, TypeOK
  <2>2. run'[w][j].at = r.at /\ run'[w][j].seen = r.seen
    BY <1>a, <2>1 DEF RunState
  <2>3. UNCHANGED step /\ r.pc \in AtHand
    BY <1>10 DEF StepThrows, AtHand
  <2> QED
    BY <1>2, <2>2, <2>3
<1>11. CASE Renew(w, j) \/ Watch(w, j)
  <2>1. UNCHANGED step
    BY <1>11 DEF Renew, Watch
  <2>2. run'[w][j] \in {run[w][j], [run[w][j] EXCEPT !.lost = TRUE, !.aborted = TRUE],
                        [run[w][j] EXCEPT !.aborted = TRUE]}
    <3>1. CASE Renew(w, j)
      <4> DEFINE r == [run[w][j] EXCEPT !.lost = TRUE, !.aborted = TRUE]
      <4>1. run' = run \/ run' = [run EXCEPT ![w][j] = r]
        BY <3>1, ZenonT(60) DEF Renew, TypeInv, TypeOK
      <4> QED
        BY <4>1 DEF TypeInv, TypeOK
    <3>2. CASE Watch(w, j)
      BY <3>2 DEF Watch, TypeInv, TypeOK
    <3> QED
      BY <1>11, <3>1, <3>2
  <2>3. /\ run'[w][j].at = run[w][j].at /\ run'[w][j].seen = run[w][j].seen
        /\ run'[w][j].pc = run[w][j].pc
    BY <1>a, <2>2 DEF RunState
  <2> QED
    BY <1>2, <2>1, <2>3
\* Steps that write to a step row of the job.
<1>12. CASE CreateSteps(w, j) \/ SkipRemaining(w, j)
  <2>1. \A i \in Job : DoneKept(i)
    <3>1. CASE CreateSteps(w, j)
      <4>1. {"NONE"} \intersect DoneStatuses = {}
        BY DEF DoneStatuses
      <4> QED
        BY <3>1, <4>1, SettledStaysDone DEF CreateSteps
    <3>2. CASE SkipRemaining(w, j)
      <4>1. \A i \in Job, s \in Step :
              step'[i][s] = IF i = j /\ s \in Remaining(run[w][j])
                               /\ step[j][s] \in {"PENDING", "RUNNING"}
                            THEN "SKIPPED" ELSE step[i][s]
        BY <3>2 DEF SkipRemaining, TypeInv, TypeOK
      <4> QED
        BY <4>1 DEF DoneKept, DoneRow, DoneStatuses
    <3> QED
      BY <1>12, <3>1, <3>2
  <2>2. PICK pc \in {"created", "cleaning"} : Goto(w, j, pc)
    BY <1>12 DEF CreateSteps, SkipRemaining
  <2>3. /\ run'[w][j].at = run[w][j].at /\ run'[w][j].seen = run[w][j].seen
        /\ run'[w][j].pc \notin AtHand
    <3>1. pc \in Pc /\ pc \notin AtHand
      BY DEF Pc, AtHand
    <3> QED
      BY <2>2, <3>1, GotoEffect
  <2>4. RunDone(w, j)'
    BY <1>0, <1>b, <2>1, <2>3 DEF RunDone, RunsOnlyEnd, NoneClaimed, DoneKept
  <2> QED
    BY <1>0, <1>b, <2>1, <2>4, OneRunDone
<1>13. CASE StepNotNeeded(w, j) \/ StepSucceeds(w, j) \/ PassGate(w, j)
  <2>1. PICK at \in Step : at = run[w][j].at /\ InRun(w, j) /\ UNCHANGED status
    BY <1>13 DEF StepNotNeeded, StepSucceeds, PassGate, TypeInv, RunsAtStep, AtStep, InRun
  <2>2. PICK to \in DoneStatuses : StepDone(w, j, to)
    BY <1>13 DEF StepNotNeeded, StepSucceeds, PassGate, DoneStatuses
  <2>3. /\ step'[j][at] = to
        /\ \A i \in Job, s \in Step : i # j \/ s # at => step'[i][s] = step[i][s]
    BY <2>1, <2>2 DEF StepDone, TypeInv, TypeOK
  <2>4. \A i \in Job : DoneKept(i)
    BY <2>2, <2>3 DEF DoneKept, DoneRow
  <2>5. /\ run'[w][j].pc = "boundary" /\ run'[w][j].at = at + 1
        /\ run'[w][j].seen = run[w][j].seen \union {at}
    BY <2>1, <2>2, StepDoneEffect
  <2>6. \A s \in Step : s \in run[w][j].seen \union {at} \/ s < at + 1
                          => s \in run[w][j].seen \/ s < at \/ s = at
    BY <2>1, GatesAreSteps
  <2>7. DoneRow(j, at)'
    BY <2>2, <2>3 DEF DoneRow
  <2>8. RunDone(w, j)'
    BY <1>0, <2>1, <2>4, <2>5, <2>6, <2>7 DEF RunDone, DoneKept, AtHand
  <2> QED
    BY <1>0, <1>b, <2>4, <2>8, OneRunDone
<1>14. CASE MarkRunning(w, j) \/ MarkFailed(w, j)
  <2> DEFINE at == run[w][j].at
  <2>1. InRun(w, j) /\ run[w][j].pc \in AtHand /\ UNCHANGED status /\ at \in Step
    BY <1>14 DEF MarkRunning, MarkFailed, InRun, AtHand, TypeInv, RunsAtStep, AtStep
  <2>2. at \notin run[w][j].seen
    BY <1>0, <2>1 DEF RunDone
  <2>3. PICK pc, to : /\ pc \in {"starting", "skipping"} /\ Goto(w, j, pc)
                      /\ step' = [step EXCEPT ![j][at] = to]
    BY <1>14 DEF MarkRunning, MarkFailed
  <2>4. \A i \in Job, s \in Step : i # j \/ s # at => step'[i][s] = step[i][s]
    BY <2>3 DEF TypeInv, TypeOK
  <2>5. run'[w][j].at = at /\ run'[w][j].seen = run[w][j].seen
    <3>1. pc \in Pc
      BY <2>3 DEF Pc
    <3> QED
      BY <2>3, <3>1, GotoEffect
  <2>6. \A s \in Step : s \in run[w][j].seen \/ s < at => s # at
    BY <2>1, <2>2, GatesAreSteps
  <2>7. RunDone(w, j)'
    BY <1>0, <2>1, <2>2, <2>4, <2>5, <2>6 DEF RunDone, DoneRow
  <2>8. \A i \in Job : i # j => DoneKept(i)
    BY <2>4 DEF DoneKept, DoneRow
  <2> QED
    BY <1>0, <1>b, <2>1, <2>7, <2>8, OneRunDone
<1> QED
  BY <1>4, <1>5, <1>6, <1>7, <1>8, <1>9, <1>10, <1>11, <1>12, <1>13, <1>14 DEF Runner

LEMMA SurroundingsKeepDone ==
  ASSUME TypeInv, DoneInv,
         \/ \E w \in Worker, j \in Job :
              Reconcile(w, j) \/ ReconcileSteps(w, j) \/ Stall(w, j)
         \/ \E j \in Job : LeaseRunsOut(j)
         \/ \E w \in Worker : Crash(w)
         \/ RedisLoss
  PROVE  DoneInv'
<1> USE DEF rows, redis, procs
<1>1. RunsSame
  <2>1. CASE \E w \in Worker : Crash(w)
    BY <2>1, NoRunType DEF Crash, RunsSame, InRun, TypeInv, TypeOK
  <2>2. CASE run' = run
    BY <2>2 DEF RunsSame
  <2> QED
    BY <2>1, <2>2 DEF Reconcile, ReconcileSteps, Stall, LeaseRunsOut, RedisLoss
<1>2. NoneClaimed /\ NoneSucceeds
  <2>1. ASSUME NEW w \in Worker, NEW j \in Job, Reconcile(w, j)
        PROVE  NoneClaimed /\ NoneSucceeds
    BY <2>1 DEF Reconcile, Conclude, NoneClaimed, NoneSucceeds, OWNED, TypeInv, TypeOK
  <2>2. CASE UNCHANGED status
    BY <2>2 DEF NoneClaimed, NoneSucceeds
  <2> QED
    BY <2>1, <2>2 DEF ReconcileSteps, Stall, LeaseRunsOut, RedisLoss, Crash
<1>3. ASSUME NEW w \in Worker, NEW j \in Job, ReconcileSteps(w, j) PROVE DoneInv'
  <2>1. \A s \in Step : step'[j][s] = step[j][s] \/ step[j][s] \in {"RUNNING", "PENDING"}
    <3>1. CASE settling[j].left = "RUNNING"
      BY <1>3, <3>1 DEF ReconcileSteps, Settle, TypeInv, TypeOK
    <3>2. CASE settling[j].left # "RUNNING"
      BY <1>3, <3>2 DEF ReconcileSteps, Settle, TypeInv, TypeOK
    <3> QED
      BY <3>1, <3>2
  <2>2. \A i \in Job : i # j => step'[i] = step[i]
    BY <1>3 DEF ReconcileSteps, TypeInv, TypeOK
  <2>3. \A i \in Job : DoneKept(i)
    BY <2>1, <2>2 DEF DoneKept, DoneRow, DoneStatuses
  <2> QED
    BY <1>1, <1>2, <2>3, StillDone
<1>4. CASE (\E w \in Worker, j \in Job : Reconcile(w, j) \/ Stall(w, j))
           \/ (\E j \in Job : LeaseRunsOut(j)) \/ (\E w \in Worker : Crash(w)) \/ RedisLoss
  <2>1. UNCHANGED step
    BY <1>4 DEF Reconcile, Stall, LeaseRunsOut, RedisLoss, Crash
  <2> QED
    BY <1>1, <1>2, <2>1, StillDone DEF DoneKept, DoneRow
<1> QED
  BY <1>3, <1>4

LEMMA NextKeepsDone == TypeInv /\ HoldInv /\ DoneInv /\ [Next]_vars => DoneInv'
<1>1. DoneInv /\ UNCHANGED vars => DoneInv'
  BY DEF vars, rows, procs, DoneInv, EndAt, RunDone, DoneRow, InRun
<1>2. TypeInv /\ HoldInv /\ DoneInv /\ Next => DoneInv'
  BY RequestKeepsDone, RunKeepsDone, SurroundingsKeepDone DEF Next, Fault
<1> QED
  BY <1>1, <1>2

\* A job that says it succeeded has every step done and every gate that was passed
\* approved, in however many runs it was executed and whoever wrote to its steps: it
\* rests on the job having one run at a time and on steps being written by that run.
THEOREM SuccessMeansComplete == Spec => []SuccessIsComplete
<1>1. Init => DoneInv
  <2> SUFFICES ASSUME Init PROVE DoneInv
    OBVIOUS
  <2>1. \A w \in Worker, j \in Job : ~ InRun(w, j)
    BY NoRunType DEF Init, InRun
  <2>2. \A j \in Job : status[j] = "NONE"
    BY DEF Init
  <2> QED
    BY <2>1, <2>2 DEF DoneInv, EndAt, RunDone
<1>2. GateInv /\ DoneInv => SuccessIsComplete
  BY DEF GateInv, GateRows, DoneInv, EndAt, DoneRow, SuccessIsComplete
<1> QED
  BY <1>1, <1>2, NextKeepsDone, HoldAlways, InitGates, NextKeepsGates, PTL DEF Spec
=============================================================================
