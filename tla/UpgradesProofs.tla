---------------------------- MODULE UpgradesProofs ----------------------------
(***************************************************************************)
(* What major upgrades guarantee for any plans, targets and jobs: their    *)
(* rows follow the board of the job system; on one cluster with one driver *)
(* Ceph's noout is recorded before it is set, and is cleared when a plan   *)
(* is over; with one driver the children of a composite follow each other, *)
(* each complete with all its targets on the new release before the next   *)
(* one begins; on one cluster the targets of a plan take their turns; and  *)
(* with both a node is ready when its reboot comes.                        *)
(***************************************************************************)
EXTENDS Upgrades, FiniteSetTheorems, WellFoundedInduction, TLAPS

-----------------------------------------------------------------------------
(* Types *)

PlanStatus == {"DRAFT", "RUNNING", "BLOCKED"} \union Over
ParentStatus == {"none", "DRAFT", "RUNNING", "COMPLETED", "FAILED"}
Undoing == {"undo", "undone", "tell", "end"}
Run == [ at : Nat, part : Parts \union Undoing, approved : Nat,
         ending : {"none", "FAILED", "CANCELLED"}, asked : BOOLEAN, alive : BOOLEAN ]
Settling == {"undo", "undone", "mark"}
Round == [ at : {"idle", "stop", "create", "link", "queue"} \union Settling,
           child : Child \union {NoChild}, job : Job \union {NoJob} ]

JobTypes ==
  /\ row \in [Job -> JOB_STATUSES \union {"NONE"}]
  /\ of \in [Job -> Child \union {NoChild}]
  /\ queued \subseteq Job
  /\ run \in [Job -> Run]
PlanTypes ==
  /\ status \in [Child -> PlanStatus] /\ parent \in ParentStatus
  /\ named \in [Child -> Job \union {NoJob}] /\ velnoxs \in [Child -> BOOLEAN]
RoundTypes ==
  /\ drv \in [Driver -> Round] /\ linking \subseteq Child \X Job
  /\ noout \in BOOLEAN /\ preset \in BOOLEAN /\ strayed \subseteq Child

\* A job that exists is some plan's, only a running one is in the middle of a step, and
\* one that undoes knows how it ends.
JobsAreWhole ==
  \A j \in Job :
    /\ row[j] # "NONE" => of[j] \in Child
    /\ row[j] # "RUNNING" => run[j].part = "go"
    /\ run[j].part \in Undoing => run[j].ending # "none"

\* A driver at work on a child has one, and a job from the insert on.
RoundsAreWhole ==
  \A d \in Driver :
    /\ drv[d].at \notin {"idle", "stop"} => drv[d].child \in Child
    /\ drv[d].at \in {"link", "queue"} \union Settling => drv[d].job \in Job

TypeInv == JobTypes /\ PlanTypes /\ RoundTypes /\ JobsAreWhole /\ RoundsAreWhole

-----------------------------------------------------------------------------
(* What a job does to the jobs, the plans and noout in one step *)

Statuses == JOB_STATUSES \union {"NONE"}

\* Its own row and run, and nobody else's; it never leaves a step open behind it.
MovesJob(j) ==
  /\ of' = of /\ queued' \subseteq queued
  /\ row' \in [Job -> Statuses] /\ run' \in [Job -> Run]
  /\ \A i \in Job \ {j} : row'[i] = row[i] /\ run'[i] = run[i]
  /\ \/ row'[j] = "RUNNING"
     \/ row'[j] \in {"WAITING_APPROVAL"} \union TERMINAL_JOB_STATUSES /\ run'[j].part = "go"
  /\ run'[j].part \in Undoing => run'[j].ending # "none"

\* Of the plans its own status, and never back to a draft.
MovesPlan(j) ==
  /\ UNCHANGED <<parent, named, linking, drv, preset, strayed>>
  /\ \/ status' = status
     \/ \E v \in PlanStatus \ {"DRAFT"} : status' = [status EXCEPT ![of[j]] = v]

Delicate == {"flag", "cleared", "undone"}

\* It leaves noout and its record alone, ...
KeepsNoout(j) == UNCHANGED <<noout, velnoxs>> /\ run'[j].part \notin Delicate
\* ... or writes the record while noout is clear, ...
Records(j) ==
  /\ ~ noout /\ noout' = noout
  /\ velnoxs' = [velnoxs EXCEPT ![of[j]] = TRUE]
  /\ run'[j].part = "flag"
\* ... or sets what was recorded, ...
SetsNoout(j) ==
  /\ run[j].part = "flag"
  /\ noout' = noout \/ noout' = TRUE
  /\ velnoxs' = velnoxs /\ run'[j].part \notin Delicate
\* ... or clears what is recorded, ...
ClearsNoout(j) ==
  /\ velnoxs[of[j]]
  /\ noout' = noout \/ noout' = FALSE
  /\ velnoxs' = velnoxs
  /\ run'[j].part # "flag" /\ (run'[j].part \in Delicate => ~ noout')
\* ... or takes the record back.
TakesBack(j) ==
  /\ run[j].part \in {"cleared", "undone"}
  /\ velnoxs' = [velnoxs EXCEPT ![of[j]] = FALSE]
  /\ noout' = noout /\ run'[j].part \notin Delicate

MovesNoout(j) == KeepsNoout(j) \/ Records(j) \/ SetsNoout(j) \/ ClearsNoout(j) \/ TakesBack(j)

IsStep(j) ==
  /\ row[j] = "RUNNING" /\ run[j].alive
  /\ MovesJob(j) /\ MovesPlan(j) /\ MovesNoout(j)

\* Names of parts and statuses.
LEMMA Words ==
  /\ Parts \union Undoing = {"go", "flag", "look", "back", "cleared", "prove",
                             "undo", "undone", "tell", "end"}
  /\ PlanStatus = {"DRAFT", "RUNNING", "BLOCKED", "COMPLETED", "FAILED", "CANCELLED"}
  /\ Statuses = {"QUEUED", "PREFLIGHT", "WAITING_APPROVAL", "RUNNING", "VALIDATING", "SUCCEEDED",
                 "PARTIALLY_SUCCEEDED", "FAILED", "ROLLED_BACK", "CANCELLED", "NONE"}
BY DEF Parts, Undoing, PlanStatus, Over, Statuses, JOB_STATUSES, ACTIVE_JOB_STATUSES,
       TERMINAL_JOB_STATUSES

\* A run that changes is a run.
LEMMA NewRun ==
  ASSUME TypeInv, NEW j \in Job, NEW r \in Run, row[j] = "RUNNING",
         run' = [run EXCEPT ![j] = r], r.part \in Undoing => r.ending # "none",
         UNCHANGED <<row, of, queued>>
  PROVE  MovesJob(j) /\ run'[j] = r
BY DEF TypeInv, JobTypes, MovesJob, Statuses

\* The ways a step ends: inside itself, with the next step, or with the clean-up.
LEMMA IntoMoves ==
  ASSUME TypeInv, NEW j \in Job, NEW part \in Parts \union Undoing, row[j] = "RUNNING",
         part \in Undoing => run[j].ending # "none", Into(j, part)
  PROVE  MovesJob(j) /\ run'[j].part = part
<1> DEFINE r == [run[j] EXCEPT !.part = part]
<1>1. run[j] \in Run
  BY DEF TypeInv, JobTypes
<1>2. r \in Run /\ r.part = part /\ r.ending = run[j].ending
  BY <1>1 DEF Run
<1>3. run' = [run EXCEPT ![j] = r] /\ UNCHANGED <<row, of, queued>>
  BY DEF Into
<1> HIDE DEF r
<1> QED
  BY <1>2, <1>3, NewRun

\* ... the next step of the playbook, ...
LEMMA OnwardMoves ==
  ASSUME TypeInv, NEW j \in Job, row[j] = "RUNNING", Onward(j)
  PROVE  MovesJob(j) /\ run'[j].part = "go"
<1> DEFINE r == [run[j] EXCEPT !.at = run[j].at + 1, !.part = "go"]
<1>1. run[j] \in Run /\ run[j].at + 1 \in Nat
  BY DEF TypeInv, JobTypes, Run
<1>2. r \in Run /\ r.part = "go"
  BY <1>1, Words DEF Run
<1>3. run' = [run EXCEPT ![j] = r] /\ UNCHANGED <<row, of, queued>>
  BY <1>1 DEF Onward, TypeInv, JobTypes, Run
<1>4. "go" \notin Undoing
  BY DEF Undoing
<1> HIDE DEF r
<1> QED
  BY <1>2, <1>3, <1>4, NewRun

\* ... or the clean-up, which knows how the job is to end.
LEMMA GiveUpMoves ==
  ASSUME TypeInv, NEW j \in Job, row[j] = "RUNNING", NEW ending \in {"FAILED", "CANCELLED"},
         GiveUp(j, ending)
  PROVE  MovesJob(j) /\ run'[j].part = "undo"
<1> DEFINE r == [run[j] EXCEPT !.part = "undo", !.ending = ending]
<1>1. run[j] \in Run
  BY DEF TypeInv, JobTypes
<1>2. r \in Run /\ r.part = "undo" /\ r.ending # "none"
  BY <1>1, Words DEF Run
<1>3. run' = [run EXCEPT ![j] = r] /\ UNCHANGED <<row, of, queued>>
  BY <1>1 DEF GiveUp, TypeInv, JobTypes, Run
<1> HIDE DEF r
<1> QED
  BY <1>2, <1>3, NewRun

\* A row that ends leaves no run.
LEMMA NoRunIsRun == NoRun \in Run /\ NoRun.part = "go"
BY Words DEF NoRun, Run

\* A job that ends gives its row a terminal status.
LEMMA EndsMoves ==
  ASSUME TypeInv, NEW j \in Job, NEW as \in TERMINAL_JOB_STATUSES, Ends(j, as)
  PROVE  MovesJob(j) /\ run'[j].part = "go" /\ row'[j] = as
<1>1. as \in Statuses /\ "go" \notin Undoing
  BY DEF Statuses, JOB_STATUSES, Undoing
<1>2. row' = [row EXCEPT ![j] = as] /\ run' = [run EXCEPT ![j] = NoRun]
  BY DEF Ends
<1>3. row'[j] = as /\ run'[j] = NoRun
  BY <1>2 DEF TypeInv, JobTypes
<1> QED
  BY <1>1, <1>2, <1>3, NoRunIsRun DEF Ends, TypeInv, JobTypes, MovesJob, Statuses

\* One that waits for a person is at a boundary.
LEMMA ParksMoves ==
  ASSUME TypeInv, NEW j \in Job, run[j].part = "go", Parks(j)
  PROVE  MovesJob(j) /\ run'[j].part = "go"
<1> DEFINE r == [run[j] EXCEPT !.alive = FALSE]
<1>1. run[j] \in Run
  BY DEF TypeInv, JobTypes
<1>2. r \in Run /\ r.part = "go"
  BY <1>1 DEF Run
<1>3. run' = [run EXCEPT ![j] = r] /\ row' = [row EXCEPT ![j] = "WAITING_APPROVAL"]
  BY DEF Parks
<1>4. "go" \notin Undoing /\ "WAITING_APPROVAL" \in Statuses
  BY Words DEF Undoing
<1> HIDE DEF r
<1> QED
  BY <1>2, <1>3, <1>4 DEF Parks, TypeInv, JobTypes, MovesJob, Statuses

\* Each thing a worker does is such a step.
LEMMA WorkIsStep ==
  ASSUME TypeInv, NEW j \in Job, Work(j)
  PROVE  IsStep(j)
<1>Facts. ASSUME Facts(j) PROVE  IsStep(j)
  <2>1. In(j, "go") /\ Onward(j)
    BY <1>Facts DEF Facts, Doing
  <2>2. MovesPlan(j) /\ UNCHANGED <<noout, velnoxs>>
    BY <1>Facts, Words DEF Facts, MovesPlan, plans, details, jobs, cluster, history, Sets, Plan
  <2> QED
    BY <2>1, <2>2, OnwardMoves DEF In, IsStep, MovesNoout, KeepsNoout, Delicate
<1>Latest8. ASSUME Latest8(j) PROVE  IsStep(j)
  <2>1. In(j, "go") /\ Onward(j)
    BY <1>Latest8 DEF Latest8, Doing
  <2>2. MovesPlan(j) /\ UNCHANGED <<noout, velnoxs>>
    BY <1>Latest8, Words DEF Latest8, MovesPlan, plans, details, jobs, cluster, history
  <2> QED
    BY <2>1, <2>2, OnwardMoves DEF In, IsStep, MovesNoout, KeepsNoout, Delicate
<1>Checks. ASSUME Checks(j) PROVE  IsStep(j)
  <2>1. In(j, "go") /\ Onward(j)
    BY <1>Checks DEF Checks, Doing
  <2>2. MovesPlan(j) /\ UNCHANGED <<noout, velnoxs>>
    BY <1>Checks, Words DEF Checks, MovesPlan, plans, details, jobs, cluster, history
  <2> QED
    BY <2>1, <2>2, OnwardMoves DEF In, IsStep, MovesNoout, KeepsNoout, Delicate
<1>Recheck. ASSUME Recheck(j) PROVE  IsStep(j)
  <2>1. In(j, "go") /\ Onward(j)
    BY <1>Recheck DEF Recheck, Doing
  <2>2. MovesPlan(j) /\ UNCHANGED <<noout, velnoxs>>
    BY <1>Recheck, Words DEF Recheck, MovesPlan, plans, details, jobs, cluster, history
  <2> QED
    BY <2>1, <2>2, OnwardMoves DEF In, IsStep, MovesNoout, KeepsNoout, Delicate
<1>Report. ASSUME Report(j) PROVE  IsStep(j)
  <2>1. In(j, "go") /\ Onward(j)
    BY <1>Report DEF Report, Doing
  <2>2. MovesPlan(j) /\ UNCHANGED <<noout, velnoxs>>
    BY <1>Report, Words DEF Report, MovesPlan, plans, details, jobs, cluster, history, Sets, Plan
  <2> QED
    BY <2>1, <2>2, OnwardMoves DEF In, IsStep, MovesNoout, KeepsNoout, Delicate
<1>Repository. ASSUME Repository(j) PROVE  IsStep(j)
  <2>1. In(j, "go") /\ Onward(j)
    BY <1>Repository DEF Repository, Doing
  <2>2. MovesPlan(j) /\ UNCHANGED <<noout, velnoxs>>
    BY <1>Repository, Words DEF Repository, MovesPlan, plans, details, jobs, cluster, history
  <2> QED
    BY <2>1, <2>2, OnwardMoves DEF In, IsStep, MovesNoout, KeepsNoout, Delicate
<1>Packages. ASSUME Packages(j) PROVE  IsStep(j)
  <2>1. In(j, "go") /\ Onward(j)
    BY <1>Packages DEF Packages, Doing
  <2>2. MovesPlan(j) /\ UNCHANGED <<noout, velnoxs>>
    BY <1>Packages, Words DEF Packages, MovesPlan, plans, details, jobs, cluster, history
  <2> QED
    BY <2>1, <2>2, OnwardMoves DEF In, IsStep, MovesNoout, KeepsNoout, Delicate
<1>Restart. ASSUME Restart(j) PROVE  IsStep(j)
  <2>1. In(j, "go") /\ Onward(j)
    BY <1>Restart DEF Restart, Doing
  <2>2. MovesPlan(j) /\ UNCHANGED <<noout, velnoxs>>
    BY <1>Restart, Words DEF Restart, MovesPlan, plans, details, jobs, cluster, history
  <2> QED
    BY <2>1, <2>2, OnwardMoves DEF In, IsStep, MovesNoout, KeepsNoout, Delicate
<1>Settle. ASSUME Settle(j) PROVE  IsStep(j)
  <2>1. In(j, "go") /\ Onward(j)
    BY <1>Settle DEF Settle, Doing
  <2>2. MovesPlan(j) /\ UNCHANGED <<noout, velnoxs>>
    BY <1>Settle, Words DEF Settle, MovesPlan, plans, details, jobs, cluster, history
  <2> QED
    BY <2>1, <2>2, OnwardMoves DEF In, IsStep, MovesNoout, KeepsNoout, Delicate
<1>Proven. ASSUME Proven(j) PROVE  IsStep(j)
  <2>1. In(j, "go") /\ Onward(j)
    BY <1>Proven DEF Proven, Doing
  <2>2. MovesPlan(j) /\ UNCHANGED <<noout, velnoxs>>
    BY <1>Proven, Words DEF Proven, MovesPlan, plans, details, jobs, cluster, history
  <2> QED
    BY <2>1, <2>2, OnwardMoves DEF In, IsStep, MovesNoout, KeepsNoout, Delicate
<1>Evacuate. ASSUME Evacuate(j) PROVE  IsStep(j)
  <2>1. In(j, "go") /\ Onward(j)
    BY <1>Evacuate DEF Evacuate, Doing
  <2>2. MovesPlan(j) /\ UNCHANGED <<noout, velnoxs>>
    BY <1>Evacuate, Words DEF Evacuate, MovesPlan, plans, details, jobs, cluster, history
  <2> QED
    BY <2>1, <2>2, OnwardMoves DEF In, IsStep, MovesNoout, KeepsNoout, Delicate
<1>SeenBack. ASSUME SeenBack(j) PROVE  IsStep(j)
  <2>1. In(j, "back") /\ Onward(j)
    BY <1>SeenBack DEF SeenBack, Doing
  <2>2. MovesPlan(j) /\ UNCHANGED <<noout, velnoxs>>
    BY <1>SeenBack, Words DEF SeenBack, MovesPlan, plans, details, jobs, cluster, history
  <2> QED
    BY <2>1, <2>2, OnwardMoves DEF In, IsStep, MovesNoout, KeepsNoout, Delicate
<1>Prove. ASSUME Prove(j) PROVE  IsStep(j)
  <2>1. In(j, "prove") /\ Onward(j)
    BY <1>Prove DEF Prove, Doing
  <2>2. MovesPlan(j) /\ UNCHANGED <<noout, velnoxs>>
    BY <1>Prove, Words DEF Prove, MovesPlan, plans, details, jobs, cluster, history
  <2> QED
    BY <2>1, <2>2, OnwardMoves DEF In, IsStep, MovesNoout, KeepsNoout, Delicate
<1>Return. ASSUME Return(j) PROVE  IsStep(j)
  <2>1. In(j, "go") /\ Onward(j)
    BY <1>Return DEF Return, Doing
  <2>2. MovesPlan(j) /\ UNCHANGED <<noout, velnoxs>>
    BY <1>Return, Words DEF Return, MovesPlan, plans, details, jobs, cluster, history
  <2> QED
    BY <2>1, <2>2, OnwardMoves DEF In, IsStep, MovesNoout, KeepsNoout, Delicate
<1>Final. ASSUME Final(j) PROVE  IsStep(j)
  <2>1. In(j, "go") /\ Onward(j)
    BY <1>Final DEF Final, Doing
  <2>2. MovesPlan(j) /\ UNCHANGED <<noout, velnoxs>>
    BY <1>Final, Words DEF Final, MovesPlan, plans, details, jobs, cluster, history
  <2> QED
    BY <2>1, <2>2, OnwardMoves DEF In, IsStep, MovesNoout, KeepsNoout, Delicate
<1>Gate. ASSUME Gate(j) PROVE  IsStep(j)
  <2>1. In(j, "go") /\ (Parks(j) \/ Onward(j))
    BY <1>Gate DEF Gate, Doing
  <2>2. MovesPlan(j) /\ UNCHANGED <<noout, velnoxs>>
    BY <1>Gate DEF Gate, MovesPlan, plans, details, jobs, cluster, history
  <2> QED
    BY <2>1, <2>2, OnwardMoves, ParksMoves DEF In, IsStep, MovesNoout, KeepsNoout, Delicate
<1>ChecksGate. ASSUME ChecksGate(j) PROVE  IsStep(j)
  <2>1. In(j, "go") /\ (GiveUp(j, "FAILED") \/ Onward(j))
    BY <1>ChecksGate DEF ChecksGate, Doing
  <2>2. MovesPlan(j) /\ UNCHANGED <<noout, velnoxs>>
    BY <1>ChecksGate, Words DEF ChecksGate, MovesPlan, Sets, Plan, details, jobs, cluster, history
  <2> QED
    BY <2>1, <2>2, OnwardMoves, GiveUpMoves DEF In, IsStep, MovesNoout, KeepsNoout, Delicate
<1>Apply. ASSUME NEW mode \in {"AUTOMATIC", "APPROVED"}, Apply(j, mode) PROVE  IsStep(j)
  <2>1. In(j, "go") /\ Onward(j)
    BY <1>Apply DEF Apply, Applies, Doing
  <2>2. MovesPlan(j) /\ UNCHANGED <<noout, velnoxs>>
    BY <1>Apply DEF Apply, MovesPlan, plans, details, jobs, cluster, history
  <2> QED
    BY <2>1, <2>2, OnwardMoves DEF In, IsStep, MovesNoout, KeepsNoout, Delicate
<1>ApplyFails. ASSUME NEW mode \in {"AUTOMATIC", "APPROVED"}, ApplyFails(j, mode) PROVE  IsStep(j)
  <2>1. In(j, "go") /\ GiveUp(j, "FAILED")
    BY <1>ApplyFails DEF ApplyFails, Applies, Doing
  <2>2. MovesPlan(j) /\ UNCHANGED <<noout, velnoxs>>
    BY <1>ApplyFails DEF ApplyFails, MovesPlan, plans, details, jobs, cluster, history
  <2> QED
    BY <2>1, <2>2, GiveUpMoves DEF In, IsStep, MovesNoout, KeepsNoout, Delicate
<1>Succeed. ASSUME Succeed(j) PROVE  IsStep(j)
  <2>1. In(j, "go") /\ Ends(j, "SUCCEEDED")
    BY <1>Succeed DEF Succeed
  <2>2. MovesPlan(j) /\ UNCHANGED <<noout, velnoxs>>
    BY <1>Succeed DEF Succeed, MovesPlan, plans, details, jobs, cluster, history
  <2>3. "SUCCEEDED" \in TERMINAL_JOB_STATUSES
    BY DEF TERMINAL_JOB_STATUSES
  <2> QED
    BY <2>1, <2>2, <2>3, EndsMoves DEF In, IsStep, MovesNoout, KeepsNoout, Delicate
<1>NooutSet. ASSUME NooutSet(j) PROVE  IsStep(j)
  <2>1. In(j, "go") /\ MovesPlan(j) /\ noout' = noout
    BY <1>NooutSet DEF NooutSet, Doing, MovesPlan, details, jobs, cluster, history
  <2>2. CASE noout
    BY <1>NooutSet, <2>1, <2>2, OnwardMoves DEF NooutSet, In, IsStep, MovesNoout, KeepsNoout,
        Delicate
  <2>3. CASE ~ noout
    <3>1. Into(j, "flag") /\ velnoxs' = [velnoxs EXCEPT ![of[j]] = TRUE]
      BY <1>NooutSet, <2>3 DEF NooutSet, Sets, Plan
    <3> QED
      BY <2>1, <2>3, <3>1, IntoMoves, Words DEF In, IsStep, MovesNoout, Records, Undoing
  <2> QED
    BY <2>2, <2>3
<1>NooutUnset. ASSUME NooutUnset(j) PROVE  IsStep(j)
  <2>1. In(j, "go") /\ MovesPlan(j) /\ velnoxs' = velnoxs
    BY <1>NooutUnset DEF NooutUnset, Doing, MovesPlan, plans, details, jobs, cluster, history
  <2>2. CASE velnoxs[of[j]]
    <3>1. Into(j, "cleared") /\ noout' = FALSE
      BY <1>NooutUnset, <2>2 DEF NooutUnset, Plan
    <3> QED
      BY <2>1, <2>2, <3>1, IntoMoves, Words DEF In, IsStep, MovesNoout, ClearsNoout, Undoing
  <2>3. CASE ~ velnoxs[of[j]]
    <3>1. Onward(j) /\ noout' = noout
      BY <1>NooutUnset, <2>3 DEF NooutUnset, Plan
    <3> QED
      BY <2>1, <3>1, OnwardMoves DEF In, IsStep, MovesNoout, KeepsNoout, Delicate
  <2> QED
    BY <2>2, <2>3
<1>Reboot. ASSUME Reboot(j) PROVE  IsStep(j)
  <2>1. In(j, "go") /\ MovesPlan(j) /\ noout' = noout
    BY <1>Reboot DEF Reboot, Doing, MovesPlan, details, jobs, cluster, history
  <2>2. CASE Onward(j) /\ UNCHANGED velnoxs
    BY <2>1, <2>2, OnwardMoves DEF In, IsStep, MovesNoout, KeepsNoout, Delicate
  <2>3. CASE Into(j, "flag") /\ ~ noout /\ velnoxs' = [velnoxs EXCEPT ![of[j]] = TRUE]
    BY <2>1, <2>3, IntoMoves, Words DEF In, IsStep, MovesNoout, Records, Undoing
  <2>4. CASE Into(j, "look") /\ UNCHANGED velnoxs
    BY <2>1, <2>4, IntoMoves, Words DEF In, IsStep, MovesNoout, KeepsNoout, Undoing, Delicate
  <2> QED
    BY <1>Reboot, <2>2, <2>3, <2>4 DEF Reboot, Sets, Plan
<1>Flag. ASSUME Flag(j) PROVE  IsStep(j)
  <2>1. In(j, "flag") /\ (Into(j, "look") \/ Onward(j))
    BY <1>Flag DEF Flag
  <2>2. MovesPlan(j) /\ noout' = TRUE /\ velnoxs' = velnoxs
    BY <1>Flag DEF Flag, FlagIt, MovesPlan, plans, details, jobs, cluster, history
  <2> QED
    BY <2>1, <2>2, OnwardMoves, IntoMoves, Words DEF In, IsStep, MovesNoout, SetsNoout, Undoing,
        Delicate
<1>OrderReboot. ASSUME OrderReboot(j) PROVE  IsStep(j)
  <2>1. In(j, "look") /\ Into(j, "back")
    BY <1>OrderReboot DEF OrderReboot
  <2>2. MovesPlan(j) /\ UNCHANGED <<noout, velnoxs>>
    BY <1>OrderReboot DEF OrderReboot, MovesPlan, plans, details, jobs, cluster, history
  <2> QED
    BY <2>1, <2>2, IntoMoves, Words DEF In, IsStep, MovesNoout, KeepsNoout, Undoing, Delicate
<1>Validate. ASSUME Validate(j) PROVE  IsStep(j)
  <2>1. In(j, "go") /\ MovesPlan(j) /\ velnoxs' = velnoxs
    BY <1>Validate DEF Validate, Doing, MovesPlan, plans, details, jobs, cluster, history
  <2>2. CASE velnoxs[of[j]] /\ noout' = FALSE /\ Into(j, "cleared")
    BY <2>1, <2>2, IntoMoves, Words DEF In, IsStep, MovesNoout, ClearsNoout, Undoing
  <2>3. CASE UNCHANGED noout /\ Into(j, "prove")
    BY <2>1, <2>3, IntoMoves, Words DEF In, IsStep, MovesNoout, KeepsNoout, Undoing, Delicate
  <2> QED
    BY <1>Validate, <2>2, <2>3 DEF Validate, Plan
<1>Cleared. ASSUME Cleared(j) PROVE  IsStep(j)
  <2>1. In(j, "cleared") /\ (Into(j, "prove") \/ Onward(j))
    BY <1>Cleared DEF Cleared
  <2>2. MovesPlan(j) /\ noout' = noout /\ velnoxs' = [velnoxs EXCEPT ![of[j]] = FALSE]
    BY <1>Cleared DEF Cleared, MovesPlan, Sets, Plan, details, jobs, cluster, history
  <2> QED
    BY <2>1, <2>2, OnwardMoves, IntoMoves, Words DEF In, IsStep, MovesNoout, TakesBack, Undoing,
        Delicate
<1>StepFails. ASSUME StepFails(j) PROVE  IsStep(j)
  <2>1. (\E part \in Parts : In(j, part)) /\ GiveUp(j, "FAILED")
    BY <1>StepFails DEF StepFails
  <2>2. MovesPlan(j) /\ velnoxs' = velnoxs
    BY <1>StepFails DEF StepFails, MovesPlan, Trouble, plans, details, jobs, history
  <2>3. noout' = noout \/ (run[j].part = "flag" /\ noout' = TRUE)
    BY <1>StepFails DEF StepFails, In
  <2> QED
    BY <2>1, <2>2, <2>3, GiveUpMoves DEF In, IsStep, MovesNoout, KeepsNoout, SetsNoout, Delicate
<1>Cancelled. ASSUME Cancelled(j) PROVE  IsStep(j)
  <2>1. (In(j, "go") \/ In(j, "back")) /\ GiveUp(j, "CANCELLED")
    BY <1>Cancelled DEF Cancelled
  <2>2. MovesPlan(j) /\ UNCHANGED <<noout, velnoxs>>
    BY <1>Cancelled DEF Cancelled, MovesPlan, plans, details, jobs, cluster, history
  <2> QED
    BY <2>1, <2>2, GiveUpMoves DEF In, IsStep, MovesNoout, KeepsNoout, Delicate
<1>e. \A part : In(j, part) /\ part \in Undoing => run[j].ending \in {"FAILED", "CANCELLED"}
  BY DEF In, TypeInv, JobTypes, JobsAreWhole, Run
<1>Undo. ASSUME Undo(j) PROVE  IsStep(j)
  <2>1. In(j, "undo") /\ MovesPlan(j) /\ velnoxs' = velnoxs
    BY <1>Undo DEF Undo, MovesPlan, plans, details, jobs, history
  <2>2. run[j].ending # "none"
    BY <1>e, <2>1 DEF Undoing
  <2>3. CASE velnoxs[of[j]]
    <3>1. Into(j, "undone") /\ noout' = FALSE
      BY <1>Undo, <2>3 DEF Undo, Unset, Plan
    <3> QED
      BY <2>1, <2>2, <2>3, <3>1, IntoMoves, Words DEF In, IsStep, MovesNoout, ClearsNoout
  <2>4. CASE ~ velnoxs[of[j]]
    <3>1. Into(j, "tell") /\ noout' = noout
      BY <1>Undo, <2>4 DEF Undo, Unset, Plan
    <3> QED
      BY <2>1, <2>2, <3>1, IntoMoves, Words DEF In, IsStep, MovesNoout, KeepsNoout, Delicate
  <2> QED
    BY <2>3, <2>4
<1>UndoFails. ASSUME UndoFails(j) PROVE  IsStep(j)
  <2>1. In(j, "undo") /\ MovesPlan(j) /\ velnoxs' = velnoxs
    BY <1>UndoFails DEF UndoFails, MovesPlan, plans, details, jobs
  <2>2. run[j].ending # "none"
    BY <1>e, <2>1 DEF Undoing
  <2>3. Into(j, "end") /\ velnoxs[of[j]] /\ (noout' = noout \/ noout' = FALSE)
    BY <1>UndoFails DEF UndoFails, Unreached, Plan
  <2> QED
    BY <2>1, <2>2, <2>3, IntoMoves, Words DEF In, IsStep, MovesNoout, ClearsNoout, Delicate
<1>Undone. ASSUME Undone(j) PROVE  IsStep(j)
  <2>1. In(j, "undone") /\ Into(j, "tell")
    BY <1>Undone DEF Undone
  <2>2. MovesPlan(j) /\ noout' = noout /\ velnoxs' = [velnoxs EXCEPT ![of[j]] = FALSE]
    BY <1>Undone DEF Undone, MovesPlan, Sets, Plan, details, jobs, cluster, history
  <2>3. run[j].ending # "none"
    BY <1>e, <2>1 DEF Undoing
  <2> QED
    BY <2>1, <2>2, <2>3, IntoMoves, Words DEF In, IsStep, MovesNoout, TakesBack, Delicate
<1>Tell. ASSUME Tell(j) PROVE  IsStep(j)
  <2>1. In(j, "tell") /\ Into(j, "end")
    BY <1>Tell DEF Tell
  <2>2. MovesPlan(j) /\ UNCHANGED <<noout, velnoxs>>
    BY <1>Tell, Words DEF Tell, MovesPlan, Sets, Plan, details, jobs, cluster, history
  <2>3. run[j].ending # "none"
    BY <1>e, <2>1 DEF Undoing
  <2> QED
    BY <2>1, <2>2, <2>3, IntoMoves, Words DEF In, IsStep, MovesNoout, KeepsNoout, Delicate
<1>End. ASSUME End(j) PROVE  IsStep(j)
  <2>1. In(j, "end") /\ Ends(j, run[j].ending)
    BY <1>End DEF End
  <2>2. MovesPlan(j) /\ UNCHANGED <<noout, velnoxs>>
    BY <1>End DEF End, MovesPlan, plans, details, jobs, cluster, history
  <2>3. run[j].ending \in TERMINAL_JOB_STATUSES
    BY <1>e, <2>1 DEF Undoing, TERMINAL_JOB_STATUSES
  <2> QED
    BY <2>1, <2>2, <2>3, EndsMoves DEF In, IsStep, MovesNoout, KeepsNoout, Delicate
<1> QED
  BY <1>Facts, <1>Latest8, <1>Checks, <1>Recheck, <1>Gate, <1>ChecksGate, <1>Apply,
     <1>ApplyFails, <1>Report, <1>Succeed, <1>NooutSet, <1>Repository, <1>Packages,
     <1>Restart, <1>Settle, <1>Proven, <1>NooutUnset, <1>Evacuate, <1>Reboot, <1>Flag,
     <1>OrderReboot, <1>SeenBack, <1>Validate, <1>Cleared, <1>Prove, <1>Return, <1>Final,
     <1>StepFails, <1>Cancelled, <1>Undo, <1>UndoFails, <1>Undone, <1>Tell, <1>End DEF Work

-----------------------------------------------------------------------------
(* Types *)

\* The first child that is not complete is a child.
LEMMA NextIsChild ==
  ASSUME Incomplete # {}
  PROVE  NextChild \in Child
<1>1. Order \in Seq(Child) /\ Incomplete \subseteq DOMAIN Order /\ DOMAIN Order = 1 .. Len(Order)
  BY UpgradesAssumption DEF Incomplete
<1>2. Incomplete \subseteq Nat
  BY <1>1
<1>3. PICK i \in Incomplete : \A h \in Incomplete : ~ (<<h, i>> \in OpToRel(<, Nat))
  BY <1>2, NatLessThanWellFounded, WFMin, Zenon
<1>4. \A h \in Incomplete : ~ (h < i)
  BY <1>2, <1>3, Zenon DEF OpToRel
<1>5. \E k \in Incomplete : \A h \in Incomplete : k <= h
  BY <1>2, <1>4
<1>6. (CHOOSE k \in Incomplete : \A h \in Incomplete : k <= h) \in Incomplete
  BY <1>5
<1> QED
  BY <1>1, <1>6 DEF NextChild

\* Whether a worker lives, whether it was asked to stop and which approval it has are
\* changed without moving the run.
LEMMA RunEdits ==
  ASSUME TypeInv, NEW j \in Job, NEW b \in BOOLEAN, NEW f,
         \/ f = [run EXCEPT ![j].alive = b]
         \/ f = [run EXCEPT ![j].asked = b]
         \/ f = [run EXCEPT ![j].approved = run[j].at]
  PROVE  /\ f \in [Job -> Run]
         /\ \A i \in Job : f[i].part = run[i].part /\ f[i].ending = run[i].ending
         /\ \A i \in Job \ {j} : f[i] = run[i]
<1>1. run \in [Job -> Run]
  BY DEF TypeInv, JobTypes
<1>2. CASE f = [run EXCEPT ![j].alive = b]
  BY <1>1, <1>2 DEF Run
<1>3. CASE f = [run EXCEPT ![j].asked = b]
  BY <1>1, <1>3 DEF Run
<1>4. CASE f = [run EXCEPT ![j].approved = run[j].at]
  <2>1. run[j].at \in Nat
    BY <1>1 DEF Run
  <2> QED
    BY <1>1, <1>4, <2>1 DEF Run
<1> QED
  BY <1>2, <1>3, <1>4

\* A row that is inserted was free, and so was its key.
LEMMA InsertMoves ==
  ASSUME TypeInv, NEW p \in Child, NEW inQueue \in BOOLEAN, Insert(p, inQueue)
  PROVE  /\ Fresh \in Job /\ row[Fresh] = "NONE" /\ KeyFree(row, Fresh)
         /\ row' = [row EXCEPT ![Fresh] = "QUEUED"] /\ of' = [of EXCEPT ![Fresh] = p]
         /\ JobTypes' /\ JobsAreWhole'
<1>1. Fresh \in Job /\ row[Fresh] = "NONE"
  BY DEF Insert, Fresh
<1>2. row' = [row EXCEPT ![Fresh] = "QUEUED"] /\ of' = [of EXCEPT ![Fresh] = p] /\ run' = run
  BY DEF Insert
<1>3. queued' \subseteq Job
  BY <1>1 DEF Insert, TypeInv, JobTypes
<1>4. JobTypes'
  BY <1>1, <1>2, <1>3, Words DEF TypeInv, JobTypes, Statuses
<1>5. JobsAreWhole'
  BY <1>1, <1>2, Words DEF TypeInv, JobTypes, JobsAreWhole
<1> QED
  BY <1>1, <1>2, <1>4, <1>5 DEF Insert

\* A job's step keeps all this.
LEMMA StepTypes ==
  ASSUME TypeInv, NEW j \in Job, IsStep(j)
  PROVE  TypeInv'
<1>1. JobTypes'
  BY DEF IsStep, MovesJob, TypeInv, JobTypes, Statuses
<1>2. of[j] \in Child
  BY DEF IsStep, TypeInv, JobsAreWhole
<1>3. JobsAreWhole'
  <2>1. SUFFICES ASSUME NEW i \in Job
                 PROVE  /\ row'[i] # "NONE" => of'[i] \in Child
                        /\ row'[i] # "RUNNING" => run'[i].part = "go"
                        /\ run'[i].part \in Undoing => run'[i].ending # "none"
    BY DEF JobsAreWhole
  <2>2. CASE i = j
    BY <1>2, <2>2 DEF IsStep, MovesJob
  <2>3. CASE i # j
    BY <2>3 DEF IsStep, MovesJob, TypeInv, JobsAreWhole
  <2> QED
    BY <2>2, <2>3
<1>4. status' \in [Child -> PlanStatus]
  BY DEF IsStep, MovesPlan, TypeInv, PlanTypes
<1>5. velnoxs' \in [Child -> BOOLEAN]
  <2>1. velnoxs' = velnoxs \/ \E b \in BOOLEAN : velnoxs' = [velnoxs EXCEPT ![of[j]] = b]
    BY DEF IsStep, MovesNoout, KeepsNoout, Records, SetsNoout, ClearsNoout, TakesBack
  <2> QED
    BY <2>1 DEF TypeInv, PlanTypes
<1>6. noout' \in BOOLEAN
  <2>1. noout' = noout \/ noout' = TRUE \/ noout' = FALSE
    BY DEF IsStep, MovesNoout, KeepsNoout, Records, SetsNoout, ClearsNoout, TakesBack
  <2> QED
    BY <2>1 DEF TypeInv, RoundTypes
<1> QED
  BY <1>1, <1>3, <1>4, <1>5, <1>6
  DEF IsStep, MovesPlan, TypeInv, PlanTypes, RoundTypes, RoundsAreWhole

\* A round that changes of one driver.
LEMMA RoundChanges ==
  ASSUME TypeInv, NEW d \in Driver, NEW r \in Round, drv' = [drv EXCEPT ![d] = r],
         r.at \notin {"idle", "stop"} => r.child \in Child,
         r.at \in {"link", "queue"} \union Settling => r.job \in Job
  PROVE  drv' \in [Driver -> Round] /\ RoundsAreWhole'
BY DEF TypeInv, RoundTypes, RoundsAreWhole

\* A driver goes on with the plan it is at, ...
LEMMA RoundGoes ==
  ASSUME TypeInv, NEW d \in Driver, NEW at \in {"stop", "queue"} \union Settling,
         at = "stop" \/ drv[d].at \in {"link"} \union Settling, Goes(d, at)
  PROVE  drv' \in [Driver -> Round] /\ RoundsAreWhole'
<1> DEFINE r == [drv[d] EXCEPT !.at = at]
<1>1. drv[d] \in Round
  BY DEF TypeInv, RoundTypes
<1>2. r \in Round /\ r.at = at /\ r.child = drv[d].child /\ r.job = drv[d].job
  BY <1>1 DEF Round
<1>3. drv' = [drv EXCEPT ![d] = r]
  BY DEF Goes
<1>4. at # "stop" => drv[d].child \in Child /\ drv[d].job \in Job
  BY DEF TypeInv, RoundsAreWhole, Settling
<1> HIDE DEF r
<1> QED
  BY <1>2, <1>3, <1>4, RoundChanges DEF Settling

\* ... or its round is over.
LEMMA RoundRests ==
  ASSUME TypeInv, NEW d \in Driver, Rests(d)
  PROVE  drv' \in [Driver -> Round] /\ RoundsAreWhole'
<1>1. Idle \in Round /\ Idle.at = "idle"
  BY DEF Idle, Round
<1> QED
  BY <1>1, RoundChanges DEF Rests, Settling

\* The upgrade begins with no job, no plan begun and no round.
LEMMA TypeInit == Init => TypeInv
<1> SUFFICES ASSUME Init PROVE TypeInv
  OBVIOUS
<1>1. JobTypes /\ JobsAreWhole
  BY NoRunIsRun DEF Init, JobTypes, JobsAreWhole, Undoing
<1>2. PlanTypes
  <2>1. parent \in {"DRAFT", "none"}
    BY DEF Init
  <2> QED
    BY <2>1, Words DEF Init, PlanTypes, ParentStatus
<1>3. RoundTypes /\ RoundsAreWhole
  <2>1. noout \in BOOLEAN /\ preset = noout
    BY DEF Init
  <2>2. Idle \in Round /\ Idle.at = "idle"
    BY DEF Idle, Round
  <2> QED
    BY <2>1, <2>2 DEF Init, RoundTypes, RoundsAreWhole, Settling
<1> QED
  BY <1>1, <1>2, <1>3 DEF TypeInv

\* Every step keeps the types.
LEMMA TypeStep ==
  ASSUME TypeInv, [Next]_vars
  PROVE  TypeInv'
<1> USE DEF TypeInv, plans, details, jobs, cluster, history
<1>0. CASE UNCHANGED vars
  BY <1>0 DEF vars, JobTypes, PlanTypes, RoundTypes, JobsAreWhole, RoundsAreWhole
<1>Work. ASSUME NEW j \in Job, Work(j) PROVE  TypeInv'
  BY <1>Work, WorkIsStep, StepTypes
<1>edits. ASSUME NEW j \in Job, NEW b \in BOOLEAN,
                 \/ run' = [run EXCEPT ![j].alive = b]
                 \/ run' = [run EXCEPT ![j].asked = b]
                 \/ run' = [run EXCEPT ![j].approved = run[j].at]
          PROVE  /\ run' \in [Job -> Run]
                 /\ \A i \in Job : run'[i].part = run[i].part /\ run'[i].ending = run[i].ending
  BY <1>edits, RunEdits
<1>Claim. ASSUME NEW j \in Job, Claim(j) PROVE  TypeInv'
  <2>1. /\ run' \in [Job -> Run]
        /\ \A i \in Job : run'[i].part = run[i].part /\ run'[i].ending = run[i].ending
    BY <1>Claim, <1>edits DEF Claim
  <2>2. JobTypes'
    BY <1>Claim, <2>1, Words DEF Claim, JobTypes, Statuses
  <2>3. JobsAreWhole'
    BY <1>Claim, <2>1 DEF Claim, JobTypes, JobsAreWhole
  <2> QED
    BY <1>Claim, <2>2, <2>3 DEF Claim, PlanTypes, RoundTypes, RoundsAreWhole
<1>WorkerDies. ASSUME NEW j \in Job, WorkerDies(j) PROVE  TypeInv'
  <2>1. JobTypes' /\ JobsAreWhole'
    BY <1>WorkerDies, <1>edits DEF WorkerDies, JobTypes, JobsAreWhole
  <2> QED
    BY <1>WorkerDies, <2>1 DEF WorkerDies, PlanTypes, RoundTypes, RoundsAreWhole
<1>AskCancel. ASSUME NEW j \in Job, AskCancel(j) PROVE  TypeInv'
  <2>1. JobTypes' /\ JobsAreWhole'
    BY <1>AskCancel, <1>edits DEF AskCancel, JobTypes, JobsAreWhole
  <2> QED
    BY <1>AskCancel, <2>1 DEF AskCancel, PlanTypes, RoundTypes, RoundsAreWhole
<1>Approve. ASSUME NEW j \in Job, Approve(j) PROVE  TypeInv'
  <2>1. /\ run' \in [Job -> Run]
        /\ \A i \in Job : run'[i].part = run[i].part /\ run'[i].ending = run[i].ending
    BY <1>Approve, <1>edits DEF Approve
  <2>2. JobTypes'
    BY <1>Approve, <2>1, Words DEF Approve, JobTypes, Statuses
  <2>3. JobsAreWhole'
    BY <1>Approve, <2>1 DEF Approve, JobTypes, JobsAreWhole
  <2> QED
    BY <1>Approve, <2>2, <2>3 DEF Approve, PlanTypes, RoundTypes, RoundsAreWhole
<1>ends. ASSUME NEW j \in Job, NEW as \in {"FAILED", "CANCELLED"}, row[j] # "NONE", Ends(j, as)
         PROVE  JobTypes' /\ JobsAreWhole'
  BY <1>ends, NoRunIsRun, Words DEF Ends, JobTypes, JobsAreWhole, Statuses, Undoing
<1>Reconcile. ASSUME NEW j \in Job, Reconcile(j) PROVE  TypeInv'
  BY <1>Reconcile, <1>ends DEF Reconcile, PlanTypes, RoundTypes, RoundsAreWhole
<1>EndUnheld. ASSUME NEW j \in Job, NEW as \in {"CANCELLED", "FAILED"}, EndUnheld(j, as)
              PROVE  TypeInv'
  BY <1>EndUnheld, <1>ends DEF EndUnheld, PlanTypes, RoundTypes, RoundsAreWhole
<1>Retry. ASSUME NEW j \in Job, Retry(j) PROVE  TypeInv'
  <2>1. of[j] \in Child /\ Insert(of[j], TRUE)
    BY <1>Retry DEF Retry, JobsAreWhole
  <2> QED
    BY <1>Retry, <2>1, InsertMoves DEF Retry, PlanTypes, RoundTypes, RoundsAreWhole
<1>RunPlan. ASSUME NEW p \in Child, RunPlan(p) PROVE  TypeInv'
  <2>1. Insert(p, TRUE)
    BY <1>RunPlan DEF RunPlan
  <2>2. Fresh \in Job /\ JobTypes' /\ JobsAreWhole'
    BY <2>1, InsertMoves
  <2>3. linking' \subseteq Child \X Job
    BY <1>RunPlan, <2>2 DEF RunPlan
  <2> QED
    BY <1>RunPlan, <2>2, <2>3 DEF RunPlan, PlanTypes, RoundTypes, RoundsAreWhole
<1>LinkPlan. ASSUME NEW p \in Child, NEW j \in Job, LinkPlan(p, j) PROVE  TypeInv'
  BY <1>LinkPlan, Words
  DEF LinkPlan, Sets, JobTypes, PlanTypes, RoundTypes, JobsAreWhole, RoundsAreWhole
<1>ApiDies. ASSUME ApiDies PROVE  TypeInv'
  BY <1>ApiDies DEF ApiDies, JobTypes, PlanTypes, RoundTypes, JobsAreWhole, RoundsAreWhole
<1>RunComposite. ASSUME RunComposite PROVE  TypeInv'
  BY <1>RunComposite
  DEF RunComposite, JobTypes, PlanTypes, ParentStatus, RoundTypes, JobsAreWhole, RoundsAreWhole
<1>NodeReturns. ASSUME NEW t \in Target, NodeReturns(t) PROVE  TypeInv'
  BY <1>NodeReturns DEF NodeReturns, JobTypes, PlanTypes, RoundTypes, JobsAreWhole, RoundsAreWhole
<1>Notice. ASSUME NEW d \in Driver, NEW p \in Child, Notice(d, p) PROVE  TypeInv'
  <2> DEFINE r == [at |-> IF row[named[p]] = "SUCCEEDED" THEN "mark" ELSE "undo",
                   child |-> p, job |-> named[p]]
  <2>1. drv' = [drv EXCEPT ![d] = r] /\ named[p] \in Job
    BY <1>Notice DEF Notice, PlanTypes
  <2>2. r \in Round /\ r.child \in Child /\ r.job \in Job
    BY <2>1 DEF Round, Settling
  <2> HIDE DEF r
  <2>3. drv' \in [Driver -> Round] /\ RoundsAreWhole'
    BY <2>1, <2>2, RoundChanges
  <2> QED
    BY <1>Notice, <2>3 DEF Notice, JobTypes, PlanTypes, RoundTypes, JobsAreWhole
<1>unset. ASSUME NEW p \in Child, Unset(p) \/ Unreached(p) PROVE  noout' \in BOOLEAN
  <2>1. noout' = noout \/ noout' = FALSE
    BY <1>unset DEF Unset, Unreached
  <2> QED
    BY <2>1 DEF RoundTypes
<1>DriverUndoes. ASSUME NEW d \in Driver, DriverUndoes(d) PROVE  TypeInv'
  <2>1. drv' \in [Driver -> Round] /\ RoundsAreWhole'
    BY <1>DriverUndoes, RoundGoes DEF DriverUndoes, Drives, Settling
  <2>2. noout' \in BOOLEAN
    BY <1>DriverUndoes, <1>unset DEF DriverUndoes, Drives, RoundsAreWhole
  <2> QED
    BY <1>DriverUndoes, <2>1, <2>2 DEF DriverUndoes, JobTypes, PlanTypes, RoundTypes, JobsAreWhole
<1>DriverMisses. ASSUME NEW d \in Driver, DriverMisses(d) PROVE  TypeInv'
  <2>1. drv' \in [Driver -> Round] /\ RoundsAreWhole'
    BY <1>DriverMisses, RoundGoes DEF DriverMisses, Drives, Settling
  <2>2. noout' \in BOOLEAN
    BY <1>DriverMisses, <1>unset DEF DriverMisses, Drives, RoundsAreWhole
  <2> QED
    BY <1>DriverMisses, <2>1, <2>2 DEF DriverMisses, JobTypes, PlanTypes, RoundTypes, JobsAreWhole
<1>DriverRecords. ASSUME NEW d \in Driver, DriverRecords(d) PROVE  TypeInv'
  <2>1. drv' \in [Driver -> Round] /\ RoundsAreWhole'
    BY <1>DriverRecords, RoundGoes DEF DriverRecords, Drives, Settling
  <2> QED
    BY <1>DriverRecords, <2>1 DEF DriverRecords, Sets, JobTypes, PlanTypes, RoundTypes, JobsAreWhole
<1>Mark. ASSUME NEW d \in Driver, Mark(d) PROVE  TypeInv'
  <2>1. drv' \in [Driver -> Round] /\ RoundsAreWhole'
    BY <1>Mark, RoundRests DEF Mark
  <2>2. Became(drv[d].job) \in PlanStatus
    BY Words DEF Became
  <2> QED
    BY <1>Mark, <2>1, <2>2 DEF Mark, Sets, JobTypes, PlanTypes, RoundTypes, JobsAreWhole
<1>Stop. ASSUME NEW d \in Driver, Stop(d) PROVE  TypeInv'
  <2>1. drv' \in [Driver -> Round] /\ RoundsAreWhole'
    BY <1>Stop, RoundGoes DEF Stop
  <2> QED
    BY <1>Stop, <2>1, Words DEF Stop, JobTypes, PlanTypes, RoundTypes, JobsAreWhole
<1>EndComposite. ASSUME NEW d \in Driver, EndComposite(d) PROVE  TypeInv'
  <2>1. drv' \in [Driver -> Round] /\ RoundsAreWhole'
    BY <1>EndComposite, RoundRests DEF EndComposite
  <2> QED
    BY <1>EndComposite, <2>1
    DEF EndComposite, JobTypes, PlanTypes, ParentStatus, RoundTypes, JobsAreWhole
<1>Choose. ASSUME NEW d \in Driver, Choose(d) PROVE  TypeInv'
  <2> DEFINE r == [at |-> "create", child |-> NextChild, job |-> NoJob]
  <2>1. drv' = [drv EXCEPT ![d] = r] /\ NextChild \in Child
    BY <1>Choose, NextIsChild DEF Choose
  <2>2. r \in Round /\ r.child \in Child /\ r.at = "create"
    BY <2>1 DEF Round
  <2> HIDE DEF r
  <2>3. drv' \in [Driver -> Round] /\ RoundsAreWhole'
    BY <2>1, <2>2, RoundChanges DEF Settling
  <2> QED
    BY <1>Choose, <2>3 DEF Choose, JobTypes, PlanTypes, RoundTypes, JobsAreWhole
<1>CreateJob. ASSUME NEW d \in Driver, CreateJob(d) PROVE  TypeInv'
  <2>1. CASE Rests(d) /\ UNCHANGED jobs
    BY <1>CreateJob, <2>1, RoundRests DEF CreateJob, JobTypes, PlanTypes, RoundTypes, JobsAreWhole
  <2>2. CASE Insert(drv[d].child, FALSE) /\ drv' = [drv EXCEPT ![d].at = "link", ![d].job = Fresh]
    <3> DEFINE r == [drv[d] EXCEPT !.at = "link", !.job = Fresh]
    <3>1. drv[d] \in Round /\ drv[d].child \in Child
      BY <1>CreateJob DEF CreateJob, Drives, RoundTypes, RoundsAreWhole
    <3>2. Fresh \in Job /\ JobTypes' /\ JobsAreWhole'
      BY <2>2, <3>1, InsertMoves
    <3>3. r \in Round /\ r.child \in Child /\ r.job \in Job
      BY <3>1, <3>2 DEF Round
    <3>4. drv' = [drv EXCEPT ![d] = r]
      BY <2>2, <3>1 DEF Round, RoundTypes
    <3> HIDE DEF r
    <3>5. drv' \in [Driver -> Round] /\ RoundsAreWhole'
      BY <3>3, <3>4, RoundChanges
    <3> QED
      BY <1>CreateJob, <3>2, <3>5 DEF CreateJob, PlanTypes, RoundTypes
  <2> QED
    BY <1>CreateJob, <2>1, <2>2 DEF CreateJob
<1>LinkJob. ASSUME NEW d \in Driver, LinkJob(d) PROVE  TypeInv'
  <2>1. drv' \in [Driver -> Round] /\ RoundsAreWhole'
    BY <1>LinkJob, RoundGoes DEF LinkJob, Drives
  <2>2. drv[d].job \in Job
    BY <1>LinkJob DEF LinkJob, Drives, RoundsAreWhole
  <2> QED
    BY <1>LinkJob, <2>1, <2>2, Words
    DEF LinkJob, Sets, JobTypes, PlanTypes, RoundTypes, JobsAreWhole
<1>Enqueue. ASSUME NEW d \in Driver, Enqueue(d) PROVE  TypeInv'
  <2>1. drv' \in [Driver -> Round] /\ RoundsAreWhole'
    BY <1>Enqueue, RoundRests DEF Enqueue
  <2>2. drv[d].job \in Job
    BY <1>Enqueue DEF Enqueue, Drives, RoundsAreWhole
  <2> QED
    BY <1>Enqueue, <2>1, <2>2 DEF Enqueue, JobTypes, PlanTypes, RoundTypes, JobsAreWhole
<1>DriverDies. ASSUME NEW d \in Driver, DriverDies(d) PROVE  TypeInv'
  <2>1. drv' \in [Driver -> Round] /\ RoundsAreWhole'
    BY <1>DriverDies, RoundRests DEF DriverDies
  <2> QED
    BY <1>DriverDies, <2>1 DEF DriverDies, JobTypes, PlanTypes, RoundTypes, JobsAreWhole
<1> QED
  BY <1>0, <1>Work, <1>Claim, <1>WorkerDies, <1>AskCancel, <1>Approve, <1>Reconcile, <1>EndUnheld,
     <1>Retry, <1>RunPlan, <1>LinkPlan, <1>ApiDies, <1>RunComposite, <1>NodeReturns, <1>Notice,
     <1>DriverUndoes, <1>DriverMisses, <1>DriverRecords, <1>Mark, <1>Stop, <1>EndComposite,
     <1>Choose, <1>CreateJob, <1>LinkJob, <1>Enqueue, <1>DriverDies DEF Next, Drive

-----------------------------------------------------------------------------
(* The rows follow the board *)

\* The board reads the same words.
LEMMA SameVocabulary ==
  /\ Board!JOB_STATUSES = JOB_STATUSES
  /\ Board!ACTIVE_JOB_STATUSES = ACTIVE_JOB_STATUSES
  /\ Board!TRANSITIONS = TRANSITIONS
<1>1. Board!TERMINAL_JOB_STATUSES = TERMINAL_JOB_STATUSES
  BY DEF Board!TERMINAL_JOB_STATUSES, TERMINAL_JOB_STATUSES
<1>2. Board!ACTIVE_JOB_STATUSES = ACTIVE_JOB_STATUSES
  BY DEF Board!ACTIVE_JOB_STATUSES, ACTIVE_JOB_STATUSES
<1> QED
  BY <1>1, <1>2 DEF Board!JOB_STATUSES, JOB_STATUSES, Board!TRANSITIONS, TRANSITIONS

\* The moves the upgrades make are in the table.
LEMMA MovesInTable ==
  /\ canTransition("QUEUED", "RUNNING") /\ canTransition("RUNNING", "WAITING_APPROVAL")
  /\ canTransition("WAITING_APPROVAL", "QUEUED")
  /\ \A to \in TERMINAL_JOB_STATUSES : canTransition("RUNNING", to)
  /\ \A from \in {"QUEUED", "WAITING_APPROVAL"}, to \in {"CANCELLED", "FAILED"} :
       canTransition(from, to)
<1>1. DOMAIN TRANSITIONS = {"QUEUED", "PREFLIGHT", "WAITING_APPROVAL", "RUNNING", "VALIDATING"}
  BY DEF TRANSITIONS
<1> QED
  BY <1>1 DEF canTransition, TRANSITIONS, TERMINAL_JOB_STATUSES

\* A write of one row is a move of the board.
LEMMA WriteIsMove ==
  ASSUME NEW j \in Job, NEW to \in JOB_STATUSES, canTransition(row[j], to),
         row' = [row EXCEPT ![j] = to]
  PROVE  [Board!Next]_row
<1>1. Board!Move(j, to)
  BY SameVocabulary DEF Board!Move, Board!canTransition, canTransition
<1> QED
  BY <1>1, SameVocabulary DEF Board!Next

\* A row appears only through the insert, and the index has looked at every other row.
LEMMA InsertOnBoard ==
  ASSUME TypeInv, NEW p \in Child, NEW inQueue \in BOOLEAN, Insert(p, inQueue)
  PROVE  [Board!Next]_row
<1>1. /\ Fresh \in Job /\ row[Fresh] = "NONE" /\ KeyFree(row, Fresh)
      /\ row' = [row EXCEPT ![Fresh] = "QUEUED"]
  BY InsertMoves
<1>2. Board!KeyFree(row, Fresh)
  BY <1>1, SameVocabulary DEF KeyFree, Board!KeyFree, Rivals, Board!Rivals
<1>3. Board!Insert(Fresh)
  BY <1>1, <1>2 DEF Board!Insert
<1> QED
  BY <1>1, <1>3 DEF Board!Next

\* A job that runs stays, waits for a person, or ends.
LEMMA WorkOnBoard ==
  ASSUME TypeInv, NEW j \in Job, IsStep(j)
  PROVE  [Board!Next]_row
<1>1. row' = [row EXCEPT ![j] = row'[j]]
  BY DEF IsStep, MovesJob, TypeInv, JobTypes
<1>2. row[j] = "RUNNING"
  BY DEF IsStep
<1>3. CASE row'[j] = "RUNNING"
  BY <1>1, <1>2, <1>3 DEF TypeInv, JobTypes
<1>4. CASE row'[j] \in {"WAITING_APPROVAL"} \union TERMINAL_JOB_STATUSES
  <2>1. row'[j] \in JOB_STATUSES /\ canTransition(row[j], row'[j])
    BY <1>2, <1>4, MovesInTable DEF JOB_STATUSES, ACTIVE_JOB_STATUSES
  <2> QED
    BY <1>1, <2>1, WriteIsMove
<1> QED
  BY <1>3, <1>4 DEF IsStep, MovesJob

\* Every step of the upgrades is one step of the board, or none.
LEMMA StepOnBoard ==
  ASSUME TypeInv, [Next]_vars
  PROVE  [Board!Next]_row
<1> USE DEF plans, details, jobs, cluster, history
<1>words. {"QUEUED", "RUNNING", "FAILED", "CANCELLED"} \subseteq JOB_STATUSES
  BY DEF JOB_STATUSES, ACTIVE_JOB_STATUSES, TERMINAL_JOB_STATUSES
<1>0. CASE UNCHANGED vars
  BY <1>0 DEF vars
<1>Work. ASSUME NEW j \in Job, Work(j) PROVE  [Board!Next]_row
  BY <1>Work, WorkIsStep, WorkOnBoard
<1>Claim. ASSUME NEW j \in Job, Claim(j) PROVE  [Board!Next]_row
  BY <1>Claim, <1>words, MovesInTable, WriteIsMove DEF Claim
<1>Approve. ASSUME NEW j \in Job, Approve(j) PROVE  [Board!Next]_row
  BY <1>Approve, <1>words, MovesInTable, WriteIsMove DEF Approve
<1>Reconcile. ASSUME NEW j \in Job, Reconcile(j) PROVE  [Board!Next]_row
  <2>1. "FAILED" \in TERMINAL_JOB_STATUSES
    BY DEF TERMINAL_JOB_STATUSES
  <2> QED
    BY <1>Reconcile, <1>words, <2>1, MovesInTable, WriteIsMove DEF Reconcile, Ends
<1>EndUnheld. ASSUME NEW j \in Job, NEW as \in {"CANCELLED", "FAILED"}, EndUnheld(j, as)
              PROVE  [Board!Next]_row
  BY <1>EndUnheld, <1>words, MovesInTable, WriteIsMove DEF EndUnheld, Ends
<1>Retry. ASSUME NEW j \in Job, Retry(j) PROVE  [Board!Next]_row
  <2>1. of[j] \in Child /\ Insert(of[j], TRUE)
    BY <1>Retry DEF Retry, TypeInv, JobsAreWhole
  <2> QED
    BY <2>1, InsertOnBoard
<1>RunPlan. ASSUME NEW p \in Child, RunPlan(p) PROVE  [Board!Next]_row
  BY <1>RunPlan, InsertOnBoard DEF RunPlan
<1>CreateJob. ASSUME NEW d \in Driver, CreateJob(d) PROVE  [Board!Next]_row
  <2>1. drv[d].child \in Child
    BY <1>CreateJob DEF CreateJob, Drives, TypeInv, RoundsAreWhole
  <2> QED
    BY <1>CreateJob, <2>1, InsertOnBoard DEF CreateJob
<1>Drive. ASSUME NEW d \in Driver, Drive(d) PROVE  [Board!Next]_row
  BY <1>Drive, <1>CreateJob
  DEF Drive, Notice, DriverUndoes, DriverMisses, DriverRecords, Mark, Stop, EndComposite, Choose,
      LinkJob, Enqueue
<1>rest. ASSUME \/ \E j \in Job : WorkerDies(j) \/ AskCancel(j)
                \/ \E d \in Driver : DriverDies(d)
                \/ \E p \in Child, j \in Job : LinkPlan(p, j)
                \/ ApiDies \/ RunComposite \/ \E t \in Target : NodeReturns(t)
         PROVE  [Board!Next]_row
  BY <1>rest DEF WorkerDies, AskCancel, DriverDies, LinkPlan, ApiDies, RunComposite, NodeReturns
<1> QED
  BY <1>0, <1>Work, <1>Claim, <1>Approve, <1>Reconcile, <1>EndUnheld, <1>Retry, <1>RunPlan,
     <1>Drive, <1>rest DEF Next

\* Refinement: the rows of the upgrades move as the job system promises, whoever inserts
\* and ends them: requests, drivers, workers and the reconciler.
THEOREM UpgradesImplementBoard == Spec => ImplementsBoard
<1>1. Init => Board!Init
  BY DEF Init, Board!Init
<1>2. TypeInv /\ [Next]_vars => [Board!Next]_row
  BY StepOnBoard
<1>3. TypeInv /\ [Next]_vars => TypeInv'
  BY TypeStep
<1> QED
  BY <1>1, <1>2, <1>3, TypeInit, PTL DEF Spec, ImplementsBoard, Board!Spec

-----------------------------------------------------------------------------
(* One cluster, one driver *)

\* The key of every job is the cluster's, and one worker process drives.
OneKey    == \A i, j \in Job : i # j => Rivals(i, j)
OneDriver == \A d, e \in Driver : d = e

Loyal == strayed = {}
OneActive == \A i, j \in Job : Active(i) /\ Active(j) => i = j
OnlyJob(p, j) == \A i \in Job : Active(i) /\ of[i] = p => i = j

\* A plan that names a job has begun, and has no other that could still run.
NamedIsOnly ==
  \A p \in Child : named[p] # NoJob => status[p] # "DRAFT" /\ OnlyJob(p, named[p])

\* So has one the API is about to name the job in; then no composite is there.
LinkedIsOnly ==
  \A l \in linking : /\ parent = "none" /\ named[l[1]] = NoJob
                     /\ of[l[2]] = l[1] /\ OnlyJob(l[1], l[2])

\* What a driver knows of the child it is at.
DriverKnows(d) ==
  /\ drv[d].at \in {"stop", "create", "link"} => parent # "none"
  /\ Drives(d, "create") => /\ status[drv[d].child] = "DRAFT"
                            /\ \A j \in Job : ~ Active(j)
  /\ Drives(d, "link") => /\ named[drv[d].child] = NoJob /\ of[drv[d].job] = drv[d].child
                          /\ OnlyJob(drv[d].child, drv[d].job)
  /\ drv[d].at \in Settling => /\ status[drv[d].child] # "DRAFT"
                               /\ \A j \in Job : Active(j) => of[j] # drv[d].child

SoloInv ==
  /\ OneActive
  /\ Loyal => NamedIsOnly /\ LinkedIsOnly /\ \A d \in Driver : DriverKnows(d)

\* A step after which no more jobs are active and no plan is back at a draft, and which
\* links, names and drives nothing.
LEMMA QuietSolo ==
  ASSUME TypeInv, SoloInv, UNCHANGED <<of, named, linking, drv, strayed>>,
         parent' = parent \/ (parent # "none" /\ parent' # "none"),
         \A i \in Job : Active(i)' => Active(i),
         \A p \in Child : status[p] # "DRAFT" => status'[p] # "DRAFT",
         (\A i \in Job : ~ Active(i)) => status' = status
  PROVE  SoloInv'
<1>1. OneActive'
  BY DEF SoloInv, OneActive
<1>2. \A p \in Child, j \in Job \union {NoJob} : OnlyJob(p, j) => OnlyJob(p, j)'
  BY DEF OnlyJob
<1>3. ASSUME Loyal PROVE NamedIsOnly'
  BY <1>2, <1>3 DEF SoloInv, NamedIsOnly, TypeInv, PlanTypes
<1>4. ASSUME Loyal PROVE LinkedIsOnly'
  <2>1. \A l \in linking : l[1] \in Child /\ l[2] \in Job
    BY DEF TypeInv, RoundTypes
  <2> QED
    BY <1>2, <1>4, <2>1 DEF SoloInv, LinkedIsOnly
<1>5. ASSUME Loyal, NEW d \in Driver PROVE DriverKnows(d)'
  <2>1. DriverKnows(d)
    BY <1>5 DEF SoloInv
  <2>2. drv[d].at \notin {"idle", "stop"} => drv[d].child \in Child
    BY DEF TypeInv, RoundsAreWhole
  <2>3. drv[d].at = "link" => drv[d].job \in Job
    BY DEF TypeInv, RoundsAreWhole
  <2>4. (drv[d].at \in {"stop", "create", "link"} => parent # "none")'
    BY <2>1 DEF DriverKnows
  <2>5. (Drives(d, "create") => status[drv[d].child] = "DRAFT" /\ \A j \in Job : ~ Active(j))'
    BY <2>1 DEF DriverKnows, Drives
  <2>6. (Drives(d, "link") => /\ named[drv[d].child] = NoJob /\ of[drv[d].job] = drv[d].child
                              /\ OnlyJob(drv[d].child, drv[d].job))'
    BY <1>2, <2>1, <2>2, <2>3 DEF DriverKnows, Drives
  <2>7. (drv[d].at \in Settling => /\ status[drv[d].child] # "DRAFT"
                                   /\ \A j \in Job : Active(j) => of[j] # drv[d].child)'
    BY <2>1, <2>2 DEF DriverKnows, Settling
  <2> QED
    BY <2>4, <2>5, <2>6, <2>7 DEF DriverKnows
<1> QED
  BY <1>1, <1>3, <1>4, <1>5 DEF SoloInv, Loyal

\* A job is inserted only when no other could run, and is then the only one.
LEMMA InsertAlone ==
  ASSUME OneKey, TypeInv, NEW p \in Child, NEW inQueue \in BOOLEAN, Insert(p, inQueue)
  PROVE  /\ \A i \in Job : ~ Active(i) /\ (Active(i)' => i = Fresh)
         /\ Fresh \in Job /\ of'[Fresh] = p
<1>1. /\ Fresh \in Job /\ row[Fresh] = "NONE" /\ KeyFree(row, Fresh)
      /\ row' = [row EXCEPT ![Fresh] = "QUEUED"] /\ of' = [of EXCEPT ![Fresh] = p]
  BY InsertMoves
<1>2. \A i \in Job : ~ Active(i)
  BY <1>1 DEF OneKey, KeyFree, Rivals, Active, ACTIVE_JOB_STATUSES
<1> QED
  BY <1>1, <1>2 DEF Active, TypeInv, JobTypes

\* With one driver, a round that is over leaves nobody who knows anything.
LEMMA RestedKnows ==
  ASSUME OneDriver, TypeInv, NEW d \in Driver, Rests(d)
  PROVE  \A e \in Driver : DriverKnows(e)' /\ ~ Drives(e, "undone")'
<1>1. drv'[d] = Idle
  BY DEF Rests, TypeInv, RoundTypes
<1> QED
  BY <1>1 DEF OneDriver, DriverKnows, Drives, Settling, Idle

\* Every step keeps it.
LEMMA SoloStep ==
  ASSUME OneKey, OneDriver, TypeInv, SoloInv, [Next]_vars
  PROVE  SoloInv'
<1> USE DEF plans, details, jobs, cluster, history
<1>0. CASE UNCHANGED vars
  <2>1. UNCHANGED <<of, named, linking, drv, strayed, parent, status, row>>
    BY <1>0 DEF vars
  <2> QED
    BY <2>1, QuietSolo DEF Active
<1>Work. ASSUME NEW j \in Job, Work(j) PROVE  SoloInv'
  <2>1. IsStep(j)
    BY <1>Work, WorkIsStep
  <2>2. Active(j) /\ UNCHANGED <<of, named, linking, drv, strayed, parent>>
    BY <2>1 DEF IsStep, MovesJob, MovesPlan, Active, ACTIVE_JOB_STATUSES
  <2>3. \A i \in Job : Active(i)' => Active(i)
    BY <2>1, <2>2 DEF IsStep, MovesJob, Active
  <2>4. \A p \in Child : status[p] # "DRAFT" => status'[p] # "DRAFT"
    BY <2>1 DEF IsStep, MovesPlan, TypeInv, PlanTypes
  <2> QED
    BY <2>2, <2>3, <2>4, QuietSolo
<1>jobs. ASSUME NEW j \in Job,
                \/ Claim(j) \/ WorkerDies(j) \/ Reconcile(j) \/ Approve(j) \/ AskCancel(j)
                \/ \E as \in {"CANCELLED", "FAILED"} : EndUnheld(j, as)
         PROVE  SoloInv'
  <2>1. UNCHANGED <<of, named, linking, drv, strayed, parent, status>>
    BY <1>jobs DEF Claim, WorkerDies, Reconcile, Approve, AskCancel, EndUnheld, Ends
  <2>2. row[j] \in {"QUEUED", "RUNNING", "WAITING_APPROVAL"}
    BY <1>jobs DEF Claim, WorkerDies, Reconcile, Approve, AskCancel, EndUnheld
  <2>3. row' = row \/ \E to \in JOB_STATUSES : row' = [row EXCEPT ![j] = to]
    BY <1>jobs, Words
    DEF Claim, WorkerDies, Reconcile, Approve, AskCancel, EndUnheld, Ends, JOB_STATUSES,
        ACTIVE_JOB_STATUSES, TERMINAL_JOB_STATUSES
  <2>4. \A i \in Job : Active(i)' => Active(i)
    BY <2>2, <2>3 DEF Active, ACTIVE_JOB_STATUSES, TypeInv, JobTypes
  <2> QED
    BY <2>1, <2>4, QuietSolo
<1>quiet. ASSUME RunComposite \/ \E t \in Target : NodeReturns(t) PROVE  SoloInv'
  <2>1. /\ UNCHANGED <<of, named, linking, drv, strayed, status, row>>
        /\ parent' = parent \/ (parent # "none" /\ parent' # "none")
    BY <1>quiet DEF RunComposite, NodeReturns
  <2> QED
    BY <2>1, QuietSolo DEF Active
<1>Retry. ASSUME NEW j \in Job, Retry(j) PROVE  SoloInv'
  <2>1. of[j] \in Child /\ Insert(of[j], TRUE)
    BY <1>Retry DEF Retry, TypeInv, JobsAreWhole
  <2>2. OneActive'
    BY <2>1, InsertAlone DEF OneActive
  <2>3. ~ Loyal'
    BY <1>Retry DEF Retry, Loyal
  <2> QED
    BY <2>2, <2>3 DEF SoloInv
<1>ApiDies. ASSUME ApiDies PROVE  SoloInv'
  <2>1. OneActive'
    BY <1>ApiDies DEF ApiDies, SoloInv, OneActive, Active
  <2>2. ~ Loyal'
    <3>1. PICK l \in linking : TRUE
      BY <1>ApiDies DEF ApiDies
    <3>2. l[1] \in strayed'
      BY <1>ApiDies, <3>1 DEF ApiDies
    <3> QED
      BY <3>2 DEF Loyal
  <2> QED
    BY <2>1, <2>2 DEF SoloInv
<1>RunPlan. ASSUME NEW p \in Child, RunPlan(p) PROVE  SoloInv'
  <2>1. /\ \A i \in Job : ~ Active(i) /\ (Active(i)' => i = Fresh)
        /\ Fresh \in Job /\ of'[Fresh] = p
    BY <1>RunPlan, InsertAlone DEF RunPlan
  <2>2. /\ parent = "none" /\ status[p] = "DRAFT" /\ linking' = {<<p, Fresh>>}
        /\ UNCHANGED <<status, parent, named, drv, strayed>>
    BY <1>RunPlan DEF RunPlan
  <2>3. OneActive'
    BY <2>1 DEF OneActive
  <2>4. ASSUME Loyal PROVE NamedIsOnly' /\ LinkedIsOnly' /\ \A d \in Driver : DriverKnows(d)'
    <3>1. NamedIsOnly /\ \A d \in Driver : DriverKnows(d)
      BY <2>4 DEF SoloInv
    <3>2. NamedIsOnly'
      BY <2>1, <2>2, <3>1 DEF NamedIsOnly, OnlyJob
    <3>3. named[p] = NoJob
      BY <2>2, <3>1 DEF NamedIsOnly
    <3>4. LinkedIsOnly'
      BY <2>1, <2>2, <3>3 DEF LinkedIsOnly, OnlyJob
    <3>5. ASSUME NEW d \in Driver PROVE DriverKnows(d)'
      BY <2>1, <2>2, <3>1 DEF DriverKnows, Drives
    <3> QED
      BY <3>2, <3>4, <3>5
  <2> QED
    BY <2>2, <2>3, <2>4 DEF SoloInv, Loyal
<1>LinkPlan. ASSUME NEW p \in Child, NEW j \in Job, LinkPlan(p, j) PROVE  SoloInv'
  <2>1. /\ <<p, j>> \in linking /\ linking' = {}
        /\ status' = [status EXCEPT ![p] = "RUNNING"] /\ named' = [named EXCEPT ![p] = j]
        /\ UNCHANGED <<row, of, parent, drv, strayed>>
    BY <1>LinkPlan DEF LinkPlan, Sets
  <2>2. OneActive'
    BY <2>1 DEF SoloInv, OneActive, Active
  <2>3. ASSUME Loyal PROVE NamedIsOnly' /\ LinkedIsOnly' /\ \A d \in Driver : DriverKnows(d)'
    <3>1. NamedIsOnly /\ LinkedIsOnly /\ \A d \in Driver : DriverKnows(d)
      BY <2>3 DEF SoloInv
    <3>2. parent = "none" /\ OnlyJob(p, j)
      BY <2>1, <3>1 DEF LinkedIsOnly
    <3>3. NamedIsOnly'
      BY <2>1, <3>1, <3>2 DEF NamedIsOnly, OnlyJob, Active, TypeInv, PlanTypes
    <3>4. LinkedIsOnly'
      BY <2>1 DEF LinkedIsOnly
    <3>5. ASSUME NEW d \in Driver PROVE DriverKnows(d)'
      <4>1. drv[d].at \in Settling => drv[d].child \in Child
        BY DEF TypeInv, RoundsAreWhole, Settling
      <4> QED
        BY <2>1, <3>1, <3>2, <4>1 DEF DriverKnows, Drives, Active, TypeInv, PlanTypes
    <3> QED
      BY <3>3, <3>4, <3>5
  <2> QED
    BY <2>1, <2>2, <2>3 DEF SoloInv, Loyal
\* The driver: nothing happens to the jobs except by an insert or an enqueueing.
<1>drives. ASSUME UNCHANGED <<row, of, strayed>>,
                  Loyal => NamedIsOnly' /\ LinkedIsOnly' /\ \A d \in Driver : DriverKnows(d)'
           PROVE  SoloInv'
  BY <1>drives DEF SoloInv, OneActive, Active, Loyal
\* ... and a plan that is not a draft any more changes nothing for the others.
<1>statuses. ASSUME Loyal, UNCHANGED <<row, of, named, linking>>,
                    parent' = parent \/ (parent # "none" /\ parent' # "none"),
                    \A p \in Child : status[p] # "DRAFT" => status'[p] # "DRAFT"
             PROVE  NamedIsOnly' /\ LinkedIsOnly'
  BY <1>statuses DEF SoloInv, NamedIsOnly, LinkedIsOnly, OnlyJob, Active
<1>Notice. ASSUME NEW d \in Driver, NEW p \in Child, Notice(d, p) PROVE  SoloInv'
  <2> DEFINE at == IF row[named[p]] = "SUCCEEDED" THEN "mark" ELSE "undo"
  <2>1. /\ status[p] = "RUNNING" /\ named[p] # NoJob /\ Ended(named[p])
        /\ drv' = [drv EXCEPT ![d] = [at |-> at, child |-> p, job |-> named[p]]]
        /\ UNCHANGED <<row, of, named, linking, strayed, parent, status>>
    BY <1>Notice DEF Notice
  <2>2. at \in {"mark", "undo"}
    OBVIOUS
  <2>3. drv'[d].at = at /\ drv'[d].child = p
    BY <2>1 DEF TypeInv, RoundTypes
  <2> HIDE DEF at
  <2>4. ASSUME Loyal, NEW e \in Driver PROVE DriverKnows(e)'
    <3>1. e = d
      BY DEF OneDriver
    <3>2. named[p] \in Job /\ ~ Active(named[p])
      BY <2>1 DEF TypeInv, PlanTypes, Ended, Active, TERMINAL_JOB_STATUSES, ACTIVE_JOB_STATUSES
    <3>3. \A j \in Job : Active(j) => of[j] # p
      BY <2>1, <2>4, <3>2 DEF SoloInv, NamedIsOnly, OnlyJob
    <3> QED
      BY <2>1, <2>2, <2>3, <3>1, <3>3 DEF DriverKnows, Drives, Active
  <2> QED
    BY <2>1, <2>4, <1>drives, <1>statuses
<1>settles. ASSUME NEW d \in Driver, NEW at \in {"undone", "mark"}, Goes(d, at),
                   drv[d].at \in Settling,
                   UNCHANGED <<row, of, named, linking, strayed, parent, status>>
            PROVE  SoloInv'
  <2>1. drv'[d].at = at /\ drv'[d].child = drv[d].child
    BY <1>settles DEF Goes, TypeInv, RoundTypes, Round
  <2>2. ASSUME Loyal, NEW e \in Driver PROVE DriverKnows(e)'
    <3>1. e = d
      BY DEF OneDriver
    <3>2. DriverKnows(d)
      BY <2>2 DEF SoloInv
    <3> QED
      BY <1>settles, <2>1, <3>1, <3>2 DEF DriverKnows, Drives, Active
  <2> QED
    BY <1>settles, <2>2, <1>drives, <1>statuses
<1>Settles. ASSUME NEW d \in Driver, DriverUndoes(d) \/ DriverMisses(d) \/ DriverRecords(d)
            PROVE  SoloInv'
  BY <1>Settles, <1>settles DEF DriverUndoes, DriverMisses, DriverRecords, Drives, Settling
<1>Rests. ASSUME NEW d \in Driver, \/ Mark(d) \/ EndComposite(d) \/ Enqueue(d) \/ DriverDies(d)
                                   \/ CreateJob(d) /\ Rests(d) /\ UNCHANGED jobs
          PROVE  SoloInv'
  <2>1. UNCHANGED <<row, of, named, linking, strayed>> /\ Rests(d)
    BY <1>Rests DEF Mark, EndComposite, Enqueue, DriverDies, CreateJob
  <2>2. \A p \in Child : status[p] # "DRAFT" => status'[p] # "DRAFT"
    BY <1>Rests
    DEF Mark, Sets, Became, EndComposite, Enqueue, DriverDies, CreateJob, TypeInv, PlanTypes
  <2>3. ASSUME Loyal PROVE parent' = parent \/ (parent # "none" /\ parent' # "none")
    BY <1>Rests, <2>3
    DEF Mark, EndComposite, Enqueue, DriverDies, CreateJob, SoloInv, DriverKnows, Drives
  <2> QED
    BY <2>1, <2>2, <2>3, RestedKnows, <1>drives, <1>statuses
<1>Stop. ASSUME NEW d \in Driver, Stop(d) PROVE  SoloInv'
  <2>1. /\ parent = "RUNNING" /\ Goes(d, "stop")
        /\ status' = [p \in Child |-> IF status[p] = "DRAFT" THEN "CANCELLED" ELSE status[p]]
        /\ UNCHANGED <<row, of, named, linking, strayed, parent>>
    BY <1>Stop DEF Stop
  <2>2. drv'[d].at = "stop"
    BY <2>1 DEF Goes, TypeInv, RoundTypes, Round
  <2>3. \A e \in Driver : DriverKnows(e)'
    BY <2>1, <2>2 DEF OneDriver, DriverKnows, Drives, Settling
  <2>4. \A p \in Child : status[p] # "DRAFT" => status'[p] # "DRAFT"
    BY <2>1
  <2> QED
    BY <2>1, <2>3, <2>4, <1>drives, <1>statuses
<1>Choose. ASSUME NEW d \in Driver, Choose(d) PROVE  SoloInv'
  <2>1. /\ parent = "RUNNING" /\ status[NextChild] = "DRAFT" /\ \A j \in Job : ~ Active(j)
        /\ drv' = [drv EXCEPT ![d] = [at |-> "create", child |-> NextChild, job |-> NoJob]]
        /\ UNCHANGED <<row, of, named, linking, strayed, parent, status>>
    BY <1>Choose DEF Choose
  <2>2. drv'[d].at = "create" /\ drv'[d].child = NextChild
    BY <2>1 DEF TypeInv, RoundTypes
  <2>3. \A e \in Driver : DriverKnows(e)'
    BY <2>1, <2>2 DEF OneDriver, DriverKnows, Drives, Settling, Active
  <2> QED
    BY <2>1, <2>3, <1>drives, <1>statuses
<1>CreateJob. ASSUME NEW d \in Driver, CreateJob(d), Insert(drv[d].child, FALSE),
                     drv' = [drv EXCEPT ![d].at = "link", ![d].job = Fresh]
              PROVE  SoloInv'
  <2> DEFINE p == drv[d].child
  <2>1. p \in Child /\ Drives(d, "create") /\ UNCHANGED <<status, parent, named, linking, strayed>>
    BY <1>CreateJob DEF CreateJob, Drives, TypeInv, RoundsAreWhole
  <2>2. /\ \A i \in Job : ~ Active(i) /\ (Active(i)' => i = Fresh)
        /\ Fresh \in Job /\ of'[Fresh] = p
    BY <1>CreateJob, <2>1, InsertAlone
  <2>3. drv'[d].at = "link" /\ drv'[d].child = p /\ drv'[d].job = Fresh
    BY <1>CreateJob DEF TypeInv, RoundTypes, Round
  <2> HIDE DEF p
  <2>4. OneActive'
    BY <2>2 DEF OneActive
  <2>5. ASSUME Loyal PROVE NamedIsOnly' /\ LinkedIsOnly' /\ \A e \in Driver : DriverKnows(e)'
    <3>1. NamedIsOnly /\ LinkedIsOnly /\ DriverKnows(d)
      BY <2>5 DEF SoloInv
    <3>2. status[p] = "DRAFT" /\ parent # "none"
      BY <2>1, <3>1 DEF DriverKnows, Drives, p
    <3>3. NamedIsOnly'
      BY <2>1, <2>2, <3>1, <3>2 DEF NamedIsOnly, OnlyJob
    <3>4. LinkedIsOnly'
      BY <2>1, <3>1, <3>2 DEF LinkedIsOnly
    <3>5. named[p] = NoJob
      BY <2>1, <3>1, <3>2 DEF NamedIsOnly
    <3>6. ASSUME NEW e \in Driver PROVE DriverKnows(e)'
      <4>1. e = d
        BY DEF OneDriver
      <4> QED
        BY <2>1, <2>2, <2>3, <3>2, <3>5, <4>1 DEF DriverKnows, Drives, OnlyJob, Settling
    <3> QED
      BY <3>3, <3>4, <3>6
  <2> QED
    BY <2>1, <2>4, <2>5 DEF SoloInv, Loyal
<1>LinkJob. ASSUME NEW d \in Driver, LinkJob(d) PROVE  SoloInv'
  <2> DEFINE p == drv[d].child  j == drv[d].job
  <2>1. p \in Child /\ j \in Job /\ Drives(d, "link")
    BY <1>LinkJob DEF LinkJob, Drives, TypeInv, RoundsAreWhole
  <2>2. /\ status' = [status EXCEPT ![p] = "RUNNING"] /\ named' = [named EXCEPT ![p] = j]
        /\ Goes(d, "queue") /\ UNCHANGED <<row, of, parent, linking, strayed>>
    BY <1>LinkJob DEF LinkJob, Sets
  <2>3. drv'[d].at = "queue"
    BY <2>2 DEF Goes, TypeInv, RoundTypes, Round
  <2>4. ASSUME Loyal PROVE NamedIsOnly' /\ LinkedIsOnly' /\ \A e \in Driver : DriverKnows(e)'
    <3>1. NamedIsOnly /\ LinkedIsOnly /\ DriverKnows(d)
      BY <2>4 DEF SoloInv
    <3>2. OnlyJob(p, j) /\ parent # "none"
      BY <2>1, <3>1 DEF DriverKnows, Drives
    <3> HIDE DEF p, j
    <3>3. NamedIsOnly'
      BY <2>1, <2>2, <3>1, <3>2 DEF NamedIsOnly, OnlyJob, Active, TypeInv, PlanTypes
    <3>4. LinkedIsOnly'
      BY <2>2, <3>1, <3>2 DEF LinkedIsOnly
    <3>5. \A e \in Driver : DriverKnows(e)'
      BY <2>3 DEF OneDriver, DriverKnows, Drives, Settling
    <3> QED
      BY <3>3, <3>4, <3>5
  <2> QED
    BY <2>2, <2>4, <1>drives
<1>Create. ASSUME NEW d \in Driver, CreateJob(d) PROVE  SoloInv'
  BY <1>Create, <1>CreateJob, <1>Rests DEF CreateJob
<1> QED
  BY <1>0, <1>Work, <1>jobs, <1>quiet, <1>Retry, <1>ApiDies, <1>RunPlan, <1>LinkPlan, <1>Notice,
     <1>Settles, <1>Rests, <1>Stop, <1>Choose, <1>Create, <1>LinkJob DEF Next, Drive

-----------------------------------------------------------------------------
(* Ceph's noout *)

\* Where noout was set when the upgrade came, it stays and no plan says it was Velnox.
KeptAsSet == preset => noout /\ \A p \in Child : ~ velnoxs[p]

\* While a job is about to set it the record is there, and until the record is taken back
\* it stays cleared.
FlagIsRecorded == \A j \in Job : In(j, "flag") => velnoxs[of[j]]
ClearedIsClear == \A j \in Job : In(j, "cleared") \/ In(j, "undone") => ~ noout

\* A driver takes back a record only if noout is cleared or another plan's by then.
OthersAreRecorded ==
  \A d \in Driver : Drives(d, "undone") /\ noout =>
    \E q \in Child : q # drv[d].child /\ velnoxs[q]

NooutInv ==
  /\ KeptAsSet
  /\ Loyal => /\ FlagIsRecorded /\ ClearedIsClear /\ OthersAreRecorded
              /\ noout => preset \/ \E p \in Child : velnoxs[p]

\* A row that runs after a step ran before it, at the same place.
RunsOn(j) == row'[j] = "RUNNING" =>
               row[j] = "RUNNING" /\ of'[j] = of[j] /\ run'[j] = run[j]

\* A step that leaves noout and its record alone, and brings nobody to where they are
\* written; or one that leads a plan astray.
LEMMA QuietNoout ==
  ASSUME NooutInv, UNCHANGED <<noout, velnoxs, preset>>,
         \/ strayed' # {}
         \/ /\ strayed' = strayed
            /\ \A j \in Job : In(j, "flag")' => In(j, "flag") /\ of'[j] = of[j]
            /\ \A j \in Job : In(j, "cleared")' \/ In(j, "undone")' =>
                              In(j, "cleared") \/ In(j, "undone")
            /\ \A d \in Driver : Drives(d, "undone")' => Drives(d, "undone") /\ drv'[d] = drv[d]
  PROVE  NooutInv'
<1>1. KeptAsSet'
  BY DEF NooutInv, KeptAsSet
<1>2. CASE strayed' # {}
  BY <1>1, <1>2 DEF NooutInv, Loyal
<1>3. CASE strayed' = {}
  BY <1>1, <1>3 DEF NooutInv, Loyal, FlagIsRecorded, ClearedIsClear, OthersAreRecorded
<1> QED
  BY <1>2, <1>3

\* What a job does: nobody else is in the middle of a step, and no driver is at its plan.
LEMMA WorkKeepsNoout ==
  ASSUME TypeInv, SoloInv, NooutInv, NEW j \in Job, IsStep(j)
  PROVE  NooutInv'
<1>1. /\ of' = of /\ UNCHANGED <<drv, preset, strayed>> /\ of[j] \in Child /\ Active(j)
      /\ row[j] = "RUNNING" /\ run[j].alive
  BY DEF IsStep, MovesJob, MovesPlan, TypeInv, JobsAreWhole, Active, ACTIVE_JOB_STATUSES
<1>2. ASSUME NEW i \in Job, i # j, NEW part \in Delicate PROVE ~ In(i, part)'
  <2>1. row[i] # "RUNNING"
    BY <1>1, <1>2 DEF SoloInv, OneActive, Active, ACTIVE_JOB_STATUSES
  <2> QED
    BY <1>2, <2>1 DEF IsStep, MovesJob, In
<1>3. ASSUME Loyal, NEW d \in Driver, Drives(d, "undone") PROVE of[j] # drv[d].child
  BY <1>1, <1>3 DEF SoloInv, DriverKnows, Drives, Settling
<1>4. CASE KeepsNoout(j)
  <2>1. \A i \in Job, part \in Delicate : ~ In(i, part)'
    BY <1>2, <1>4 DEF KeepsNoout, In
  <2> QED
    BY <1>1, <1>4, <2>1, QuietNoout DEF KeepsNoout, Delicate, Drives
<1>5. CASE Records(j)
  <2>1. ~ noout' /\ ~ preset' /\ velnoxs'[of[j]]
    BY <1>1, <1>5 DEF Records, NooutInv, KeptAsSet, TypeInv, PlanTypes
  <2>2. FlagIsRecorded'
    BY <1>1, <1>2, <2>1 DEF FlagIsRecorded, Delicate
  <2> QED
    BY <2>1, <2>2 DEF NooutInv, KeptAsSet, ClearedIsClear, OthersAreRecorded
<1>6. CASE SetsNoout(j)
  <2>1. \A i \in Job, part \in Delicate : ~ In(i, part)'
    BY <1>2, <1>6 DEF SetsNoout, In
  <2>2. KeptAsSet' /\ velnoxs' = velnoxs
    BY <1>1, <1>6 DEF SetsNoout, NooutInv, KeptAsSet
  <2>3. ASSUME Loyal PROVE velnoxs[of[j]]
    BY <1>1, <1>6, <2>3 DEF SetsNoout, NooutInv, FlagIsRecorded, In
  <2>4. ASSUME Loyal PROVE OthersAreRecorded'
    BY <1>1, <1>3, <2>2, <2>3, <2>4 DEF OthersAreRecorded, Drives
  <2>5. FlagIsRecorded' /\ ClearedIsClear'
    BY <2>1 DEF FlagIsRecorded, ClearedIsClear, Delicate
  <2> QED
    BY <1>1, <2>2, <2>3, <2>4, <2>5 DEF NooutInv, Loyal
<1>7. CASE ClearsNoout(j)
  <2>1. velnoxs' = velnoxs /\ ~ preset /\ (noout' => noout)
    BY <1>1, <1>7 DEF ClearsNoout, NooutInv, KeptAsSet
  <2>2. FlagIsRecorded'
    BY <1>2, <1>7 DEF ClearsNoout, FlagIsRecorded, Delicate, In
  <2>3. ClearedIsClear'
    BY <1>2, <1>7 DEF ClearsNoout, ClearedIsClear, Delicate, In
  <2>4. ASSUME Loyal PROVE OthersAreRecorded'
    BY <1>1, <2>1, <2>4 DEF NooutInv, OthersAreRecorded, Drives
  <2> QED
    BY <1>1, <2>1, <2>2, <2>3, <2>4 DEF NooutInv, KeptAsSet, Loyal
<1>8. CASE TakesBack(j)
  <2>1. \A i \in Job, part \in Delicate : ~ In(i, part)'
    BY <1>2, <1>8 DEF TakesBack, In
  <2>2. KeptAsSet'
    BY <1>1, <1>8 DEF TakesBack, NooutInv, KeptAsSet, TypeInv, PlanTypes
  <2>3. ASSUME Loyal PROVE ~ noout'
    BY <1>1, <1>8, <2>3 DEF TakesBack, NooutInv, ClearedIsClear, In
  <2>4. FlagIsRecorded' /\ ClearedIsClear'
    BY <2>1 DEF FlagIsRecorded, ClearedIsClear, Delicate
  <2> QED
    BY <1>1, <2>2, <2>3, <2>4 DEF NooutInv, OthersAreRecorded, Loyal
<1> QED
  BY <1>4, <1>5, <1>6, <1>7, <1>8 DEF IsStep, MovesNoout

\* Every step keeps it.
LEMMA NooutStep ==
  ASSUME OneKey, OneDriver, TypeInv, SoloInv, NooutInv, [Next]_vars
  PROVE  NooutInv'
<1> USE DEF plans, details, jobs, cluster, history
<1>Work. ASSUME NEW j \in Job, Work(j) PROVE  NooutInv'
  BY <1>Work, WorkIsStep, WorkKeepsNoout
\* Most steps leave the parts of the runs as they are, or start and end runs.
<1>runs. ASSUME UNCHANGED <<noout, velnoxs, preset, drv, strayed>>,
                \A j \in Job : row'[j] = "RUNNING" =>
                  /\ of'[j] = of[j] /\ run'[j].part = run[j].part
                  /\ (run'[j].alive => row[j] = "RUNNING" /\ run[j].alive) \/ row[j] # "RUNNING"
         PROVE  NooutInv'
  <2>1. \A j \in Job, part \in Delicate : In(j, part)' => In(j, part) /\ of'[j] = of[j]
    BY <1>runs DEF TypeInv, JobsAreWhole, In, Delicate
  <2> QED
    BY <1>runs, <2>1, QuietNoout DEF Delicate, Drives
<1>0. CASE UNCHANGED vars
  <2>1. UNCHANGED <<noout, velnoxs, preset, drv, strayed, row, of, run>>
    BY <1>0 DEF vars
  <2> QED
    BY <2>1, <1>runs
<1>edits. ASSUME NEW j \in Job, WorkerDies(j) \/ AskCancel(j) \/ Claim(j) \/ Approve(j)
          PROVE  NooutInv'
  <2>1. /\ UNCHANGED <<noout, velnoxs, preset, drv, strayed, of>>
        /\ \A i \in Job \ {j} : row'[i] = row[i]
    BY <1>edits DEF WorkerDies, AskCancel, Claim, Approve, TypeInv, JobTypes
  <2>2. \E b \in BOOLEAN :
          \/ run' = [run EXCEPT ![j].alive = b]
          \/ run' = [run EXCEPT ![j].asked = b]
          \/ run' = [run EXCEPT ![j].approved = run[j].at]
    BY <1>edits DEF WorkerDies, AskCancel, Claim, Approve
  <2>3. /\ \A i \in Job : run'[i].part = run[i].part
        /\ \A i \in Job \ {j} : run'[i] = run[i]
    BY <2>2, RunEdits
  <2>4. row'[j] = "RUNNING" =>
          (run'[j].alive => row[j] = "RUNNING" /\ run[j].alive) \/ row[j] # "RUNNING"
    BY <1>edits DEF WorkerDies, AskCancel, Claim, Approve, TypeInv, JobTypes, Run
  <2> QED
    BY <2>1, <2>3, <2>4, <1>runs
<1>ends. ASSUME NEW j \in Job, \/ Reconcile(j)
                               \/ \E as \in {"CANCELLED", "FAILED"} : EndUnheld(j, as)
         PROVE  NooutInv'
  <2>1. \E as \in {"CANCELLED", "FAILED"} : row' = [row EXCEPT ![j] = as]
    BY <1>ends DEF Reconcile, EndUnheld, Ends
  <2>2. run' = [run EXCEPT ![j] = NoRun] /\ UNCHANGED <<noout, velnoxs, preset, drv, strayed, of>>
    BY <1>ends DEF Reconcile, EndUnheld, Ends
  <2>3. row'[j] # "RUNNING" /\ \A i \in Job \ {j} : row'[i] = row[i] /\ run'[i] = run[i]
    BY <2>1, <2>2 DEF TypeInv, JobTypes
  <2> QED
    BY <2>2, <2>3, <1>runs
<1>astray. ASSUME ApiDies \/ \E j \in Job : Retry(j) PROVE  NooutInv'
  <2>1. strayed' # {} /\ UNCHANGED <<noout, velnoxs, preset>>
    <3>1. ASSUME NEW j \in Job, Retry(j)
          PROVE  strayed' # {} /\ UNCHANGED <<noout, velnoxs, preset>>
      BY <3>1 DEF Retry
    <3>2. ASSUME ApiDies PROVE strayed' # {} /\ UNCHANGED <<noout, velnoxs, preset>>
      <4>1. PICK l \in linking : TRUE
        BY <3>2 DEF ApiDies
      <4>2. l[1] \in strayed'
        BY <3>2, <4>1 DEF ApiDies
      <4> QED
        BY <3>2, <4>2 DEF ApiDies
    <3> QED
      BY <1>astray, <3>1, <3>2
  <2> QED
    BY <2>1, QuietNoout
\* A row that is inserted does not run.
<1>inserts. ASSUME NEW p \in Child, NEW inQueue \in BOOLEAN, Insert(p, inQueue)
            PROVE  \A j \in Job : RunsOn(j)
  <2>1. /\ Fresh \in Job /\ row' = [row EXCEPT ![Fresh] = "QUEUED"]
        /\ of' = [of EXCEPT ![Fresh] = p] /\ run' = run
    BY <1>inserts, InsertMoves DEF Insert
  <2> QED
    BY <2>1 DEF TypeInv, JobTypes, RunsOn
<1>RunPlan. ASSUME NEW p \in Child, RunPlan(p) PROVE  NooutInv'
  <2>1. \A j \in Job : RunsOn(j)
    BY <1>RunPlan, <1>inserts DEF RunPlan
  <2>2. UNCHANGED <<noout, velnoxs, preset, drv, strayed>>
    BY <1>RunPlan DEF RunPlan
  <2> QED
    BY <2>1, <2>2, <1>runs DEF RunsOn
<1>plans. ASSUME \/ \E p \in Child, j \in Job : LinkPlan(p, j)
                 \/ RunComposite \/ \E t \in Target : NodeReturns(t)
          PROVE  NooutInv'
  <2>1. UNCHANGED <<noout, velnoxs, preset, drv, strayed, row, of, run>>
    BY <1>plans DEF LinkPlan, RunComposite, NodeReturns
  <2> QED
    BY <2>1, <1>runs
\* A driver that does not come to the record, with one driver.
<1>drives. ASSUME NEW d \in Driver, ~ Drives(d, "undone")',
                  UNCHANGED <<noout, velnoxs, preset, strayed>>,
                  \A j \in Job : RunsOn(j)
           PROVE  NooutInv'
  <2>1. \A e \in Driver : ~ Drives(e, "undone")'
    BY <1>drives DEF OneDriver
  <2>2. \A j \in Job : \A part : In(j, part)' => In(j, part) /\ of'[j] = of[j]
    BY <1>drives DEF In, RunsOn
  <2> QED
    BY <1>drives, <2>1, <2>2, QuietNoout
<1>at. ASSUME NEW d \in Driver, NEW at, Goes(d, at)
       PROVE  drv'[d].at = at /\ drv'[d].child = drv[d].child
  BY <1>at DEF Goes, TypeInv, RoundTypes, Round
<1>CreateJob. ASSUME NEW d \in Driver, CreateJob(d) PROVE  NooutInv'
  <2>1. drv[d].child \in Child /\ UNCHANGED <<noout, velnoxs, preset, strayed>>
    BY <1>CreateJob DEF CreateJob, Drives, TypeInv, RoundsAreWhole
  <2>2. CASE Rests(d) /\ UNCHANGED jobs
    BY <2>1, <2>2, <1>drives, RestedKnows DEF RunsOn
  <2>3. CASE Insert(drv[d].child, FALSE) /\ drv' = [drv EXCEPT ![d].at = "link", ![d].job = Fresh]
    <3>1. drv'[d].at = "link"
      BY <2>3 DEF TypeInv, RoundTypes, Round
    <3>2. \A j \in Job : RunsOn(j)
      BY <2>1, <2>3, <1>inserts
    <3> QED
      BY <2>1, <3>1, <3>2, <1>drives DEF Drives
  <2> QED
    BY <1>CreateJob, <2>2, <2>3 DEF CreateJob
<1>others. ASSUME NEW d \in Driver,
                  \/ \E p \in Child : Notice(d, p)
                  \/ Mark(d) \/ Stop(d) \/ EndComposite(d) \/ Choose(d) \/ LinkJob(d) \/ Enqueue(d)
                  \/ DriverDies(d)
           PROVE  NooutInv'
  <2>1. UNCHANGED <<noout, velnoxs, preset, strayed, row, of, run>>
    BY <1>others DEF Notice, Mark, Stop, EndComposite, Choose, LinkJob, Enqueue, DriverDies
  <2>2. ~ Drives(d, "undone")'
    <3>1. ASSUME NEW p \in Child, Notice(d, p) PROVE ~ Drives(d, "undone")'
      BY <3>1 DEF Notice, Drives, TypeInv, RoundTypes
    <3>2. CASE Mark(d) \/ EndComposite(d) \/ Enqueue(d) \/ DriverDies(d)
      BY <3>2, RestedKnows DEF Mark, EndComposite, Enqueue, DriverDies
    <3>3. CASE Stop(d) \/ LinkJob(d)
      BY <3>3, <1>at DEF Stop, LinkJob, Drives
    <3>4. CASE Choose(d)
      BY <3>4 DEF Choose, Drives, TypeInv, RoundTypes
    <3> QED
      BY <1>others, <3>1, <3>2, <3>3, <3>4
  <2> QED
    BY <2>1, <2>2, <1>drives DEF RunsOn
\* The driver's clean-up: the call, heard or not, and the record.
<1>clears. ASSUME NEW d \in Driver, drv[d].child \in Child, velnoxs[drv[d].child],
                  noout' = noout \/ noout' = FALSE,
                  UNCHANGED <<row, of, run, velnoxs, preset, strayed>>,
                  Drives(d, "undone")' => ~ noout'
           PROVE  NooutInv'
  <2>1. (noout' => noout) /\ \A j \in Job : \A part : In(j, part)' = In(j, part)
    BY <1>clears DEF In
  <2>2. OthersAreRecorded'
    BY <1>clears DEF OneDriver, OthersAreRecorded
  <2>3. FlagIsRecorded => FlagIsRecorded'
    BY <1>clears, <2>1 DEF FlagIsRecorded
  <2>4. ClearedIsClear => ClearedIsClear'
    BY <1>clears, <2>1 DEF ClearedIsClear
  <2>5. KeptAsSet'
    BY <1>clears DEF NooutInv, KeptAsSet
  <2> QED
    BY <1>clears, <2>1, <2>2, <2>3, <2>4, <2>5 DEF NooutInv, Loyal
<1>DriverUndoes. ASSUME NEW d \in Driver, DriverUndoes(d) PROVE  NooutInv'
  <2>1. UNCHANGED <<row, of, run, velnoxs, preset, strayed>> /\ drv[d].child \in Child
    BY <1>DriverUndoes DEF DriverUndoes, Drives, TypeInv, RoundsAreWhole
  <2>2. CASE velnoxs[drv[d].child]
    <3>1. noout' = FALSE
      BY <1>DriverUndoes, <2>2 DEF DriverUndoes, Unset
    <3> QED
      BY <2>1, <2>2, <3>1, <1>clears
  <2>3. CASE ~ velnoxs[drv[d].child]
    <3>1. noout' = noout /\ Goes(d, "mark")
      BY <1>DriverUndoes, <2>3 DEF DriverUndoes, Unset
    <3>2. ~ Drives(d, "undone")'
      BY <3>1, <1>at DEF Drives
    <3> QED
      BY <2>1, <3>1, <3>2, <1>drives DEF RunsOn
  <2> QED
    BY <2>2, <2>3
<1>DriverMisses. ASSUME NEW d \in Driver, DriverMisses(d) PROVE  NooutInv'
  <2>1. /\ UNCHANGED <<row, of, run, velnoxs, preset, strayed>> /\ Goes(d, "mark")
        /\ velnoxs[drv[d].child] /\ (noout' = noout \/ noout' = FALSE) /\ drv[d].child \in Child
    BY <1>DriverMisses DEF DriverMisses, Unreached, Drives, TypeInv, RoundsAreWhole
  <2>2. ~ Drives(d, "undone")'
    BY <2>1, <1>at DEF Drives
  <2> QED
    BY <2>1, <2>2, <1>clears
<1>DriverRecords. ASSUME NEW d \in Driver, DriverRecords(d) PROVE  NooutInv'
  <2> DEFINE p == drv[d].child
  <2>1. /\ Drives(d, "undone") /\ Goes(d, "mark") /\ velnoxs' = [velnoxs EXCEPT ![p] = FALSE]
        /\ UNCHANGED <<row, of, run, noout, preset, strayed>>
    BY <1>DriverRecords DEF DriverRecords, Sets
  <2>2. \A q \in Child : (velnoxs'[q] => velnoxs[q]) /\ (q # p => velnoxs'[q] = velnoxs[q])
    BY <2>1 DEF TypeInv, PlanTypes
  <2>3. KeptAsSet'
    BY <2>1, <2>2 DEF NooutInv, KeptAsSet
  <2>4. \A e \in Driver : ~ Drives(e, "undone")'
    BY <2>1, <1>at DEF OneDriver, Drives
  <2>5. ASSUME Loyal
        PROVE  /\ FlagIsRecorded' /\ ClearedIsClear'
               /\ noout' => \E q \in Child : velnoxs'[q]
    <3>1. \A j \in Job : Active(j) => of[j] # p
      BY <2>1, <2>5 DEF SoloInv, DriverKnows, Drives, Settling
    <3>2. \A j \in Job : \A part : In(j, part)' = In(j, part)
      BY <2>1 DEF In
    <3>3. ASSUME NEW j \in Job, In(j, "flag") PROVE velnoxs'[of'[j]]
      <4>1. of[j] \in Child /\ of[j] # p
        BY <3>1, <3>3 DEF In, Active, ACTIVE_JOB_STATUSES, TypeInv, JobsAreWhole
      <4>2. velnoxs[of[j]]
        BY <2>5, <3>3 DEF NooutInv, FlagIsRecorded
      <4> QED
        BY <2>1, <2>2, <4>1, <4>2
    <3>4. FlagIsRecorded'
      BY <3>2, <3>3 DEF FlagIsRecorded
    <3>5. ClearedIsClear'
      BY <2>1, <2>5, <3>2 DEF NooutInv, ClearedIsClear
    <3>6. noout' => \E q \in Child : velnoxs'[q]
      BY <2>1, <2>2, <2>5 DEF NooutInv, OthersAreRecorded
    <3> QED
      BY <3>4, <3>5, <3>6
  <2>6. OthersAreRecorded'
    BY <2>4 DEF OthersAreRecorded
  <2> QED
    BY <2>1, <2>3, <2>5, <2>6 DEF NooutInv, Loyal
<1> QED
  BY <1>0, <1>Work, <1>edits, <1>ends, <1>astray, <1>RunPlan, <1>plans, <1>CreateJob, <1>others,
     <1>DriverUndoes, <1>DriverMisses, <1>DriverRecords DEF Next, Drive

\* Nothing has begun.
LEMMA NooutInit == Init => SoloInv /\ NooutInv
<1> SUFFICES ASSUME Init PROVE SoloInv /\ NooutInv
  OBVIOUS
<1>1. /\ \A j \in Job : row[j] = "NONE"
      /\ \A p \in Child : named[p] = NoJob /\ ~ velnoxs[p]
      /\ \A d \in Driver : drv[d].at = "idle"
      /\ linking = {} /\ preset = noout
  BY DEF Init, Idle
<1>2. SoloInv
  BY <1>1 DEF SoloInv, OneActive, Active, ACTIVE_JOB_STATUSES, NamedIsOnly, LinkedIsOnly,
              DriverKnows, Drives, Settling
<1>3. NooutInv
  BY <1>1 DEF NooutInv, KeptAsSet, FlagIsRecorded, ClearedIsClear, OthersAreRecorded, In, Drives
<1> QED
  BY <1>2, <1>3

\* "Recorded before it is set": on one cluster, with one driver, noout differs from what was
\* found only while a plan says that Velnox set it, or a plan runs in a job it does not
\* name; and never where it was set.
THEOREM RecordedBeforeSet ==
  ASSUME OneKey, OneDriver
  PROVE  Spec => []Recorded
<1> DEFINE Inv == TypeInv /\ SoloInv /\ NooutInv
<1>1. Init => Inv
  BY TypeInit, NooutInit
<1>2. Inv /\ [Next]_vars => Inv'
  BY TypeStep, SoloStep, NooutStep
<1>3. Inv => Recorded
  BY DEF NooutInv, KeptAsSet, Recorded, Loyal, TypeInv, RoundTypes
<1> QED
  BY <1>1, <1>2, <1>3, PTL DEF Spec

-----------------------------------------------------------------------------
(* The order of the steps of a run *)

\* Those lists what is at the positions in K once, in their order.
LEMMA Picks ==
  ASSUME NEW N \in Nat, NEW K \in SUBSET (1 .. N)
  PROVE  /\ Cardinality(K) \in Nat
         /\ \A n \in 1 .. Cardinality(K) : Nth(K, n) \in K
         /\ \A i \in K : \E n \in 1 .. Cardinality(K) : Nth(K, n) = i
         /\ \A m, n \in 1 .. Cardinality(K) : m < n <=> Nth(K, m) < Nth(K, n)
<1> DEFINE Upto(i) == {h \in K : h <= i}
           rank == [i \in K |-> Cardinality(Upto(i))]
           C == Cardinality(K)
<1>1. IsFiniteSet(K) /\ C \in Nat /\ K \subseteq Nat
  <2>1. IsFiniteSet(1 .. N)
    BY FS_Interval
  <2>2. IsFiniteSet(K)
    BY <2>1, FS_Subset
  <2>3. C \in Nat
    BY <2>2, FS_CardinalityType
  <2> QED
    BY <2>2, <2>3
<1>2. \A i \in K : IsFiniteSet(Upto(i)) /\ Cardinality(Upto(i)) \in Nat
  BY <1>1, FS_Subset, FS_CardinalityType
<1>3. ASSUME NEW i \in K PROVE rank[i] \in 1 .. C
  <2>1. Upto(i) # {} /\ Upto(i) \subseteq K
    BY <1>1
  <2>2. Cardinality(Upto(i)) <= C
    BY <1>1, <2>1, FS_Subset
  <2>3. Cardinality(Upto(i)) # 0
    BY <1>2, <2>1, FS_EmptySet
  <2> QED
    BY <1>1, <1>2, <2>2, <2>3
<1>4. ASSUME NEW h \in K, NEW i \in K, h < i PROVE rank[h] < rank[i]
  <2>1. Upto(h) \subseteq Upto(i) /\ i \in Upto(i) /\ i \notin Upto(h)
    <3>1. K \subseteq Int /\ h \in Int /\ i \in Int
      BY <1>1
    <3>2. \A g \in K : g <= h => g <= i
      BY <1>4, <3>1
    <3>3. i <= i /\ ~ (i <= h)
      BY <1>4, <3>1
    <3> QED
      BY <3>2, <3>3, Zenon
  <2>2. Upto(h) # Upto(i)
    BY <2>1
  <2>3. Cardinality(Upto(h)) <= Cardinality(Upto(i))
    BY <1>2, <2>1, FS_Subset
  <2>4. Cardinality(Upto(h)) # Cardinality(Upto(i))
    BY <1>2, <2>1, <2>2, FS_Subset
  <2> QED
    BY <1>2, <2>3, <2>4
<1> HIDE DEF rank, C
<1>5. rank \in [K -> 1 .. C]
  <2>1. rank = [i \in K |-> rank[i]]
    BY DEF rank
  <2> QED
    BY <1>3, <2>1
<1>6. \A h, i \in K : rank[h] = rank[i] => h = i
  BY <1>1, <1>3, <1>4
<1>7. rank \in Injection(K, 1 .. C)
  BY <1>5, <1>6 DEF Injection, IsInjective
<1>8. IsFiniteSet(1 .. C) /\ Cardinality(1 .. C) = C
  BY <1>1, FS_Interval
<1>9. rank \in Surjection(K, 1 .. C)
  BY <1>7, <1>8, FS_Injection DEF C
<1>10. \A n \in 1 .. C : \E i \in K : rank[i] = n
  BY <1>9 DEF Surjection
<1>11. ASSUME NEW n \in 1 .. C PROVE Nth(K, n) \in K /\ rank[Nth(K, n)] = n
  <2>1. \A i \in K : rank[i] = Cardinality({h \in K : h <= i})
    BY DEF rank
  <2>2. \E i \in K : Cardinality({h \in K : h <= i}) = n
    BY <1>10, <2>1
  <2>3. Nth(K, n) \in K /\ Cardinality({h \in K : h <= Nth(K, n)}) = n
    BY <2>2 DEF Nth
  <2> QED
    BY <2>1, <2>3
<1>12. \A i \in K : Nth(K, rank[i]) = i
  BY <1>3, <1>6, <1>11
<1>13. ASSUME NEW m \in 1 .. C, NEW n \in 1 .. C PROVE m < n <=> Nth(K, m) < Nth(K, n)
  <2>1. Nth(K, m) < Nth(K, n) => m < n
    BY <1>4, <1>11
  <2>2. Nth(K, n) < Nth(K, m) => n < m
    BY <1>4, <1>11
  <2>3. Nth(K, m) = Nth(K, n) => m = n
    BY <1>11
  <2>4. Nth(K, m) \in Nat /\ Nth(K, n) \in Nat /\ m \in Nat /\ n \in Nat
    <3>1. Nth(K, m) \in K /\ Nth(K, n) \in K
      BY <1>11
    <3>2. Nth(K, m) \in Nat /\ Nth(K, n) \in Nat
      BY <1>1, <3>1, Zenon
    <3> QED
      BY <1>1, <3>2
  <2> QED
    BY <2>1, <2>2, <2>3, <2>4
<1> QED
  BY <1>1, <1>3, <1>11, <1>12, <1>13 DEF C

LEMMA ThoseIsSeq ==
  ASSUME NEW S, NEW s \in Seq(S), NEW K \in SUBSET (1 .. Len(s))
  PROVE  /\ Those(s, K) \in Seq(S)
         /\ Len(Those(s, K)) = Cardinality(K)
         /\ \A n \in 1 .. Cardinality(K) : Those(s, K)[n] = s[Nth(K, n)]
<1>1. Len(s) \in Nat /\ DOMAIN s = 1 .. Len(s) /\ \A i \in 1 .. Len(s) : s[i] \in S
  OBVIOUS
<1>2. Cardinality(K) \in Nat /\ \A n \in 1 .. Cardinality(K) : Nth(K, n) \in K
  BY <1>1, Picks
<1>3. Those(s, K) \in [1 .. Cardinality(K) -> S]
  BY <1>1, <1>2 DEF Those
<1> QED
  BY <1>2, <1>3 DEF Those

\* The targets of a run are targets of its plan that apply, each once.
LEMMA RunTargetsFit ==
  ASSUME NEW p \in Child
  PROVE  /\ RunTargets[p] \in Seq(Target) /\ Len(RunTargets[p]) \in Nat
         /\ Once(RunTargets[p])
         /\ Ran(RunTargets[p]) \subseteq Ran(TargetsOf[p])
<1> DEFINE s == TargetsOf[p]
           K == {i \in DOMAIN s : s[i] \notin LeftOut[p]}
<1>1. s \in Seq(Target) /\ DOMAIN s = 1 .. Len(s) /\ Len(s) \in Nat /\ Once(s)
  BY UpgradesAssumption
<1>2. RunTargets[p] = Those(s, K) /\ K \in SUBSET (1 .. Len(s))
  BY <1>1 DEF RunTargets
<1> HIDE DEF s, K
<1>3. /\ Those(s, K) \in Seq(Target) /\ Len(Those(s, K)) = Cardinality(K)
      /\ \A n \in 1 .. Cardinality(K) : Those(s, K)[n] = s[Nth(K, n)]
  BY <1>1, <1>2, ThoseIsSeq
<1>4. /\ Cardinality(K) \in Nat
      /\ \A n \in 1 .. Cardinality(K) : Nth(K, n) \in K
      /\ \A m, n \in 1 .. Cardinality(K) : m < n <=> Nth(K, m) < Nth(K, n)
  BY <1>1, <1>2, Picks
<1>5. ASSUME NEW m \in 1 .. Cardinality(K), NEW n \in 1 .. Cardinality(K),
             Those(s, K)[m] = Those(s, K)[n]
      PROVE  m = n
  <2>1. Nth(K, m) = Nth(K, n)
    BY <1>1, <1>2, <1>3, <1>4, <1>5 DEF Once
  <2> QED
    BY <1>4, <2>1
<1>6. Ran(Those(s, K)) \subseteq Ran(s)
  BY <1>1, <1>2, <1>3, <1>4 DEF Ran
<1> QED
  BY <1>2, <1>3, <1>4, <1>5, <1>6 DEF Once, s

\* What the playbooks do at each place; that of Ceph has its group at 11 and 12, that of
\* Proxmox VE from 11 to 17.
CephDo(i) ==
  << "facts", "checks", "automatic", "ask", "approved", "recheck", "gate", "repository",
     "noout", "packages", "restart", "settle", "require", "unset", "verify", "report" >>[i]
PveDo(i) ==
  << "facts", "latest8", "ask", "approved", "checks", "automatic", "ask", "approved",
     "recheck", "gate", "evacuate", "repositories", "packages", "reboot", "validate",
     "return", "canary", "final", "report" >>[i]

LEMMA PlaybooksAre ==
  /\ Len(CephPlaybook) = 16 /\ DOMAIN CephPlaybook = 1 .. 16
  /\ \A i \in 1 .. 16 : CephPlaybook[i].do = CephDo(i) /\ (CephPlaybook[i].each <=> i \in 11 .. 12)
  /\ Len(PvePlaybook) = 19 /\ DOMAIN PvePlaybook = 1 .. 19
  /\ \A i \in 1 .. 19 : PvePlaybook[i].do = PveDo(i) /\ (PvePlaybook[i].each <=> i \in 11 .. 17)
<1>1. Len(CephPlaybook) = 16 /\ DOMAIN CephPlaybook = 1 .. 16
  BY DEF CephPlaybook
<1>2. Len(PvePlaybook) = 19 /\ DOMAIN PvePlaybook = 1 .. 19
  BY DEF PvePlaybook
<1>3. \A i \in 1 .. 16 : CephPlaybook[i].do = CephDo(i) /\ (CephPlaybook[i].each <=> i \in 11 .. 12)
  BY DEF CephPlaybook, CephDo, One, Each
<1>4. \A i \in 1 .. 19 : PvePlaybook[i].do = PveDo(i) /\ (PvePlaybook[i].each <=> i \in 11 .. 17)
  BY DEF PvePlaybook, PveDo, One, Each
<1> QED
  BY <1>1, <1>2, <1>3, <1>4

\* Where the group is, and how large.
LEMMA GroupIs ==
  ASSUME NEW p \in Child, NEW last \in {12, 17}, last = IF Kind[p] = "ceph" THEN 12 ELSE 17
  PROVE  /\ Grouped(p) = 11 .. last /\ Cardinality(Grouped(p)) = last - 10
         /\ (CHOOSE i \in Grouped(p) : \A h \in Grouped(p) : i <= h) = 11
<1>1. Grouped(p) = 11 .. last
  <2>1. CASE Kind[p] = "ceph"
    BY <2>1, PlaybooksAre DEF Grouped, Playbook
  <2>2. CASE Kind[p] # "ceph"
    BY <2>2, PlaybooksAre DEF Grouped, Playbook
  <2> QED
    BY <2>1, <2>2
<1>2. Cardinality(Grouped(p)) = last - 10
  BY <1>1, FS_Interval
<1>3. \E i \in Grouped(p) : \A h \in Grouped(p) : i <= h
  BY <1>1
<1> QED
  BY <1>1, <1>2, <1>3

\* The list of a Ceph run before anything is left out of it, ...
LEMMA CephListIs ==
  ASSUME NEW p \in Child, Kind[p] = "ceph"
  PROVE  LET n == Len(RunTargets[p]) IN
         /\ DOMAIN Listed(p) = 1 .. 2 * n + 14
         /\ \A s \in 1 .. 10 : Listed(p)[s] = [do |-> CephDo(s), target |-> NoTarget]
         /\ \A k \in 1 .. n, i \in 11 .. 12 :
              Listed(p)[2 * k + i - 2] = [do |-> CephDo(i), target |-> RunTargets[p][k]]
         /\ \A i \in 13 .. 16 :
              Listed(p)[2 * n + i - 2] = [do |-> CephDo(i), target |-> NoTarget]
<1> DEFINE G == Grouped(p)
           n == Len(RunTargets[p])
           first == CHOOSE i \in G : \A h \in G : i <= h
           Slot(s) ==
             CHOOSE ik \in G \X (1 .. n) : PlaceOf(ik[1], ik[2], first, Cardinality(G), n) = s
           On(i, t) == [do |-> Playbook(p)[i].do, target |-> t]
           list == [s \in 1 .. Len(Playbook(p)) + (n - 1) * Cardinality(G) |->
                      IF s < first THEN On(s, NoTarget)
                      ELSE IF s < first + n * Cardinality(G)
                           THEN On(Slot(s)[1], RunTargets[p][Slot(s)[2]])
                           ELSE On(s - (n - 1) * Cardinality(G), NoTarget)]
<1>1. Listed(p) = list
  BY DEF Listed
<1>2. G = 11 .. 12 /\ Cardinality(G) = 2 /\ first = 11
  BY GroupIs
<1>3. /\ Playbook(p) = CephPlaybook /\ Len(Playbook(p)) = 16
      /\ \A i \in 1 .. 16 : Playbook(p)[i].do = CephDo(i)
  BY PlaybooksAre DEF Playbook
<1>4. n \in Nat
  BY RunTargetsFit
<1> HIDE DEF G, first
<1>5. ASSUME NEW k \in 1 .. n, NEW i \in 11 .. 12
      PROVE  Slot(2 * k + i - 2)[1] = i /\ Slot(2 * k + i - 2)[2] = k
  <2> DEFINE s == 2 * k + i - 2
  <2>1. \A ik \in G \X (1 .. n) :
          PlaceOf(ik[1], ik[2], first, Cardinality(G), n) = s <=> ik[1] = i /\ ik[2] = k
    <3>1. ASSUME NEW h \in 11 .. 12, NEW m \in 1 .. n
          PROVE  PlaceOf(h, m, first, Cardinality(G), n) = s <=> h = i /\ m = k
      <4>1. PlaceOf(h, m, first, Cardinality(G), n) = 11 + (m - 1) * 2 + h - 11
        BY <1>2 DEF PlaceOf
      <4> QED
        BY <1>4, <4>1
    <3> QED
      BY <1>2, <3>1
  <2>2. <<i, k>> \in G \X (1 .. n)
    BY <1>2
  <2> HIDE DEF s
  <2>3. Slot(s) \in G \X (1 .. n) /\ PlaceOf(Slot(s)[1], Slot(s)[2], first, Cardinality(G), n) = s
    BY <2>1, <2>2
  <2> QED
    BY <2>1, <2>3 DEF s
<1> HIDE DEF Slot, On
<1>6. list = [s \in 1 .. 2 * n + 14 |->
                IF s < 11 THEN On(s, NoTarget)
                ELSE IF s < 11 + n * 2 THEN On(Slot(s)[1], RunTargets[p][Slot(s)[2]])
                     ELSE On(s - (n - 1) * 2, NoTarget)]
  <2>1. 16 + (n - 1) * 2 = 2 * n + 14
    BY <1>4
  <2> QED
    BY <1>2, <1>3, <2>1
<1> HIDE DEF list
<1>7. ASSUME NEW s \in 1 .. 10 PROVE list[s] = On(s, NoTarget)
  BY <1>4, <1>6
<1>8. ASSUME NEW k \in 1 .. n, NEW i \in 11 .. 12
      PROVE  list[2 * k + i - 2] = On(i, RunTargets[p][k])
  <2>1. /\ 2 * k + i - 2 \in 1 .. 2 * n + 14
        /\ ~ (2 * k + i - 2 < 11) /\ 2 * k + i - 2 < 11 + n * 2
    BY <1>4
  <2> QED
    BY <1>5, <1>6, <2>1
<1>9. ASSUME NEW i \in 13 .. 16 PROVE list[2 * n + i - 2] = On(i, NoTarget)
  <2>1. /\ 2 * n + i - 2 \in 1 .. 2 * n + 14
        /\ ~ (2 * n + i - 2 < 11) /\ ~ (2 * n + i - 2 < 11 + n * 2)
        /\ 2 * n + i - 2 - (n - 1) * 2 = i
    BY <1>4
  <2> QED
    BY <1>6, <2>1
<1>10. \A t : \A i \in 1 .. 16 : On(i, t) = [do |-> CephDo(i), target |-> t]
  BY <1>3 DEF On
<1>11. /\ \A s \in 1 .. 10 : s \in 1 .. 16
       /\ \A i \in 11 .. 12 : i \in 1 .. 16
       /\ \A i \in 13 .. 16 : i \in 1 .. 16
  OBVIOUS
<1>12. DOMAIN list = 1 .. 2 * n + 14
  BY <1>6
<1> HIDE DEF On
<1> QED
  BY <1>1, <1>7, <1>8, <1>9, <1>10, <1>11, <1>12

\* ... and that of a Proxmox VE run.
LEMMA PveListIs ==
  ASSUME NEW p \in Child, Kind[p] # "ceph"
  PROVE  LET n == Len(RunTargets[p]) IN
         /\ DOMAIN Listed(p) = 1 .. 7 * n + 12
         /\ \A s \in 1 .. 10 : Listed(p)[s] = [do |-> PveDo(s), target |-> NoTarget]
         /\ \A k \in 1 .. n, i \in 11 .. 17 :
              Listed(p)[7 * k + i - 7] = [do |-> PveDo(i), target |-> RunTargets[p][k]]
         /\ \A i \in 18 .. 19 :
              Listed(p)[7 * n + i - 7] = [do |-> PveDo(i), target |-> NoTarget]
<1> DEFINE G == Grouped(p)
           n == Len(RunTargets[p])
           first == CHOOSE i \in G : \A h \in G : i <= h
           Slot(s) ==
             CHOOSE ik \in G \X (1 .. n) : PlaceOf(ik[1], ik[2], first, Cardinality(G), n) = s
           On(i, t) == [do |-> Playbook(p)[i].do, target |-> t]
           list == [s \in 1 .. Len(Playbook(p)) + (n - 1) * Cardinality(G) |->
                      IF s < first THEN On(s, NoTarget)
                      ELSE IF s < first + n * Cardinality(G)
                           THEN On(Slot(s)[1], RunTargets[p][Slot(s)[2]])
                           ELSE On(s - (n - 1) * Cardinality(G), NoTarget)]
<1>1. Listed(p) = list
  BY DEF Listed
<1>2. G = 11 .. 17 /\ Cardinality(G) = 7 /\ first = 11
  BY GroupIs
<1>3. /\ Playbook(p) = PvePlaybook /\ Len(Playbook(p)) = 19
      /\ \A i \in 1 .. 19 : Playbook(p)[i].do = PveDo(i)
  BY PlaybooksAre DEF Playbook
<1>4. n \in Nat
  BY RunTargetsFit
<1> HIDE DEF G, first
<1>5. ASSUME NEW k \in 1 .. n, NEW i \in 11 .. 17
      PROVE  Slot(7 * k + i - 7)[1] = i /\ Slot(7 * k + i - 7)[2] = k
  <2> DEFINE s == 7 * k + i - 7
  <2>1. \A ik \in G \X (1 .. n) :
          PlaceOf(ik[1], ik[2], first, Cardinality(G), n) = s <=> ik[1] = i /\ ik[2] = k
    <3>1. ASSUME NEW h \in 11 .. 17, NEW m \in 1 .. n
          PROVE  PlaceOf(h, m, first, Cardinality(G), n) = s <=> h = i /\ m = k
      <4>1. PlaceOf(h, m, first, Cardinality(G), n) = 11 + (m - 1) * 7 + h - 11
        BY <1>2 DEF PlaceOf
      <4> QED
        BY <1>4, <4>1
    <3> QED
      BY <1>2, <3>1
  <2>2. <<i, k>> \in G \X (1 .. n)
    BY <1>2
  <2> HIDE DEF s
  <2>3. Slot(s) \in G \X (1 .. n) /\ PlaceOf(Slot(s)[1], Slot(s)[2], first, Cardinality(G), n) = s
    BY <2>1, <2>2
  <2> QED
    BY <2>1, <2>3 DEF s
<1> HIDE DEF Slot, On
<1>6. list = [s \in 1 .. 7 * n + 12 |->
                IF s < 11 THEN On(s, NoTarget)
                ELSE IF s < 11 + n * 7 THEN On(Slot(s)[1], RunTargets[p][Slot(s)[2]])
                     ELSE On(s - (n - 1) * 7, NoTarget)]
  <2>1. 19 + (n - 1) * 7 = 7 * n + 12
    BY <1>4
  <2> QED
    BY <1>2, <1>3, <2>1
<1> HIDE DEF list
<1>7. ASSUME NEW s \in 1 .. 10 PROVE list[s] = On(s, NoTarget)
  BY <1>4, <1>6
<1>8. ASSUME NEW k \in 1 .. n, NEW i \in 11 .. 17
      PROVE  list[7 * k + i - 7] = On(i, RunTargets[p][k])
  <2>1. /\ 7 * k + i - 7 \in 1 .. 7 * n + 12
        /\ ~ (7 * k + i - 7 < 11) /\ 7 * k + i - 7 < 11 + n * 7
    BY <1>4
  <2> QED
    BY <1>5, <1>6, <2>1
<1>9. ASSUME NEW i \in 18 .. 19 PROVE list[7 * n + i - 7] = On(i, NoTarget)
  <2>1. /\ 7 * n + i - 7 \in 1 .. 7 * n + 12
        /\ ~ (7 * n + i - 7 < 11) /\ ~ (7 * n + i - 7 < 11 + n * 7)
        /\ 7 * n + i - 7 - (n - 1) * 7 = i
    BY <1>4
  <2> QED
    BY <1>6, <2>1
<1>10. \A t : \A i \in 1 .. 19 : On(i, t) = [do |-> PveDo(i), target |-> t]
  BY <1>3 DEF On
<1>11. /\ \A s \in 1 .. 10 : s \in 1 .. 19
       /\ \A i \in 11 .. 17 : i \in 1 .. 19
       /\ \A i \in 18 .. 19 : i \in 1 .. 19
  OBVIOUS
<1>12. DOMAIN list = 1 .. 7 * n + 12
  BY <1>6
<1> HIDE DEF On
<1> QED
  BY <1>1, <1>7, <1>8, <1>9, <1>10, <1>11, <1>12

\* Where a step of a run stands in the list.
Left(p)  == {i \in DOMAIN Listed(p) : Gated(p, Listed(p)[i])}
At(p, a) == Nth(Left(p), a)

LEMMA StepsAre ==
  ASSUME NEW p \in Child
  PROVE  /\ Len(Steps[p]) \in Nat /\ DOMAIN Steps[p] = 1 .. Len(Steps[p])
         /\ \A a \in 1 .. Len(Steps[p]) :
              /\ At(p, a) \in DOMAIN Listed(p) /\ Steps[p][a] = Listed(p)[At(p, a)]
              /\ Gated(p, Steps[p][a])
         /\ \A a, b \in 1 .. Len(Steps[p]) : a < b <=> At(p, a) < At(p, b)
         /\ \A i \in DOMAIN Listed(p) :
              Gated(p, Listed(p)[i]) => \E a \in 1 .. Len(Steps[p]) : At(p, a) = i
<1> DEFINE K == Left(p)
           n == Len(RunTargets[p])
<1>1. \E N \in Nat : DOMAIN Listed(p) = 1 .. N
  <2>1. n \in Nat
    BY RunTargetsFit
  <2>2. 2 * n + 14 \in Nat /\ 7 * n + 12 \in Nat
    BY <2>1
  <2>3. CASE Kind[p] = "ceph"
    BY <2>2, <2>3, CephListIs
  <2>4. CASE Kind[p] # "ceph"
    BY <2>2, <2>4, PveListIs
  <2> QED
    BY <2>3, <2>4
<1>2. PICK N \in Nat : DOMAIN Listed(p) = 1 .. N
  BY <1>1
<1>3. K \in SUBSET (1 .. N)
  BY <1>2 DEF Left
<1>4. Steps[p] = [a \in 1 .. Cardinality(K) |-> Listed(p)[Nth(K, a)]]
  BY DEF Steps, Unrolled, Kept, Those, Left
<1> HIDE DEF K, n
<1>5. /\ Cardinality(K) \in Nat
      /\ \A a \in 1 .. Cardinality(K) : Nth(K, a) \in K
      /\ \A i \in K : \E a \in 1 .. Cardinality(K) : Nth(K, a) = i
      /\ \A a, b \in 1 .. Cardinality(K) : a < b <=> Nth(K, a) < Nth(K, b)
  BY <1>3, Picks
<1>6. Len(Steps[p]) = Cardinality(K)
  BY <1>4, <1>5
<1>7. \A a \in 1 .. Cardinality(K) : Steps[p][a] = Listed(p)[Nth(K, a)]
  BY <1>4
<1>8. \A i \in DOMAIN Listed(p) : Gated(p, Listed(p)[i]) => i \in K
  BY DEF K, Left
<1>9. K \subseteq DOMAIN Listed(p)
  BY DEF K, Left
<1>10. \A a \in 1 .. Cardinality(K) : At(p, a) = Nth(K, a)
  BY DEF At, K
<1>11. \A i \in K : Gated(p, Listed(p)[i])
  BY DEF K, Left
<1> QED
  BY <1>4, <1>5, <1>6, <1>7, <1>8, <1>9, <1>10, <1>11

\* Which line of its playbook a step is, of a Ceph run ...
LEMMA CephLine ==
  ASSUME NEW p \in Child, Kind[p] = "ceph",
         NEW a \in 1 .. Len(Steps[p])
  PROVE  LET n == Len(RunTargets[p]) IN
         \/ At(p, a) \in 1 .. 10 /\ Steps[p][a] = [do |-> CephDo(At(p, a)), target |-> NoTarget]
         \/ \E k \in 1 .. n, i \in 11 .. 12 :
              /\ At(p, a) = 2 * k + i - 2
              /\ Steps[p][a] = [do |-> CephDo(i), target |-> RunTargets[p][k]]
         \/ \E i \in 13 .. 16 :
              /\ At(p, a) = 2 * n + i - 2
              /\ Steps[p][a] = [do |-> CephDo(i), target |-> NoTarget]
<1> DEFINE s == At(p, a)
           n == Len(RunTargets[p])
<1>0. /\ \A i \in 1 .. 10 : Listed(p)[i] = [do |-> CephDo(i), target |-> NoTarget]
      /\ \A k \in 1 .. n, i \in 11 .. 12 :
           Listed(p)[2 * k + i - 2] = [do |-> CephDo(i), target |-> RunTargets[p][k]]
      /\ \A i \in 13 .. 16 :
           Listed(p)[2 * n + i - 2] = [do |-> CephDo(i), target |-> NoTarget]
  BY CephListIs
<1>1. n \in Nat
  BY RunTargetsFit
<1>2. s \in 1 .. 2 * n + 14 /\ Steps[p][a] = Listed(p)[s]
  BY StepsAre, CephListIs
<1> HIDE DEF s, n
<1>3. CASE s \in 1 .. 10
  BY <1>0, <1>2, <1>3 DEF s, n
<1>4. CASE s \notin 1 .. 10 /\ s < 2 * n + 11
  <2>1. PICK k \in 1 .. n, i \in 11 .. 12 : s = 2 * k + i - 2
    <3> DEFINE k0 == (s - 9) \div 2
    <3>1. k0 \in 1 .. n /\ s - 2 * k0 + 2 \in 11 .. 12
      BY <1>1, <1>2, <1>4
    <3> QED
      BY <1>1, <1>2, <3>1
  <2>2. Steps[p][a] = [do |-> CephDo(i), target |-> RunTargets[p][k]]
    BY <1>0, <1>2, <2>1
  <2> QED
    BY <2>1, <2>2, Zenon DEF s, n
<1>5. CASE s >= 2 * n + 11
  <2> DEFINE i == s - 2 * n + 2
  <2>1. i \in 13 .. 16 /\ s = 2 * n + i - 2
    BY <1>1, <1>2, <1>5
  <2> HIDE DEF i
  <2>2. Steps[p][a] = [do |-> CephDo(i), target |-> NoTarget]
    BY <1>0, <1>2, <2>1
  <2> QED
    BY <2>1, <2>2, Zenon DEF s, n
<1>6. s \in 1 .. 10 \/ (s \notin 1 .. 10 /\ s < 2 * n + 11) \/ s >= 2 * n + 11
  BY <1>1, <1>2
<1> QED
  BY <1>3, <1>4, <1>5, <1>6 DEF n

\* ... and of a Proxmox VE run.
LEMMA PveLine ==
  ASSUME NEW p \in Child, Kind[p] # "ceph",
         NEW a \in 1 .. Len(Steps[p])
  PROVE  LET n == Len(RunTargets[p]) IN
         \/ At(p, a) \in 1 .. 10 /\ Steps[p][a] = [do |-> PveDo(At(p, a)), target |-> NoTarget]
         \/ \E k \in 1 .. n, i \in 11 .. 17 :
              /\ At(p, a) = 7 * k + i - 7
              /\ Steps[p][a] = [do |-> PveDo(i), target |-> RunTargets[p][k]]
         \/ \E i \in 18 .. 19 :
              /\ At(p, a) = 7 * n + i - 7
              /\ Steps[p][a] = [do |-> PveDo(i), target |-> NoTarget]
<1> DEFINE s == At(p, a)
           n == Len(RunTargets[p])
<1>0. /\ \A i \in 1 .. 10 : Listed(p)[i] = [do |-> PveDo(i), target |-> NoTarget]
      /\ \A k \in 1 .. n, i \in 11 .. 17 :
           Listed(p)[7 * k + i - 7] = [do |-> PveDo(i), target |-> RunTargets[p][k]]
      /\ \A i \in 18 .. 19 :
           Listed(p)[7 * n + i - 7] = [do |-> PveDo(i), target |-> NoTarget]
  BY PveListIs
<1>1. n \in Nat
  BY RunTargetsFit
<1>2. s \in 1 .. 7 * n + 12 /\ Steps[p][a] = Listed(p)[s]
  BY StepsAre, PveListIs
<1> HIDE DEF s, n
<1>3. CASE s \in 1 .. 10
  BY <1>0, <1>2, <1>3 DEF s, n
<1>4. CASE s \notin 1 .. 10 /\ s < 7 * n + 11
  <2>1. PICK k \in 1 .. n, i \in 11 .. 17 : s = 7 * k + i - 7
    <3> DEFINE k0 == (s - 4) \div 7
    <3>1. k0 \in 1 .. n /\ s - 7 * k0 + 7 \in 11 .. 17
      BY <1>1, <1>2, <1>4
    <3> QED
      BY <1>1, <1>2, <3>1
  <2>2. Steps[p][a] = [do |-> PveDo(i), target |-> RunTargets[p][k]]
    BY <1>0, <1>2, <2>1
  <2> QED
    BY <2>1, <2>2, Zenon DEF s, n
<1>5. CASE s >= 7 * n + 11
  <2> DEFINE i == s - 7 * n + 7
  <2>1. i \in 18 .. 19 /\ s = 7 * n + i - 7
    BY <1>1, <1>2, <1>5
  <2> HIDE DEF i
  <2>2. Steps[p][a] = [do |-> PveDo(i), target |-> NoTarget]
    BY <1>0, <1>2, <2>1
  <2> QED
    BY <2>1, <2>2, Zenon DEF s, n
<1>6. s \in 1 .. 10 \/ (s \notin 1 .. 10 /\ s < 7 * n + 11) \/ s >= 7 * n + 11
  BY <1>1, <1>2
<1> QED
  BY <1>3, <1>4, <1>5, <1>6 DEF n

\* Step a is line i of the playbook, for the k-th target or, with k = 0, for none.
CephIs(p, a, i, k) ==
  LET n == Len(RunTargets[p]) IN
  /\ i \in 1 .. 16 /\ k \in 0 .. n /\ (k # 0 <=> i \in 11 .. 12)
  /\ At(p, a) = IF i <= 10 THEN i ELSE IF i <= 12 THEN 2 * k + i - 2 ELSE 2 * n + i - 2
  /\ Steps[p][a].do = CephDo(i)
  /\ Steps[p][a].target = IF k = 0 THEN NoTarget ELSE RunTargets[p][k]
PveIs(p, a, i, k) ==
  LET n == Len(RunTargets[p]) IN
  /\ i \in 1 .. 19 /\ k \in 0 .. n /\ (k # 0 <=> i \in 11 .. 17)
  /\ At(p, a) = IF i <= 10 THEN i ELSE IF i <= 17 THEN 7 * k + i - 7 ELSE 7 * n + i - 7
  /\ Steps[p][a].do = PveDo(i)
  /\ Steps[p][a].target = IF k = 0 THEN NoTarget ELSE RunTargets[p][k]

LEMMA CephStep ==
  ASSUME NEW p \in Child, Kind[p] = "ceph", NEW a \in 1 .. Len(Steps[p])
  PROVE  \E i, k : CephIs(p, a, i, k)
<1> DEFINE n == Len(RunTargets[p])
<1>0. n \in Nat
  BY RunTargetsFit
<1>1. CASE At(p, a) \in 1 .. 10 /\ Steps[p][a] = [do |-> CephDo(At(p, a)), target |-> NoTarget]
  <2>1. CephIs(p, a, At(p, a), 0)
    BY <1>0, <1>1 DEF CephIs
  <2> QED
    BY <2>1
<1>2. ASSUME NEW k \in 1 .. n, NEW i \in 11 .. 12, At(p, a) = 2 * k + i - 2,
             Steps[p][a] = [do |-> CephDo(i), target |-> RunTargets[p][k]]
      PROVE  CephIs(p, a, i, k)
  BY <1>0, <1>2 DEF CephIs
<1>3. ASSUME NEW i \in 13 .. 16, At(p, a) = 2 * n + i - 2,
             Steps[p][a] = [do |-> CephDo(i), target |-> NoTarget]
      PROVE  CephIs(p, a, i, 0)
  BY <1>0, <1>3 DEF CephIs
<1> QED
  BY <1>1, <1>2, <1>3, CephLine

LEMMA PveStep ==
  ASSUME NEW p \in Child, Kind[p] # "ceph", NEW a \in 1 .. Len(Steps[p])
  PROVE  \E i, k : PveIs(p, a, i, k)
<1> DEFINE n == Len(RunTargets[p])
<1>0. n \in Nat
  BY RunTargetsFit
<1>1. CASE At(p, a) \in 1 .. 10 /\ Steps[p][a] = [do |-> PveDo(At(p, a)), target |-> NoTarget]
  <2>1. PveIs(p, a, At(p, a), 0)
    BY <1>0, <1>1 DEF PveIs
  <2> QED
    BY <2>1
<1>2. ASSUME NEW k \in 1 .. n, NEW i \in 11 .. 17, At(p, a) = 7 * k + i - 7,
             Steps[p][a] = [do |-> PveDo(i), target |-> RunTargets[p][k]]
      PROVE  PveIs(p, a, i, k)
  BY <1>0, <1>2 DEF PveIs
<1>3. ASSUME NEW i \in 18 .. 19, At(p, a) = 7 * n + i - 7,
             Steps[p][a] = [do |-> PveDo(i), target |-> NoTarget]
      PROVE  PveIs(p, a, i, 0)
  BY <1>0, <1>3 DEF PveIs
<1> QED
  BY <1>1, <1>2, <1>3, PveLine

\* Every line but the canary's is a step, and that is one for the first of several targets.
LEMMA CephHas ==
  ASSUME NEW p \in Child, Kind[p] = "ceph", NEW i \in 1 .. 16,
         NEW k \in 0 .. Len(RunTargets[p]), k # 0 <=> i \in 11 .. 12
  PROVE  \E a \in 1 .. Len(Steps[p]) : CephIs(p, a, i, k)
<1> DEFINE n == Len(RunTargets[p])
           s == IF i <= 10 THEN i ELSE IF i <= 12 THEN 2 * k + i - 2 ELSE 2 * n + i - 2
<1>0. /\ DOMAIN Listed(p) = 1 .. 2 * n + 14
      /\ \A h \in 1 .. 10 : Listed(p)[h] = [do |-> CephDo(h), target |-> NoTarget]
      /\ \A m \in 1 .. n, h \in 11 .. 12 :
           Listed(p)[2 * m + h - 2] = [do |-> CephDo(h), target |-> RunTargets[p][m]]
      /\ \A h \in 13 .. 16 :
           Listed(p)[2 * n + h - 2] = [do |-> CephDo(h), target |-> NoTarget]
  BY CephListIs
<1>1. n \in Nat /\ k \in 0 .. n
  BY RunTargetsFit
<1> HIDE DEF n
<1>2. s \in 1 .. 2 * n + 14
  <2>1. CASE k # 0
    BY <1>1, <2>1
  <2>2. CASE k = 0
    BY <1>1, <2>2
  <2> QED
    BY <2>1, <2>2
<1>3. Listed(p)[s] = [do |-> CephDo(i), target |-> IF k = 0 THEN NoTarget ELSE RunTargets[p][k]]
  <2>1. CASE i <= 10
    <3>1. i \in 1 .. 10 /\ s = i /\ k = 0
      BY <2>1
    <3> HIDE DEF s
    <3> QED
      BY <1>0, <3>1
  <2>2. CASE i \in 11 .. 12
    <3>1. k \in 1 .. n /\ s = 2 * k + i - 2 /\ k # 0
      BY <1>1, <2>2
    <3> HIDE DEF s
    <3> QED
      BY <1>0, <2>2, <3>1
  <2>3. CASE i \in 13 .. 16
    <3>1. s = 2 * n + i - 2 /\ k = 0
      BY <1>1, <2>3
    <3> HIDE DEF s
    <3> QED
      BY <1>0, <2>3, <3>1
  <2> QED
    BY <2>1, <2>2, <2>3
<1>4. CephDo(i) # "canary"
  BY DEF CephDo
<1> HIDE DEF s
<1>5. PICK a \in 1 .. Len(Steps[p]) : At(p, a) = s
  <2>1. Gated(p, Listed(p)[s])
    BY <1>3, <1>4 DEF Gated
  <2> QED
    BY <1>0, <1>2, <2>1, StepsAre
<1>6. Steps[p][a] = Listed(p)[s]
  BY <1>5, StepsAre
<1> QED
  BY <1>3, <1>1, <1>5, <1>6 DEF CephIs, s, n

LEMMA PveHas ==
  ASSUME NEW p \in Child, Kind[p] # "ceph", NEW i \in 1 .. 19,
         NEW k \in 0 .. Len(RunTargets[p]), k # 0 <=> i \in 11 .. 17,
         i = 17 => k = 1 /\ Len(RunTargets[p]) > 1
  PROVE  \E a \in 1 .. Len(Steps[p]) : PveIs(p, a, i, k)
<1> DEFINE n == Len(RunTargets[p])
           s == IF i <= 10 THEN i ELSE IF i <= 17 THEN 7 * k + i - 7 ELSE 7 * n + i - 7
<1>0. /\ DOMAIN Listed(p) = 1 .. 7 * n + 12
      /\ \A h \in 1 .. 10 : Listed(p)[h] = [do |-> PveDo(h), target |-> NoTarget]
      /\ \A m \in 1 .. n, h \in 11 .. 17 :
           Listed(p)[7 * m + h - 7] = [do |-> PveDo(h), target |-> RunTargets[p][m]]
      /\ \A h \in 18 .. 19 :
           Listed(p)[7 * n + h - 7] = [do |-> PveDo(h), target |-> NoTarget]
  BY PveListIs
<1>1. n \in Nat /\ k \in 0 .. n
  BY RunTargetsFit
<1> HIDE DEF n
<1>2. s \in 1 .. 7 * n + 12
  <2>1. CASE k # 0
    BY <1>1, <2>1
  <2>2. CASE k = 0
    BY <1>1, <2>2
  <2> QED
    BY <2>1, <2>2
<1>3. Listed(p)[s] = [do |-> PveDo(i), target |-> IF k = 0 THEN NoTarget ELSE RunTargets[p][k]]
  <2>1. CASE i <= 10
    <3>1. i \in 1 .. 10 /\ s = i /\ k = 0
      BY <2>1
    <3> HIDE DEF s
    <3> QED
      BY <1>0, <3>1
  <2>2. CASE i \in 11 .. 17
    <3>1. k \in 1 .. n /\ s = 7 * k + i - 7 /\ k # 0
      BY <1>1, <2>2
    <3> HIDE DEF s
    <3> QED
      BY <1>0, <2>2, <3>1
  <2>3. CASE i \in 18 .. 19
    <3>1. s = 7 * n + i - 7 /\ k = 0
      BY <1>1, <2>3
    <3> HIDE DEF s
    <3> QED
      BY <1>0, <2>3, <3>1
  <2> QED
    BY <2>1, <2>2, <2>3
<1>4. i # 17 => PveDo(i) # "canary"
  BY DEF PveDo
<1> HIDE DEF s
<1>5. Gated(p, Listed(p)[s])
  BY <1>3, <1>4 DEF Gated, n, n
<1>6. PICK a \in 1 .. Len(Steps[p]) : At(p, a) = s
  BY <1>0, <1>2, <1>5, StepsAre
<1>7. Steps[p][a] = Listed(p)[s]
  BY <1>6, StepsAre
<1> QED
  BY <1>3, <1>1, <1>6, <1>7 DEF PveIs, s, n

\* Which line does what.
LEMMA CephLines ==
  \A i \in 1 .. 16 :
    /\ CephDo(i) = "facts" <=> i = 1
    /\ CephDo(i) = "checks" <=> i = 2
    /\ CephDo(i) = "ask" <=> i = 4
    /\ CephDo(i) = "recheck" <=> i = 6
    /\ CephDo(i) = "gate" <=> i = 7
    /\ CephDo(i) = "noout" <=> i = 9
    /\ CephDo(i) = "packages" <=> i = 10
    /\ CephDo(i) = "restart" <=> i = 11
    /\ CephDo(i) = "settle" <=> i = 12
    /\ CephDo(i) = "unset" <=> i = 14
    /\ CephDo(i) = "verify" <=> i = 15
    /\ CephDo(i) = "report" <=> i = 16
    /\ CephDo(i) \notin {"evacuate", "reboot", "validate", "return", "canary", "latest8", "final"}
BY DEF CephDo

LEMMA PveLines ==
  \A i \in 1 .. 19 :
    /\ PveDo(i) = "facts" <=> i = 1
    /\ PveDo(i) = "ask" <=> i \in {3, 7}
    /\ PveDo(i) = "checks" <=> i = 5
    /\ PveDo(i) = "recheck" <=> i = 9
    /\ PveDo(i) = "gate" <=> i = 10
    /\ PveDo(i) = "evacuate" <=> i = 11
    /\ PveDo(i) = "packages" <=> i = 13
    /\ PveDo(i) = "reboot" <=> i = 14
    /\ PveDo(i) = "validate" <=> i = 15
    /\ PveDo(i) = "return" <=> i = 16
    /\ PveDo(i) = "canary" <=> i = 17
    /\ PveDo(i) = "report" <=> i = 19
    /\ PveDo(i) \notin {"noout", "restart", "settle", "unset", "verify", "require"}
BY DEF PveDo

-----------------------------------------------------------------------------
(* The order of the steps *)

Does(p, a) == Steps[p][a].do
Whom(p, a) == Steps[p][a].target
Count(p)   == Len(Steps[p])

\* Steps are in the order of their places.
LEMMA InPlaceOrder ==
  ASSUME NEW p \in Child
  PROVE  /\ Count(p) \in Nat /\ Len(RunTargets[p]) \in Nat
         /\ \A a, b \in 1 .. Count(p) : a < b <=> At(p, a) < At(p, b)
BY StepsAre, RunTargetsFit DEF Count

\* A step done per target is one of the run's, and a plan has the steps of its kind.
LEMMA StepTargets ==
  ASSUME NEW p \in Child, NEW a \in 1 .. Count(p)
  PROVE  /\ Whom(p, a) \in Ran(RunTargets[p]) \union {NoTarget}
         /\ Does(p, a) \in {"restart", "settle", "evacuate", "reboot", "validate", "return"} =>
              Whom(p, a) \in Ran(RunTargets[p])
         /\ Does(p, a) \in {"restart", "settle", "noout", "unset", "verify"} => Kind[p] = "ceph"
         /\ Does(p, a) \in {"evacuate", "reboot", "validate", "return", "canary"} =>
              Kind[p] # "ceph"
         /\ Kind[p] # "ceph" /\ Does(p, a) = "packages" => Whom(p, a) \in Ran(RunTargets[p])
<1> DEFINE n == Len(RunTargets[p])
<1>0. n \in Nat /\ \A k \in 1 .. n : RunTargets[p][k] \in Ran(RunTargets[p])
  BY RunTargetsFit DEF Ran
<1> HIDE DEF n
<1>1. CASE Kind[p] = "ceph"
  <2>1. PICK i, k : CephIs(p, a, i, k)
    BY <1>1, CephStep DEF Count
  <2>2. /\ i \in 1 .. 16 /\ k \in 0 .. n /\ (k # 0 <=> i \in 11 .. 12)
        /\ Does(p, a) = CephDo(i) /\ Whom(p, a) = IF k = 0 THEN NoTarget ELSE RunTargets[p][k]
    BY <2>1 DEF CephIs, Does, Whom, n
  <2>3. Whom(p, a) \in Ran(RunTargets[p]) \union {NoTarget}
        /\ (k # 0 => Whom(p, a) \in Ran(RunTargets[p]))
    BY <1>0, <2>2
  <2>4. Does(p, a) \in {"restart", "settle"} => i \in 11 .. 12
    BY <2>2, CephLines
  <2>5. Does(p, a) \notin {"evacuate", "reboot", "validate", "return", "canary"}
    BY <2>2, CephLines
  <2> QED
    BY <1>1, <2>2, <2>3, <2>4, <2>5
<1>2. CASE Kind[p] # "ceph"
  <2>1. PICK i, k : PveIs(p, a, i, k)
    BY <1>2, PveStep DEF Count
  <2>2. /\ i \in 1 .. 19 /\ k \in 0 .. n /\ (k # 0 <=> i \in 11 .. 17)
        /\ Does(p, a) = PveDo(i) /\ Whom(p, a) = IF k = 0 THEN NoTarget ELSE RunTargets[p][k]
    BY <2>1 DEF PveIs, Does, Whom, n
  <2>3. Whom(p, a) \in Ran(RunTargets[p]) \union {NoTarget}
        /\ (k # 0 => Whom(p, a) \in Ran(RunTargets[p]))
    BY <1>0, <2>2
  <2>4. Does(p, a) \in {"evacuate", "packages", "reboot", "validate", "return"} => i \in 11 .. 17
    BY <2>2, PveLines
  <2>5. Does(p, a) \notin {"restart", "settle", "noout", "unset", "verify"}
    BY <2>2, PveLines
  <2> QED
    BY <1>2, <2>2, <2>3, <2>4, <2>5
<1> QED
  BY <1>1, <1>2

\* The facts come first and only then.
LEMMA FactsFirst ==
  ASSUME NEW p \in Child
  PROVE  1 \in 1 .. Count(p) /\ \A a \in 1 .. Count(p) : Does(p, a) = "facts" <=> a = 1
<1>1. \E a \in 1 .. Count(p) : At(p, a) = 1 /\ Does(p, a) = "facts"
  <2>0. 0 \in 0 .. Len(RunTargets[p])
    BY RunTargetsFit
  <2>1. CASE Kind[p] = "ceph"
    <3>1. PICK a \in 1 .. Count(p) : CephIs(p, a, 1, 0)
      BY <2>0, <2>1, CephHas DEF Count
    <3> QED
      BY <3>1, CephLines DEF CephIs, Does
  <2>2. CASE Kind[p] # "ceph"
    <3>1. PICK a \in 1 .. Count(p) : PveIs(p, a, 1, 0)
      BY <2>0, <2>2, PveHas DEF Count
    <3> QED
      BY <3>1, PveLines DEF PveIs, Does
  <2> QED
    BY <2>1, <2>2
<1>2. \A a \in 1 .. Count(p) : Does(p, a) = "facts" => At(p, a) = 1
  <2>1. ASSUME NEW a \in 1 .. Count(p), Kind[p] = "ceph", Does(p, a) = "facts" PROVE At(p, a) = 1
    <3>1. PICK i, k : CephIs(p, a, i, k)
      BY <2>1, CephStep DEF Count
    <3>2. i = 1
      BY <2>1, <3>1, CephLines DEF CephIs, Does
    <3> QED
      BY <3>1, <3>2 DEF CephIs
  <2>2. ASSUME NEW a \in 1 .. Count(p), Kind[p] # "ceph", Does(p, a) = "facts" PROVE At(p, a) = 1
    <3>1. PICK i, k : PveIs(p, a, i, k)
      BY <2>2, PveStep DEF Count
    <3>2. i = 1
      BY <2>2, <3>1, PveLines DEF PveIs, Does
    <3> QED
      BY <3>1, <3>2 DEF PveIs
  <2> QED
    BY <2>1, <2>2
<1>3. \A a \in 1 .. Count(p) : At(p, a) \in Nat /\ At(p, a) >= 1
  <2>1. ASSUME NEW a \in 1 .. Count(p), Kind[p] = "ceph"
        PROVE  At(p, a) \in Nat /\ At(p, a) >= 1
    <3>1. PICK i, k : CephIs(p, a, i, k)
      BY <2>1, CephStep DEF Count
    <3> QED
      BY <3>1, RunTargetsFit DEF CephIs
  <2>2. ASSUME NEW a \in 1 .. Count(p), Kind[p] # "ceph"
        PROVE  At(p, a) \in Nat /\ At(p, a) >= 1
    <3>1. PICK i, k : PveIs(p, a, i, k)
      BY <2>2, PveStep DEF Count
    <3> QED
      BY <3>1, RunTargetsFit DEF PveIs
  <2> QED
    BY <2>1, <2>2
<1>4. PICK a \in 1 .. Count(p) : At(p, a) = 1 /\ Does(p, a) = "facts"
  BY <1>1
<1>5. Count(p) \in Nat /\ 1 \in 1 .. Count(p) /\ ~ (1 < a)
  BY <1>3, <1>4, InPlaceOrder
<1>6. a = 1
  BY <1>5
<1>7. \A b \in 1 .. Count(p) : At(p, b) = 1 => b = 1
  BY <1>4, <1>5, <1>6, InPlaceOrder
<1> QED
  BY <1>2, <1>4, <1>5, <1>6, <1>7

\* What it comes to.
LEMMA CephReads ==
  ASSUME NEW p \in Child, NEW a, NEW i, NEW k, CephIs(p, a, i, k)
  PROVE  LET n == Len(RunTargets[p]) IN
         /\ n \in Nat /\ i \in 1 .. 16 /\ k \in 0 .. n /\ (k # 0 <=> i \in 11 .. 12)
         /\ Does(p, a) = CephDo(i)
         /\ Whom(p, a) = IF k = 0 THEN NoTarget ELSE RunTargets[p][k]
         /\ At(p, a) \in Nat
         /\ i <= 10 => At(p, a) = i
         /\ i \in 11 .. 12 => At(p, a) = 2 * k + i - 2
         /\ i >= 13 => At(p, a) = 2 * n + i - 2
<1> DEFINE n == Len(RunTargets[p])
<1>1. n \in Nat
  BY RunTargetsFit
<1>2. /\ i \in 1 .. 16 /\ k \in 0 .. n /\ (k # 0 <=> i \in 11 .. 12)
      /\ At(p, a) = IF i <= 10 THEN i ELSE IF i <= 12 THEN 2 * k + i - 2 ELSE 2 * n + i - 2
      /\ Does(p, a) = CephDo(i)
      /\ Whom(p, a) = IF k = 0 THEN NoTarget ELSE RunTargets[p][k]
  BY DEF CephIs, Does, Whom
<1> HIDE DEF n
<1>3. /\ At(p, a) \in Nat
      /\ i <= 10 => At(p, a) = i
      /\ i \in 11 .. 12 => At(p, a) = 2 * k + i - 2
      /\ i >= 13 => At(p, a) = 2 * n + i - 2
  BY <1>1, <1>2
<1> QED
  BY <1>1, <1>2, <1>3 DEF n

LEMMA PveReads ==
  ASSUME NEW p \in Child, NEW a, NEW i, NEW k, PveIs(p, a, i, k)
  PROVE  LET n == Len(RunTargets[p]) IN
         /\ n \in Nat /\ i \in 1 .. 19 /\ k \in 0 .. n /\ (k # 0 <=> i \in 11 .. 17)
         /\ Does(p, a) = PveDo(i)
         /\ Whom(p, a) = IF k = 0 THEN NoTarget ELSE RunTargets[p][k]
         /\ At(p, a) \in Nat
         /\ i <= 10 => At(p, a) = i
         /\ i \in 11 .. 17 => At(p, a) = 7 * k + i - 7
         /\ i >= 18 => At(p, a) = 7 * n + i - 7
<1> DEFINE n == Len(RunTargets[p])
<1>1. n \in Nat
  BY RunTargetsFit
<1>2. /\ i \in 1 .. 19 /\ k \in 0 .. n /\ (k # 0 <=> i \in 11 .. 17)
      /\ At(p, a) = IF i <= 10 THEN i ELSE IF i <= 17 THEN 7 * k + i - 7 ELSE 7 * n + i - 7
      /\ Does(p, a) = PveDo(i)
      /\ Whom(p, a) = IF k = 0 THEN NoTarget ELSE RunTargets[p][k]
  BY DEF PveIs, Does, Whom
<1> HIDE DEF n
<1>3. /\ At(p, a) \in Nat
      /\ i <= 10 => At(p, a) = i
      /\ i \in 11 .. 17 => At(p, a) = 7 * k + i - 7
      /\ i >= 18 => At(p, a) = 7 * n + i - 7
  BY <1>1, <1>2
<1> QED
  BY <1>1, <1>2, <1>3 DEF n

\* Targets are begun behind the gate of the checks, which are run before it; noout is set
\* and nodes are rebooted after it.
LEMMA GateFirst ==
  ASSUME NEW p \in Child, NEW a \in 1 .. Count(p)
  PROVE  /\ Does(p, a) \in {"restart", "evacuate"} =>
              \E h \in 1 .. a - 1 : Does(p, h) = "gate"
         /\ Does(p, a) \in {"checks", "recheck"} =>
              \A h \in 1 .. a - 1 : Does(p, h) # "gate"
         /\ Does(p, a) = "gate" =>
              \A h \in 1 .. a - 1 : Does(p, h) \notin {"noout", "reboot"}
<1> DEFINE n == Len(RunTargets[p])
<1>0. /\ n \in Nat /\ 0 \in 0 .. n /\ Count(p) \in Nat
      /\ \A g, h \in 1 .. Count(p) : g < h <=> At(p, g) < At(p, h)
  BY InPlaceOrder
<1> HIDE DEF n
<1>1. CASE Kind[p] = "ceph"
  <2>1. PICK i, k : CephIs(p, a, i, k)
    BY <1>1, CephStep DEF Count
  <2>2. PICK g \in 1 .. Count(p) : CephIs(p, g, 7, 0)
    BY <1>0, <1>1, CephHas DEF Count, n
  <2>3. At(p, g) = 7 /\ Does(p, g) = "gate"
    BY <2>2, CephLines DEF CephIs, Does
  <2>4. i \in 1 .. 16 /\ Does(p, a) = CephDo(i) /\ (i <= 10 => At(p, a) = i) /\ At(p, a) \in Nat
        /\ (i \in 11 .. 12 => At(p, a) > 10)
    <3>1. /\ i \in 1 .. 16 /\ Does(p, a) = CephDo(i) /\ At(p, a) \in Nat
          /\ (i \in 11 .. 12 => k \in Nat /\ k # 0 /\ At(p, a) = 2 * k + i - 2)
          /\ (i <= 10 => At(p, a) = i)
      BY <2>1, CephReads
    <3> QED
      BY <3>1
  <2>5. Does(p, a) \in {"restart", "evacuate"} => g < a
    BY <1>0, <2>3, <2>4, CephLines
  <2>6. ASSUME NEW h \in 1 .. Count(p)
        PROVE  /\ Does(p, h) = "gate" => At(p, h) = 7
               /\ Does(p, h) \in {"noout", "reboot"} => At(p, h) = 9
    <3>1. PICK m, l : CephIs(p, h, m, l)
      BY <1>1, CephStep DEF Count
    <3>2. m \in 1 .. 16 /\ Does(p, h) = CephDo(m) /\ (m <= 10 => At(p, h) = m)
      BY <3>1 DEF CephIs, Does
    <3> QED
      BY <3>2, CephLines
  <2>7. /\ Does(p, a) \in {"checks", "recheck"} => At(p, a) < 7
        /\ Does(p, a) = "gate" => At(p, a) = 7
    BY <2>4, CephLines
  <2>8. \A h \in 1 .. a - 1 : h \in 1 .. Count(p) /\ At(p, h) < At(p, a)
    BY <1>0
  <2>9. g < a => g \in 1 .. a - 1
    BY <1>0
  <2> QED
    BY <2>3, <2>4, <2>5, <2>6, <2>7, <2>8, <2>9
<1>2. CASE Kind[p] # "ceph"
  <2>1. PICK i, k : PveIs(p, a, i, k)
    BY <1>2, PveStep DEF Count
  <2>2. PICK g \in 1 .. Count(p) : PveIs(p, g, 10, 0)
    BY <1>0, <1>2, PveHas DEF Count, n
  <2>3. At(p, g) = 10 /\ Does(p, g) = "gate"
    BY <2>2, PveLines DEF PveIs, Does
  <2>4. i \in 1 .. 19 /\ Does(p, a) = PveDo(i) /\ (i <= 10 => At(p, a) = i) /\ At(p, a) \in Nat
        /\ (i = 11 => At(p, a) > 10)
    <3>1. /\ i \in 1 .. 19 /\ Does(p, a) = PveDo(i) /\ At(p, a) \in Nat
          /\ (i \in 11 .. 17 => k \in Nat /\ k # 0 /\ At(p, a) = 7 * k + i - 7)
          /\ (i <= 10 => At(p, a) = i)
      BY <2>1, PveReads
    <3> QED
      BY <3>1
  <2>5. Does(p, a) \in {"restart", "evacuate"} => g < a
    BY <1>0, <2>3, <2>4, PveLines
  <2>6. ASSUME NEW h \in 1 .. Count(p)
        PROVE  /\ Does(p, h) = "gate" => At(p, h) = 10
               /\ Does(p, h) \in {"noout", "reboot"} => At(p, h) > 10
    <3>1. PICK m, l : PveIs(p, h, m, l)
      BY <1>2, PveStep DEF Count
    <3>2. m \in 1 .. 19 /\ Does(p, h) = PveDo(m) /\ (m <= 10 => At(p, h) = m)
          /\ (m = 14 => At(p, h) > 10)
      <4>1. /\ m \in 1 .. 19 /\ Does(p, h) = PveDo(m)
            /\ (m \in 11 .. 17 => l \in Nat /\ l # 0 /\ At(p, h) = 7 * l + m - 7)
            /\ (m <= 10 => At(p, h) = m)
        BY <3>1, PveReads
      <4> QED
        BY <4>1
    <3> QED
      BY <3>2, PveLines
  <2>7. /\ Does(p, a) \in {"checks", "recheck"} => At(p, a) < 10
        /\ Does(p, a) = "gate" => At(p, a) = 10
    BY <2>4, PveLines
  <2>8. \A h \in 1 .. a - 1 : h \in 1 .. Count(p) /\ At(p, h) < At(p, a)
    BY <1>0
  <2>9. g < a => g \in 1 .. a - 1
    BY <1>0
  <2>10. /\ Does(p, a) \in {"restart", "evacuate"} =>
               \E h \in 1 .. a - 1 : Does(p, h) = "gate"
    BY <2>3, <2>5, <2>9
  <2>11. \A h \in 1 .. a - 1 : At(p, h) \in Nat
    BY <1>0, <2>8, <1>2, PveStep, PveReads DEF Count
  <2>12. ASSUME NEW h \in 1 .. a - 1
         PROVE  /\ Does(p, a) \in {"checks", "recheck"} => Does(p, h) # "gate"
                /\ Does(p, a) = "gate" => Does(p, h) \notin {"noout", "reboot"}
    BY <2>4, <2>6, <2>7, <2>8, <2>11
  <2> QED
    BY <2>10, <2>12
<1> QED
  BY <1>1, <1>2

\* A run that has come to its report, or to its end, has proven the release: Ceph as a
\* whole, Proxmox VE node by node.
AtItsEnd(p, a) == a = Count(p) + 1 \/ (a \in 1 .. Count(p) /\ Does(p, a) = "report")

LEMMA ProvenFirst ==
  ASSUME NEW p \in Child, NEW a, AtItsEnd(p, a)
  PROVE  /\ Kind[p] = "ceph" => \E h \in 1 .. a - 1 : Does(p, h) = "verify"
         /\ Kind[p] # "ceph" => \A t \in Ran(RunTargets[p]) : \E h \in 1 .. a - 1 :
                                  Does(p, h) = "validate" /\ Whom(p, h) = t
<1> DEFINE n == Len(RunTargets[p])
<1>0. /\ n \in Nat /\ 0 \in 0 .. n /\ Count(p) \in Nat
      /\ \A g, h \in 1 .. Count(p) : g < h <=> At(p, g) < At(p, h)
      /\ a \in 1 .. Count(p) + 1
  BY InPlaceOrder DEF AtItsEnd
<1> HIDE DEF n
<1>1. ASSUME Kind[p] = "ceph" PROVE \E h \in 1 .. a - 1 : Does(p, h) = "verify"
  <2>1. PICK h \in 1 .. Count(p) : CephIs(p, h, 15, 0)
    BY <1>0, <1>1, CephHas DEF Count, n
  <2>2. At(p, h) = 2 * n + 13 /\ Does(p, h) = "verify"
    BY <1>0, <2>1, CephLines DEF CephIs, Does, n
  <2>3. CASE a = Count(p) + 1
    BY <1>0, <2>2, <2>3
  <2>4. CASE a \in 1 .. Count(p) /\ Does(p, a) = "report"
    <3>1. PICK i, k : CephIs(p, a, i, k)
      BY <1>1, <2>4, CephStep DEF Count
    <3>2. i = 16
      BY <2>4, <3>1, CephLines DEF CephIs, Does
    <3>3. At(p, a) = 2 * n + 14
      BY <1>0, <3>1, <3>2 DEF CephIs, n
    <3> QED
      BY <1>0, <2>2, <2>4, <3>3
  <2> QED
    BY <2>3, <2>4 DEF AtItsEnd
<1>2. ASSUME Kind[p] # "ceph", NEW t \in Ran(RunTargets[p])
      PROVE  \E h \in 1 .. a - 1 : Does(p, h) = "validate" /\ Whom(p, h) = t
  <2>0. PICK k \in 1 .. n : RunTargets[p][k] = t
    BY DEF Ran, n
  <2>1. PICK h \in 1 .. Count(p) : PveIs(p, h, 15, k)
    <3>1. k \in 0 .. n /\ (k # 0 <=> 15 \in 11 .. 17) /\ 15 \in 1 .. 19 /\ 15 # 17
      BY <1>0, <2>0
    <3> QED
      BY ONLY <1>2, <3>1, PveHas DEF Count, n
  <2>2. At(p, h) = 7 * k + 8 /\ Does(p, h) = "validate" /\ Whom(p, h) = t
    BY <1>0, <2>0, <2>1, PveLines DEF PveIs, Does, Whom
  <2>3. CASE a = Count(p) + 1
    BY <1>0, <2>2, <2>3
  <2>4. CASE a \in 1 .. Count(p) /\ Does(p, a) = "report"
    <3>1. PICK i, m : PveIs(p, a, i, m)
      BY <1>2, <2>4, PveStep DEF Count
    <3>2. i = 19
      BY <2>4, <3>1, PveLines DEF PveIs, Does
    <3>3. At(p, a) = 7 * n + 12
      BY <1>0, <3>1, <3>2 DEF PveIs, n
    <3>4. At(p, h) < At(p, a)
      BY <1>0, <2>2, <3>3
    <3> QED
      BY <1>0, <2>2, <2>4, <3>4
  <2> QED
    BY <2>3, <2>4 DEF AtItsEnd
<1> QED
  BY <1>1, <1>2

-----------------------------------------------------------------------------
(* Where a run stands, and how a step moves it *)

Midway == {"flag", "look", "back", "cleared", "prove"}

\* A run is at one of its steps or past the last, and inside a step only where there is
\* an inside.
Fits(j) ==
  LET p == of[j]  a == run[j].at  part == run[j].part IN
  /\ a \in 1 .. Count(p) + 1
  /\ part \in Midway => a <= Count(p)
  /\ part = "flag" => Does(p, a) \in {"noout", "reboot"}
  /\ part \in {"look", "back"} => Does(p, a) = "reboot"
  /\ part = "cleared" => Does(p, a) \in {"unset", "validate"}
  /\ part = "prove" => Does(p, a) = "validate"

Unheld == {"NONE"} \union TERMINAL_JOB_STATUSES

\* Nothing is left of the run of a job that is over.
RunsFit ==
  \A j \in Job : /\ row[j] # "NONE" => Fits(j)
                 /\ row[j] \in Unheld => run[j] = NoRun

\* What the step a run is at has shown when it is left, and on the way.
Here(j) == Whom(of[j], run[j].at)
Shown(j) ==
  /\ Does(of[j], run[j].at) = "validate" => release[Here(j)] = "new"
  /\ Does(of[j], run[j].at) = "verify" => AllOn(of[j], {"new"})
OnTheWay(j) ==
  run[j].part = "prove" \/ (run[j].part = "cleared" /\ Does(of[j], run[j].at) = "validate") =>
    release[Here(j)] = "new"

\* A step goes on to the next, or into the midst of itself, ...
GoesOn(j)  == Onward(j) /\ run[j].at <= Count(of[j]) /\ Shown(j)
GoesIn(j)  == \E part \in Midway :
                /\ Into(j, part) /\ run[j].at <= Count(of[j])
                /\ part = "flag" => Does(of[j], run[j].at) \in {"noout", "reboot"}
                /\ part \in {"look", "back"} => Does(of[j], run[j].at) = "reboot"
                /\ part = "cleared" => Does(of[j], run[j].at) \in {"unset", "validate"}
                /\ part = "prove" => Does(of[j], run[j].at) = "validate"
                /\ part = "prove" \/ (part = "cleared" /\ Does(of[j], run[j].at) = "validate") =>
                     release[Here(j)] = "new"
\* ... or to the clean-up, or waits, or the job ends.
GoesUndo(j) == /\ UNCHANGED <<row, of, queued>>
               /\ \E r \in Run : /\ run' = [run EXCEPT ![j] = r] /\ r.at = run[j].at
                                 /\ r.part \in Undoing
Waits(j)    == Parks(j) /\ run[j].at <= Count(of[j]) /\ run[j].part = "go"
GoesOut(j)  == \E as \in TERMINAL_JOB_STATUSES :
                 Ends(j, as) /\ (as = "SUCCEEDED" => run[j].at > Count(of[j]))

Advances(j) == GoesOn(j) \/ GoesIn(j) \/ GoesUndo(j) \/ Waits(j) \/ GoesOut(j)

\* The steps that neither show anything nor have an inside.
Plain == {"facts", "latest8", "checks", "recheck", "automatic", "approved", "report", "repository",
          "repositories", "packages", "restart", "settle", "require", "evacuate", "return", "final",
          "ask", "canary", "gate", "noout", "unset", "reboot"}

\* A job works on the step it is at.
LEMMA DoingIs ==
  ASSUME NEW j \in Job, NEW act, Doing(j, act)
  PROVE  /\ Does(of[j], run[j].at) = act /\ run[j].at <= Count(of[j]) /\ It(j) = Here(j)
         /\ row[j] = "RUNNING" /\ run[j].alive /\ run[j].part = "go"
BY DEF Doing, Does, Count, Now, It, Here, Whom, In

LEMMA PlainGoesOn ==
  ASSUME NEW j \in Job, NEW act \in Plain, Doing(j, act), Onward(j)
  PROVE  GoesOn(j)
<1>1. act # "validate" /\ act # "verify"
  BY DEF Plain
<1> QED
  BY <1>1, DoingIs DEF GoesOn, Shown

LEMMA GivesUp ==
  ASSUME TypeInv, NEW j \in Job, NEW ending \in {"FAILED", "CANCELLED"}, GiveUp(j, ending)
  PROVE  GoesUndo(j)
<1> DEFINE r == [run[j] EXCEPT !.part = "undo", !.ending = ending]
<1>1. run[j] \in Run
  BY DEF TypeInv, JobTypes
<1>2. r \in Run /\ r.at = run[j].at /\ r.part = "undo"
  BY <1>1 DEF Run, Undoing
<1>3. run' = [run EXCEPT ![j] = r] /\ UNCHANGED <<row, of, queued>>
  BY DEF GiveUp
<1> HIDE DEF r
<1> QED
  BY <1>2, <1>3 DEF GoesUndo, Undoing

LEMMA UndoesOn ==
  ASSUME TypeInv, NEW j \in Job, NEW part \in Undoing, Into(j, part)
  PROVE  GoesUndo(j)
<1> DEFINE r == [run[j] EXCEPT !.part = part]
<1>1. run[j] \in Run
  BY DEF TypeInv, JobTypes
<1>2. r \in Run /\ r.at = run[j].at /\ r.part = part
  BY <1>1 DEF Run, Undoing
<1>3. run' = [run EXCEPT ![j] = r] /\ UNCHANGED <<row, of, queued>>
  BY DEF Into
<1> HIDE DEF r
<1> QED
  BY <1>2, <1>3 DEF GoesUndo

\* What a job's step does to its run.
LEMMA WorkAdvances ==
  ASSUME TypeInv, RunsFit, \A i \in Job : OnTheWay(i), NEW j \in Job, Work(j)
  PROVE  Advances(j)
<1>0. row[j] = "RUNNING" /\ Fits(j) /\ OnTheWay(j)
  <2>1. row[j] = "RUNNING"
    BY WorkIsStep DEF IsStep
  <2> QED
    BY <2>1 DEF RunsFit
\* One step after another, ...
<1>plain. ASSUME \/ Facts(j) \/ Latest8(j) \/ Checks(j) \/ Recheck(j)
                 \/ \E mode \in {"AUTOMATIC", "APPROVED"} : Apply(j, mode)
                 \/ Report(j) \/ Repository(j) \/ Packages(j) \/ Restart(j) \/ Settle(j)
                 \/ Evacuate(j) \/ Return(j) \/ Final(j)
          PROVE  Advances(j)
  <2>1. Onward(j) /\ \E act \in Plain : Doing(j, act)
    BY <1>plain
    DEF Facts, Latest8, Checks, Recheck, Apply, Applies, Report, Repository, Packages, Restart,
        Settle, Evacuate, Return, Final, Plain
  <2> QED
    BY <2>1, PlainGoesOn DEF Advances
<1>Proven. ASSUME Proven(j) PROVE Advances(j)
  <2>1. Onward(j) /\ AllOn(of[j], {"new"}) /\ (Doing(j, "require") \/ Doing(j, "verify"))
    BY <1>Proven DEF Proven, Plan
  <2>2. Does(of[j], run[j].at) \in {"require", "verify"} /\ run[j].at <= Count(of[j])
    BY <2>1, DoingIs
  <2> QED
    BY <2>1, <2>2 DEF Advances, GoesOn, Shown
<1>Gate. ASSUME Gate(j) PROVE Advances(j)
  <2>1. \E act \in {"ask", "canary"} : Doing(j, act)
    BY <1>Gate DEF Gate
  <2>2. Parks(j) \/ Onward(j)
    BY <1>Gate DEF Gate
  <2>3. run[j].at <= Count(of[j]) /\ run[j].part = "go"
    BY <2>1, DoingIs
  <2>4. CASE Onward(j)
    BY <2>1, <2>4, PlainGoesOn DEF Plain, Advances
  <2>5. CASE Parks(j)
    BY <2>3, <2>5 DEF Advances, Waits
  <2> QED
    BY <2>2, <2>4, <2>5
<1>ChecksGate. ASSUME ChecksGate(j) PROVE Advances(j)
  <2>1. Doing(j, "gate") /\ (GiveUp(j, "FAILED") \/ Onward(j))
    BY <1>ChecksGate DEF ChecksGate
  <2> QED
    BY <2>1, PlainGoesOn, GivesUp DEF Plain, Advances
<1>ApplyFails. ASSUME NEW mode \in {"AUTOMATIC", "APPROVED"}, ApplyFails(j, mode)
               PROVE  Advances(j)
  BY <1>ApplyFails, GivesUp DEF ApplyFails, Advances
<1>Succeed. ASSUME Succeed(j) PROVE Advances(j)
  <2>1. Ends(j, "SUCCEEDED") /\ run[j].at > Count(of[j])
    BY <1>Succeed DEF Succeed, Plan, Count
  <2> QED
    BY <2>1 DEF Advances, GoesOut, TERMINAL_JOB_STATUSES
\* ... and those that have an inside.
<1>NooutSet. ASSUME NooutSet(j) PROVE Advances(j)
  <2>1. Doing(j, "noout") /\ (Onward(j) \/ Into(j, "flag"))
    BY <1>NooutSet DEF NooutSet
  <2>2. CASE Onward(j)
    BY <2>1, <2>2, PlainGoesOn DEF Plain, Advances
  <2>3. CASE Into(j, "flag")
    BY <2>1, <2>3, DoingIs DEF GoesIn, Midway, Advances
  <2> QED
    BY <2>1, <2>2, <2>3
<1>NooutUnset. ASSUME NooutUnset(j) PROVE Advances(j)
  <2>1. Doing(j, "unset") /\ (Onward(j) \/ Into(j, "cleared"))
    BY <1>NooutUnset DEF NooutUnset
  <2>2. CASE Onward(j)
    BY <2>1, <2>2, PlainGoesOn DEF Plain, Advances
  <2>3. CASE Into(j, "cleared")
    BY <2>1, <2>3, DoingIs DEF GoesIn, Midway, Advances
  <2> QED
    BY <2>1, <2>2, <2>3
<1>Reboot. ASSUME Reboot(j) PROVE Advances(j)
  <2>1. Doing(j, "reboot") /\ (Onward(j) \/ Into(j, "flag") \/ Into(j, "look"))
    BY <1>Reboot DEF Reboot
  <2>2. CASE Onward(j)
    BY <2>1, <2>2, PlainGoesOn DEF Plain, Advances
  <2>3. CASE Into(j, "flag") \/ Into(j, "look")
    BY <2>1, <2>3, DoingIs DEF GoesIn, Midway, Advances
  <2> QED
    BY <2>1, <2>2, <2>3
<1>Flag. ASSUME Flag(j) PROVE Advances(j)
  <2>1. In(j, "flag") /\ IF Now(j).do = "reboot" THEN Into(j, "look") ELSE Onward(j)
    BY <1>Flag DEF Flag
  <2>2. Now(j).do = Does(of[j], run[j].at)
    BY DEF Now, Does
  <2>3. run[j].at <= Count(of[j]) /\ Does(of[j], run[j].at) \in {"noout", "reboot"}
    BY <1>0, <2>1 DEF Fits, In, Midway
  <2>4. CASE Does(of[j], run[j].at) = "reboot"
    BY <2>1, <2>2, <2>3, <2>4 DEF GoesIn, Midway, Advances
  <2>5. CASE Does(of[j], run[j].at) = "noout"
    BY <2>1, <2>2, <2>3, <2>5 DEF GoesOn, Shown, Advances
  <2> QED
    BY <2>3, <2>4, <2>5
<1>OrderReboot. ASSUME OrderReboot(j) PROVE Advances(j)
  <2>1. In(j, "look") /\ Into(j, "back")
    BY <1>OrderReboot DEF OrderReboot
  <2>2. run[j].at <= Count(of[j]) /\ Does(of[j], run[j].at) = "reboot"
    BY <1>0, <2>1 DEF Fits, In, Midway
  <2> QED
    BY <2>1, <2>2 DEF GoesIn, Midway, Advances
<1>SeenBack. ASSUME SeenBack(j) PROVE Advances(j)
  <2>1. In(j, "back") /\ Onward(j)
    BY <1>SeenBack DEF SeenBack
  <2>2. run[j].at <= Count(of[j]) /\ Does(of[j], run[j].at) = "reboot"
    BY <1>0, <2>1 DEF Fits, In, Midway
  <2> QED
    BY <2>1, <2>2 DEF GoesOn, Shown, Advances
<1>Validate. ASSUME Validate(j) PROVE Advances(j)
  <2>1. /\ Doing(j, "validate") /\ release[It(j)] = "new"
        /\ Into(j, "cleared") \/ Into(j, "prove")
    BY <1>Validate DEF Validate
  <2> QED
    BY <2>1, DoingIs DEF GoesIn, Midway, Advances
<1>Cleared. ASSUME Cleared(j) PROVE Advances(j)
  <2>1. In(j, "cleared") /\ IF Now(j).do = "validate" THEN Into(j, "prove") ELSE Onward(j)
    BY <1>Cleared DEF Cleared
  <2>2. Now(j).do = Does(of[j], run[j].at)
    BY DEF Now, Does
  <2>3. run[j].at <= Count(of[j]) /\ Does(of[j], run[j].at) \in {"unset", "validate"}
    BY <1>0, <2>1 DEF Fits, In, Midway
  <2>4. CASE Does(of[j], run[j].at) = "validate"
    <3>1. release[Here(j)] = "new"
      BY <1>0, <2>1, <2>4 DEF OnTheWay, In
    <3> QED
      BY <2>1, <2>2, <2>3, <2>4, <3>1 DEF GoesIn, Midway, Advances
  <2>5. CASE Does(of[j], run[j].at) = "unset"
    BY <2>1, <2>2, <2>3, <2>5 DEF GoesOn, Shown, Advances
  <2> QED
    BY <2>3, <2>4, <2>5
<1>Prove. ASSUME Prove(j) PROVE Advances(j)
  <2>1. In(j, "prove") /\ Onward(j)
    BY <1>Prove DEF Prove
  <2>2. run[j].at <= Count(of[j]) /\ Does(of[j], run[j].at) = "validate" /\ release[Here(j)] = "new"
    BY <1>0, <2>1 DEF Fits, In, Midway, OnTheWay
  <2> QED
    BY <2>1, <2>2 DEF GoesOn, Shown, Advances
\* Failure, cancellation and the clean-up.
<1>StepFails. ASSUME StepFails(j) \/ Cancelled(j) PROVE Advances(j)
  <2>1. GiveUp(j, "FAILED") \/ GiveUp(j, "CANCELLED")
    BY <1>StepFails DEF StepFails, Cancelled
  <2> QED
    BY <2>1, GivesUp DEF Advances
<1>undoes. ASSUME Undo(j) \/ UndoFails(j) \/ Undone(j) \/ Tell(j) PROVE Advances(j)
  <2>1. \E part \in Undoing : Into(j, part)
    BY <1>undoes DEF Undo, UndoFails, Undone, Tell, Undoing
  <2> QED
    BY <2>1, UndoesOn DEF Advances
<1>End. ASSUME End(j) PROVE Advances(j)
  <2>1. Ends(j, run[j].ending) /\ run[j].part = "end"
    BY <1>End DEF End, In
  <2>2. run[j] \in Run /\ run[j].ending # "none"
    BY <2>1 DEF TypeInv, JobTypes, JobsAreWhole, Undoing
  <2>3. run[j].ending \in {"FAILED", "CANCELLED"}
    BY <2>2 DEF Run
  <2> QED
    BY <2>1, <2>3 DEF Advances, GoesOut, TERMINAL_JOB_STATUSES
<1> QED
  BY <1>plain, <1>Proven, <1>Gate, <1>ChecksGate, <1>ApplyFails, <1>Succeed, <1>NooutSet,
     <1>NooutUnset, <1>Reboot, <1>Flag, <1>OrderReboot, <1>SeenBack, <1>Validate, <1>Cleared,
     <1>Prove, <1>StepFails, <1>undoes, <1>End DEF Work

\* What happens to a job otherwise: it stays where it is, though its row, or its approval,
\* may change; or nothing of a run is there.
Still(i) ==
  /\ row[i] # "NONE" /\ row'[i] # "NONE" /\ of'[i] = of[i]
  /\ run'[i].at = run[i].at /\ run'[i].part = run[i].part
  /\ \/ run'[i].approved = run[i].approved
     \/ row[i] = "WAITING_APPROVAL" /\ run'[i].approved = run[i].at
  /\ (row[i] \in Unheld \/ row'[i] \in Unheld \union {"WAITING_APPROVAL"}) =>
       row'[i] = row[i] /\ run'[i] = run[i]
Blank(i) ==
  /\ run'[i] = NoRun
  /\ \/ row'[i] = "NONE" /\ row[i] = "NONE" /\ of'[i] = of[i]
     \/ row'[i] \in {"FAILED", "CANCELLED"} /\ row[i] # "NONE" /\ of'[i] = of[i]
     \/ row'[i] = "QUEUED" /\ row[i] = "NONE" /\ i = Fresh /\ of'[i] \in Child

LEMMA BesideWork ==
  ASSUME TypeInv, RunsFit, [Next]_vars
  PROVE  (\E j \in Job : Work(j)) \/ \A i \in Job : Still(i) \/ Blank(i)
<1> USE DEF plans, details, jobs, cluster, history
<1>1. \A i \in Job : row[i] = "NONE" => run[i] = NoRun
  BY DEF RunsFit, Unheld
<1>same. ASSUME UNCHANGED <<row, of, run>> PROVE \A i \in Job : Still(i) \/ Blank(i)
  BY <1>1, <1>same DEF Still, Blank
<1>0. CASE UNCHANGED vars
  BY <1>0, <1>same DEF vars
<1>edits. ASSUME NEW j \in Job, WorkerDies(j) \/ AskCancel(j) \/ Claim(j)
          PROVE  \A i \in Job : Still(i) \/ Blank(i)
  <2>1. /\ of' = of /\ row[j] \in {"QUEUED", "RUNNING"} /\ row'[j] = "RUNNING"
        /\ \A i \in Job \ {j} : row'[i] = row[i] /\ run'[i] = run[i]
    BY <1>edits DEF WorkerDies, AskCancel, Claim, TypeInv, JobTypes
  <2>2. run'[j].at = run[j].at /\ run'[j].part = run[j].part /\ run'[j].approved = run[j].approved
    BY <1>edits DEF WorkerDies, AskCancel, Claim, TypeInv, JobTypes, Run
  <2>3. Still(j)
    BY <2>1, <2>2 DEF Still, Unheld, TERMINAL_JOB_STATUSES
  <2> QED
    BY <1>1, <2>1, <2>3 DEF Still, Blank
<1>Approve. ASSUME NEW j \in Job, Approve(j) PROVE \A i \in Job : Still(i) \/ Blank(i)
  <2>1. /\ of' = of /\ row[j] = "WAITING_APPROVAL" /\ row'[j] = "QUEUED"
        /\ \A i \in Job \ {j} : row'[i] = row[i] /\ run'[i] = run[i]
    BY <1>Approve DEF Approve, TypeInv, JobTypes
  <2>2. run'[j].at = run[j].at /\ run'[j].part = run[j].part /\ run'[j].approved = run[j].at
    BY <1>Approve DEF Approve, TypeInv, JobTypes, Run
  <2>3. Still(j)
    BY <2>1, <2>2 DEF Still, Unheld, TERMINAL_JOB_STATUSES
  <2> QED
    BY <1>1, <2>1, <2>3 DEF Still, Blank
<1>ends. ASSUME NEW j \in Job, \/ Reconcile(j)
                               \/ \E as \in {"CANCELLED", "FAILED"} : EndUnheld(j, as)
         PROVE  \A i \in Job : Still(i) \/ Blank(i)
  <2>1. PICK as \in {"CANCELLED", "FAILED"} : Ends(j, as) /\ row[j] # "NONE"
    BY <1>ends DEF Reconcile, EndUnheld
  <2>2. /\ of' = of /\ row'[j] = as /\ run'[j] = NoRun
        /\ \A i \in Job \ {j} : row'[i] = row[i] /\ run'[i] = run[i]
    BY <2>1 DEF Ends, TypeInv, JobTypes
  <2>3. Blank(j)
    BY <2>1, <2>2 DEF Blank
  <2>4. ASSUME NEW i \in Job, i # j PROVE Still(i) \/ Blank(i)
    BY <1>1, <2>2, <2>4 DEF Still, Blank
  <2> QED
    BY <2>3, <2>4
<1>inserts. ASSUME NEW p \in Child, NEW inQueue \in BOOLEAN, Insert(p, inQueue)
            PROVE  \A i \in Job : Still(i) \/ Blank(i)
  <2>1. /\ Fresh \in Job /\ row[Fresh] = "NONE" /\ row' = [row EXCEPT ![Fresh] = "QUEUED"]
        /\ of' = [of EXCEPT ![Fresh] = p] /\ run' = run
    BY <1>inserts, InsertMoves DEF Insert
  <2> QED
    BY <1>1, <2>1 DEF Still, Blank, TypeInv, JobTypes
<1>Retry. ASSUME NEW j \in Job, Retry(j) PROVE \A i \in Job : Still(i) \/ Blank(i)
  <2>1. of[j] \in Child /\ Insert(of[j], TRUE)
    BY <1>Retry DEF Retry, TypeInv, JobsAreWhole
  <2> QED
    BY <2>1, <1>inserts
<1>RunPlan. ASSUME NEW p \in Child, RunPlan(p) PROVE \A i \in Job : Still(i) \/ Blank(i)
  BY <1>RunPlan, <1>inserts DEF RunPlan
<1>CreateJob. ASSUME NEW d \in Driver, CreateJob(d) PROVE \A i \in Job : Still(i) \/ Blank(i)
  <2>1. drv[d].child \in Child
    BY <1>CreateJob DEF CreateJob, Drives, TypeInv, RoundsAreWhole
  <2> QED
    BY <1>CreateJob, <2>1, <1>inserts, <1>same DEF CreateJob
<1>others. ASSUME \/ ApiDies \/ RunComposite \/ \E t \in Target : NodeReturns(t)
                  \/ \E p \in Child, j \in Job : LinkPlan(p, j)
                  \/ \E d \in Driver :
                       \/ \E p \in Child : Notice(d, p)
                       \/ DriverUndoes(d) \/ DriverMisses(d) \/ DriverRecords(d) \/ Mark(d)
                       \/ Stop(d) \/ EndComposite(d) \/ Choose(d) \/ LinkJob(d) \/ Enqueue(d)
                       \/ DriverDies(d)
           PROVE  \A i \in Job : Still(i) \/ Blank(i)
  <2>1. UNCHANGED <<row, of, run>>
    BY <1>others
    DEF ApiDies, RunComposite, NodeReturns, LinkPlan, Notice, DriverUndoes, DriverMisses,
        DriverRecords, Mark, Stop, EndComposite, Choose, LinkJob, Enqueue, DriverDies
  <2> QED
    BY <2>1, <1>same
<1> QED
  BY <1>0, <1>edits, <1>Approve, <1>ends, <1>Retry, <1>RunPlan, <1>CreateJob, <1>others
  DEF Next, Drive

\* Releases only grow.
ReleaseTypes == release \in [Target -> {"old", "installed", "new"}]

LEMMA ReleaseInit == Init => ReleaseTypes
BY UpgradesAssumption DEF Init, ReleaseTypes

LEMMA ReleaseGrows ==
  ASSUME TypeInv, ReleaseTypes, [Next]_vars
  PROVE  ReleaseTypes' /\ \A t \in Target : release[t] = "new" => release'[t] = "new"
<1> USE DEF plans, details, jobs, cluster, history
<1>1. ASSUME NEW T, Installing(T)
      PROVE  ReleaseTypes' /\ \A t \in Target : release[t] = "new" => release'[t] = "new"
  BY <1>1 DEF Installing, ReleaseTypes
<1>2. ASSUME NEW t, \/ release' = [release EXCEPT ![t] = "new"]
                    \/ release' = [release EXCEPT ![t] = IF @ = "installed" THEN "new" ELSE @]
      PROVE  ReleaseTypes' /\ \A u \in Target : release[u] = "new" => release'[u] = "new"
  BY <1>2 DEF ReleaseTypes
<1>3. ASSUME release' = release
      PROVE  ReleaseTypes' /\ \A u \in Target : release[u] = "new" => release'[u] = "new"
  BY <1>3 DEF ReleaseTypes
<1>0. CASE UNCHANGED vars
  BY <1>0, <1>3 DEF vars
<1>works. ASSUME NEW j \in Job, Work(j)
          PROVE  \/ release' = release \/ \E T : Installing(T)
                 \/ \E t : release' = [release EXCEPT ![t] = "new"]
  <2>1. CASE Packages(j)
    BY <2>1 DEF Packages
  <2>2. CASE Restart(j)
    BY <2>2 DEF Restart
  <2>3. CASE StepFails(j)
    BY <2>3 DEF StepFails
  <2>4. CASE \/ Facts(j) \/ Latest8(j) \/ Checks(j) \/ Recheck(j) \/ Gate(j) \/ ChecksGate(j)
             \/ \E mode \in {"AUTOMATIC", "APPROVED"} : Apply(j, mode) \/ ApplyFails(j, mode)
             \/ Report(j) \/ Succeed(j) \/ NooutSet(j) \/ Repository(j) \/ Settle(j) \/ Proven(j)
             \/ NooutUnset(j) \/ Evacuate(j) \/ Reboot(j) \/ Flag(j) \/ OrderReboot(j)
             \/ SeenBack(j)
             \/ Validate(j) \/ Cleared(j) \/ Prove(j) \/ Return(j) \/ Final(j) \/ Cancelled(j)
             \/ Undo(j) \/ UndoFails(j) \/ Undone(j) \/ Tell(j) \/ End(j)
    BY <2>4
    DEF Facts, Latest8, Checks, Recheck, Gate, ChecksGate, Apply, ApplyFails, Report, Succeed,
        NooutSet, Repository, Settle, Proven, NooutUnset, Evacuate, Reboot, Flag, OrderReboot,
        SeenBack, Validate, Cleared, Prove, Return, Final, Cancelled, Undo, UndoFails, Undone,
        Tell, End
  <2> QED
    BY <1>works, <2>1, <2>2, <2>3, <2>4 DEF Work
<1>others. ASSUME \/ \E j \in Job : \/ Claim(j) \/ WorkerDies(j) \/ Reconcile(j)
                                    \/ Approve(j) \/ AskCancel(j) \/ Retry(j)
                                    \/ \E as \in {"CANCELLED", "FAILED"} : EndUnheld(j, as)
                  \/ \E d \in Driver : Drive(d) \/ DriverDies(d)
                  \/ \E p \in Child : RunPlan(p) \/ \E j \in Job : LinkPlan(p, j)
                  \/ ApiDies \/ RunComposite
           PROVE  release' = release
  BY <1>others
  DEF Claim, WorkerDies, Reconcile, Approve, AskCancel, Retry, EndUnheld, Drive, DriverDies,
      RunPlan, LinkPlan, ApiDies, RunComposite, Notice, DriverUndoes, DriverMisses, DriverRecords,
      Mark, Stop, EndComposite, Choose, CreateJob, LinkJob, Enqueue
<1>returns. ASSUME NEW t \in Target, NodeReturns(t)
            PROVE  release' = [release EXCEPT ![t] = IF @ = "installed" THEN "new" ELSE @]
  BY <1>returns DEF NodeReturns
<1> QED
  BY <1>0, <1>1, <1>2, <1>3, <1>works, <1>others, <1>returns DEF Next

-----------------------------------------------------------------------------
(* What a run has shown *)

\* What a run has behind it holds: the nodes it validated, and the daemons it verified,
\* run the new release; and all of them do when it has succeeded.
ShownBehind(j) ==
  \A h \in 1 .. run[j].at - 1 :
    /\ Does(of[j], h) = "validate" => release[Whom(of[j], h)] = "new"
    /\ Does(of[j], h) = "verify" => AllOn(of[j], {"new"})

Soundly(j) ==
  /\ row[j] # "NONE" => Fits(j) /\ ShownBehind(j) /\ OnTheWay(j)
  /\ row[j] \in Unheld => run[j] = NoRun
  /\ row[j] = "SUCCEEDED" => AllOn(of[j], {"new"})

RunsAreSound == \A j \in Job : Soundly(j)

\* A run that has everything behind it has shown everything.
LEMMA ShownAll ==
  ASSUME NEW j \in Job, of[j] \in Child, ShownBehind(j), AtItsEnd(of[j], run[j].at)
  PROVE  AllOn(of[j], {"new"})
<1> DEFINE p == of[j]  a == run[j].at
<1>1. CASE Kind[p] = "ceph"
  <2>1. \E h \in 1 .. a - 1 : Does(p, h) = "verify"
    BY <1>1, ProvenFirst
  <2> QED
    BY <2>1 DEF ShownBehind
<1>2. CASE Kind[p] # "ceph"
  <2>1. \A t \in Ran(RunTargets[p]) : \E h \in 1 .. a - 1 :
          Does(p, h) = "validate" /\ Whom(p, h) = t
    BY <1>2, ProvenFirst
  <2>2. \A t \in Ran(RunTargets[p]) : release[t] = "new"
    BY <2>1 DEF ShownBehind
  <2> QED
    BY <2>2 DEF AllOn, Sequence
<1> QED
  BY <1>1, <1>2

\* Where nothing has been done everything is sound.
LEMMA NoRunIsSound ==
  ASSUME NEW j \in Job, run[j] = NoRun, row[j] # "NONE" => of[j] \in Child, row[j] # "SUCCEEDED"
  PROVE  Soundly(j)
<1>1. run[j].at = 1 /\ run[j].part = "go"
  BY DEF NoRun
<1>2. row[j] # "NONE" => 1 \in 1 .. Count(of[j]) + 1
  BY FactsFirst, InPlaceOrder
<1> QED
  BY <1>1, <1>2 DEF Soundly, Fits, Midway, ShownBehind, OnTheWay

\* What was shown stays shown.
LEMMA ShownStays ==
  ASSUME TypeInv, ReleaseTypes, [Next]_vars
  PROVE  /\ \A p \in Child : AllOn(p, {"new"}) => AllOn(p, {"new"})'
         /\ \A p \in Child : \A a \in 1 .. Count(p) : Does(p, a) = "validate" =>
              (release[Whom(p, a)] = "new" => release'[Whom(p, a)] = "new")
<1>1. \A t \in Target : release[t] = "new" => release'[t] = "new"
  BY ReleaseGrows
<1>2. \A p \in Child : Ran(RunTargets[p]) \subseteq Target
  <2> SUFFICES ASSUME NEW p \in Child, NEW i \in 1 .. Len(RunTargets[p])
               PROVE  RunTargets[p][i] \in Target
    BY DEF Ran
  <2>1. RunTargets[p] \in Seq(Target)
    BY RunTargetsFit
  <2> QED
    BY <2>1
<1>3. \A p \in Child : \A a \in 1 .. Count(p) :
        Does(p, a) = "validate" => Whom(p, a) \in Ran(RunTargets[p])
  BY StepTargets
<1>4. \A p \in Child : AllOn(p, {"new"}) => AllOn(p, {"new"})'
  BY <1>1, <1>2 DEF AllOn, Sequence
<1> QED
  BY <1>1, <1>2, <1>3, <1>4

\* A job whose run goes no further is as sound as it was.
LEMMA StillIsSound ==
  ASSUME TypeInv, ReleaseTypes, [Next]_vars, NEW j \in Job, Soundly(j), Still(j)
  PROVE  Soundly(j)'
<1>1. of[j] \in Child /\ Fits(j) /\ ShownBehind(j) /\ OnTheWay(j)
  BY DEF Still, Soundly, TypeInv, JobsAreWhole
<1>2. Count(of[j]) \in Nat /\ run[j].at \in 1 .. Count(of[j]) + 1
  BY <1>1, InPlaceOrder DEF Fits
<1>3. \A h \in 1 .. run[j].at - 1 : h \in 1 .. Count(of[j])
  BY <1>2
<1>4. Fits(j)'
  BY <1>1 DEF Fits, Still
<1>5. ShownBehind(j)'
  BY <1>1, <1>3, ShownStays DEF ShownBehind, Still
<1>6. OnTheWay(j)'
  <2>1. ASSUME \/ run[j].part = "prove"
               \/ run[j].part = "cleared" /\ Does(of[j], run[j].at) = "validate"
        PROVE  release'[Here(j)] = "new"
    <3>1. Does(of[j], run[j].at) = "validate" /\ run[j].at \in 1 .. Count(of[j])
      BY <1>1, <1>2, <2>1 DEF Fits, Midway
    <3> QED
      BY <1>1, <2>1, <3>1, ShownStays DEF OnTheWay, Here
  <2>2. Here(j)' = Here(j)
    BY DEF Here, Still
  <2> QED
    BY <2>1, <2>2 DEF OnTheWay, Still
<1>7. (row[j] \in Unheld => run[j] = NoRun)'
  BY DEF Soundly, Still
<1>8. (row[j] = "SUCCEEDED" => AllOn(of[j], {"new"}))'
  BY <1>1, ShownStays DEF Soundly, Still, Unheld, TERMINAL_JOB_STATUSES
<1> QED
  BY <1>4, <1>5, <1>6, <1>7, <1>8 DEF Soundly

\* A job whose run moves is sound, too.
LEMMA AdvanceIsSound ==
  ASSUME TypeInv, ReleaseTypes, [Next]_vars, NEW j \in Job, Soundly(j), Work(j), Advances(j)
  PROVE  Soundly(j)'
<1> DEFINE p == of[j]  a == run[j].at  n == Count(p)
<1>0. /\ p \in Child /\ of' = of /\ row[j] = "RUNNING"
      /\ run \in [Job -> Run] /\ row \in [Job -> Statuses]
  <2>1. row[j] = "RUNNING" /\ of' = of
    BY WorkIsStep DEF IsStep, MovesJob
  <2> QED
    BY <2>1 DEF TypeInv, JobTypes, JobsAreWhole, Statuses
<1>1. Fits(j) /\ ShownBehind(j) /\ OnTheWay(j)
  BY <1>0 DEF Soundly
<1>2. n \in Nat /\ a \in 1 .. n + 1
  BY <1>0, <1>1, InPlaceOrder DEF Fits
<1>3. \A h \in 1 .. a - 1 : /\ Does(p, h) = "validate" => release'[Whom(p, h)] = "new"
                            /\ Does(p, h) = "verify" => AllOn(p, {"new"})'
  <2>1. \A h \in 1 .. a - 1 : h \in 1 .. n
    BY <1>2
  <2> QED
    BY <1>0, <1>1, <2>1, ShownStays DEF ShownBehind
<1>4. row'[j] \notin Unheld => row'[j] # "SUCCEEDED" /\ row'[j] # "NONE"
  BY DEF Unheld, TERMINAL_JOB_STATUSES
<1> HIDE DEF p, a, n
<1>at. ASSUME row'[j] = "RUNNING" \/ row'[j] = "WAITING_APPROVAL", run'[j].at = a
       PROVE  ShownBehind(j)'
  BY <1>0, <1>3, <1>at DEF ShownBehind, p
<1>5. CASE GoesOn(j)
  <2>1. row' = row /\ run'[j].at = a + 1 /\ run'[j].part = "go" /\ a <= n
    BY <1>0, <1>5 DEF GoesOn, Onward, Run, a, n, p
  <2>2. /\ Does(p, a) = "validate" => release'[Whom(p, a)] = "new"
        /\ Does(p, a) = "verify" => AllOn(p, {"new"})'
    <3>1. a \in 1 .. n
      BY <1>2, <2>1
    <3> QED
      BY <1>0, <1>5, <3>1, ShownStays DEF GoesOn, Shown, Here, a, p, n
  <2>3. Fits(j)'
    BY <1>0, <1>2, <2>1 DEF Fits, Midway, p, n
  <2>4. ShownBehind(j)'
    <3>1. \A h \in 1 .. a : h \in 1 .. a - 1 \/ h = a
      BY <1>2
    <3>2. ASSUME NEW h \in 1 .. a
          PROVE  /\ Does(p, h) = "validate" => release'[Whom(p, h)] = "new"
                 /\ Does(p, h) = "verify" => AllOn(of[j], {"new"})'
      BY <1>0, <1>3, <2>2, <3>1 DEF p
    <3>3. run'[j].at - 1 = a
      BY <1>2, <2>1
    <3> QED
      BY ONLY <1>0, <3>2, <3>3 DEF ShownBehind, p
  <2>5. OnTheWay(j)'
    BY <2>1 DEF OnTheWay
  <2> QED
    BY <1>0, <2>1, <2>3, <2>4, <2>5 DEF Soundly, Unheld, TERMINAL_JOB_STATUSES
<1>6. CASE GoesIn(j)
  <2>1. PICK part \in Midway :
          /\ Into(j, part) /\ a <= n
          /\ part = "flag" => Does(p, a) \in {"noout", "reboot"}
          /\ part \in {"look", "back"} => Does(p, a) = "reboot"
          /\ part = "cleared" => Does(p, a) \in {"unset", "validate"}
          /\ part = "prove" => Does(p, a) = "validate"
          /\ part = "prove" \/ (part = "cleared" /\ Does(p, a) = "validate") =>
               release[Here(j)] = "new"
    BY <1>6 DEF GoesIn, p, a, n
  <2>2. row' = row /\ run'[j].at = a /\ run'[j].part = part
    BY <1>0, <2>1 DEF Into, Run, a
  <2>3. Fits(j)'
    BY <1>0, <1>2, <2>1, <2>2 DEF Fits, p, n
  <2>4. ShownBehind(j)'
    BY <1>0, <1>at, <2>2
  <2>5. OnTheWay(j)'
    <3>1. ASSUME part = "prove" \/ (part = "cleared" /\ Does(p, a) = "validate")
          PROVE  release'[Here(j)] = "new"
      <4>1. Does(p, a) = "validate" /\ release[Here(j)] = "new" /\ a \in 1 .. n
        BY <1>2, <2>1, <3>1
      <4> QED
        BY <1>0, <4>1, ShownStays DEF Here, a, p, n
    <3>2. Here(j)' = Here(j)
      BY <1>0, <2>2 DEF Here, a
    <3> QED
      BY <1>0, <2>2, <3>1, <3>2 DEF OnTheWay, p
  <2> QED
    BY <1>0, <2>2, <2>3, <2>4, <2>5 DEF Soundly, Unheld, TERMINAL_JOB_STATUSES
<1>7. CASE GoesUndo(j)
  <2>1. row' = row /\ run'[j].at = a /\ run'[j].part \in Undoing
    BY <1>0, <1>7 DEF GoesUndo, a
  <2>2. Fits(j)' /\ OnTheWay(j)'
    BY <1>0, <1>2, <2>1 DEF Fits, OnTheWay, Midway, Undoing, p, n
  <2>3. ShownBehind(j)'
    BY <1>0, <1>at, <2>1
  <2> QED
    BY <1>0, <2>1, <2>2, <2>3 DEF Soundly, Unheld, TERMINAL_JOB_STATUSES
<1>8. CASE Waits(j)
  <2>1. row'[j] = "WAITING_APPROVAL" /\ run'[j].at = a /\ run'[j].part = "go"
    BY <1>0, <1>8 DEF Waits, Parks, Run, a
  <2>2. Fits(j)' /\ OnTheWay(j)'
    BY <1>0, <1>2, <2>1 DEF Fits, OnTheWay, Midway, p, n
  <2>3. ShownBehind(j)'
    BY <1>at, <2>1
  <2> QED
    BY <2>1, <2>2, <2>3 DEF Soundly, Unheld, TERMINAL_JOB_STATUSES
<1>9. CASE GoesOut(j)
  <2>1. PICK as \in TERMINAL_JOB_STATUSES : Ends(j, as) /\ (as = "SUCCEEDED" => a > n)
    BY <1>9 DEF GoesOut, a, n, p
  <2>2. row'[j] = as /\ run'[j] = NoRun
    BY <1>0, <2>1 DEF Ends
  <2>3. as = "SUCCEEDED" => AllOn(p, {"new"})'
    <3>1. as = "SUCCEEDED" => AtItsEnd(p, a)
      BY <1>2, <2>1 DEF AtItsEnd, n
    <3>2. as = "SUCCEEDED" => AllOn(p, {"new"})
      BY <1>0, <1>1, <3>1, ShownAll DEF p, a
    <3> QED
      BY <1>0, <3>2, ShownStays DEF p
  <2>4. run'[j].at = 1 /\ run'[j].part = "go" /\ 1 \in 1 .. n + 1
    BY <1>0, <2>2, FactsFirst, InPlaceOrder DEF NoRun, n
  <2>5. Fits(j)' /\ ShownBehind(j)' /\ OnTheWay(j)'
    BY <1>0, <2>4 DEF Fits, Midway, ShownBehind, OnTheWay, p, n
  <2> QED
    BY <1>0, <2>2, <2>3, <2>5 DEF Soundly, p
<1> QED
  BY <1>5, <1>6, <1>7, <1>8, <1>9 DEF Advances

\* Every step keeps every run sound.
LEMMA SoundStep ==
  ASSUME TypeInv, ReleaseTypes, RunsAreSound, [Next]_vars
  PROVE  RunsAreSound'
<1>1. RunsFit /\ \A i \in Job : OnTheWay(i)
  <2>1. \A i \in Job : row[i] = "NONE" => run[i].part = "go"
    BY DEF RunsAreSound, Soundly, Unheld, NoRun
  <2> QED
    BY <2>1 DEF RunsAreSound, Soundly, RunsFit, OnTheWay
<1>2. CASE \E j \in Job : Work(j)
  <2>1. PICK j \in Job : Work(j)
    BY <1>2
  <2>2. Soundly(j)'
    BY <1>1, <2>1, WorkAdvances, AdvanceIsSound DEF RunsAreSound
  <2>3. ASSUME NEW i \in Job, i # j PROVE Soundly(i)'
    <3>1. row'[i] = row[i] /\ run'[i] = run[i] /\ of' = of
      BY <2>1, <2>3, WorkIsStep DEF IsStep, MovesJob
    <3>2. CASE row[i] = "NONE"
      BY <3>1, <3>2 DEF RunsAreSound, Soundly
    <3>3. CASE row[i] # "NONE"
      BY <3>1, <3>3, StillIsSound DEF Still, RunsAreSound
    <3> QED
      BY <3>2, <3>3
  <2> QED
    BY <2>2, <2>3 DEF RunsAreSound
<1>3. CASE \A i \in Job : Still(i) \/ Blank(i)
  <2>1. ASSUME NEW i \in Job, Still(i) PROVE Soundly(i)'
    BY <2>1, StillIsSound DEF RunsAreSound
  <2>2. ASSUME NEW i \in Job, Blank(i) PROVE Soundly(i)'
    <3>1. run'[i] = NoRun /\ row'[i] # "SUCCEEDED" /\ (row'[i] # "NONE" => of'[i] \in Child)
      BY <2>2 DEF Blank, TypeInv, JobsAreWhole
    <3>2. run'[i].at = 1 /\ run'[i].part = "go"
      BY <3>1 DEF NoRun
    <3>3. row'[i] # "NONE" => 1 \in 1 .. Count(of'[i]) + 1
      BY <3>1, FactsFirst, InPlaceOrder
    <3> QED
      BY <3>1, <3>2, <3>3 DEF Soundly, Fits, Midway, ShownBehind, OnTheWay
  <2> QED
    BY <1>3, <2>1, <2>2 DEF RunsAreSound
<1> QED
  BY <1>1, <1>2, <1>3, BesideWork

-----------------------------------------------------------------------------
(* The order of the children *)

\* The next child is the first that is not complete.
LEMMA NextIsFirst ==
  ASSUME Incomplete # {}
  PROVE  \E m \in DOMAIN Order : /\ NextChild = Order[m]
                                 /\ \A i \in DOMAIN Order : i < m => status[Order[i]] = "COMPLETED"
<1>1. Incomplete \subseteq DOMAIN Order /\ DOMAIN Order \subseteq Nat
  BY UpgradesAssumption DEF Incomplete
<1>2. PICK i \in Incomplete : \A h \in Incomplete : ~ (<<h, i>> \in OpToRel(<, Nat))
  BY <1>1, NatLessThanWellFounded, WFMin, Zenon
<1>3. \A h \in Incomplete : ~ (h < i)
  BY <1>1, <1>2, Zenon DEF OpToRel
<1>4. \E k \in Incomplete : \A h \in Incomplete : k <= h
  BY <1>1, <1>3
<1> DEFINE m == CHOOSE k \in Incomplete : \A h \in Incomplete : k <= h
<1>5. m \in Incomplete /\ \A h \in Incomplete : m <= h
  BY <1>4
<1>6. NextChild = Order[m]
  BY DEF NextChild
<1> HIDE DEF m
<1>7. \A h \in DOMAIN Order : h < m => h \notin Incomplete
  BY <1>1, <1>5
<1> QED
  BY <1>1, <1>5, <1>6, <1>7 DEF Incomplete

\* A plan names jobs of its own, and so does who is about to name one in it.
OwnJobs ==
  /\ \A p \in Child : named[p] # NoJob => row[named[p]] # "NONE" /\ of[named[p]] = p
  /\ \A l \in linking : row[l[2]] # "NONE" /\ of[l[2]] = l[1]
  /\ \A d \in Driver : drv[d].at \in {"link", "queue"} \union Settling =>
                         row[drv[d].job] # "NONE" /\ of[drv[d].job] = drv[d].child

\* A plan that is complete has its targets on the new release.
CompleteIsNew == \A p \in Child : status[p] = "COMPLETED" => AllOn(p, {"new"})

\* Plans are run by themselves or as a composite, never both.
OneWay ==
  /\ linking # {} => parent = "none"
  /\ \A d \in Driver : drv[d].at \in {"stop", "create", "link"} => parent # "none"

\* A plan that is complete for good: nobody has a job of it, or is about to have one.
Finished(p) ==
  /\ Complete(p)
  /\ \A j \in Job : Active(j) => of[j] # p
  /\ \A d \in Driver : drv[d].child = p => drv[d].at \in {"idle", "stop", "queue"}

Begun(p) ==
  \/ \E j \in Job : of[j] = p
  \/ \E d \in Driver : Drives(d, "create") /\ drv[d].child = p

OneAfterAnother ==
  parent # "none" =>
    \A i, k \in DOMAIN Order : i < k /\ Begun(Order[k]) =>
      Finished(Order[i]) \/ Order[i] \in strayed

OrderInv == OwnJobs /\ CompleteIsNew /\ OneWay /\ OneAfterAnother

\* A job that exists stays, and stays its plan's.
LEMMA OwnersStay ==
  ASSUME TypeInv, RunsFit, \A i \in Job : OnTheWay(i), [Next]_vars
  PROVE  \A j \in Job : row[j] # "NONE" => row'[j] # "NONE" /\ of'[j] = of[j]
<1>1. ASSUME NEW j \in Job, Work(j)
      PROVE  \A i \in Job : row[i] # "NONE" => row'[i] # "NONE" /\ of'[i] = of[i]
  <2>1. IsStep(j)
    BY <1>1, WorkIsStep
  <2>2. row'[j] # "NONE" /\ of' = of /\ \A i \in Job \ {j} : row'[i] = row[i]
    BY <2>1, Words DEF IsStep, MovesJob, TERMINAL_JOB_STATUSES
  <2> QED
    BY <2>2
<1>2. ASSUME \A i \in Job : Still(i) \/ Blank(i)
      PROVE  \A i \in Job : row[i] # "NONE" => row'[i] # "NONE" /\ of'[i] = of[i]
  BY <1>2 DEF Still, Blank
<1> QED
  BY <1>1, <1>2, BesideWork

\* Where a job comes from: a driver that creates one, a retry, or a plan run by itself.
LEMMA JobsCome ==
  ASSUME TypeInv, RunsFit, [Next]_vars, NEW i \in Job, row[i] = "NONE", row'[i] # "NONE"
  PROVE  \/ \E d \in Driver : /\ CreateJob(d) /\ Drives(d, "create") /\ drv[d].child = of'[i]
                              /\ drv'[d] = [drv[d] EXCEPT !.at = "link", !.job = i]
         \/ of'[i] \in strayed' /\ \E j \in Job : row[j] # "NONE" /\ of[j] = of'[i]
         \/ \E p \in Child : RunPlan(p) /\ of'[i] = p /\ i = Fresh
<1> USE DEF plans, details, jobs, cluster, history
<1>inserts. ASSUME NEW p \in Child, NEW inQueue \in BOOLEAN, Insert(p, inQueue)
            PROVE  of'[i] = p /\ i = Fresh
  <2>1. Fresh \in Job /\ row' = [row EXCEPT ![Fresh] = "QUEUED"] /\ of' = [of EXCEPT ![Fresh] = p]
    BY <1>inserts, InsertMoves
  <2>2. i = Fresh
    BY <2>1 DEF TypeInv, JobTypes
  <2> QED
    BY <2>1, <2>2 DEF TypeInv, JobTypes
<1>works. ASSUME NEW j \in Job, Work(j) PROVE FALSE
  <2>1. row[j] = "RUNNING" /\ \A h \in Job \ {j} : row'[h] = row[h]
    BY <1>works, WorkIsStep DEF IsStep, MovesJob
  <2> QED
    BY <2>1
<1>rows. ASSUME \/ row' = row
                \/ \E j \in Job : row[j] # "NONE" /\ \E to : row' = [row EXCEPT ![j] = to]
         PROVE  FALSE
  BY <1>rows DEF TypeInv, JobTypes
<1>0. CASE UNCHANGED vars
  BY <1>0, <1>rows DEF vars
<1>jobs. ASSUME NEW j \in Job, \/ Claim(j) \/ WorkerDies(j) \/ Reconcile(j) \/ Approve(j)
                               \/ AskCancel(j)
                               \/ \E as \in {"CANCELLED", "FAILED"} : EndUnheld(j, as)
         PROVE  FALSE
  <2>1. /\ row[j] # "NONE"
        /\ row' = row \/ \E to : row' = [row EXCEPT ![j] = to]
    BY <1>jobs DEF Claim, WorkerDies, Reconcile, Approve, AskCancel, EndUnheld, Ends
  <2> QED
    BY <2>1, <1>rows
<1>Retry. ASSUME NEW j \in Job, Retry(j)
          PROVE  of'[i] \in strayed' /\ \E h \in Job : row[h] # "NONE" /\ of[h] = of'[i]
  <2>1. /\ of[j] \in Child /\ Insert(of[j], TRUE)
        /\ strayed' = strayed \union {of[j]} /\ row[j] # "NONE"
    BY <1>Retry DEF Retry, TypeInv, JobsAreWhole
  <2> QED
    BY <2>1, <1>inserts
<1>RunPlan. ASSUME NEW p \in Child, RunPlan(p) PROVE of'[i] = p /\ i = Fresh
  BY <1>RunPlan, <1>inserts DEF RunPlan
<1>CreateJob. ASSUME NEW d \in Driver, CreateJob(d)
              PROVE  /\ Drives(d, "create") /\ drv[d].child = of'[i]
                     /\ drv'[d] = [drv[d] EXCEPT !.at = "link", !.job = i]
  <2>1. drv[d].child \in Child /\ Drives(d, "create")
    BY <1>CreateJob DEF CreateJob, Drives, TypeInv, RoundsAreWhole
  <2>2. Insert(drv[d].child, FALSE) /\ drv' = [drv EXCEPT ![d].at = "link", ![d].job = Fresh]
    BY <1>CreateJob, <1>rows DEF CreateJob
  <2>3. of'[i] = drv[d].child /\ i = Fresh
    BY <2>1, <2>2, <1>inserts
  <2>4. drv'[d] = [drv[d] EXCEPT !.at = "link", !.job = Fresh]
    BY <2>2 DEF TypeInv, RoundTypes, Round
  <2> QED
    BY <2>1, <2>3, <2>4
<1>others. ASSUME \/ ApiDies \/ RunComposite \/ \E t \in Target : NodeReturns(t)
                  \/ \E p \in Child, j \in Job : LinkPlan(p, j)
                  \/ \E d \in Driver :
                       \/ \E p \in Child : Notice(d, p)
                       \/ DriverUndoes(d) \/ DriverMisses(d) \/ DriverRecords(d) \/ Mark(d)
                       \/ Stop(d) \/ EndComposite(d) \/ Choose(d) \/ LinkJob(d) \/ Enqueue(d)
                       \/ DriverDies(d)
           PROVE  FALSE
  <2>1. row' = row
    BY <1>others
    DEF ApiDies, RunComposite, NodeReturns, LinkPlan, Notice, DriverUndoes, DriverMisses,
        DriverRecords, Mark, Stop, EndComposite, Choose, LinkJob, Enqueue, DriverDies
  <2> QED
    BY <2>1, <1>rows
<1> QED
  BY <1>0, <1>works, <1>jobs, <1>Retry, <1>RunPlan, <1>CreateJob, <1>others DEF Next, Drive

\* What the drivers turn to: nothing, the end of a composite, the child they are at, one
\* that runs or one that is next.
LEMMA DriversTurn ==
  ASSUME TypeInv, [Next]_vars, NEW d \in Driver
  PROVE  \/ drv'[d] = drv[d]
         \/ drv'[d] = Idle
         \/ /\ drv'[d].at = "stop" /\ parent = "RUNNING"
            /\ status' = [p \in Child |-> IF status[p] = "DRAFT" THEN "CANCELLED" ELSE status[p]]
         \/ /\ drv[d].at \in {"create", "link"} \union Settling
            /\ drv'[d].child = drv[d].child
            /\ \/ /\ drv[d].at = "create" /\ drv'[d].at = "link" /\ drv'[d].job = Fresh
                  /\ Insert(drv[d].child, FALSE)
               \/ drv[d].at = "link" /\ drv'[d].at = "queue" /\ drv'[d].job = drv[d].job
               \/ drv[d].at \in Settling /\ drv'[d].at \in Settling /\ drv'[d].job = drv[d].job
         \/ \E p \in Child : Notice(d, p) /\ drv'[d].child = p /\ drv'[d].at \in {"mark", "undo"}
                             /\ drv'[d].job = named[p]
         \/ Choose(d) /\ drv'[d].at = "create" /\ drv'[d].child = NextChild
<1> USE DEF plans, details, jobs, cluster, history
<1>0. CASE UNCHANGED drv
  BY <1>0
<1>1. CASE UNCHANGED vars
  BY <1>0, <1>1 DEF vars
<1>2. CASE \E j \in Job : Work(j)
  BY <1>0, <1>2, WorkIsStep DEF IsStep, MovesPlan
<1>3. CASE \/ \E j \in Job : \/ Claim(j) \/ WorkerDies(j) \/ Reconcile(j)
                             \/ Approve(j) \/ AskCancel(j) \/ Retry(j)
                             \/ \E as \in {"CANCELLED", "FAILED"} : EndUnheld(j, as)
           \/ \E p \in Child : RunPlan(p) \/ \E j \in Job : LinkPlan(p, j)
           \/ ApiDies \/ RunComposite
           \/ \E t \in Target : NodeReturns(t)
  BY <1>0, <1>3
  DEF Claim, WorkerDies, Reconcile, Approve, AskCancel, Retry, EndUnheld, RunPlan, LinkPlan,
      ApiDies, RunComposite, NodeReturns
<1>drives. ASSUME NEW e \in Driver, NEW r, drv' = [drv EXCEPT ![e] = r]
           PROVE  IF e = d THEN drv'[d] = r ELSE drv'[d] = drv[d]
  BY <1>drives DEF TypeInv, RoundTypes
<1>goes. ASSUME NEW e \in Driver, NEW at, Goes(e, at)
         PROVE  \/ drv'[d] = drv[d]
               
                \/ e = d /\ drv'[d].at = at /\ drv'[d].child = drv[d].child /\ drv'[d].job = drv[d].job
  BY <1>goes DEF Goes, TypeInv, RoundTypes, Round
<1>4. ASSUME NEW e \in Driver, Mark(e) \/ EndComposite(e) \/ Enqueue(e) \/ DriverDies(e) \/ Rests(e)
      PROVE  drv'[d] = drv[d] \/ drv'[d] = Idle
  <2>1. drv' = [drv EXCEPT ![e] = Idle]
    BY <1>4 DEF Mark, EndComposite, Enqueue, DriverDies, Rests
  <2> QED
    BY <2>1, <1>drives
<1>5. ASSUME NEW e \in Driver, Stop(e)
      PROVE  \/ drv'[d] = drv[d]
             \/ /\ drv'[d].at = "stop" /\ parent = "RUNNING"
                /\ status' = [p \in Child |-> IF status[p] = "DRAFT" THEN "CANCELLED" ELSE status[p]]
  BY <1>5, <1>goes DEF Stop
<1>6. ASSUME NEW e \in Driver, DriverUndoes(e) \/ DriverMisses(e) \/ DriverRecords(e)
      PROVE  \/ drv'[d] = drv[d]
             \/ /\ drv[d].at \in Settling /\ drv'[d].at \in Settling
                /\ drv'[d].child = drv[d].child /\ drv'[d].job = drv[d].job
  <2>1. drv[e].at \in Settling /\ (Goes(e, "undone") \/ Goes(e, "mark"))
    BY <1>6 DEF DriverUndoes, DriverMisses, DriverRecords, Drives, Settling
  <2> QED
    BY <2>1, <1>goes DEF Settling
<1>7. ASSUME NEW e \in Driver, LinkJob(e)
      PROVE  \/ drv'[d] = drv[d]
             \/ /\ drv[d].at = "link" /\ drv'[d].at = "queue"
                /\ drv'[d].child = drv[d].child /\ drv'[d].job = drv[d].job
  BY <1>7, <1>goes DEF LinkJob, Drives
<1>8. ASSUME NEW e \in Driver, CreateJob(e)
      PROVE  \/ drv'[d] = drv[d] \/ drv'[d] = Idle
             \/ /\ drv[d].at = "create" /\ drv'[d].at = "link" /\ drv'[d].child = drv[d].child
                /\ drv'[d].job = Fresh /\ Insert(drv[d].child, FALSE)
  <2>1. CASE Rests(e)
    BY <1>4, <2>1
  <2>2. CASE drv' = [drv EXCEPT ![e].at = "link", ![e].job = Fresh] /\ Insert(drv[e].child, FALSE)
    BY <1>8, <2>2 DEF CreateJob, Drives, TypeInv, RoundTypes, Round
  <2> QED
    BY <1>8, <2>1, <2>2 DEF CreateJob
<1>9. ASSUME NEW e \in Driver, NEW p \in Child, Notice(e, p)
      PROVE  \/ drv'[d] = drv[d]
             \/ /\ Notice(d, p) /\ drv'[d].child = p /\ drv'[d].at \in {"mark", "undo"}
                /\ drv'[d].job = named[p]
  <2> DEFINE at == IF row[named[p]] = "SUCCEEDED" THEN "mark" ELSE "undo"
  <2>1. drv' = [drv EXCEPT ![e] = [at |-> at, child |-> p, job |-> named[p]]]
    BY <1>9 DEF Notice
  <2>2. at \in {"mark", "undo"}
    OBVIOUS
  <2> HIDE DEF at
  <2> QED
    BY <1>9, <2>1, <2>2, <1>drives
<1>10. ASSUME NEW e \in Driver, Choose(e)
       PROVE  \/ drv'[d] = drv[d]
              \/ Choose(d) /\ drv'[d].at = "create" /\ drv'[d].child = NextChild
  <2>1. drv' = [drv EXCEPT ![e] = [at |-> "create", child |-> NextChild, job |-> NoJob]]
    BY <1>10 DEF Choose
  <2> QED
    BY <1>10, <2>1, <1>drives
<1> QED
  BY <1>1, <1>2, <1>3, <1>4, <1>5, <1>6, <1>7, <1>8, <1>9, <1>10 DEF Next, Drive

\* Who writes a plan's status, ...
LEMMA StatusMoves ==
  ASSUME TypeInv, [Next]_vars, NEW p \in Child
  PROVE  \/ status'[p] = status[p]
         \/ \E j \in Job : Work(j) /\ of[j] = p /\ (status'[p] = "COMPLETED" => Report(j))
         \/ \E j \in Job : LinkPlan(p, j) /\ status'[p] = "RUNNING"
         \/ \E d \in Driver : LinkJob(d) /\ drv[d].child = p /\ status'[p] = "RUNNING"
         \/ \E d \in Driver : Mark(d) /\ drv[d].child = p /\ status'[p] = Became(drv[d].job)
         \/ \E d \in Driver : Stop(d) /\ status[p] = "DRAFT" /\ status'[p] = "CANCELLED"
<1> USE DEF plans, details, jobs, cluster, history
<1>same. ASSUME status' = status PROVE status'[p] = status[p]
  BY <1>same
<1>one. ASSUME NEW q, NEW v, status' = [status EXCEPT ![q] = v]
        PROVE  IF q = p THEN status'[p] = v ELSE status'[p] = status[p]
  BY <1>one DEF TypeInv, PlanTypes
<1>0. CASE UNCHANGED vars
  BY <1>0, <1>same DEF vars
<1>Facts. ASSUME NEW j \in Job, Facts(j)
          PROVE  status'[p] = status[p] \/ (of[j] = p /\ status'[p] = "RUNNING")
  BY <1>Facts, <1>one DEF Facts, Sets, Plan
<1>ChecksGate. ASSUME NEW j \in Job, ChecksGate(j)
               PROVE  status'[p] = status[p] \/ (of[j] = p /\ status'[p] = "BLOCKED")
  BY <1>ChecksGate, <1>one DEF ChecksGate, Sets, Plan
<1>Report. ASSUME NEW j \in Job, Report(j)
           PROVE  status'[p] = status[p] \/ of[j] = p
  BY <1>Report, <1>one DEF Report, Sets, Plan
<1>Tell. ASSUME NEW j \in Job, Tell(j)
         PROVE  \/ status'[p] = status[p]
                \/ of[j] = p /\ status'[p] \in {"CANCELLED", "BLOCKED", "FAILED"}
  <2>1. \E v \in {"CANCELLED", "BLOCKED", "FAILED"} : status' = [status EXCEPT ![of[j]] = v]
    BY <1>Tell DEF Tell, Sets, Plan
  <2> QED
    BY <2>1, <1>one
<1>works. ASSUME NEW j \in Job, Work(j)
          PROVE  \/ status'[p] = status[p]
                 \/ of[j] = p /\ (status'[p] = "COMPLETED" => Report(j))
  <2>1. CASE \/ Latest8(j) \/ Checks(j) \/ Recheck(j) \/ Gate(j)
             \/ \E mode \in {"AUTOMATIC", "APPROVED"} : Apply(j, mode) \/ ApplyFails(j, mode)
             \/ Succeed(j) \/ NooutSet(j) \/ Repository(j) \/ Packages(j) \/ Restart(j)
             \/ Settle(j) \/ Proven(j)
             \/ NooutUnset(j) \/ Evacuate(j) \/ Reboot(j) \/ Flag(j) \/ OrderReboot(j)
             \/ SeenBack(j)
             \/ Validate(j) \/ Cleared(j) \/ Prove(j) \/ Return(j) \/ Final(j) \/ StepFails(j)
             \/ Cancelled(j) \/ Undo(j) \/ UndoFails(j) \/ Undone(j) \/ End(j)
    BY <2>1
    DEF Latest8, Checks, Recheck, Gate, Apply, ApplyFails, Succeed, NooutSet, Repository, Packages,
        Restart, Settle, Proven, NooutUnset, Evacuate, Reboot, Flag, OrderReboot, SeenBack,
        Validate,
        Cleared, Prove, Return, Final, StepFails, Cancelled, Undo, UndoFails, Undone, End
  <2> QED
    BY <1>works, <1>Facts, <1>ChecksGate, <1>Report, <1>Tell, <2>1 DEF Work
<1>links. ASSUME NEW q \in Child, NEW j \in Job, LinkPlan(q, j)
          PROVE  status'[p] = status[p] \/ (p = q /\ status'[p] = "RUNNING")
  BY <1>links, <1>one DEF LinkPlan, Sets
<1>LinkJob. ASSUME NEW d \in Driver, LinkJob(d)
            PROVE  status'[p] = status[p] \/ (drv[d].child = p /\ status'[p] = "RUNNING")
  BY <1>LinkJob, <1>one DEF LinkJob, Sets
<1>Mark. ASSUME NEW d \in Driver, Mark(d)
         PROVE  status'[p] = status[p] \/ (drv[d].child = p /\ status'[p] = Became(drv[d].job))
  BY <1>Mark, <1>one DEF Mark, Sets
<1>Stop. ASSUME NEW d \in Driver, Stop(d)
         PROVE  status'[p] = status[p] \/ (status[p] = "DRAFT" /\ status'[p] = "CANCELLED")
  BY <1>Stop DEF Stop
<1>others. ASSUME \/ \E j \in Job : \/ Claim(j) \/ WorkerDies(j) \/ Reconcile(j)
                                    \/ Approve(j) \/ AskCancel(j) \/ Retry(j)
                                    \/ \E as \in {"CANCELLED", "FAILED"} : EndUnheld(j, as)
                  \/ \E d \in Driver :
                       \/ \E q \in Child : Notice(d, q)
                       \/ DriverUndoes(d) \/ DriverMisses(d) \/ DriverRecords(d)
                       \/ EndComposite(d) \/ Choose(d) \/ CreateJob(d) \/ Enqueue(d)
                       \/ DriverDies(d)
                  \/ \E q \in Child : RunPlan(q)
                  \/ ApiDies \/ RunComposite
                  \/ \E t \in Target : NodeReturns(t)
           PROVE  status' = status
  BY <1>others
  DEF Claim, WorkerDies, Reconcile, Approve, AskCancel, Retry, EndUnheld, Notice, DriverUndoes,
      DriverMisses, DriverRecords, EndComposite, Choose, CreateJob, Enqueue, DriverDies, RunPlan,
      ApiDies, RunComposite, NodeReturns
<1> QED
  BY <1>0, <1>same, <1>works, <1>links, <1>LinkJob, <1>Mark, <1>Stop, <1>others DEF Next, Drive

\* ... its job, ...
LEMMA NamedMoves ==
  ASSUME TypeInv, [Next]_vars, NEW p \in Child
  PROVE  \/ named'[p] = named[p]
         \/ \E j \in Job : LinkPlan(p, j) /\ named'[p] = j
         \/ \E d \in Driver : LinkJob(d) /\ drv[d].child = p /\ named'[p] = drv[d].job
<1> USE DEF plans, details, jobs, cluster, history
<1>0. CASE UNCHANGED vars
  BY <1>0 DEF vars
<1>works. ASSUME NEW j \in Job, Work(j) PROVE named' = named
  BY <1>works, WorkIsStep DEF IsStep, MovesPlan
<1>links. ASSUME NEW q \in Child, NEW j \in Job, LinkPlan(q, j)
          PROVE  named'[p] = named[p] \/ (p = q /\ named'[p] = j)
  BY <1>links DEF LinkPlan, Sets, TypeInv, PlanTypes
<1>LinkJob. ASSUME NEW d \in Driver, LinkJob(d)
            PROVE  named'[p] = named[p] \/ (drv[d].child = p /\ named'[p] = drv[d].job)
  BY <1>LinkJob DEF LinkJob, Sets, TypeInv, PlanTypes
<1>others. ASSUME \/ \E j \in Job : \/ Claim(j) \/ WorkerDies(j) \/ Reconcile(j)
                                    \/ Approve(j) \/ AskCancel(j) \/ Retry(j)
                                    \/ \E as \in {"CANCELLED", "FAILED"} : EndUnheld(j, as)
                  \/ \E d \in Driver :
                       \/ \E q \in Child : Notice(d, q)
                       \/ DriverUndoes(d) \/ DriverMisses(d) \/ DriverRecords(d) \/ Mark(d)
                       \/ Stop(d)
                       \/ EndComposite(d) \/ Choose(d) \/ CreateJob(d) \/ Enqueue(d)
                       \/ DriverDies(d)
                  \/ \E q \in Child : RunPlan(q)
                  \/ ApiDies \/ RunComposite
                  \/ \E t \in Target : NodeReturns(t)
           PROVE  named' = named
  BY <1>others
  DEF Claim, WorkerDies, Reconcile, Approve, AskCancel, Retry, EndUnheld, Notice, DriverUndoes,
      DriverMisses, DriverRecords, Mark, Stop, EndComposite, Choose, CreateJob, Enqueue, DriverDies,
      RunPlan, ApiDies, RunComposite, NodeReturns
<1> QED
  BY <1>0, <1>works, <1>links, <1>LinkJob, <1>others DEF Next, Drive

\* ... and the rest of what the API and the drivers keep.
LEMMA ParentMoves ==
  ASSUME TypeInv, [Next]_vars
  PROVE  /\ strayed \subseteq strayed'
         /\ linking' \subseteq linking \/ \E p \in Child : RunPlan(p) /\ linking' = {<<p, Fresh>>}
         /\ \/ parent' = parent
            \/ parent = "DRAFT" /\ parent' = "RUNNING"
            \/ \E d \in Driver : /\ drv[d].at = "stop" \/ parent = "RUNNING"
                                 /\ parent' \in {"FAILED", "COMPLETED"}
<1> USE DEF plans, details, jobs, cluster, history
<1>0. CASE UNCHANGED vars
  BY <1>0 DEF vars
<1>works. ASSUME NEW j \in Job, Work(j) PROVE UNCHANGED <<strayed, linking, parent>>
  BY <1>works, WorkIsStep DEF IsStep, MovesPlan
<1>Retry. ASSUME NEW j \in Job, Retry(j)
          PROVE  strayed \subseteq strayed' /\ UNCHANGED <<linking, parent>>
  BY <1>Retry DEF Retry
<1>links. ASSUME NEW p \in Child, NEW j \in Job, LinkPlan(p, j)
          PROVE  UNCHANGED <<strayed, parent>> /\ linking' \subseteq linking
  BY <1>links DEF LinkPlan
<1>ApiDies. ASSUME ApiDies
            PROVE  strayed \subseteq strayed' /\ parent' = parent /\ linking' \subseteq linking
  BY <1>ApiDies DEF ApiDies
<1>RunPlan. ASSUME NEW p \in Child, RunPlan(p)
            PROVE  UNCHANGED <<strayed, parent>> /\ linking' = {<<p, Fresh>>}
  BY <1>RunPlan DEF RunPlan
<1>RunComposite. ASSUME RunComposite
                 PROVE  UNCHANGED <<strayed, linking>> /\ parent = "DRAFT" /\ parent' = "RUNNING"
  BY <1>RunComposite DEF RunComposite
<1>EndComposite. ASSUME NEW d \in Driver, EndComposite(d)
                 PROVE  /\ UNCHANGED <<strayed, linking>>
                        /\ drv[d].at = "stop" \/ parent = "RUNNING"
                        /\ parent' \in {"FAILED", "COMPLETED"}
  BY <1>EndComposite DEF EndComposite, Drives
<1>others. ASSUME \/ \E j \in Job : \/ Claim(j) \/ WorkerDies(j) \/ Reconcile(j)
                                    \/ Approve(j) \/ AskCancel(j)
                                    \/ \E as \in {"CANCELLED", "FAILED"} : EndUnheld(j, as)
                  \/ \E d \in Driver :
                       \/ \E q \in Child : Notice(d, q)
                       \/ DriverUndoes(d) \/ DriverMisses(d) \/ DriverRecords(d) \/ Mark(d)
                       \/ Stop(d)
                       \/ Choose(d) \/ CreateJob(d) \/ LinkJob(d) \/ Enqueue(d) \/ DriverDies(d)
                  \/ \E t \in Target : NodeReturns(t)
           PROVE  UNCHANGED <<strayed, linking, parent>>
  BY <1>others
  DEF Claim, WorkerDies, Reconcile, Approve, AskCancel, EndUnheld, Notice, DriverUndoes,
      DriverMisses, DriverRecords, Mark, Stop, Choose, CreateJob, LinkJob, Enqueue, DriverDies,
      NodeReturns
<1> QED
  BY <1>0, <1>works, <1>Retry, <1>links, <1>ApiDies, <1>RunPlan, <1>RunComposite, <1>EndComposite,
     <1>others DEF Next, Drive

\* What is sound fits.
LEMMA SoundFits ==
  ASSUME RunsAreSound
  PROVE  RunsFit /\ \A i \in Job : OnTheWay(i)
<1>1. \A i \in Job : row[i] = "NONE" => run[i].part = "go"
  BY DEF RunsAreSound, Soundly, Unheld, NoRun
<1> QED
  BY <1>1 DEF RunsAreSound, Soundly, RunsFit, OnTheWay

\* A job that can run after a step and was there before could run before, ...
LEMMA ActiveBefore ==
  ASSUME TypeInv, RunsFit, [Next]_vars, NEW i \in Job, row[i] # "NONE", Active(i)'
  PROVE  Active(i)
<1>1. row[i] \in Statuses
  BY DEF TypeInv, JobTypes, Statuses
<1>2. ASSUME NEW j \in Job, Work(j) PROVE Active(i)
  <2>1. row[j] = "RUNNING" /\ \A h \in Job \ {j} : row'[h] = row[h]
    BY <1>2, WorkIsStep DEF IsStep, MovesJob
  <2> QED
    BY <2>1 DEF Active, ACTIVE_JOB_STATUSES
<1>3. CASE Still(i)
  <2>1. row[i] \in Unheld => row'[i] = row[i]
    BY <1>3 DEF Still
  <2>2. row'[i] \notin Unheld
    BY DEF Active, Unheld, ACTIVE_JOB_STATUSES, TERMINAL_JOB_STATUSES
  <2>3. row[i] \notin Unheld
    BY <2>1, <2>2
  <2> QED
    BY <1>1, <2>3 DEF Active, Unheld, Statuses, JOB_STATUSES
<1>4. CASE Blank(i)
  BY <1>4 DEF Blank, Active, ACTIVE_JOB_STATUSES
<1> QED
  BY <1>2, <1>3, <1>4, BesideWork

\* ... and one that is not there is nobody's still.
LEMMA NoneStays ==
  ASSUME TypeInv, RunsFit, [Next]_vars, NEW i \in Job, row[i] = "NONE", row'[i] = "NONE"
  PROVE  of'[i] = of[i]
<1>1. ASSUME NEW j \in Job, Work(j) PROVE of' = of
  BY <1>1, WorkIsStep DEF IsStep, MovesJob
<1> QED
  BY <1>1, BesideWork DEF Still, Blank

\* Every step keeps the names right, ...
LEMMA OwnStep ==
  ASSUME TypeInv, RunsFit, \A i \in Job : OnTheWay(i), OwnJobs, [Next]_vars
  PROVE  OwnJobs'
<1>1. \A j \in Job : row[j] # "NONE" => row'[j] # "NONE" /\ of'[j] = of[j]
  BY OwnersStay
<1>fresh. ASSUME NEW p \in Child, NEW inQueue \in BOOLEAN, Insert(p, inQueue)
          PROVE  row'[Fresh] # "NONE" /\ of'[Fresh] = p
  BY <1>fresh, InsertMoves DEF TypeInv, JobTypes
<1>2. ASSUME NEW p \in Child, named'[p] # NoJob
      PROVE  row'[named'[p]] # "NONE" /\ of'[named'[p]] = p
  <2>1. CASE named'[p] = named[p]
    <3>1. named[p] \in Job
      BY <1>2, <2>1 DEF TypeInv, PlanTypes
    <3> QED
      BY <1>1, <1>2, <2>1, <3>1 DEF OwnJobs
  <2>2. ASSUME NEW j \in Job, LinkPlan(p, j), named'[p] = j
        PROVE  row'[named'[p]] # "NONE" /\ of'[named'[p]] = p
    <3>1. <<p, j>> \in linking
      BY <2>2 DEF LinkPlan
    <3>2. row[j] # "NONE" /\ of[j] = p
      BY <3>1 DEF OwnJobs
    <3> QED
      BY <1>1, <2>2, <3>2
  <2>3. ASSUME NEW d \in Driver, LinkJob(d), drv[d].child = p, named'[p] = drv[d].job
        PROVE  row'[named'[p]] # "NONE" /\ of'[named'[p]] = p
    <3>1. drv[d].at = "link" /\ drv[d].job \in Job
      BY <2>3 DEF LinkJob, Drives, TypeInv, RoundsAreWhole
    <3> QED
      BY <1>1, <2>3, <3>1 DEF OwnJobs
  <2> QED
    BY <2>1, <2>2, <2>3, NamedMoves
<1>3. ASSUME NEW l \in linking' PROVE row'[l[2]] # "NONE" /\ of'[l[2]] = l[1]
  <2>1. CASE l \in linking
    <3>1. l[2] \in Job
      BY <2>1 DEF TypeInv, RoundTypes
    <3> QED
      BY <1>1, <2>1, <3>1 DEF OwnJobs
  <2>2. ASSUME NEW p \in Child, RunPlan(p), linking' = {<<p, Fresh>>}
        PROVE  row'[l[2]] # "NONE" /\ of'[l[2]] = l[1]
    <3>1. Insert(p, TRUE) /\ l = <<p, Fresh>>
      BY <1>3, <2>2 DEF RunPlan
    <3> QED
      BY <1>fresh, <3>1
  <2> QED
    BY <1>3, <2>1, <2>2, ParentMoves
<1>4. ASSUME NEW d \in Driver, drv'[d].at \in {"link", "queue"} \union Settling
      PROVE  row'[drv'[d].job] # "NONE" /\ of'[drv'[d].job] = drv'[d].child
  <2>0. drv[d].at \in {"link", "queue"} \union Settling =>
          /\ drv[d].job \in Job /\ row'[drv[d].job] # "NONE" /\ of'[drv[d].job] = drv[d].child
    BY <1>1 DEF OwnJobs, TypeInv, RoundsAreWhole
  <2>1. CASE drv'[d] = drv[d]
    BY <1>4, <2>0, <2>1
  <2>2. CASE drv[d].at = "create" /\ drv'[d].job = Fresh /\ Insert(drv[d].child, FALSE)
             /\ drv'[d].child = drv[d].child
    <3>1. drv[d].child \in Child
      BY <2>2 DEF TypeInv, RoundsAreWhole
    <3> QED
      BY <2>2, <3>1, <1>fresh
  <2>3. CASE drv[d].at \in {"link"} \union Settling /\ drv'[d].job = drv[d].job
             /\ drv'[d].child = drv[d].child
    BY <2>0, <2>3
  <2>4. ASSUME NEW p \in Child, Notice(d, p), drv'[d].child = p, drv'[d].job = named[p]
        PROVE  row'[drv'[d].job] # "NONE" /\ of'[drv'[d].job] = drv'[d].child
    <3>1. named[p] \in Job /\ named[p] # NoJob
      BY <2>4 DEF Notice, TypeInv, PlanTypes
    <3> QED
      BY <1>1, <2>4, <3>1 DEF OwnJobs
  <2>5. drv'[d] # Idle /\ drv'[d].at # "stop" /\ drv'[d].at # "create"
    BY <1>4 DEF Settling, Idle
  <2> QED
    BY <2>1, <2>2, <2>3, <2>4, <2>5, DriversTurn
<1> QED
  BY <1>2, <1>3, <1>4 DEF OwnJobs

\* ... the plans that are complete on the new release, ...
LEMMA CompleteStep ==
  ASSUME TypeInv, ReleaseTypes, RunsAreSound, OwnJobs, CompleteIsNew, [Next]_vars
  PROVE  CompleteIsNew'
<1> SUFFICES ASSUME NEW p \in Child, status'[p] = "COMPLETED" PROVE AllOn(p, {"new"})'
  BY DEF CompleteIsNew
<1>0. AllOn(p, {"new"}) => AllOn(p, {"new"})'
  BY ShownStays
<1>1. CASE status'[p] = status[p]
  BY <1>0, <1>1 DEF CompleteIsNew
<1>2. ASSUME NEW j \in Job, of[j] = p, Report(j) PROVE AllOn(p, {"new"})'
  <2>1. /\ Does(p, run[j].at) = "report" /\ run[j].at <= Count(p) /\ row[j] = "RUNNING"
        /\ Fits(j) /\ ShownBehind(j)
    BY <1>2, DoingIs DEF Report, RunsAreSound, Soundly
  <2>2. AtItsEnd(p, run[j].at)
    BY <1>2, <2>1, InPlaceOrder DEF Fits, AtItsEnd
  <2>3. AllOn(p, {"new"})
    BY <1>2, <2>1, <2>2, ShownAll
  <2> QED
    BY <1>0, <2>3
<1>3. ASSUME NEW d \in Driver, Mark(d), drv[d].child = p, status'[p] = Became(drv[d].job)
      PROVE  AllOn(p, {"new"})'
  <2>1. drv[d].at = "mark" /\ drv[d].job \in Job /\ of[drv[d].job] = p
    BY <1>3 DEF Mark, Drives, TypeInv, RoundsAreWhole, Settling, OwnJobs
  <2>2. row[drv[d].job] = "SUCCEEDED"
    BY <1>3 DEF Became
  <2>3. AllOn(p, {"new"})
    BY <2>1, <2>2 DEF RunsAreSound, Soundly
  <2> QED
    BY <1>0, <2>3
<1> QED
  BY <1>1, <1>2, <1>3, StatusMoves

\* ... and a composite apart from plans that are run by themselves.
LEMMA OneWayStep ==
  ASSUME TypeInv, OneWay, [Next]_vars
  PROVE  OneWay' /\ (parent' # "none" => parent # "none" /\ linking = {} /\ linking' = {})
<1>1. parent # "none" <=> parent' # "none"
  <2>1. \A d \in Driver : drv[d].at = "stop" => parent # "none"
    BY DEF OneWay
  <2> QED
    BY <2>1, ParentMoves
<1>2. linking' # {} => parent' = "none"
  <2>1. CASE linking' \subseteq linking
    BY <1>1, <2>1 DEF OneWay
  <2>2. ASSUME NEW p \in Child, RunPlan(p) PROVE parent' = "none"
    BY <1>1, <2>2 DEF RunPlan
  <2> QED
    BY <2>1, <2>2, ParentMoves
<1>3. ASSUME NEW d \in Driver, drv'[d].at \in {"stop", "create", "link"} PROVE parent' # "none"
  <2>1. CASE drv'[d] = drv[d]
    BY <1>1, <1>3, <2>1 DEF OneWay
  <2>2. ASSUME Choose(d) PROVE parent # "none"
    BY <2>2 DEF Choose
  <2>3. CASE parent = "RUNNING"
    BY <1>1, <2>3
  <2>4. CASE drv[d].at = "create"
    BY <1>1, <2>4 DEF OneWay
  <2>5. drv'[d] # Idle /\ drv'[d].at \notin {"queue", "mark", "undo"} \union Settling
    BY <1>3 DEF Idle, Settling
  <2> QED
    BY <1>1, <1>3, <2>1, <2>2, <2>3, <2>4, <2>5, DriversTurn
<1> QED
  BY <1>1, <1>2, <1>3 DEF OneWay

\* What is finished stays so, unless its job is run again.
LEMMA FinishedStays ==
  ASSUME TypeInv, ReleaseTypes, RunsAreSound, OwnJobs, OneWay, [Next]_vars, parent' # "none",
         NEW p \in Child, Finished(p), p \notin strayed'
  PROVE  Finished(p)'
<1>0. /\ status[p] = "COMPLETED" /\ AllOn(p, {"new"})
      /\ \A j \in Job : Active(j) => of[j] # p
      /\ \A d \in Driver : drv[d].child = p => drv[d].at \in {"idle", "stop", "queue"}
      /\ p # NoChild
  BY UpgradesAssumption DEF Finished, Complete
<1>1. parent # "none" /\ linking = {} /\ linking' = {}
  BY OneWayStep
<1>2. RunsFit /\ \A i \in Job : OnTheWay(i)
  BY SoundFits
<1>3. \A q \in Child : ~ RunPlan(q)
  BY <1>1 DEF RunPlan
<1>4. status'[p] = "COMPLETED"
  <2>1. ASSUME NEW j \in Job, Work(j) PROVE of[j] # p
    BY <1>0, <2>1, WorkIsStep DEF IsStep, Active, ACTIVE_JOB_STATUSES
  <2>2. \A j \in Job : ~ LinkPlan(p, j)
    BY <1>1 DEF LinkPlan
  <2>3. \A d \in Driver : LinkJob(d) \/ Mark(d) => drv[d].child # p
    BY <1>0 DEF LinkJob, Mark, Drives
  <2> QED
    BY <1>0, <2>1, <2>2, <2>3, StatusMoves
<1>5. AllOn(p, {"new"})'
  BY <1>0, ShownStays
<1>6. ASSUME NEW i \in Job, Active(i)' PROVE of'[i] # p
  <2>1. CASE row[i] = "NONE"
    <3>1. row'[i] # "NONE"
      BY <1>6 DEF Active, ACTIVE_JOB_STATUSES
    <3>2. \A d \in Driver : Drives(d, "create") => drv[d].child # p
      BY <1>0 DEF Drives
    <3> QED
      BY <1>2, <1>3, <2>1, <3>1, <3>2, JobsCome
  <2>2. CASE row[i] # "NONE"
    <3>1. of'[i] = of[i]
      BY <1>2, <2>2, OwnersStay
    <3>2. Active(i)
      BY <1>2, <1>6, <2>2, ActiveBefore
    <3> QED
      BY <1>0, <3>1, <3>2
  <2> QED
    BY <2>1, <2>2
<1>7. ASSUME NEW d \in Driver, drv'[d].child = p PROVE drv'[d].at \in {"idle", "stop", "queue"}
  <2>1. CASE drv'[d] = drv[d]
    BY <1>0, <1>7, <2>1
  <2>2. CASE drv[d].at \in {"create", "link"} \union Settling /\ drv'[d].child = drv[d].child
    BY <1>0, <1>7, <2>2 DEF Settling
  <2>3. ~ Notice(d, p)
    BY <1>0 DEF Notice
  <2>4. ~ (Choose(d) /\ NextChild = p)
    BY <1>0 DEF Choose
  <2> QED
    <3>1. drv'[d] # Idle
      BY <1>0, <1>7 DEF Idle
    <3>2. \A q \in Child : drv'[d].child = q => ~ Notice(d, q)
      BY <1>7, <2>3
    <3>3. CASE drv'[d].at \in {"queue", "stop", "idle"}
      BY <3>3
    <3> QED
      BY <1>7, <2>1, <2>2, <2>4, <3>1, <3>2, <3>3, DriversTurn
<1> QED
  BY <1>4, <1>5, <1>6, <1>7 DEF Finished, Complete

\* A child is begun when it is the next.
LEMMA BegunBefore ==
  ASSUME TypeInv, RunsAreSound, OneWay, [Next]_vars, parent' # "none",
         NEW p \in Child, Begun(p)'
  PROVE  Begun(p) \/ \E d \in Driver : Choose(d) /\ NextChild = p
<1>1. parent # "none"
  BY OneWayStep
<1>2. RunsFit /\ \A i \in Job : OnTheWay(i)
  BY SoundFits
<1>3. \A q \in Child : ~ RunPlan(q)
  BY <1>1 DEF RunPlan
<1>4. ASSUME NEW i \in Job, of'[i] = p PROVE Begun(p)
  <2>1. CASE row[i] # "NONE"
    BY <1>2, <1>4, <2>1, OwnersStay DEF Begun
  <2>2. CASE row[i] = "NONE" /\ row'[i] # "NONE"
    <3>1. \/ \E d \in Driver : Drives(d, "create") /\ drv[d].child = p
          \/ \E j \in Job : of[j] = p
      BY <1>2, <1>3, <1>4, <2>2, JobsCome
    <3> QED
      BY <3>1 DEF Begun
  <2>3. CASE row[i] = "NONE" /\ row'[i] = "NONE"
    <3>1. of'[i] = of[i]
      BY <1>2, <2>3, NoneStays
    <3> QED
      BY <1>4, <3>1 DEF Begun
  <2> QED
    BY <2>1, <2>2, <2>3
<1>5. ASSUME NEW d \in Driver, drv'[d].at = "create", drv'[d].child = p
      PROVE  Begun(p) \/ (Choose(d) /\ NextChild = p)
  <2>1. drv'[d] # Idle /\ drv'[d].at \notin {"stop", "link", "queue", "mark", "undo"} \union Settling
    BY <1>5 DEF Idle, Settling
  <2>2. CASE drv'[d] = drv[d]
    BY <1>5, <2>2 DEF Begun, Drives
  <2> QED
    BY <1>5, <2>1, <2>2, DriversTurn
<1> QED
  BY <1>4, <1>5 DEF Begun, Drives

\* The order is kept.
LEMMA OrderStep ==
  ASSUME OneDriver, TypeInv, ReleaseTypes, RunsAreSound, OrderInv, [Next]_vars
  PROVE  OrderInv'
<1>1. RunsFit /\ \A i \in Job : OnTheWay(i)
  BY SoundFits
<1>2. OwnJobs' /\ CompleteIsNew' /\ OneWay'
  BY <1>1, OwnStep, CompleteStep, OneWayStep DEF OrderInv
<1>3. OneAfterAnother'
  <2> SUFFICES ASSUME parent' # "none", NEW i \in DOMAIN Order, NEW k \in DOMAIN Order, i < k,
                      Begun(Order[k])', Order[i] \notin strayed'
               PROVE  Finished(Order[i])'
    BY DEF OneAfterAnother
  <2>1. Order[i] \in Child /\ Order[k] \in Child /\ parent # "none"
    BY UpgradesAssumption, OneWayStep DEF OrderInv
  <2>2. Order[i] \notin strayed
    BY ParentMoves
  <2>3. CASE Begun(Order[k])
    <3>1. Finished(Order[i])
      BY <2>1, <2>2, <2>3 DEF OrderInv, OneAfterAnother
    <3> QED
      BY <2>1, <3>1, FinishedStays DEF OrderInv
  <2>4. ASSUME NEW d \in Driver, Choose(d), NextChild = Order[k] PROVE Finished(Order[i])'
    <3>1. PICK m \in DOMAIN Order : /\ NextChild = Order[m]
                                    /\ \A h \in DOMAIN Order : h < m => status[Order[h]] = "COMPLETED"
      BY <2>4, NextIsFirst DEF Choose
    <3>2. m = k
      <4>1. Once(Order) /\ DOMAIN Order = 1 .. Len(Order)
        BY UpgradesAssumption
      <4> QED
        BY <2>4, <3>1, <4>1 DEF Once
    <3>3. status[Order[i]] = "COMPLETED" /\ status[NextChild] = "DRAFT"
      BY <2>4, <3>1, <3>2 DEF Choose
    <3>4. /\ \A j \in Job : ~ Active(j)
          /\ UNCHANGED <<status, row, of, release>>
          /\ drv' = [drv EXCEPT ![d] = [at |-> "create", child |-> NextChild, job |-> NoJob]]
      BY <2>4 DEF Choose, plans, jobs, cluster
    <3>5. drv'[d].child # Order[i]
      BY <3>3, <3>4 DEF TypeInv, RoundTypes
    <3>6. \A e \in Driver : drv'[e].child # Order[i]
      BY <3>5 DEF OneDriver
    <3>7. AllOn(Order[i], {"new"})
      BY <2>1, <3>3 DEF OrderInv, CompleteIsNew
    <3> QED
      BY <3>3, <3>4, <3>6, <3>7 DEF Finished, Complete, Active, AllOn
  <2> QED
    BY <2>1, <2>3, <2>4, BegunBefore DEF OrderInv
<1> QED
  BY <1>2, <1>3 DEF OrderInv

\* Nothing has begun.
LEMMA OrderInit == Init => ReleaseTypes /\ RunsAreSound /\ OrderInv
<1> SUFFICES ASSUME Init PROVE ReleaseTypes /\ RunsAreSound /\ OrderInv
  OBVIOUS
<1>1. /\ \A j \in Job : row[j] = "NONE" /\ run[j] = NoRun /\ of[j] = NoChild
      /\ \A p \in Child : named[p] = NoJob /\ status[p] = "DRAFT"
      /\ \A d \in Driver : drv[d].at = "idle"
      /\ linking = {}
  BY DEF Init, Idle
<1>2. RunsAreSound
  BY <1>1, NoRunIsSound DEF RunsAreSound
<1>3. OwnJobs /\ CompleteIsNew /\ OneWay
  BY <1>1 DEF OwnJobs, CompleteIsNew, OneWay, Settling
<1>4. OneAfterAnother
  <2>1. \A k \in DOMAIN Order : Order[k] # NoChild
    BY UpgradesAssumption
  <2> QED
    BY <1>1, <2>1 DEF OneAfterAnother, Begun, Drives
<1> QED
  BY <1>2, <1>3, <1>4, ReleaseInit DEF OrderInv

\* "The composite fails and the children after it are cancelled, never started": with one
\* driver, a child of a composite has a job only when those before it are complete, every
\* target of theirs on the new release, or one of them was run again.
THEOREM ChildrenFollow ==
  ASSUME OneDriver
  PROVE  Spec => []ChildrenInOrder
<1> DEFINE Inv == TypeInv /\ ReleaseTypes /\ RunsAreSound /\ OrderInv
<1>1. Init => Inv
  BY TypeInit, OrderInit
<1>2. Inv /\ [Next]_vars => Inv'
  BY TypeStep, ReleaseGrows, SoundStep, OrderStep
<1>3. Inv => ChildrenInOrder
  BY DEF OrderInv, OneAfterAnother, Begun, Finished, ChildrenInOrder
<1> QED
  BY <1>1, <1>2, <1>3, PTL DEF Spec

-----------------------------------------------------------------------------
(* One target after the other, in the order of the steps *)

\* A step that begins a target comes behind the last steps of the targets before it.
LEMMA EarlierFirst ==
  ASSUME NEW p \in Child, NEW a \in 1 .. Count(p), Does(p, a) \in {"restart", "evacuate"},
         NEW k \in DOMAIN RunTargets[p], Whom(p, a) = RunTargets[p][k], NEW i \in 1 .. k - 1
  PROVE  \E h \in 1 .. a - 1 :
           Does(p, h) \in {"settle", "return"} /\ Whom(p, h) = RunTargets[p][i]
<1> DEFINE n == Len(RunTargets[p])
<1>0. /\ n \in Nat /\ Count(p) \in Nat /\ k \in 1 .. n /\ i \in 1 .. n
      /\ \A g, h \in 1 .. Count(p) : g < h <=> At(p, g) < At(p, h)
      /\ \A l \in 1 .. n : RunTargets[p][l] = RunTargets[p][k] => l = k
  BY InPlaceOrder, RunTargetsFit DEF Once
<1> HIDE DEF n
<1>1. CASE Kind[p] = "ceph"
  <2>1. PICK m, l : CephIs(p, a, m, l)
    BY <1>1, CephStep DEF Count
  <2>2. /\ m \in 1 .. 16 /\ Does(p, a) = CephDo(m) /\ l \in 0 .. n /\ (l # 0 <=> m \in 11 .. 12)
        /\ Whom(p, a) = IF l = 0 THEN NoTarget ELSE RunTargets[p][l]
        /\ m \in 11 .. 12 => At(p, a) = 2 * l + m - 2
    BY <2>1, CephReads DEF n
  <2>3. m = 11
    BY <2>2, CephLines
  <2>4. l = k /\ At(p, a) = 2 * k + 9
    BY <1>0, <2>2, <2>3
  <2>5. PICK h \in 1 .. Count(p) : CephIs(p, h, 12, i)
    <3>1. i \in 0 .. n /\ i # 0
      BY <1>0
    <3> QED
      BY <1>1, <3>1, CephHas DEF Count, n
  <2>6. At(p, h) = 2 * i + 10 /\ Does(p, h) = "settle" /\ Whom(p, h) = RunTargets[p][i]
    BY <1>0, <2>5, CephReads, CephLines
  <2>7. h < a
    BY <1>0, <2>4, <2>6
  <2> QED
    BY <1>0, <2>6, <2>7
<1>2. CASE Kind[p] # "ceph"
  <2>1. PICK m, l : PveIs(p, a, m, l)
    BY <1>2, PveStep DEF Count
  <2>2. /\ m \in 1 .. 19 /\ Does(p, a) = PveDo(m) /\ l \in 0 .. n /\ (l # 0 <=> m \in 11 .. 17)
        /\ Whom(p, a) = IF l = 0 THEN NoTarget ELSE RunTargets[p][l]
        /\ m \in 11 .. 17 => At(p, a) = 7 * l + m - 7
    BY <2>1, PveReads DEF n
  <2>3. m = 11
    BY <2>2, PveLines
  <2>4. l = k /\ At(p, a) = 7 * k + 4
    BY <1>0, <2>2, <2>3
  <2>5. PICK h \in 1 .. Count(p) : PveIs(p, h, 16, i)
    <3>1. i \in 0 .. n /\ i # 0
      BY <1>0
    <3> QED
      BY <1>2, <3>1, PveHas DEF Count, n
  <2>6. At(p, h) = 7 * i + 9 /\ Does(p, h) = "return" /\ Whom(p, h) = RunTargets[p][i]
    BY <1>0, <2>5, PveReads, PveLines
  <2>7. h < a
    BY <1>0, <2>4, <2>6
  <2> QED
    BY <1>0, <2>6, <2>7
<1> QED
  BY <1>1, <1>2

\* What comes behind the last step of a target is about others.
LEMMA LastIsLast ==
  ASSUME NEW p \in Child, NEW a \in 1 .. Count(p), NEW h \in 1 .. a - 1,
         Does(p, h) \in {"settle", "return"},
         Does(p, a) \in {"restart", "settle", "validate", "evacuate", "return"}
  PROVE  Whom(p, a) # Whom(p, h)
<1> DEFINE n == Len(RunTargets[p])
<1>0. /\ n \in Nat /\ Count(p) \in Nat /\ h \in 1 .. Count(p) /\ At(p, h) < At(p, a)
      /\ \A k, l \in 1 .. n : RunTargets[p][k] = RunTargets[p][l] => l = k
  <2>1. h \in 1 .. Count(p) /\ h < a
    BY InPlaceOrder
  <2> QED
    BY <2>1, InPlaceOrder, RunTargetsFit DEF Once
<1> HIDE DEF n
<1>1. CASE Kind[p] = "ceph"
  <2>1. PICK m, l : CephIs(p, a, m, l)
    BY <1>1, CephStep DEF Count
  <2>2. PICK f, g : CephIs(p, h, f, g)
    BY <1>0, <1>1, CephStep DEF Count
  <2>3. /\ m \in 11 .. 12 /\ l \in 1 .. n /\ At(p, a) = 2 * l + m - 2
        /\ Whom(p, a) = RunTargets[p][l]
    <3>1. /\ m \in 1 .. 16 /\ Does(p, a) = CephDo(m) /\ l \in 0 .. n /\ (l # 0 <=> m \in 11 .. 12)
          /\ Whom(p, a) = IF l = 0 THEN NoTarget ELSE RunTargets[p][l]
          /\ m \in 11 .. 12 => At(p, a) = 2 * l + m - 2
      BY <2>1, CephReads DEF n
    <3>2. m \in 11 .. 12
      BY <3>1, CephLines
    <3> QED
      BY <1>0, <3>1, <3>2
  <2>4. g \in 1 .. n /\ At(p, h) = 2 * g + 10 /\ Whom(p, h) = RunTargets[p][g]
    <3>1. /\ f \in 1 .. 16 /\ Does(p, h) = CephDo(f) /\ g \in 0 .. n /\ (g # 0 <=> f \in 11 .. 12)
          /\ Whom(p, h) = IF g = 0 THEN NoTarget ELSE RunTargets[p][g]
          /\ f \in 11 .. 12 => At(p, h) = 2 * g + f - 2
      BY <2>2, CephReads DEF n
    <3>2. f = 12
      BY <3>1, CephLines
    <3> QED
      BY <1>0, <3>1, <3>2
  <2>5. l # g
    BY <1>0, <2>3, <2>4
  <2> QED
    BY <1>0, <2>3, <2>4, <2>5
<1>2. CASE Kind[p] # "ceph"
  <2>1. PICK m, l : PveIs(p, a, m, l)
    BY <1>2, PveStep DEF Count
  <2>2. PICK f, g : PveIs(p, h, f, g)
    BY <1>0, <1>2, PveStep DEF Count
  <2>3. /\ m \in {11, 15, 16} /\ l \in 1 .. n /\ At(p, a) = 7 * l + m - 7
        /\ Whom(p, a) = RunTargets[p][l]
    <3>1. /\ m \in 1 .. 19 /\ Does(p, a) = PveDo(m) /\ l \in 0 .. n /\ (l # 0 <=> m \in 11 .. 17)
          /\ Whom(p, a) = IF l = 0 THEN NoTarget ELSE RunTargets[p][l]
          /\ m \in 11 .. 17 => At(p, a) = 7 * l + m - 7
      BY <2>1, PveReads DEF n
    <3>2. m \in {11, 15, 16}
      BY <3>1, PveLines
    <3> QED
      BY <1>0, <3>1, <3>2
  <2>4. g \in 1 .. n /\ At(p, h) = 7 * g + 9 /\ Whom(p, h) = RunTargets[p][g]
    <3>1. /\ f \in 1 .. 19 /\ Does(p, h) = PveDo(f) /\ g \in 0 .. n /\ (g # 0 <=> f \in 11 .. 17)
          /\ Whom(p, h) = IF g = 0 THEN NoTarget ELSE RunTargets[p][g]
          /\ f \in 11 .. 17 => At(p, h) = 7 * g + f - 7
      BY <2>2, PveReads DEF n
    <3>2. f = 16
      BY <3>1, PveLines
    <3> QED
      BY <1>0, <3>1, <3>2
  <2>5. l # g
    BY <1>0, <2>3, <2>4
  <2> QED
    BY <1>0, <2>3, <2>4, <2>5
<1> QED
  BY <1>1, <1>2

\* The canary's gate is the first target's, ...
LEMMA CanaryIs ==
  ASSUME NEW p \in Child, NEW a \in 1 .. Count(p), Does(p, a) = "canary"
  PROVE  Kind[p] # "ceph" /\ At(p, a) = 17
<1>1. Kind[p] # "ceph"
  BY StepTargets
<1>2. PICK m, l : PveIs(p, a, m, l)
  BY <1>1, PveStep DEF Count
<1>3. /\ m \in 1 .. 19 /\ Does(p, a) = PveDo(m) /\ l \in 0 .. Len(RunTargets[p])
      /\ (l # 0 <=> m \in 11 .. 17)
      /\ Whom(p, a) = IF l = 0 THEN NoTarget ELSE RunTargets[p][l]
      /\ m \in 11 .. 17 => At(p, a) = 7 * l + m - 7
  BY <1>2, PveReads
<1>4. m = 17
  BY <1>3, PveLines
<1>5. Len(RunTargets[p]) > 1 /\ Whom(p, a) = RunTargets[p][1]
  <2>1. Gated(p, Steps[p][a])
    BY StepsAre DEF Count
  <2> QED
    BY <2>1 DEF Gated, Does, Whom
<1>6. l = 1
  BY <1>3, <1>4, <1>5, RunTargetsFit DEF Once
<1> QED
  BY <1>1, <1>3, <1>4, <1>6

\* ... no approval comes behind it, and all other targets do.
LEMMA CanaryFirst ==
  ASSUME NEW p \in Child, NEW a \in 1 .. Count(p)
  PROVE  /\ Does(p, a) \in {"ask", "canary"} => \A h \in 1 .. a - 1 : Does(p, h) # "canary"
         /\ Does(p, a) = "evacuate" =>
              \A k \in DOMAIN RunTargets[p] : k > 1 /\ Whom(p, a) = RunTargets[p][k] =>
                \E h \in 1 .. a - 1 : Does(p, h) = "canary"
<1> DEFINE n == Len(RunTargets[p])
<1>0. /\ n \in Nat /\ Count(p) \in Nat
      /\ \A g, h \in 1 .. Count(p) : g < h <=> At(p, g) < At(p, h)
      /\ \A k, l \in 1 .. n : RunTargets[p][k] = RunTargets[p][l] => l = k
      /\ DOMAIN RunTargets[p] = 1 .. n
  BY InPlaceOrder, RunTargetsFit DEF Once
<1> HIDE DEF n
<1>1. ASSUME Does(p, a) \in {"ask", "canary"}, NEW h \in 1 .. a - 1, Does(p, h) = "canary"
      PROVE  FALSE
  <2>1. h \in 1 .. Count(p) /\ At(p, h) < At(p, a)
    BY <1>0
  <2>2. Kind[p] # "ceph" /\ At(p, h) = 17
    BY <1>1, <2>1, CanaryIs
  <2>3. CASE Does(p, a) = "canary"
    BY <2>1, <2>2, <2>3, CanaryIs
  <2>4. CASE Does(p, a) = "ask"
    <3>1. PICK m, l : PveIs(p, a, m, l)
      BY <2>2, PveStep DEF Count
    <3>2. m \in 1 .. 19 /\ Does(p, a) = PveDo(m) /\ (m <= 10 => At(p, a) = m)
      BY <3>1, PveReads
    <3>3. m \in {3, 7}
      BY <2>4, <3>2, PveLines
    <3> QED
      BY <2>1, <2>2, <3>2, <3>3
  <2> QED
    BY <1>1, <2>3, <2>4
<1>2. ASSUME Does(p, a) = "evacuate", NEW k \in 1 .. n, k > 1, Whom(p, a) = RunTargets[p][k]
      PROVE  \E h \in 1 .. a - 1 : Does(p, h) = "canary"
  <2>1. Kind[p] # "ceph"
    BY <1>2, StepTargets
  <2>2. PICK m, l : PveIs(p, a, m, l)
    BY <2>1, PveStep DEF Count
  <2>3. /\ m \in 1 .. 19 /\ Does(p, a) = PveDo(m) /\ l \in 0 .. n /\ (l # 0 <=> m \in 11 .. 17)
        /\ Whom(p, a) = IF l = 0 THEN NoTarget ELSE RunTargets[p][l]
        /\ m \in 11 .. 17 => At(p, a) = 7 * l + m - 7
    BY <2>2, PveReads DEF n
  <2>4. m = 11
    BY <1>2, <2>3, PveLines
  <2>5. At(p, a) = 7 * k + 4
    <3>1. l \in 1 .. n /\ Whom(p, a) = RunTargets[p][l] /\ At(p, a) = 7 * l + 4
      BY <1>0, <2>3, <2>4
    <3>2. l = k
      BY <1>0, <1>2, <3>1
    <3> QED
      BY <3>1, <3>2
  <2>6. PICK h \in 1 .. Count(p) : PveIs(p, h, 17, 1)
    <3>1. n > 1 /\ 1 \in 0 .. n
      BY <1>0, <1>2
    <3> QED
      BY <2>1, <3>1, PveHas DEF Count, n
  <2>7. At(p, h) = 17 /\ Does(p, h) = "canary"
    BY <2>6, PveReads, PveLines
  <2>8. h < a
    BY <1>0, <1>2, <2>5, <2>7
  <2> QED
    BY <1>0, <2>7, <2>8
<1> QED
  BY <1>0, <1>1, <1>2

-----------------------------------------------------------------------------
(* What a run that begins a target has behind it *)

Settled == {"DONE", "NOT_APPLICABLE"}
TargetStatus == Settled \union {"PENDING", "RUNNING", "FAILED"}
DetailTypes ==
  /\ found \in [Child -> Findings]
  /\ target \in [Child -> [Target -> TargetStatus]]

\* Behind the gate nothing that stops the upgrade is open, behind its last step a target is
\* settled, and behind the canary's gate a person has approved at it.
TurnBehind(j) ==
  \A h \in 1 .. run[j].at - 1 :
    /\ Does(of[j], h) = "gate" => found[of[j]] = "clear"
    /\ Does(of[j], h) \in {"settle", "return"} => target[of[j]][Whom(of[j], h)] \in Settled
    /\ Does(of[j], h) = "canary" =>
         run[j].approved # 0 /\ Does(of[j], run[j].approved) = "canary"

Orderly(j) ==
  /\ Active(j) => TurnBehind(j)
  /\ row[j] = "WAITING_APPROVAL" =>
       run[j].at <= Count(of[j]) /\ Does(of[j], run[j].at) \in {"ask", "canary"}

TurnInv == DetailTypes /\ OneActive /\ \A j \in Job : Orderly(j)

\* What the step a run is at comes to when it is left.
Passes(j) ==
  LET p == of[j]  a == run[j].at IN
  /\ Does(p, a) = "gate" => found'[p] = "clear"
  /\ Does(p, a) \in {"settle", "return"} => target'[p][Here(j)] \in Settled
  /\ Does(p, a) = "canary" => run[j].approved = a

\* What a job's step writes into the findings and the targets of its plan, ...
Finds(j) ==
  \/ found' = found
  \/ /\ run[j].at <= Count(of[j]) /\ Does(of[j], run[j].at) \in {"checks", "recheck"}
     /\ \E v \in Findings : found' = [found EXCEPT ![of[j]] = v]
Touches(j) ==
  \/ target' = target
  \/ /\ run[j].at <= Count(of[j])
     /\ Does(of[j], run[j].at) \in {"restart", "settle", "validate", "evacuate", "return"}
     /\ \E v \in TargetStatus :
          /\ target' = [target EXCEPT ![of[j]][Here(j)] = v]
          /\ v = "RUNNING" => Does(of[j], run[j].at) \in {"restart", "evacuate"}

\* ... and what becomes of its run.
Comes(j) ==
  /\ run'[j].at = run[j].at + 1 => Passes(j)
  /\ run'[j].approved = run[j].approved \/ run'[j] = NoRun
  /\ row'[j] = "WAITING_APPROVAL" =>
       run[j].at <= Count(of[j]) /\ Does(of[j], run[j].at) \in {"ask", "canary"}
       /\ run'[j].at = run[j].at

LEMMA RunEditsAre ==
  ASSUME TypeInv, NEW j \in Job
  PROVE  /\ Onward(j) => row' = row /\ run'[j].approved = run[j].approved
         /\ \A part : Into(j, part) =>
              row' = row /\ run'[j].approved = run[j].approved /\ run'[j].at = run[j].at
         /\ \A ending : GiveUp(j, ending) =>
              row' = row /\ run'[j].approved = run[j].approved /\ run'[j].at = run[j].at
         /\ Parks(j) => run'[j].approved = run[j].approved /\ run'[j].at = run[j].at
         /\ \A as : Ends(j, as) => row'[j] = as /\ run'[j] = NoRun
<1>1. run \in [Job -> Run] /\ row \in [Job -> Statuses]
  BY DEF TypeInv, JobTypes, Statuses
<1>2. Onward(j) => row' = row /\ run'[j].approved = run[j].approved
  BY <1>1 DEF Onward, Run
<1>3. ASSUME NEW part, Into(j, part)
      PROVE  row' = row /\ run'[j].approved = run[j].approved /\ run'[j].at = run[j].at
  BY <1>1, <1>3 DEF Into, Run
<1>4. ASSUME NEW ending, GiveUp(j, ending)
      PROVE  row' = row /\ run'[j].approved = run[j].approved /\ run'[j].at = run[j].at
  BY <1>1, <1>4 DEF GiveUp, Run
<1>5. Parks(j) => run'[j].approved = run[j].approved /\ run'[j].at = run[j].at
  BY <1>1 DEF Parks, Run
<1>6. ASSUME NEW as, Ends(j, as) PROVE row'[j] = as /\ run'[j] = NoRun
  BY <1>1, <1>6 DEF Ends
<1> QED
  BY <1>2, <1>3, <1>4, <1>5, <1>6

LEMMA WorkTouches ==
  ASSUME TypeInv, RunsFit, DetailTypes, NEW j \in Job, Work(j)
  PROVE  Finds(j) /\ Touches(j) /\ Comes(j)
<1> USE DEF details, history
<1> DEFINE p == of[j]  a == run[j].at
<1>0. row[j] = "RUNNING" /\ Fits(j) /\ p \in Child /\ a \in Nat /\ a # 0 /\ NoRun.at # a + 1
  <2>1. row[j] = "RUNNING"
    BY WorkIsStep DEF IsStep
  <2>2. Fits(j) /\ p \in Child
    BY <2>1 DEF RunsFit, TypeInv, JobsAreWhole
  <2>3. a \in Nat /\ a # 0
    BY <2>2, InPlaceOrder DEF Fits
  <2> QED
    BY <2>1, <2>2, <2>3 DEF NoRun
<1> HIDE DEF p, a
\* A step with nothing to pass.
<1>calm. ASSUME UNCHANGED <<target, found>>, row'[j] # "WAITING_APPROVAL",
                run'[j].approved = run[j].approved \/ run'[j] = NoRun,
                \/ run'[j].at # a + 1
                \/ Does(p, a) \notin {"gate", "settle", "return", "canary"}
         PROVE  Finds(j) /\ Touches(j) /\ Comes(j)
  BY <1>calm DEF Finds, Touches, Comes, Passes, p, a
<1>steps. ASSUME \/ Facts(j) \/ Latest8(j) \/ \E mode \in {"AUTOMATIC", "APPROVED"} : Apply(j, mode)
                 \/ Report(j) \/ NooutSet(j) \/ Repository(j) \/ Packages(j) \/ Proven(j)
                 \/ NooutUnset(j) \/ Reboot(j) \/ Validate(j) \/ Final(j)
          PROVE  Finds(j) /\ Touches(j) /\ Comes(j)
  <2>1. /\ UNCHANGED <<target, found>>
        /\ Onward(j) \/ \E part : Into(j, part)
        /\ \E act \in {"facts", "latest8", "automatic", "approved", "report", "noout", "repository",
                       "repositories", "packages", "require", "verify", "unset", "reboot",
                       "validate", "final"} : Doing(j, act)
    BY <1>steps
    DEF Facts, Latest8, Apply, Applies, Report, NooutSet, Repository, Packages, Proven, NooutUnset,
        Reboot, Validate, Final
  <2>2. Does(p, a) \notin {"gate", "settle", "return", "canary"}
    BY <2>1, DoingIs DEF p, a
  <2>3. row' = row /\ run'[j].approved = run[j].approved
    BY <2>1, RunEditsAre
  <2> QED
    BY <1>0, <1>calm, <2>1, <2>2, <2>3
<1>within. ASSUME Flag(j) \/ OrderReboot(j) \/ SeenBack(j) \/ Cleared(j) \/ Prove(j)
           PROVE  Finds(j) /\ Touches(j) /\ Comes(j)
  <2>1. /\ UNCHANGED <<target, found>> /\ run[j].part \in Midway
        /\ Onward(j) \/ \E part : Into(j, part)
    BY <1>within DEF Flag, OrderReboot, SeenBack, Cleared, Prove, In, Midway
  <2>2. Does(p, a) \notin {"gate", "settle", "return", "canary"}
    BY <1>0, <2>1 DEF Fits, Midway, p, a
  <2>3. row' = row /\ run'[j].approved = run[j].approved
    BY <2>1, RunEditsAre
  <2> QED
    BY <1>0, <1>calm, <2>1, <2>2, <2>3
<1>undo. ASSUME \/ \E mode \in {"AUTOMATIC", "APPROVED"} : ApplyFails(j, mode)
                \/ Cancelled(j) \/ Undo(j) \/ UndoFails(j) \/ Undone(j) \/ Tell(j)
         PROVE  Finds(j) /\ Touches(j) /\ Comes(j)
  <2>1. /\ UNCHANGED <<target, found>>
        /\ (\E ending : GiveUp(j, ending)) \/ \E part : Into(j, part)
    BY <1>undo DEF ApplyFails, Cancelled, Undo, UndoFails, Undone, Tell
  <2>2. row' = row /\ run'[j].approved = run[j].approved /\ run'[j].at = a
    BY <2>1, RunEditsAre DEF a
  <2>3. run'[j].at # a + 1
    BY <1>0, <2>2
  <2> QED
    BY <1>0, <1>calm, <2>1, <2>2, <2>3
<1>ends. ASSUME Succeed(j) \/ End(j) PROVE Finds(j) /\ Touches(j) /\ Comes(j)
  <2>1. UNCHANGED <<target, found>> /\ \E as : Ends(j, as) /\ as # "WAITING_APPROVAL"
    <3>1. Succeed(j) => UNCHANGED <<target, found>> /\ Ends(j, "SUCCEEDED")
      BY DEF Succeed
    <3>2. End(j) => UNCHANGED <<target, found>> /\ Ends(j, run[j].ending)
      BY DEF End
    <3>3. run[j].ending # "WAITING_APPROVAL"
      BY DEF TypeInv, JobTypes, Run
    <3> QED
      BY <1>ends, <3>1, <3>2, <3>3
  <2>2. row'[j] # "WAITING_APPROVAL" /\ run'[j] = NoRun
    BY <2>1, RunEditsAre
  <2> QED
    BY <1>0, <1>calm, <2>1, <2>2
<1>finds. ASSUME Checks(j) \/ Recheck(j) PROVE Finds(j) /\ Touches(j) /\ Comes(j)
  <2>1. /\ target' = target /\ Onward(j) /\ (Doing(j, "checks") \/ Doing(j, "recheck"))
        /\ \E v \in Findings : found' = [found EXCEPT ![p] = v]
    BY <1>finds DEF Checks, Recheck, Sets, Plan, p
  <2>2. a <= Count(p) /\ Does(p, a) \in {"checks", "recheck"}
    BY <2>1, DoingIs DEF p, a
  <2>3. row' = row /\ run'[j].approved = run[j].approved
    BY <2>1, RunEditsAre
  <2> QED
    BY <1>0, <2>1, <2>2, <2>3 DEF Finds, Touches, Comes, Passes, p, a
<1>gate. ASSUME ChecksGate(j) PROVE Finds(j) /\ Touches(j) /\ Comes(j)
  <2>1. /\ UNCHANGED <<target, found>> /\ Doing(j, "gate")
        /\ IF Open(p) THEN GiveUp(j, "FAILED") ELSE Onward(j)
    BY <1>gate DEF ChecksGate, Plan, p
  <2>2. Does(p, a) = "gate"
    BY <2>1, DoingIs DEF p, a
  <2>3. row' = row /\ run'[j].approved = run[j].approved /\ (Open(p) => run'[j].at = a)
    BY <2>1, RunEditsAre DEF a
  <2>4. ~ Open(p) => found'[p] = "clear"
    <3>1. found[p] \in Findings
      BY <1>0 DEF DetailTypes
    <3> QED
      BY <2>1, <3>1 DEF Open, Findings
  <2>5. Open(p) => run'[j].at # a + 1
    BY <1>0, <2>3
  <2> QED
    BY <1>0, <2>1, <2>2, <2>3, <2>4, <2>5 DEF Finds, Touches, Comes, Passes, p, a
<1>asks. ASSUME Gate(j) PROVE Finds(j) /\ Touches(j) /\ Comes(j)
  <2>1. /\ UNCHANGED <<target, found>> /\ (Doing(j, "ask") \/ Doing(j, "canary"))
        /\ IF Asks(j) /\ run[j].approved # run[j].at THEN Parks(j) ELSE Onward(j)
    BY <1>asks DEF Gate
  <2>2. Does(p, a) \in {"ask", "canary"} /\ a <= Count(p)
    BY <2>1, DoingIs DEF p, a
  <2>3. Does(p, a) = "canary" => Asks(j)
    BY DEF Asks, Now, Does, p, a
  <2>4. CASE Parks(j)
    <3>1. run'[j].approved = run[j].approved /\ run'[j].at = a /\ run'[j].at # a + 1
      BY <1>0, <2>4, RunEditsAre DEF a
    <3> QED
      BY <2>1, <2>2, <3>1 DEF Finds, Touches, Comes, a, p
  <2>5. CASE Onward(j) /\ (Does(p, a) = "canary" => run[j].approved = a)
    <3>1. row' = row /\ run'[j].approved = run[j].approved
      BY <2>5, RunEditsAre
    <3> QED
      BY <1>0, <2>1, <2>2, <2>5, <3>1 DEF Finds, Touches, Comes, Passes, a, p
  <2> QED
    BY <2>1, <2>3, <2>4, <2>5 DEF a
<1>marks. ASSUME \/ Restart(j) \/ Settle(j) \/ Evacuate(j) \/ Return(j)
          PROVE  Finds(j) /\ Touches(j) /\ Comes(j)
  <2>1. /\ found' = found /\ Onward(j)
        /\ \E act \in {"restart", "settle", "evacuate", "return"}, v \in TargetStatus :
             /\ Doing(j, act) /\ target' = [target EXCEPT ![p][It(j)] = v]
             /\ v = "RUNNING" => act \in {"restart", "evacuate"}
             /\ act \in {"settle", "return"} => v \in Settled
    <3>1. Restart(j) \/ Evacuate(j) =>
            /\ found' = found /\ Onward(j) /\ (Doing(j, "restart") \/ Doing(j, "evacuate"))
            /\ target' = [target EXCEPT ![p][It(j)] = "RUNNING"]
      BY DEF Restart, Evacuate, Plan, p
    <3>2. Settle(j) \/ Return(j) =>
            /\ found' = found /\ Onward(j) /\ (Doing(j, "settle") \/ Doing(j, "return"))
            /\ \E v \in Settled : target' = [target EXCEPT ![p][It(j)] = v]
      BY DEF Settle, Return, Plan, p, Settled
    <3>3. "RUNNING" \in TargetStatus /\ "RUNNING" \notin Settled /\ Settled \subseteq TargetStatus
      BY DEF TargetStatus, Settled
    <3> QED
      BY <1>marks, <3>1, <3>2, <3>3
  <2>2. PICK act \in {"restart", "settle", "evacuate", "return"}, v \in TargetStatus :
             /\ Doing(j, act) /\ target' = [target EXCEPT ![p][It(j)] = v]
             /\ v = "RUNNING" => act \in {"restart", "evacuate"}
             /\ act \in {"settle", "return"} => v \in Settled
    BY <2>1
  <2>3. Does(p, a) = act /\ a <= Count(p) /\ It(j) = Here(j)
    BY <2>2, DoingIs DEF p, a
  <2>4. row' = row /\ run'[j].approved = run[j].approved
    BY <2>1, RunEditsAre
  <2>5. target'[p][Here(j)] = v
    <3>1. Whom(p, a) \in Target
      <4>1. a \in 1 .. Count(p)
        BY <1>0, <2>3, InPlaceOrder
      <4>2. Whom(p, a) \in Ran(RunTargets[p])
        BY <1>0, <2>3, <4>1, StepTargets
      <4> QED
        BY <1>0, <4>2, RunTargetsFit DEF Ran
    <3>2. target[p] \in [Target -> TargetStatus] /\ target \in [Child -> [Target -> TargetStatus]]
      BY <1>0 DEF DetailTypes
    <3> QED
      BY <1>0, <2>2, <2>3, <3>1, <3>2 DEF Here, p, a
  <2>6. Touches(j)
    BY <2>2, <2>3 DEF Touches, p, a
  <2> QED
    BY <1>0, <2>1, <2>2, <2>3, <2>4, <2>5, <2>6 DEF Finds, Comes, Passes, p, a
<1>fails. ASSUME StepFails(j) PROVE Finds(j) /\ Touches(j) /\ Comes(j)
  <2>1. /\ found' = found /\ GiveUp(j, "FAILED") /\ a <= Count(p)
        /\ \/ target' = target
           \/ /\ Now(j).do \in {"restart", "settle", "validate"}
              /\ target' = [target EXCEPT ![p][It(j)] = "FAILED"]
    BY <1>fails DEF StepFails, MarksTarget, Plan, Count, p, a
  <2>2. row' = row /\ run'[j].approved = run[j].approved /\ run'[j].at = a
    BY <2>1, RunEditsAre DEF a
  <2>3. run'[j].at # a + 1
    BY <1>0, <2>2
  <2>4. Now(j).do = Does(p, a) /\ It(j) = Here(j)
    BY DEF Now, Does, It, Here, Whom, p, a
  <2>5. "FAILED" \in TargetStatus
    BY DEF TargetStatus
  <2>6. Touches(j)
    BY <2>1, <2>4, <2>5 DEF Touches, p, a
  <2> QED
    BY <1>0, <2>1, <2>2, <2>3, <2>6 DEF Finds, Comes, a
<1> QED
  BY <1>steps, <1>within, <1>undo, <1>ends, <1>finds, <1>gate, <1>asks, <1>marks, <1>fails DEF Work

\* Nobody but a job writes findings and targets.
LEMMA DetailsStay ==
  ASSUME [Next]_vars
  PROVE  (\E j \in Job : Work(j)) \/ UNCHANGED <<target, found>>
<1> USE DEF details
<1>0. CASE UNCHANGED vars
  BY <1>0 DEF vars
<1>1. ASSUME NEW j \in Job, \/ Claim(j) \/ WorkerDies(j) \/ Reconcile(j) \/ Approve(j)
                            \/ AskCancel(j) \/ Retry(j)
                            \/ \E as \in {"CANCELLED", "FAILED"} : EndUnheld(j, as)
      PROVE  UNCHANGED <<target, found>>
  BY <1>1 DEF Claim, WorkerDies, Reconcile, Approve, AskCancel, Retry, EndUnheld
<1>2. ASSUME NEW d \in Driver, Drive(d) \/ DriverDies(d) PROVE UNCHANGED <<target, found>>
  BY <1>2
  DEF Drive, DriverDies, Notice, DriverUndoes, DriverMisses, DriverRecords, Mark, Stop,
      EndComposite, Choose, CreateJob, LinkJob, Enqueue
<1>3. ASSUME \/ \E p \in Child : RunPlan(p) \/ \E j \in Job : LinkPlan(p, j)
             \/ ApiDies \/ RunComposite \/ \E t \in Target : NodeReturns(t)
      PROVE  UNCHANGED <<target, found>>
  BY <1>3 DEF RunPlan, LinkPlan, ApiDies, RunComposite, NodeReturns
<1> QED
  BY <1>0, <1>1, <1>2, <1>3 DEF Next

\* On one cluster one job is active: the board's index on the key.
LEMMA OneStaysActive ==
  ASSUME OneKey, TypeInv, OneActive, [Next]_vars
  PROVE  OneActive'
<1>1. [Board!Next]_row
  BY StepOnBoard
<1>2. row \in [Job -> Statuses]
  BY DEF TypeInv, JobTypes, Statuses
<1>3. CASE row' = row
  BY <1>3 DEF OneActive, Active
<1>4. ASSUME NEW j \in Job, Board!Insert(j) PROVE OneActive'
  <2>1. row[j] = "NONE" /\ KeyFree(row, j) /\ row' = [row EXCEPT ![j] = "QUEUED"]
    BY <1>4, SameVocabulary DEF Board!Insert, Board!KeyFree, KeyFree, Board!Rivals, Rivals
  <2>2. \A i \in Job : ~ Active(i)
    BY <2>1 DEF OneKey, KeyFree, Rivals, Active, ACTIVE_JOB_STATUSES
  <2> QED
    BY <1>2, <2>1, <2>2 DEF OneActive, Active
<1>5. ASSUME NEW j \in Job, NEW to \in JOB_STATUSES, Board!Move(j, to) PROVE OneActive'
  <2>1. canTransition(row[j], to) /\ row' = [row EXCEPT ![j] = to]
    BY <1>5, SameVocabulary DEF Board!Move, Board!canTransition, canTransition
  <2>2. Active(j)
    <3>1. row[j] \in DOMAIN TRANSITIONS
      BY <2>1 DEF canTransition
    <3> QED
      BY <3>1 DEF TRANSITIONS, Active, ACTIVE_JOB_STATUSES
  <2>3. \A i \in Job : Active(i)' => Active(i)
    BY <1>2, <2>1, <2>2 DEF Active
  <2> QED
    BY <2>3 DEF OneActive
<1> QED
  BY <1>1, <1>3, <1>4, <1>5, SameVocabulary DEF Board!Next

\* A job at work has passed what it has behind it, ...
LEMMA WorkIsOrderly ==
  ASSUME TypeInv, RunsFit, \A i \in Job : OnTheWay(i), DetailTypes, NEW j \in Job, Orderly(j),
         Work(j)
  PROVE  Orderly(j)'
<1> DEFINE p == of[j]  a == run[j].at  n == Count(p)
<1>0. /\ row[j] = "RUNNING" /\ p \in Child /\ of' = of /\ n \in Nat /\ a \in 1 .. n + 1
      /\ run \in [Job -> Run] /\ TurnBehind(j)
  <2>1. row[j] = "RUNNING" /\ of' = of
    BY WorkIsStep DEF IsStep, MovesJob
  <2>2. p \in Child /\ Fits(j) /\ TurnBehind(j)
    BY <2>1 DEF TypeInv, JobsAreWhole, RunsFit, Orderly, Active, ACTIVE_JOB_STATUSES
  <2> QED
    BY <2>1, <2>2, InPlaceOrder DEF Fits, TypeInv, JobTypes
<1>1. Finds(j) /\ Touches(j) /\ Comes(j)
  BY WorkTouches
<1>2. Active(j)' => run'[j].at \in {a, a + 1}
  <2>1. Advances(j)
    BY WorkAdvances
  <2>2. ~ GoesOut(j) => run'[j].at \in {a, a + 1}
    BY <1>0, <2>1 DEF Advances, GoesOn, GoesIn, GoesUndo, Waits, Onward, Into, Parks, Run, a
  <2>3. GoesOut(j) => ~ Active(j)'
    BY <1>0 DEF GoesOut, Ends, Active, ACTIVE_JOB_STATUSES, TERMINAL_JOB_STATUSES, TypeInv, JobTypes
  <2> QED
    BY <2>2, <2>3
<1> HIDE DEF p, a, n
<1>3. ASSUME Active(j)', NEW h \in 1 .. a - 1
      PROVE  /\ Does(p, h) = "gate" => found'[p] = "clear"
             /\ Does(p, h) \in {"settle", "return"} => target'[p][Whom(p, h)] \in Settled
             /\ Does(p, h) = "canary" =>
                  run'[j].approved # 0 /\ Does(p, run'[j].approved) = "canary"
  <2>0. h \in 1 .. n
    BY <1>0
  <2>1. /\ Does(p, h) = "gate" => found[p] = "clear"
        /\ Does(p, h) \in {"settle", "return"} => target[p][Whom(p, h)] \in Settled
        /\ Does(p, h) = "canary" => run[j].approved # 0 /\ Does(p, run[j].approved) = "canary"
    BY <1>0, <1>3 DEF TurnBehind, p, a
  <2>2. Does(p, h) = "gate" => found'[p] = found[p]
    <3>1. CASE found' = found
      BY <3>1
    <3>2. CASE a <= n /\ Does(p, a) \in {"checks", "recheck"}
      <4>1. a \in 1 .. n
        BY <1>0, <3>2
      <4> QED
        BY <1>0, <1>3, <3>2, <4>1, GateFirst DEF n
    <3> QED
      BY <1>1, <3>1, <3>2 DEF Finds, p, a, n
  <2>3. Does(p, h) \in {"settle", "return"} => target'[p][Whom(p, h)] = target[p][Whom(p, h)]
    <3>1. CASE target' = target
      BY <3>1
    <3>2. ASSUME Does(p, h) \in {"settle", "return"}, a <= n,
                 Does(p, a) \in {"restart", "settle", "validate", "evacuate", "return"},
                 NEW v, target' = [target EXCEPT ![p][Whom(p, a)] = v]
          PROVE  target'[p][Whom(p, h)] = target[p][Whom(p, h)]
      <4>1. a \in 1 .. n
        BY <1>0, <3>2
      <4>2. Whom(p, a) # Whom(p, h)
        BY <1>0, <1>3, <3>2, <4>1, LastIsLast DEF n
      <4>3. target \in [Child -> [Target -> TargetStatus]]
        BY DEF DetailTypes
      <4>4. target[p] \in [Target -> TargetStatus] /\ target'[p] = [target[p] EXCEPT ![Whom(p, a)] = v]
        BY <1>0, <3>2, <4>3
      <4>5. Whom(p, h) \in Target
        <5>1. Whom(p, h) \in Ran(RunTargets[p])
          BY <1>0, <2>0, <3>2, StepTargets DEF n
        <5> QED
          BY <1>0, <5>1, RunTargetsFit DEF Ran
      <4> QED
        BY <4>2, <4>4, <4>5
    <3> QED
      BY <1>1, <3>1, <3>2 DEF Touches, Here, p, a, n
  <2>4. run'[j].approved = run[j].approved \/ run'[j].at = 1
    BY <1>1 DEF Comes, NoRun
  <2>5. run'[j].at # 1
    BY <1>0, <1>2, <1>3
  <2> QED
    BY <2>1, <2>2, <2>3, <2>4, <2>5
<1>4. ASSUME Active(j)', run'[j].at = a + 1
      PROVE  /\ Does(p, a) = "gate" => found'[p] = "clear"
             /\ Does(p, a) \in {"settle", "return"} => target'[p][Whom(p, a)] \in Settled
             /\ Does(p, a) = "canary" =>
                  run'[j].approved # 0 /\ Does(p, run'[j].approved) = "canary"
  <2>1. Passes(j) /\ (run'[j].approved = run[j].approved \/ run'[j].at = 1)
    BY <1>1, <1>4 DEF Comes, NoRun, a
  <2>2. run'[j].at # 1 /\ a # 0
    BY <1>0, <1>4
  <2> QED
    BY <2>1, <2>2 DEF Passes, Here, p, a
<1>5. Active(j)' => TurnBehind(j)'
  <2> SUFFICES ASSUME Active(j)', NEW h \in 1 .. run'[j].at - 1
               PROVE  /\ Does(p, h) = "gate" => found'[p] = "clear"
                      /\ Does(p, h) \in {"settle", "return"} =>
                           target'[p][Whom(p, h)] \in Settled
                      /\ Does(p, h) = "canary" =>
                           run'[j].approved # 0 /\ Does(p, run'[j].approved) = "canary"
    BY <1>0 DEF TurnBehind, p
  <2>1. h \in 1 .. a - 1 \/ (h = a /\ run'[j].at = a + 1)
    BY <1>0, <1>2
  <2> QED
    BY <1>3, <1>4, <2>1
<1>6. (row[j] = "WAITING_APPROVAL" =>
         run[j].at <= Count(of[j]) /\ Does(of[j], run[j].at) \in {"ask", "canary"})'
  BY <1>0, <1>1 DEF Comes
<1> QED
  BY <1>5, <1>6 DEF Orderly

\* ... and the other jobs are as they were.
LEMMA StillIsOrderly ==
  ASSUME TypeInv, RunsFit, NEW i \in Job, Orderly(i), Still(i), UNCHANGED <<target, found>>
  PROVE  Orderly(i)'
<1> DEFINE p == of[i]  a == run[i].at
<1>0. p \in Child /\ of'[i] = p /\ run'[i].at = a /\ a \in 1 .. Count(p) + 1 /\ Count(p) \in Nat
  <2>1. p \in Child /\ Fits(i)
    BY DEF Still, TypeInv, JobsAreWhole, RunsFit
  <2> QED
    BY <2>1, InPlaceOrder DEF Still, Fits
<1> HIDE DEF p, a
<1>1. Active(i)' => Active(i)
  <2>1. row[i] \notin Unheld => Active(i)
    BY DEF TypeInv, JobTypes, JOB_STATUSES, Unheld, Active
  <2> QED
    BY <2>1 DEF Still, Active
<1>2. ASSUME Active(i), NEW h \in 1 .. a - 1, Does(p, h) = "canary"
      PROVE  run'[i].approved = run[i].approved
  <2>1. CASE row[i] = "WAITING_APPROVAL"
    <3>1. Does(p, a) \in {"ask", "canary"} /\ a \in 1 .. Count(p)
      BY <1>0, <2>1 DEF Orderly, p, a
    <3> QED
      BY <1>0, <1>2, <3>1, CanaryFirst
  <2> QED
    BY <2>1 DEF Still
<1>3. Active(i)' => TurnBehind(i)'
  BY <1>0, <1>1, <1>2 DEF Orderly, TurnBehind, p, a
<1>4. (row[i] = "WAITING_APPROVAL" =>
         run[i].at <= Count(of[i]) /\ Does(of[i], run[i].at) \in {"ask", "canary"})'
  BY <1>0 DEF Orderly, Still, p, a
<1> QED
  BY <1>3, <1>4 DEF Orderly

\* Every step keeps the turns, ...
LEMMA TurnStep ==
  ASSUME OneKey, TypeInv, RunsFit, \A i \in Job : OnTheWay(i), TurnInv, [Next]_vars
  PROVE  TurnInv'
<1>1. OneActive'
  BY OneStaysActive DEF TurnInv
<1>2. CASE \E j \in Job : Work(j)
  <2>1. PICK j \in Job : Work(j)
    BY <1>2
  <2>2. of[j] \in Child /\ row[j] = "RUNNING" /\ IsStep(j)
    BY <2>1, WorkIsStep DEF IsStep, TypeInv, JobsAreWhole
  <2>3. DetailTypes'
    <3>1. Finds(j) /\ Touches(j)
      BY <2>1, WorkTouches DEF TurnInv
    <3>2. (found \in [Child -> Findings])'
      BY <2>2, <3>1 DEF Finds, TurnInv, DetailTypes
    <3>3. (target \in [Child -> [Target -> TargetStatus]])'
      <4>1. target \in [Child -> [Target -> TargetStatus]]
        BY DEF TurnInv, DetailTypes
      <4>2. ASSUME NEW p \in Child, NEW t, NEW v \in TargetStatus,
                   target' = [target EXCEPT ![p][t] = v]
            PROVE  target' \in [Child -> [Target -> TargetStatus]]
        <5>1. target[p] \in [Target -> TargetStatus]
          BY <4>1
        <5>2. [target[p] EXCEPT ![t] = v] \in [Target -> TargetStatus]
          BY <5>1
        <5> QED
          BY <4>1, <4>2, <5>2
      <4> QED
        BY <2>2, <3>1, <4>1, <4>2 DEF Touches
    <3> QED
      BY <3>2, <3>3 DEF DetailTypes
  <2>4. Orderly(j)'
    BY <2>1, WorkIsOrderly DEF TurnInv
  <2>5. ASSUME NEW i \in Job, i # j PROVE Orderly(i)'
    <3>1. row'[i] = row[i] /\ run'[i] = run[i] /\ of' = of
      BY <2>2, <2>5 DEF IsStep, MovesJob
    <3>2. ~ Active(i) /\ ~ Active(i)'
      BY <2>2, <2>5, <3>1 DEF TurnInv, OneActive, Active, ACTIVE_JOB_STATUSES
    <3> QED
      BY <3>1, <3>2 DEF TurnInv, Orderly
  <2> QED
    BY <1>1, <2>3, <2>4, <2>5 DEF TurnInv
<1>3. CASE (\A i \in Job : Still(i) \/ Blank(i)) /\ UNCHANGED <<target, found>>
  <2>1. DetailTypes'
    BY <1>3 DEF TurnInv, DetailTypes
  <2>2. ASSUME NEW i \in Job, Still(i) PROVE Orderly(i)'
    BY <1>3, <2>2, StillIsOrderly DEF TurnInv
  <2>3. ASSUME NEW i \in Job, Blank(i) PROVE Orderly(i)'
    <3>1. run'[i].at = 1 /\ row'[i] # "WAITING_APPROVAL"
      BY <2>3 DEF Blank, NoRun
    <3> QED
      BY <3>1 DEF Orderly, TurnBehind
  <2> QED
    BY <1>1, <1>3, <2>1, <2>2, <2>3 DEF TurnInv
<1> QED
  BY <1>2, <1>3, BesideWork, DetailsStay

LEMMA TurnInit == Init => TurnInv
<1> SUFFICES ASSUME Init PROVE TurnInv
  OBVIOUS
<1>1. DetailTypes
  BY DEF Init, DetailTypes, Findings, TargetStatus, Settled
<1>2. \A j \in Job : row[j] = "NONE"
  BY DEF Init
<1> QED
  BY <1>1, <1>2 DEF TurnInv, Orderly, OneActive, Active, ACTIVE_JOB_STATUSES

\* ... and a target is begun in its turn.
LEMMA BegunInTurn ==
  ASSUME TypeInv, RunsFit, TurnInv, [Next]_vars,
         NEW p \in Child, NEW k \in DOMAIN Sequence(p), Begins(p, Sequence(p)[k])
  PROVE  /\ found[p] = "clear"
         /\ \A i \in 1 .. k - 1 : target[p][Sequence(p)[i]] \in {"DONE", "NOT_APPLICABLE"}
         /\ Kind[p] = "pve" /\ k > 1 => Looked(p)
<1> DEFINE t == RunTargets[p][k]
<1>1. t \in Target /\ k \in DOMAIN RunTargets[p] /\ target[p][t] # "RUNNING"
      /\ target'[p][t] = "RUNNING"
  BY RunTargetsFit DEF Sequence, Begins
<1> HIDE DEF t
<1>2. target \in [Child -> [Target -> TargetStatus]]
  BY DEF TurnInv, DetailTypes
<1>3. PICK j \in Job : Work(j)
  BY <1>1, DetailsStay
<1>4. PICK v \in TargetStatus :
        /\ run[j].at <= Count(of[j])
        /\ target' = [target EXCEPT ![of[j]][Here(j)] = v]
        /\ v = "RUNNING" => Does(of[j], run[j].at) \in {"restart", "evacuate"}
  <2>1. Touches(j)
    BY <1>3, WorkTouches DEF TurnInv
  <2> QED
    BY <1>1, <2>1 DEF Touches
<1>5. /\ row[j] = "RUNNING" /\ of[j] \in Child /\ Fits(j) /\ TurnBehind(j)
  <2>1. row[j] = "RUNNING"
    BY <1>3, WorkIsStep DEF IsStep
  <2> QED
    BY <2>1 DEF TypeInv, JobsAreWhole, RunsFit, TurnInv, Orderly, Active, ACTIVE_JOB_STATUSES
<1>6. of[j] = p /\ Here(j) = t /\ v = "RUNNING"
  <2>1. target[of[j]] \in [Target -> TargetStatus] /\ target[p] \in [Target -> TargetStatus]
    BY <1>2, <1>5
  <2>2. target'[of[j]] = [target[of[j]] EXCEPT ![Here(j)] = v]
    BY <1>2, <1>4, <1>5
  <2>3. of[j] # p => target'[p] = target[p]
    BY <1>2, <1>4
  <2>4. of[j] = p
    BY <1>1, <2>3
  <2> QED
    BY <1>1, <2>1, <2>2, <2>4
<1> DEFINE a == run[j].at
<1>7. /\ a \in 1 .. Count(p) /\ Does(p, a) \in {"restart", "evacuate"}
      /\ Whom(p, a) = RunTargets[p][k]
  BY <1>4, <1>5, <1>6, InPlaceOrder DEF Fits, Here, t
<1>8. \A h \in 1 .. a - 1 :
        /\ Does(p, h) = "gate" => found[p] = "clear"
        /\ Does(p, h) \in {"settle", "return"} => target[p][Whom(p, h)] \in Settled
        /\ Does(p, h) = "canary" => run[j].approved # 0 /\ Does(p, run[j].approved) = "canary"
  BY <1>5, <1>6 DEF TurnBehind
<1> HIDE DEF a
<1>9. found[p] = "clear"
  BY <1>7, <1>8, GateFirst
<1>10. ASSUME NEW i \in 1 .. k - 1 PROVE target[p][Sequence(p)[i]] \in {"DONE", "NOT_APPLICABLE"}
  <2>1. PICK h \in 1 .. a - 1 :
          Does(p, h) \in {"settle", "return"} /\ Whom(p, h) = RunTargets[p][i]
    BY <1>1, <1>7, EarlierFirst
  <2> QED
    BY <1>8, <2>1 DEF Settled, Sequence
<1>11. ASSUME Kind[p] = "pve", k > 1 PROVE Looked(p)
  <2>1. Does(p, a) = "evacuate"
    BY <1>7, <1>11, StepTargets
  <2>2. PICK h \in 1 .. a - 1 : Does(p, h) = "canary"
    BY <1>1, <1>7, <1>11, <2>1, CanaryFirst
  <2>3. run[j].approved # 0 /\ Does(p, run[j].approved) = "canary"
    BY <1>8, <2>2
  <2> QED
    BY <1>5, <1>6, <2>3 DEF Looked, Does
<1> QED
  BY <1>9, <1>10, <1>11

\* "One is upgraded and validated before the next begins", "before any target is touched"
\* nothing that stops the upgrade is open, and a person has looked at the first node before
\* the second is begun: on one cluster, whatever breaks off, dies or is run again.
THEOREM TargetsTakeTurns ==
  ASSUME OneKey
  PROVE  Spec => InTurn
<1> DEFINE Inv == TypeInv /\ ReleaseTypes /\ RunsAreSound /\ TurnInv
<1>1. Init => Inv
  BY TypeInit, OrderInit, TurnInit
<1>2. Inv /\ [Next]_vars => Inv'
  BY TypeStep, ReleaseGrows, SoundStep, SoundFits, TurnStep
<1>3. Inv /\ [Next]_vars =>
        [\A p \in Child : \A k \in DOMAIN Sequence(p) :
           Begins(p, Sequence(p)[k]) =>
             /\ found[p] = "clear"
             /\ \A i \in 1 .. k - 1 : target[p][Sequence(p)[i]] \in {"DONE", "NOT_APPLICABLE"}
             /\ Kind[p] = "pve" /\ k > 1 => Looked(p)]_vars
  BY SoundFits, BegunInTurn
<1> QED
  BY <1>1, <1>2, <1>3, PTL DEF Spec, InTurn
-----------------------------------------------------------------------------
(* Where noout is recorded, and where it is cleared *)

\* A step that may set noout is behind, and none since that clears it.
Due(p, a) ==
  \E h \in 1 .. a - 1 : /\ Does(p, h) \in {"noout", "reboot"}
                        /\ \A m \in h .. a - 1 : Does(p, m) \notin {"unset", "validate"}

\* One step more.
LEMMA DueNext ==
  ASSUME NEW p, NEW a \in Nat \ {0}
  PROVE  /\ Due(p, a) /\ Does(p, a) \notin {"unset", "validate"} => Due(p, a + 1)
         /\ Does(p, a) \in {"noout", "reboot"} => Due(p, a + 1)
         /\ ~ Due(p, 1)
<1>1. \A h \in Int : h \in 1 .. (a + 1) - 1 <=> h \in 1 .. a - 1 \/ h = a
  OBVIOUS
<1>2. \A h \in 1 .. a : \A m \in h .. (a + 1) - 1 : m \in h .. a - 1 \/ m = a
  OBVIOUS
<1>3. ASSUME Due(p, a), Does(p, a) \notin {"unset", "validate"} PROVE Due(p, a + 1)
  <2>1. PICK h \in 1 .. a - 1 : /\ Does(p, h) \in {"noout", "reboot"}
                                /\ \A m \in h .. a - 1 : Does(p, m) \notin {"unset", "validate"}
    BY <1>3 DEF Due
  <2>2. \A m \in h .. (a + 1) - 1 : Does(p, m) \notin {"unset", "validate"}
    BY <1>2, <1>3, <2>1
  <2>3. h \in 1 .. (a + 1) - 1
    OBVIOUS
  <2> QED
    BY <2>1, <2>2, <2>3 DEF Due
<1>4. ASSUME Does(p, a) \in {"noout", "reboot"} PROVE Due(p, a + 1)
  <2>1. a \in 1 .. (a + 1) - 1 /\ \A m \in a .. (a + 1) - 1 : m = a
    OBVIOUS
  <2>2. \A m \in a .. (a + 1) - 1 : Does(p, m) \notin {"unset", "validate"}
    BY <1>4, <2>1
  <2> QED
    BY <1>4, <2>1, <2>2 DEF Due
<1>5. ~ Due(p, 1)
  BY DEF Due
<1> QED
  BY <1>3, <1>4, <1>5

\* Nothing is due before the gate of the checks, nor once a run is at its report; and the
\* report comes last.
LEMMA DueBetween ==
  ASSUME NEW p \in Child, NEW a
  PROVE  /\ AtItsEnd(p, a) => ~ Due(p, a)
         /\ a \in 1 .. Count(p) /\ Does(p, a) = "gate" => ~ Due(p, a)
         /\ a \in 1 .. Count(p) /\ Does(p, a) \in {"noout", "reboot"} =>
              a > 1 /\ \A h \in 1 .. a - 1 : Does(p, h) # "report"
<1> DEFINE n == Len(RunTargets[p])
<1>0. /\ n \in Nat /\ 0 \in 0 .. n /\ Count(p) \in Nat
      /\ \A g, h \in 1 .. Count(p) : g < h <=> At(p, g) < At(p, h)
  BY InPlaceOrder
<1> HIDE DEF n
<1>1. ASSUME AtItsEnd(p, a), NEW h \in 1 .. a - 1, Does(p, h) \in {"noout", "reboot"}
      PROVE  \E m \in h .. a - 1 : Does(p, m) \in {"unset", "validate"}
  <2>1. h \in 1 .. Count(p) /\ a \in 1 .. Count(p) + 1
    BY <1>0, <1>1 DEF AtItsEnd
  <2>2. CASE Kind[p] = "ceph"
    <3>1. PICK m \in 1 .. Count(p) : CephIs(p, m, 14, 0)
      BY <1>0, <2>2, CephHas DEF Count, n
    <3>2. At(p, m) = 2 * n + 12 /\ Does(p, m) = "unset"
      BY <3>1, CephReads, CephLines DEF n
    <3>3. PICK i, k : CephIs(p, h, i, k)
      BY <2>1, <2>2, CephStep DEF Count
    <3>4. i \in 1 .. 16 /\ Does(p, h) = CephDo(i) /\ (i <= 10 => At(p, h) = i)
      BY <3>3, CephReads
    <3>5. i = 9
      BY <1>1, <3>4, CephLines
    <3>6. h < m
      BY <1>0, <2>1, <3>2, <3>4, <3>5
    <3>7. a = Count(p) + 1 \/ m < a
      <4>1. ASSUME a \in 1 .. Count(p), Does(p, a) = "report" PROVE m < a
        <5>1. PICK l, o : CephIs(p, a, l, o)
          BY <2>2, <4>1, CephStep DEF Count
        <5>2. /\ l \in 1 .. 16 /\ Does(p, a) = CephDo(l)
              /\ l >= 13 => At(p, a) = 2 * n + l - 2
          BY <5>1, CephReads DEF n
        <5>3. l = 16
          BY <4>1, <5>2, CephLines
        <5> QED
          BY <1>0, <3>2, <4>1, <5>2, <5>3
      <4> QED
        BY <1>1, <4>1 DEF AtItsEnd
    <3>8. m \in h .. a - 1
      BY <1>0, <2>1, <3>6, <3>7
    <3> QED
      BY <3>2, <3>8
  <2>3. CASE Kind[p] # "ceph"
    <3>1. PICK i, k : PveIs(p, h, i, k)
      BY <2>1, <2>3, PveStep DEF Count
    <3>2. /\ i \in 1 .. 19 /\ k \in 0 .. n /\ (k # 0 <=> i \in 11 .. 17)
          /\ Does(p, h) = PveDo(i) /\ (i \in 11 .. 17 => At(p, h) = 7 * k + i - 7)
      BY <3>1, PveReads DEF n
    <3>3. i = 14
      BY <1>1, <3>2, PveLines
    <3>4. PICK m \in 1 .. Count(p) : PveIs(p, m, 15, k)
      <4>1. k \in 0 .. n /\ (k # 0 <=> 15 \in 11 .. 17) /\ 15 \in 1 .. 19 /\ 15 # 17
        BY <3>2, <3>3
      <4> QED
        BY ONLY <2>3, <4>1, PveHas DEF Count, n
    <3>5. At(p, m) = 7 * k + 8 /\ Does(p, m) = "validate"
      BY <3>4, PveReads, PveLines
    <3>6. h < m
      BY <1>0, <2>1, <3>2, <3>3, <3>5
    <3>7. a = Count(p) + 1 \/ m < a
      <4>1. ASSUME a \in 1 .. Count(p), Does(p, a) = "report" PROVE m < a
        <5>1. PICK l, o : PveIs(p, a, l, o)
          BY <2>3, <4>1, PveStep DEF Count
        <5>2. /\ l \in 1 .. 19 /\ Does(p, a) = PveDo(l)
              /\ l >= 18 => At(p, a) = 7 * n + l - 7
          BY <5>1, PveReads DEF n
        <5>3. l = 19
          BY <4>1, <5>2, PveLines
        <5>4. At(p, a) = 7 * n + 12 /\ k <= n
          BY <1>0, <3>2, <5>2, <5>3
        <5> QED
          BY <1>0, <3>2, <3>5, <4>1, <5>4
      <4> QED
        BY <1>1, <4>1 DEF AtItsEnd
    <3>8. m \in h .. a - 1
      BY <1>0, <2>1, <3>6, <3>7
    <3> QED
      BY <3>5, <3>8
  <2> QED
    BY <2>2, <2>3
<1>2. ASSUME a \in 1 .. Count(p), Does(p, a) \in {"noout", "reboot"},
             NEW h \in 1 .. a - 1, Does(p, h) = "report"
      PROVE  FALSE
  <2>1. h \in 1 .. Count(p) /\ At(p, h) < At(p, a)
    BY <1>0, <1>2
  <2>2. CASE Kind[p] = "ceph"
    <3>1. PICK i, k, l, o : CephIs(p, a, i, k) /\ CephIs(p, h, l, o)
      BY <1>2, <2>1, <2>2, CephStep DEF Count
    <3>2. /\ i \in 1 .. 16 /\ Does(p, a) = CephDo(i) /\ (i <= 10 => At(p, a) = i)
          /\ l \in 1 .. 16 /\ Does(p, h) = CephDo(l) /\ (l >= 13 => At(p, h) = 2 * n + l - 2)
      BY <3>1, CephReads DEF n
    <3>3. i = 9 /\ l = 16
      BY <1>2, <3>2, CephLines
    <3> QED
      BY <1>0, <2>1, <3>2, <3>3
  <2>3. CASE Kind[p] # "ceph"
    <3>1. PICK i, k, l, o : PveIs(p, a, i, k) /\ PveIs(p, h, l, o)
      BY <1>2, <2>1, <2>3, PveStep DEF Count
    <3>2. /\ i \in 1 .. 19 /\ Does(p, a) = PveDo(i) /\ k \in 0 .. n
          /\ i \in 11 .. 17 => At(p, a) = 7 * k + i - 7
          /\ l \in 1 .. 19 /\ Does(p, h) = PveDo(l) /\ (l >= 18 => At(p, h) = 7 * n + l - 7)
      BY <3>1, PveReads DEF n
    <3>3. i = 14 /\ l = 19
      BY <1>2, <3>2, PveLines
    <3>4. At(p, a) = 7 * k + 7 /\ At(p, h) = 7 * n + 12 /\ k <= n
      BY <1>0, <3>2, <3>3
    <3> QED
      BY <1>0, <2>1, <3>2, <3>4
  <2> QED
    BY <2>2, <2>3
<1>3. AtItsEnd(p, a) => ~ Due(p, a)
  BY <1>1 DEF Due
<1>4. a \in 1 .. Count(p) /\ Does(p, a) = "gate" => ~ Due(p, a)
  BY GateFirst DEF Due
<1>5. a \in 1 .. Count(p) /\ Does(p, a) \in {"noout", "reboot"} => a > 1
  BY <1>0, FactsFirst
<1> QED
  BY <1>2, <1>3, <1>4, <1>5

-----------------------------------------------------------------------------
(* One plan, one job *)

\* A plan that names a job has begun and has no other that could still run; neither has one
\* that the API or a driver is about to name a job in; and one that a driver has yet to
\* give a job, or settles, has none.
Lone(p) ==
  /\ named[p] # NoJob => status[p] # "DRAFT" /\ OnlyJob(p, named[p])
  /\ \A l \in linking : l[1] = p => named[p] = NoJob /\ OnlyJob(p, l[2])
  /\ \A d \in Driver : drv[d].child = p =>
       /\ Drives(d, "create") => status[p] = "DRAFT" /\ OnlyJob(p, NoJob)
       /\ Drives(d, "link") => named[p] = NoJob /\ OnlyJob(p, drv[d].job)
       /\ drv[d].at \in Settling => status[p] # "DRAFT" /\ OnlyJob(p, NoJob)

LoneInv == \A p \in Child : p \notin strayed => Lone(p)

\* No plan becomes a draft again.
LEMMA DraftOnce ==
  ASSUME TypeInv, [Next]_vars, NEW p \in Child, status[p] # "DRAFT"
  PROVE  status'[p] # "DRAFT"
<1>1. ASSUME NEW j \in Job, Work(j) PROVE status'[p] # "DRAFT"
  <2>1. MovesPlan(j)
    BY <1>1, WorkIsStep DEF IsStep
  <2> QED
    BY <2>1 DEF MovesPlan, TypeInv, PlanTypes
<1>2. \A j : Became(j) # "DRAFT"
  BY DEF Became
<1> QED
  BY <1>1, <1>2, StatusMoves

\* With one driver and one cluster, every step leaves a plan its one job.
LEMMA LoneStep ==
  ASSUME OneKey, OneDriver, TypeInv, RunsFit, \A i \in Job : OnTheWay(i), OneWay, LoneInv,
         [Next]_vars
  PROVE  LoneInv'
<1> SUFFICES ASSUME NEW p \in Child, p \notin strayed' PROVE Lone(p)'
  BY DEF LoneInv
<1>1. strayed \subseteq strayed' /\ Lone(p)
  BY ParentMoves DEF LoneInv
<1>2. status[p] # "DRAFT" => status'[p] # "DRAFT"
  BY DraftOnce
<1>3. CASE RunPlan(p)
  <2>1. /\ \A i \in Job : ~ Active(i) /\ (Active(i)' => i = Fresh)
        /\ parent = "none" /\ status[p] = "DRAFT" /\ linking' = {<<p, Fresh>>}
        /\ UNCHANGED <<status, named, drv>>
    BY <1>3, InsertAlone DEF RunPlan, plans
  <2>2. named'[p] = NoJob
    BY <1>1, <2>1 DEF Lone
  <2>3. ASSUME NEW d \in Driver, drv[d].child = p
        PROVE  drv[d].at \notin {"create", "link"} \union Settling
    BY <1>1, <2>1, <2>3 DEF Lone, OneWay
  <2> QED
    BY <2>1, <2>2, <2>3 DEF Lone, OnlyJob, Drives
<1>4. ASSUME NEW d \in Driver, CreateJob(d), drv[d].child = p, NEW i \in Job, row[i] = "NONE",
             drv'[d] = [drv[d] EXCEPT !.at = "link", !.job = i], row'[i] # "NONE"
      PROVE  Lone(p)'
  <2>1. Drives(d, "create") /\ UNCHANGED <<status, named, linking>>
    BY <1>4 DEF CreateJob, plans
  <2>2. status[p] = "DRAFT" /\ OnlyJob(p, NoJob) /\ named[p] = NoJob /\ linking = {}
    BY <1>1, <1>4, <2>1 DEF Lone, OneWay, Drives
  <2>3. Insert(p, FALSE)
    BY <1>4 DEF CreateJob, jobs
  <2>4. Fresh = i
    BY <1>4, <2>3, InsertMoves DEF TypeInv, JobTypes
  <2>5. \A h \in Job : Active(h)' => h = i
    BY <2>3, <2>4, InsertAlone
  <2>6. drv'[d].at = "link" /\ drv'[d].job = i
    BY <1>4 DEF TypeInv, RoundTypes, Round
  <2>7. \A e \in Driver : e = d
    BY DEF OneDriver
  <2> QED
    BY <2>1, <2>2, <2>5, <2>6, <2>7 DEF Lone, OnlyJob, Drives, Settling
<1>5. ASSUME ~ RunPlan(p), \A i \in Job : Active(i)' /\ of'[i] = p => Active(i) /\ of[i] = p,
             \A i \in Job : row[i] = "NONE" /\ row'[i] # "NONE" => of'[i] # p
      PROVE  Lone(p)'
  <2>1. \A j : OnlyJob(p, j) => OnlyJob(p, j)'
    BY <1>5 DEF OnlyJob
  <2>2. ASSUME NEW j \in Job, LinkPlan(p, j)
        PROVE  /\ status'[p] = "RUNNING" /\ named[p] = NoJob /\ OnlyJob(p, j) /\ linking' = {}
               /\ parent = "none" /\ <<p, j>> \in linking /\ drv' = drv
    BY <1>1, <2>2 DEF LinkPlan, Sets, Lone, OneWay, TypeInv, PlanTypes
  <2>3. ASSUME NEW d \in Driver, LinkJob(d), drv[d].child = p
        PROVE  /\ status'[p] = "RUNNING" /\ named[p] = NoJob /\ OnlyJob(p, drv[d].job)
               /\ linking = {} /\ drv'[d].at = "queue" /\ drv[d].at = "link"
    BY <1>1, <2>3
    DEF LinkJob, Sets, Lone, OneWay, Drives, Goes, TypeInv, PlanTypes, RoundTypes, Round
  <2>4. ASSUME named'[p] # NoJob PROVE status'[p] # "DRAFT" /\ OnlyJob(p, named'[p])
    <3>1. CASE named'[p] = named[p]
      BY <1>1, <1>2, <2>4, <3>1 DEF Lone
    <3> QED
      BY <2>2, <2>3, <3>1, NamedMoves
  <2>5. ASSUME NEW l \in linking', l[1] = p PROVE named'[p] = NoJob /\ OnlyJob(p, l[2])
    <3>1. l \in linking
      <4>1. ASSUME NEW q \in Child, RunPlan(q), linking' = {<<q, Fresh>>} PROVE FALSE
        BY <1>5, <2>5, <4>1
      <4> QED
        BY <2>5, <4>1, ParentMoves
    <3>2. named'[p] = named[p]
      BY <2>2, <2>3, <2>5, <3>1, NamedMoves
    <3> QED
      BY <1>1, <2>5, <3>1, <3>2 DEF Lone
  <2>6. ASSUME NEW d \in Driver, drv'[d].child = p
        PROVE  /\ drv'[d].at = "create" => status'[p] = "DRAFT" /\ OnlyJob(p, NoJob)
               /\ drv'[d].at = "link" => named'[p] = NoJob /\ OnlyJob(p, drv'[d].job)
               /\ drv'[d].at \in Settling => status'[p] # "DRAFT" /\ OnlyJob(p, NoJob)
    <3>0. \A e \in Driver : e = d
      BY DEF OneDriver
    <3>1. CASE drv'[d] = drv[d]
      <4>1. ASSUME drv[d].at = "create" PROVE status'[p] = "DRAFT" /\ OnlyJob(p, NoJob)
        <5>1. status[p] = "DRAFT" /\ OnlyJob(p, NoJob) /\ linking = {}
          BY <1>1, <2>6, <3>1, <4>1 DEF Lone, Drives, OneWay
        <5>2. ASSUME NEW j \in Job, Work(j), of[j] = p PROVE FALSE
          <6>1. row[j] = "RUNNING"
            BY <5>2, WorkIsStep DEF IsStep
          <6>2. NoJob \notin Job
            BY UpgradesAssumption
          <6> QED
            BY <5>1, <5>2, <6>1, <6>2 DEF OnlyJob, Active, ACTIVE_JOB_STATUSES
        <5>3. \A e \in Driver : ~ LinkJob(e) /\ ~ Mark(e) /\ ~ Stop(e)
          BY <3>0, <4>1 DEF LinkJob, Mark, Stop, Drives
        <5> QED
          BY <2>2, <5>1, <5>2, <5>3, StatusMoves
      <4>2. ASSUME drv[d].at = "link" PROVE named'[p] = NoJob /\ OnlyJob(p, drv[d].job)
        <5>1. named[p] = NoJob /\ OnlyJob(p, drv[d].job) /\ linking = {}
          BY <1>1, <2>6, <3>1, <4>2 DEF Lone, Drives, OneWay
        <5>2. \A e \in Driver : LinkJob(e) => e = d /\ drv[d].child = p
          BY <2>6, <3>0, <3>1
        <5> QED
          BY <2>2, <2>3, <3>1, <4>2, <5>1, <5>2, NamedMoves
      <4>3. ASSUME drv[d].at \in Settling PROVE status'[p] # "DRAFT" /\ OnlyJob(p, NoJob)
        BY <1>1, <1>2, <2>6, <3>1, <4>3 DEF Lone
      <4> QED
        BY <3>1, <4>1, <4>2, <4>3
    <3>2. CASE drv'[d] = Idle \/ drv'[d].at = "stop" \/ drv'[d].at = "queue"
      BY <3>2 DEF Idle, Settling
    <3>3. CASE drv[d].at = "create" /\ drv'[d].child = drv[d].child /\ Insert(drv[d].child, FALSE)
      <4>1. Fresh \in Job /\ row[Fresh] = "NONE" /\ row' = [row EXCEPT ![Fresh] = "QUEUED"]
            /\ of' = [of EXCEPT ![Fresh] = p]
        BY <2>6, <3>3, InsertMoves
      <4>2. row'[Fresh] # "NONE" /\ of'[Fresh] = p
        BY <4>1 DEF TypeInv, JobTypes
      <4> QED
        BY <1>5, <4>1, <4>2
    <3>4. CASE drv[d].at \in Settling /\ drv'[d].at \in Settling /\ drv'[d].child = drv[d].child
      BY <1>1, <1>2, <2>6, <3>4 DEF Lone, Settling
    <3>5. ASSUME Notice(d, p), drv'[d].at \in {"mark", "undo"}
          PROVE  status'[p] # "DRAFT" /\ OnlyJob(p, NoJob)
      <4>1. status[p] = "RUNNING" /\ named[p] # NoJob /\ ~ Active(named[p])
        BY <3>5 DEF Notice, Ended, Active, TERMINAL_JOB_STATUSES, ACTIVE_JOB_STATUSES
      <4>2. OnlyJob(p, named[p])
        BY <1>1, <4>1 DEF Lone
      <4> QED
        BY <1>2, <4>1, <4>2 DEF OnlyJob
    <3>6. ASSUME Choose(d), NextChild = p PROVE status'[p] = "DRAFT" /\ OnlyJob(p, NoJob)
      BY <3>6 DEF Choose, OnlyJob, plans
    <3> QED
      BY <2>6, <3>1, <3>2, <3>3, <3>4, <3>5, <3>6, DriversTurn DEF Settling
  <2> QED
    BY <2>1, <2>4, <2>5, <2>6 DEF Lone, Drives
<1>6. ASSUME NEW i \in Job, row[i] = "NONE", row'[i] # "NONE", of'[i] = p PROVE Lone(p)'
  BY <1>3, <1>4, <1>6, JobsCome
<1>7. ASSUME \A i \in Job : row[i] = "NONE" /\ row'[i] # "NONE" => of'[i] # p, NEW i \in Job,
             Active(i)', of'[i] = p
      PROVE  Active(i) /\ of[i] = p
  <2>1. row'[i] # "NONE"
    BY <1>7 DEF Active, ACTIVE_JOB_STATUSES
  <2>2. row[i] # "NONE"
    BY <1>7, <2>1
  <2> QED
    BY <1>7, <2>2, ActiveBefore, OwnersStay
<1> QED
  BY <1>3, <1>5, <1>6, <1>7

-----------------------------------------------------------------------------
(* What becomes of the record that Velnox set noout *)

\* Who writes the record, and who what was seen of Ceph.
LEMMA RecordMoves ==
  ASSUME TypeInv, [Next]_vars, NEW p \in Child
  PROVE  /\ missed \subseteq missed'
         /\ ceph'[p] = ceph[p] \/ \E j \in Job : Facts(j) /\ of[j] = p
         /\ velnoxs'[p] => \/ velnoxs[p]
                           \/ \E j \in Job :
                                /\ of[j] = p /\ row[j] = "RUNNING" /\ run[j].part = "go"
                                /\ run[j].at <= Count(p)
                                /\ Does(p, run[j].at) \in {"noout", "reboot"}
                                /\ Does(p, run[j].at) = "reboot" => ceph[p]
                                /\ row' = row /\ run'[j].part = "flag"
                                /\ UNCHANGED <<status, ceph>>
<1> USE DEF plans, details, jobs, cluster, history
<1>same. ASSUME UNCHANGED <<velnoxs, ceph>>, missed \subseteq missed'
         PROVE  /\ missed \subseteq missed' /\ ceph'[p] = ceph[p] /\ (velnoxs'[p] => velnoxs[p])
  BY <1>same
<1>back. ASSUME NEW q, Sets(velnoxs, q, FALSE), UNCHANGED <<ceph, missed>>
         PROVE  /\ missed \subseteq missed' /\ ceph'[p] = ceph[p] /\ (velnoxs'[p] => velnoxs[p])
  BY <1>back DEF Sets, TypeInv, PlanTypes
<1>0. CASE UNCHANGED vars
  BY <1>0, <1>same DEF vars
<1>Facts. ASSUME NEW j \in Job, Facts(j)
          PROVE  /\ missed' = missed /\ velnoxs' = velnoxs
                 /\ ceph'[p] = ceph[p] \/ of[j] = p
  <2>1. /\ missed' = missed /\ velnoxs' = velnoxs
        /\ \E v : ceph' = [ceph EXCEPT ![of[j]] = v]
    BY <1>Facts DEF Facts, Sets, Plan
  <2> QED
    BY <2>1
<1>sets. ASSUME NEW j \in Job, NooutSet(j) \/ Reboot(j)
         PROVE  /\ missed' = missed /\ ceph' = ceph /\ status' = status
                /\ velnoxs'[p] =>
                     \/ velnoxs[p]
                     \/ /\ of[j] = p /\ row[j] = "RUNNING" /\ run[j].part = "go"
                        /\ run[j].at <= Count(p) /\ Does(p, run[j].at) \in {"noout", "reboot"}
                        /\ Does(p, run[j].at) = "reboot" => ceph[p]
                        /\ row' = row /\ run'[j].part = "flag"
  <2>1. missed' = missed /\ ceph' = ceph /\ status' = status
    BY <1>sets DEF NooutSet, Reboot
  <2>2. \E act \in {"noout", "reboot"} : /\ Doing(j, act)
                                         /\ NooutSet(j) => act = "noout"
    BY <1>sets DEF NooutSet, Reboot
  <2>3. /\ Does(of[j], run[j].at) \in {"noout", "reboot"} /\ run[j].at <= Count(of[j])
        /\ row[j] = "RUNNING" /\ run[j].part = "go"
        /\ NooutSet(j) => Does(of[j], run[j].at) = "noout"
    BY <2>2, DoingIs
  <2>4. \/ velnoxs' = velnoxs
        \/ /\ Into(j, "flag") /\ velnoxs' = [velnoxs EXCEPT ![of[j]] = TRUE]
           /\ NooutSet(j) \/ ceph[of[j]]
    BY <1>sets DEF NooutSet, Reboot, Sets, Plan
  <2>5. Into(j, "flag") => row' = row /\ run'[j].part = "flag"
    BY DEF Into, TypeInv, JobTypes, Run
  <2>6. velnoxs' = [velnoxs EXCEPT ![of[j]] = TRUE] /\ of[j] # p => velnoxs'[p] = velnoxs[p]
    BY DEF TypeInv, PlanTypes
  <2> QED
    BY <2>1, <2>3, <2>4, <2>5, <2>6
<1>takes. ASSUME \/ \E j \in Job : Cleared(j) \/ Undone(j)
                 \/ \E d \in Driver : DriverRecords(d)
          PROVE  /\ missed \subseteq missed' /\ ceph'[p] = ceph[p] /\ (velnoxs'[p] => velnoxs[p])
  BY <1>takes, <1>back DEF Cleared, Undone, DriverRecords
<1>works. ASSUME NEW j \in Job,
                 \/ Latest8(j) \/ Checks(j) \/ Recheck(j) \/ Gate(j) \/ ChecksGate(j)
                 \/ \E mode \in {"AUTOMATIC", "APPROVED"} : Apply(j, mode) \/ ApplyFails(j, mode)
                 \/ Report(j) \/ Succeed(j) \/ Repository(j) \/ Packages(j) \/ Restart(j)
                 \/ Settle(j) \/ Proven(j)
                 \/ NooutUnset(j) \/ Evacuate(j) \/ Flag(j) \/ OrderReboot(j)
                 \/ SeenBack(j) \/ Validate(j) \/ Prove(j) \/ Return(j) \/ Final(j) \/ StepFails(j)
                 \/ Cancelled(j) \/ Undo(j) \/ Tell(j) \/ End(j)
          PROVE  UNCHANGED <<velnoxs, ceph, missed>>
  BY <1>works
  DEF Latest8, Checks, Recheck, Gate, ChecksGate, Apply, ApplyFails, Report, Succeed, Repository,
      Packages, Restart, Settle, Proven, NooutUnset, Evacuate, Flag, OrderReboot, SeenBack,
      Validate, Prove, Return, Final, StepFails, Cancelled, Undo, Tell, End
<1>misses. ASSUME \/ \E j \in Job : UndoFails(j)
                  \/ \E d \in Driver : DriverMisses(d)
           PROVE  UNCHANGED <<velnoxs, ceph>> /\ missed \subseteq missed'
  BY <1>misses DEF UndoFails, DriverMisses, Unreached
<1>others. ASSUME \/ \E j \in Job : \/ Claim(j) \/ WorkerDies(j) \/ Reconcile(j)
                                    \/ Approve(j) \/ AskCancel(j) \/ Retry(j)
                                    \/ \E as \in {"CANCELLED", "FAILED"} : EndUnheld(j, as)
                  \/ \E d \in Driver :
                       \/ \E q \in Child : Notice(d, q)
                       \/ DriverUndoes(d) \/ Mark(d) \/ Stop(d)
                       \/ EndComposite(d) \/ Choose(d) \/ CreateJob(d) \/ LinkJob(d) \/ Enqueue(d)
                       \/ DriverDies(d)
                  \/ \E q \in Child : RunPlan(q) \/ \E j \in Job : LinkPlan(q, j)
                  \/ ApiDies \/ RunComposite
                  \/ \E t \in Target : NodeReturns(t)
           PROVE  UNCHANGED <<velnoxs, ceph, missed>>
  BY <1>others
  DEF Claim, WorkerDies, Reconcile, Approve, AskCancel, Retry, EndUnheld, Notice, DriverUndoes,
      Mark, Stop, EndComposite, Choose, CreateJob, LinkJob, Enqueue, DriverDies, RunPlan, LinkPlan,
      ApiDies, RunComposite, NodeReturns
<1> QED
  BY <1>0, <1>same, <1>Facts, <1>sets, <1>takes, <1>works, <1>misses, <1>others
  DEF Next, Drive, Work

\* What a job's step does to the status of its plan, and when it makes a record stay.
Leads(j) ==
  LET p == of[j]  a == run[j].at IN
  /\ run[j].at = 1 /\ run'[j].at > 1 => status'[p] = "RUNNING"
  /\ \/ status'[p] = status[p] \/ status'[p] = "RUNNING"
     \/ Report(j) /\ run'[j].at = a + 1
     \/ (ChecksGate(j) \/ Tell(j)) /\ run'[j].part \notin Parts
  /\ row'[j] = "SUCCEEDED" => Succeed(j)
  /\ Active(j)' /\ run'[j].part \in Parts =>
       run[j].part \in Parts /\ run'[j].at \in {a, a + 1}
  /\ velnoxs[p] /\ velnoxs'[p] /\ Active(j)' /\ run'[j].part = "go" =>
       /\ run[j].part \in {"go", "prove"} \/ Does(p, a) \in {"noout", "reboot"}
       /\ \/ run'[j].at = a /\ run[j].part = "go"
          \/ run'[j].at = a + 1 /\ (run[j].part = "go" => Does(p, a) \notin {"unset", "validate"})
  /\ velnoxs[p] /\ velnoxs'[p] /\ p \notin missed' /\ run'[j].part \in {"prove", "tell", "end"} =>
       run[j].part = "tell" \/ (Does(p, a) = "validate" /\ ~ ceph[p] /\ a <= Count(p))

LEMMA WorkLeads ==
  ASSUME TypeInv, RunsFit, NEW j \in Job, Work(j)
  PROVE  Leads(j)
<1> USE DEF plans, details, jobs, cluster, history
<1> DEFINE p == of[j]  a == run[j].at
<1>0. /\ row[j] = "RUNNING" /\ Fits(j) /\ p \in Child /\ a \in Nat /\ a # 0 /\ run[j] \in Run
      /\ status \in [Child -> PlanStatus] /\ run \in [Job -> Run] /\ row \in [Job -> Statuses]
      /\ velnoxs \in [Child -> BOOLEAN]
  <2>1. row[j] = "RUNNING"
    BY WorkIsStep DEF IsStep
  <2>2. Fits(j) /\ p \in Child
    BY <2>1 DEF RunsFit, TypeInv, JobsAreWhole
  <2>3. a \in Nat /\ a # 0
    BY <2>2, InPlaceOrder DEF Fits
  <2> QED
    BY <2>1, <2>2, <2>3 DEF TypeInv, JobTypes, PlanTypes, Statuses
<1>1. a = 1 => /\ Does(p, a) = "facts" /\ run[j].part \notin Midway
  <2>1. Does(p, 1) = "facts"
    BY <1>0, FactsFirst
  <2> QED
    BY <1>0, <2>1 DEF Fits, Midway
<1>2. /\ Onward(j) => run'[j].at = a + 1 /\ run'[j].part = "go" /\ row' = row
      /\ \A part : Into(j, part) => run'[j].at = a /\ run'[j].part = part /\ row' = row
      /\ \A ending : GiveUp(j, ending) => run'[j].at = a /\ run'[j].part = "undo" /\ row' = row
      /\ Parks(j) => run'[j].at = a /\ run'[j].part = run[j].part
                     /\ row'[j] = "WAITING_APPROVAL"
      /\ \A as : Ends(j, as) => run'[j] = NoRun /\ row'[j] = as
  BY <1>0 DEF Onward, Into, GiveUp, Parks, Ends, Run
<1>3. "go" \in Parts /\ Parts = {"go"} \union Midway /\ "RUNNING" # "SUCCEEDED"
      /\ "undo" \notin Parts /\ "end" \notin Parts /\ "tell" \notin Parts /\ "undone" \notin Parts
      /\ NoRun.at = 1
  BY DEF Parts, Midway, NoRun
<1>4. row[j] = "RUNNING" /\ a \in Nat /\ a # 0
  BY <1>0
<1> HIDE DEF p, a
\* On to the next step from one that has no inside, and leaves the plan alone.
<1>plain. ASSUME Onward(j), run[j].part = "go", status' = status, a <= Count(p),
                 Does(p, a) # "facts",
                 Does(p, a) \notin {"unset", "validate"} \/ ~ velnoxs[p]
          PROVE  Leads(j)
  <2>1. run'[j].at = a + 1 /\ run'[j].part = "go" /\ row' = row /\ a # 1
    BY <1>plain, <1>1, <1>2
  <2> QED
    BY <1>4, <1>3, <1>plain, <2>1 DEF Leads, p, a
\* Into the midst of a step.
<1>into. ASSUME NEW part \in {"flag", "look", "back", "cleared"}, Into(j, part),
                run[j].part \in Parts, status' = status
         PROVE  Leads(j)
  <2>1. run'[j].at = a /\ run'[j].part = part /\ row' = row
    BY <1>into, <1>2
  <2> QED
    BY <1>4, <1>3, <1>into, <2>1 DEF Leads, p, a
\* To the clean-up.
<1>giveup. ASSUME NEW ending, GiveUp(j, ending), status' = status \/ ChecksGate(j)
           PROVE  Leads(j)
  <2>1. run'[j].at = a /\ run'[j].part = "undo" /\ row' = row
    BY <1>giveup, <1>2
  <2> QED
    BY <1>4, <1>3, <1>giveup, <2>1 DEF Leads, p, a
<1>Facts. ASSUME Facts(j) PROVE Leads(j)
  <2>1. Doing(j, "facts") /\ Onward(j) /\ status' = [status EXCEPT ![p] = "RUNNING"]
    BY <1>Facts DEF Facts, Sets, Plan, p
  <2>2. run'[j].at = a + 1 /\ run'[j].part = "go" /\ row' = row /\ status'[p] = "RUNNING"
    BY <1>0, <1>2, <2>1
  <2>3. run[j].part = "go" /\ Does(p, a) = "facts"
    BY <2>1, DoingIs DEF p, a
  <2> QED
    BY <1>4, <1>3, <2>2, <2>3 DEF Leads, p, a
<1>steps. ASSUME \/ Latest8(j) \/ Checks(j) \/ Recheck(j)
                 \/ \E mode \in {"AUTOMATIC", "APPROVED"} : Apply(j, mode)
                 \/ Repository(j) \/ Packages(j) \/ Restart(j) \/ Settle(j) \/ Proven(j)
                 \/ Evacuate(j) \/ Return(j) \/ Final(j)
          PROVE  Leads(j)
  <2>1. /\ Onward(j) /\ status' = status
        /\ \E act \in {"latest8", "checks", "recheck", "automatic", "approved", "repository",
                       "repositories", "packages", "restart", "settle", "require", "verify",
                       "evacuate", "return", "final"} : Doing(j, act)
    BY <1>steps
    DEF Latest8, Checks, Recheck, Apply, Applies, Repository, Packages, Restart, Settle, Proven,
        Evacuate, Return, Final
  <2>2. /\ run[j].part = "go" /\ a <= Count(p)
        /\ Does(p, a) \notin {"facts", "unset", "validate"}
    BY <2>1, DoingIs DEF p, a
  <2> QED
    BY <1>plain, <2>1, <2>2
<1>Gate. ASSUME Gate(j) PROVE Leads(j)
  <2>1. Parks(j) \/ Onward(j)
    BY <1>Gate DEF Gate
  <2>2. /\ run[j].part = "go" /\ a <= Count(p) /\ Does(p, a) \in {"ask", "canary"}
        /\ status' = status
    BY <1>Gate, DoingIs DEF Gate, p, a
  <2>3. ASSUME Parks(j) PROVE Leads(j)
    <3>1. run'[j].at = a /\ run'[j].part = "go" /\ row'[j] = "WAITING_APPROVAL"
      BY <1>2, <2>2, <2>3
    <3> QED
      BY <1>4, <1>3, <2>2, <3>1 DEF Leads, p, a
  <2>4. ASSUME Onward(j) PROVE Leads(j)
    BY <1>plain, <2>2, <2>4
  <2> QED
    BY <2>1, <2>3, <2>4
<1>ChecksGate. ASSUME ChecksGate(j) PROVE Leads(j)
  <2>1. /\ GiveUp(j, "FAILED") \/ (Onward(j) /\ status' = status)
        /\ Doing(j, "gate")
    BY <1>ChecksGate DEF ChecksGate
  <2>2. run[j].part = "go" /\ a <= Count(p) /\ Does(p, a) = "gate"
    BY <2>1, DoingIs DEF p, a
  <2> QED
    BY <1>ChecksGate, <1>plain, <1>giveup, <2>1, <2>2
<1>Report. ASSUME Report(j) PROVE Leads(j)
  <2>1. Doing(j, "report") /\ Onward(j)
    BY <1>Report DEF Report
  <2>2. run'[j].at = a + 1 /\ run'[j].part = "go" /\ row' = row
    BY <1>2, <2>1
  <2>3. run[j].part = "go" /\ Does(p, a) = "report" /\ a # 1
    BY <1>1, <2>1, DoingIs DEF p, a
  <2> QED
    BY <1>4, <1>3, <1>Report, <2>2, <2>3 DEF Leads, p, a
<1>ends. ASSUME Succeed(j) \/ End(j) PROVE Leads(j)
  <2>1. /\ status' = status /\ run[j].part \in {"go", "end"}
        /\ \E as \in {"SUCCEEDED", "FAILED", "CANCELLED"} :
             Ends(j, as) /\ (as = "SUCCEEDED" => Succeed(j))
    <3>1. ASSUME End(j) PROVE run[j].ending \in {"FAILED", "CANCELLED"} /\ run[j].part = "end"
      BY <1>0, <3>1 DEF End, In, TypeInv, JobsAreWhole, Undoing, Run
    <3> QED
      BY <1>ends, <3>1 DEF Succeed, End, In
  <2>2. run'[j] = NoRun /\ row'[j] \in {"SUCCEEDED", "FAILED", "CANCELLED"}
        /\ (row'[j] = "SUCCEEDED" => Succeed(j))
    BY <1>2, <2>1
  <2>3. ~ Active(j)' /\ run'[j].at = 1 /\ run'[j].part = "go"
    BY <2>2 DEF Active, ACTIVE_JOB_STATUSES, NoRun
  <2> QED
    BY <1>4, <2>1, <2>2, <2>3 DEF Leads, p, a
<1>NooutSet. ASSUME NooutSet(j) PROVE Leads(j)
  <2>1. Doing(j, "noout") /\ status' = status /\ (Onward(j) \/ Into(j, "flag"))
    BY <1>NooutSet DEF NooutSet
  <2>2. run[j].part = "go" /\ a <= Count(p) /\ Does(p, a) = "noout"
    BY <2>1, DoingIs DEF p, a
  <2> QED
    BY <1>3, <1>plain, <1>into, <2>1, <2>2
<1>NooutUnset. ASSUME NooutUnset(j) PROVE Leads(j)
  <2>1. /\ Doing(j, "unset") /\ status' = status
        /\ Into(j, "cleared") \/ (Onward(j) /\ ~ velnoxs[p])
    BY <1>NooutUnset DEF NooutUnset, Plan, p
  <2>2. run[j].part = "go" /\ a <= Count(p) /\ Does(p, a) = "unset"
    BY <2>1, DoingIs DEF p, a
  <2> QED
    BY <1>3, <1>plain, <1>into, <2>1, <2>2
<1>Reboot. ASSUME Reboot(j) PROVE Leads(j)
  <2>1. Doing(j, "reboot") /\ status' = status /\ (Onward(j) \/ Into(j, "flag") \/ Into(j, "look"))
    BY <1>Reboot DEF Reboot
  <2>2. run[j].part = "go" /\ a <= Count(p) /\ Does(p, a) = "reboot"
    BY <2>1, DoingIs DEF p, a
  <2> QED
    BY <1>3, <1>plain, <1>into, <2>1, <2>2
<1>Validate. ASSUME Validate(j) PROVE Leads(j)
  <2>1. /\ Doing(j, "validate") /\ status' = status
        /\ Into(j, "cleared") \/ (Into(j, "prove") /\ ~ (ceph[p] /\ velnoxs[p]))
    BY <1>Validate DEF Validate, Plan, p
  <2>2. run[j].part = "go" /\ a <= Count(p) /\ Does(p, a) = "validate"
    BY <2>1, DoingIs DEF p, a
  <2>3. ASSUME Into(j, "prove"), ~ (ceph[p] /\ velnoxs[p]) PROVE Leads(j)
    <3>1. run'[j].at = a /\ run'[j].part = "prove" /\ row' = row
      BY <1>2, <2>3
    <3> QED
      BY <1>4, <1>3, <2>1, <2>2, <2>3, <3>1 DEF Leads, p, a
  <2> QED
    BY <1>3, <1>into, <2>1, <2>2, <2>3
<1>within. ASSUME Flag(j) \/ SeenBack(j) \/ OrderReboot(j) PROVE Leads(j)
  <2>1. /\ status' = status /\ run[j].part \in {"flag", "look", "back"}
        /\ Onward(j) \/ Into(j, "look") \/ Into(j, "back")
    BY <1>within DEF Flag, SeenBack, OrderReboot, In
  <2>2. a # 1 /\ Does(p, a) \in {"noout", "reboot"} /\ run[j].part \in Parts
    BY <1>0, <1>1, <2>1 DEF Fits, Midway, Parts, p, a
  <2>3. ASSUME Onward(j) PROVE Leads(j)
    <3>1. run'[j].at = a + 1 /\ run'[j].part = "go" /\ row' = row
      BY <1>2, <2>3
    <3> QED
      BY <1>4, <1>3, <2>1, <2>2, <3>1 DEF Leads, p, a
  <2> QED
    BY <1>into, <2>1, <2>2, <2>3
<1>Cleared. ASSUME Cleared(j) PROVE Leads(j)
  <2>1. /\ status' = status /\ run[j].part = "cleared" /\ velnoxs' = [velnoxs EXCEPT ![p] = FALSE]
        /\ Into(j, "prove") \/ Onward(j)
    BY <1>Cleared DEF Cleared, In, Sets, Plan, p
  <2>2. a # 1 /\ run[j].part \in Parts /\ ~ velnoxs'[p]
    BY <1>0, <1>1, <2>1 DEF Midway, Parts
  <2>3. row' = row /\ run'[j].part \in {"prove", "go"} /\ run'[j].at \in {a, a + 1}
    BY <1>2, <2>1
  <2> QED
    BY <1>4, <1>3, <2>1, <2>2, <2>3 DEF Leads, p, a
<1>Prove. ASSUME Prove(j) PROVE Leads(j)
  <2>1. status' = status /\ run[j].part = "prove" /\ Onward(j)
    BY <1>Prove DEF Prove, In
  <2>2. a # 1 /\ run[j].part \in Parts
    BY <1>1, <2>1 DEF Midway, Parts
  <2>3. run'[j].at = a + 1 /\ run'[j].part = "go" /\ row' = row
    BY <1>2, <2>1
  <2> QED
    BY <1>4, <1>3, <2>1, <2>2, <2>3 DEF Leads, p, a
<1>fails. ASSUME \/ \E mode \in {"AUTOMATIC", "APPROVED"} : ApplyFails(j, mode)
                 \/ StepFails(j) \/ Cancelled(j)
          PROVE  Leads(j)
  <2>1. status' = status /\ \E ending : GiveUp(j, ending)
    BY <1>fails DEF ApplyFails, StepFails, Cancelled
  <2> QED
    BY <1>giveup, <2>1
<1>undo. ASSUME NEW part \in {"undone", "tell", "end"}, Into(j, part), status' = status \/ Tell(j),
                run[j].part = "tell" \/ part = "undone" \/ ~ (velnoxs[p] /\ velnoxs'[p])
                  \/ p \in missed'
         PROVE  Leads(j)
  <2>1. run'[j].at = a /\ run'[j].part = part /\ row' = row
    BY <1>undo, <1>2
  <2>2. part \notin Parts /\ part # "go" /\ part # "prove"
    BY DEF Parts
  <2> QED
    BY <1>4, <1>3, <1>undo, <2>1, <2>2 DEF Leads, p, a
<1>undoes. ASSUME Undo(j) \/ UndoFails(j) \/ Undone(j) \/ Tell(j) PROVE Leads(j)
  <2>1. Undo(j) => /\ status' = status
                   /\ Into(j, "undone") \/ (Into(j, "tell") /\ ~ velnoxs[p])
    BY DEF Undo, Plan, p
  <2>2. UndoFails(j) => status' = status /\ Into(j, "end") /\ p \in missed'
    BY DEF UndoFails, Unreached, Plan, p
  <2>3. Undone(j) => /\ status' = status /\ Into(j, "tell")
                     /\ velnoxs' = [velnoxs EXCEPT ![p] = FALSE]
    BY DEF Undone, Sets, Plan, p
  <2>4. Tell(j) => Into(j, "end") /\ run[j].part = "tell"
    BY DEF Tell, In
  <2>5. velnoxs' = [velnoxs EXCEPT ![p] = FALSE] => ~ velnoxs'[p]
    BY <1>0
  <2> QED
    BY <1>undo, <1>undoes, <2>1, <2>2, <2>3, <2>4, <2>5
<1> QED
  BY <1>Facts, <1>steps, <1>Gate, <1>ChecksGate, <1>Report, <1>ends, <1>NooutSet, <1>NooutUnset,
     <1>Reboot, <1>Validate, <1>within, <1>Cleared, <1>Prove, <1>fails, <1>undoes DEF Work

-----------------------------------------------------------------------------
(* noout is cleared *)

\* Plans that nothing is promised of: one in a job it does not name, and one for which a
\* call to clear noout did not reach the cluster.
Excused == strayed \union missed

\* At the start of a step the record says what is due, and behind the clean-up it is gone.
Held(j) ==
  Active(j) /\ of[j] \notin Excused =>
    /\ run[j].part = "go" /\ velnoxs[of[j]] => Due(of[j], run[j].at)
    /\ run[j].part \in {"prove", "tell", "end"} => ~ velnoxs[of[j]]

\* A plan with a job behind its facts is no draft, and runs until its job's report.
Underway(j) ==
  /\ row[j] # "NONE" /\ run[j].at > 1 => status[of[j]] # "DRAFT"
  /\ /\ Active(j) /\ of[j] \notin Excused /\ run[j].at > 1 /\ run[j].part \in Parts
     /\ \A h \in 1 .. run[j].at - 1 : Does(of[j], h) # "report"
     => status[of[j]] = "RUNNING"

\* A job that succeeded leaves no record, and its plan gets no other.
LeavesNone(j) ==
  row[j] = "SUCCEEDED" /\ of[j] \notin Excused =>
    ~ velnoxs[of[j]] /\ status[of[j]] # "DRAFT" /\ OnlyJob(of[j], NoJob)

\* A record is a begun plan's, of Proxmox nodes one that saw Ceph; and not of one that is over.
RecordFits(p) ==
  /\ status[p] = "DRAFT" => ~ velnoxs[p]
  /\ Kind[p] = "pve" /\ velnoxs[p] /\ p \notin Excused => ceph[p]
  /\ status[p] \in Over /\ velnoxs[p] => p \in Excused

\* A driver marks a plan when its record is gone.
MarksClean(d) == Drives(d, "mark") /\ drv[d].child \notin Excused => ~ velnoxs[drv[d].child]

RestInv ==
  /\ OneActive /\ LoneInv
  /\ \A j \in Job : Held(j) /\ Underway(j) /\ LeavesNone(j)
  /\ \A p \in Child : RecordFits(p)
  /\ \A d \in Driver : MarksClean(d)

\* A record that is new is the active job's, and that job is about to set noout.
LEMMA NewRecord ==
  ASSUME TypeInv, RunsFit, RestInv, [Next]_vars, NEW p \in Child, velnoxs'[p], ~ velnoxs[p]
  PROVE  \E j \in Job :
           /\ of[j] = p /\ Active(j) /\ row' = row /\ run'[j].part = "flag"
           /\ status[p] # "DRAFT" /\ status' = status /\ ceph' = ceph
           /\ Kind[p] = "pve" => ceph[p]
           /\ p \notin Excused => status[p] = "RUNNING"
<1>1. PICK j \in Job : /\ of[j] = p /\ row[j] = "RUNNING" /\ run[j].part = "go"
                       /\ run[j].at <= Count(p) /\ Does(p, run[j].at) \in {"noout", "reboot"}
                       /\ Does(p, run[j].at) = "reboot" => ceph[p]
                       /\ row' = row /\ run'[j].part = "flag"
                       /\ UNCHANGED <<status, ceph>>
  BY RecordMoves
<1>2. Active(j) /\ Fits(j)
  BY <1>1 DEF Active, ACTIVE_JOB_STATUSES, RunsFit
<1>3. run[j].at \in 1 .. Count(p)
  BY <1>1, <1>2, InPlaceOrder DEF Fits
<1>4. run[j].at > 1 /\ \A h \in 1 .. run[j].at - 1 : Does(p, h) # "report"
  BY <1>1, <1>3, DueBetween
<1>5. Underway(j)
  BY DEF RestInv
<1>6. status[p] # "DRAFT" /\ (p \notin Excused => status[p] = "RUNNING")
  BY <1>1, <1>2, <1>4, <1>5 DEF Underway, Parts
<1>7. Kind[p] = "pve" => ceph[p]
  BY <1>1, <1>3, StepTargets
<1> QED
  BY <1>1, <1>2, <1>6, <1>7

\* A job that comes is one of a draft, or of a plan it leads astray.
LEMMA NewJob ==
  ASSUME TypeInv, RunsFit, LoneInv, [Next]_vars, NEW i \in Job, row[i] = "NONE", row'[i] # "NONE",
         of'[i] \in Child, of'[i] \notin strayed'
  PROVE  status[of'[i]] = "DRAFT"
<1>1. strayed \subseteq strayed'
  BY ParentMoves
<1>2. ASSUME NEW d \in Driver, Drives(d, "create"), drv[d].child = of'[i]
      PROVE  status[of'[i]] = "DRAFT"
  BY <1>1, <1>2 DEF LoneInv, Lone
<1>3. ASSUME NEW p \in Child, RunPlan(p), of'[i] = p PROVE status[of'[i]] = "DRAFT"
  BY <1>3 DEF RunPlan
<1> QED
  BY <1>2, <1>3, JobsCome

LEMMA RecordStep ==
  ASSUME TypeInv, RunsFit, RestInv, [Next]_vars, NEW p \in Child
  PROVE  RecordFits(p)'
<1>0. /\ Excused \subseteq Excused' /\ RecordFits(p)
      /\ \A j \in Job : Held(j) /\ Underway(j)
  BY ParentMoves, RecordMoves DEF Excused, RestInv
<1>1. ASSUME velnoxs'[p], ~ velnoxs[p] PROVE RecordFits(p)'
  <2>1. PICK j \in Job :
          /\ of[j] = p /\ Active(j) /\ row' = row /\ run'[j].part = "flag"
          /\ status[p] # "DRAFT" /\ status' = status /\ ceph' = ceph
          /\ Kind[p] = "pve" => ceph[p]
          /\ p \notin Excused => status[p] = "RUNNING"
    BY <1>1, NewRecord
  <2> QED
    BY <1>0, <2>1 DEF RecordFits, Over
<1>2. ASSUME velnoxs'[p] => velnoxs[p] PROVE RecordFits(p)'
  <2>1. status'[p] = "DRAFT" => ~ velnoxs'[p]
    BY <1>0, <1>2, DraftOnce DEF RecordFits
  <2>2. ASSUME Kind[p] = "pve", velnoxs'[p], p \notin Excused' PROVE ceph'[p]
    <3>1. ceph[p] /\ velnoxs[p] /\ p \notin Excused
      BY <1>0, <1>2, <2>2 DEF RecordFits
    <3>2. ASSUME NEW j \in Job, Facts(j), of[j] = p PROVE FALSE
      <4>1. Doing(j, "facts")
        BY <3>2 DEF Facts
      <4>2. Does(p, run[j].at) = "facts" /\ run[j].at <= Count(p) /\ row[j] = "RUNNING"
            /\ run[j].part = "go"
        BY <3>2, <4>1, DoingIs
      <4>3. run[j].at \in 1 .. Count(p)
        BY <3>2, <4>2, InPlaceOrder DEF RunsFit, Fits
      <4>4. run[j].at = 1
        BY <4>2, <4>3, FactsFirst
      <4>5. Due(p, 1)
        BY <1>0, <3>1, <3>2, <4>2, <4>4 DEF Held, Active, ACTIVE_JOB_STATUSES
      <4> QED
        BY <4>5 DEF Due
    <3> QED
      BY <3>1, <3>2, RecordMoves
  <2>3. ASSUME status'[p] \in Over, velnoxs'[p], p \notin Excused' PROVE FALSE
    <3>0. velnoxs[p] /\ p \notin Excused
      BY <1>0, <1>2, <2>3
    <3>1. CASE status'[p] = status[p]
      BY <1>0, <2>3, <3>0, <3>1 DEF RecordFits
    <3>2. ASSUME NEW j \in Job, Work(j), of[j] = p, status'[p] # status[p] PROVE FALSE
      <4>1. Report(j) \/ ChecksGate(j) \/ Tell(j)
        BY <2>3, <3>2, WorkLeads DEF Leads, Over
      <4>2. row[j] = "RUNNING" /\ Active(j)
        BY <3>2, WorkIsStep DEF IsStep, Active, ACTIVE_JOB_STATUSES
      <4>3. run[j].part # "tell" /\ (run[j].part = "go" => Due(p, run[j].at))
        BY <1>0, <3>0, <3>2, <4>2 DEF Held
      <4>4. ASSUME NEW act \in {"report", "gate"}, Doing(j, act) PROVE FALSE
        <5>1. Does(p, run[j].at) = act /\ run[j].at <= Count(p) /\ run[j].part = "go"
          BY <3>2, <4>4, DoingIs
        <5>2. run[j].at \in 1 .. Count(p)
          BY <3>2, <4>2, <5>1, InPlaceOrder DEF RunsFit, Fits
        <5> QED
          BY <4>3, <5>1, <5>2, DueBetween DEF AtItsEnd
      <4> QED
        BY <4>1, <4>3, <4>4 DEF Report, ChecksGate, Tell, In
    <3>3. ASSUME NEW d \in Driver, Mark(d), drv[d].child = p PROVE FALSE
      BY <3>0, <3>3 DEF Mark, RestInv, MarksClean
    <3>4. ASSUME status[p] = "DRAFT" PROVE FALSE
      BY <1>0, <3>0, <3>4 DEF RecordFits
    <3> QED
      BY <2>3, <3>1, <3>2, <3>3, <3>4, StatusMoves DEF Over
  <2> QED
    BY <2>1, <2>2, <2>3 DEF RecordFits
<1> QED
  BY <1>1, <1>2

LEMMA HeldStep ==
  ASSUME OneKey, TypeInv, RunsFit, RestInv, OneActive', TypeInv', [Next]_vars, NEW j \in Job
  PROVE  Held(j)'
<1> DEFINE p == of'[j]
<1> SUFFICES ASSUME Active(j)', p \notin Excused', velnoxs'[p],
                    run'[j].part \in {"go", "prove", "tell", "end"}
             PROVE  run'[j].part = "go" /\ Due(p, run'[j].at)
  BY DEF Held
<1>0. /\ Excused \subseteq Excused' /\ p \in Child /\ p \notin Excused
      /\ \A i \in Child : RecordFits(i)
      /\ Held(j)
  <2>1. p \in Child
    BY DEF TypeInv, JobsAreWhole, Active, ACTIVE_JOB_STATUSES
  <2>2. Excused \subseteq Excused'
    BY <2>1, ParentMoves, RecordMoves DEF Excused
  <2> QED
    BY <2>1, <2>2 DEF RestInv
<1> HIDE DEF p
<1>1. velnoxs[p]
  <2>1. ASSUME ~ velnoxs[p] PROVE FALSE
    <3>1. PICK i \in Job : of[i] = p /\ Active(i) /\ row' = row /\ run'[i].part = "flag"
      BY <1>0, <2>1, NewRecord
    <3>2. Active(i)'
      BY <3>1 DEF Active
    <3>3. i = j
      BY <3>2 DEF OneActive
    <3> QED
      BY <3>1, <3>3
  <2> QED
    BY <2>1
<1>2. CASE row[j] = "NONE"
  <2>1. status[p] = "DRAFT"
    <3>1. row'[j] # "NONE" /\ p \notin strayed'
      BY DEF Active, ACTIVE_JOB_STATUSES, Excused
    <3> QED
      BY <1>0, <1>2, <3>1, NewJob DEF RestInv, p
  <2> QED
    BY <1>0, <1>1, <2>1 DEF RecordFits
<1>3. CASE row[j] # "NONE"
  <2>1. Active(j)
    BY <1>3, ActiveBefore
  <2>2. ASSUME NEW i \in Job, Work(i) PROVE run'[j].part = "go" /\ Due(p, run'[j].at)
    <3>1. row[i] = "RUNNING" /\ of' = of
      BY <2>2, WorkIsStep DEF IsStep, MovesJob
    <3>2. i = j /\ of[j] = p
      BY <2>1, <3>1 DEF RestInv, OneActive, Active, ACTIVE_JOB_STATUSES, p
    <3>3. Leads(j) /\ Fits(j)
      BY <2>2, <3>1, <3>2, WorkLeads DEF RunsFit
    <3>4. run[j].at \in Nat \ {0}
      BY <1>0, <3>2, <3>3, InPlaceOrder DEF Fits
    <3>5. p \notin missed' /\ run[j].part \notin {"prove", "tell"}
      BY <1>0, <1>1, <2>1, <3>2 DEF Held, Excused
    <3>6. run'[j].part = "go"
      <4>1. ASSUME run'[j].part \in {"prove", "tell", "end"} PROVE FALSE
        <5>1. Does(p, run[j].at) = "validate" /\ ~ ceph[p] /\ run[j].at <= Count(p)
          BY <1>1, <3>2, <3>3, <3>5, <4>1 DEF Leads
        <5>2. run[j].at \in 1 .. Count(p)
          BY <1>0, <3>4, <5>1, InPlaceOrder
        <5>3. Kind[p] # "ceph"
          BY <1>0, <5>1, <5>2, StepTargets
        <5>4. Kind[p] = "pve"
          BY <1>0, <5>3, UpgradesAssumption
        <5> QED
          BY <1>0, <1>1, <5>1, <5>4 DEF RecordFits
      <4> QED
        BY <4>1
    <3>7. /\ run[j].part = "go" \/ Does(p, run[j].at) \in {"noout", "reboot"}
          /\ \/ run'[j].at = run[j].at /\ run[j].part = "go"
             \/ /\ run'[j].at = run[j].at + 1
                /\ run[j].part = "go" => Does(p, run[j].at) \notin {"unset", "validate"}
      BY <1>1, <3>2, <3>3, <3>5, <3>6 DEF Leads
    <3>8. run[j].part = "go" => Due(p, run[j].at)
      BY <1>0, <1>1, <2>1, <3>2 DEF Held
    <3> QED
      BY <3>4, <3>6, <3>7, <3>8, DueNext
  <2>3. CASE Still(j)
    BY <1>0, <1>1, <2>1, <2>3 DEF Still, Held, p
  <2>4. CASE Blank(j)
    BY <1>3, <2>4 DEF Blank, Active, ACTIVE_JOB_STATUSES
  <2> QED
    BY <2>2, <2>3, <2>4, BesideWork
<1> QED
  BY <1>2, <1>3

LEMMA UnderwayStep ==
  ASSUME OneKey, TypeInv, RunsFit, \A i \in Job : OnTheWay(i), RestInv, TypeInv', RunsFit',
         [Next]_vars, NEW j \in Job
  PROVE  Underway(j)'
<1>0. Underway(j) /\ \A p \in Child : Excused \subseteq Excused'
  BY ParentMoves, RecordMoves DEF Excused, RestInv
<1>1. ASSUME Work(j) PROVE Underway(j)'
  <2> DEFINE p == of[j]
  <2>1. /\ Leads(j) /\ of' = of /\ p \in Child /\ row[j] = "RUNNING" /\ Active(j)
        /\ run[j].at \in Nat
    <3>1. row[j] = "RUNNING" /\ of' = of
      BY <1>1, WorkIsStep DEF IsStep, MovesJob
    <3> QED
      BY <1>1, <3>1, WorkLeads
      DEF TypeInv, JobsAreWhole, Active, ACTIVE_JOB_STATUSES, JobTypes, Run
  <2> HIDE DEF p
  <2>2. Advances(j)
    BY <1>1, WorkAdvances
  <2>3. run'[j].at > 1 => run[j].at > 1 \/ status'[p] = "RUNNING"
    <3>1. run[j].at # 0
      BY <2>1, InPlaceOrder DEF RunsFit, Fits, p
    <3> QED
      BY <2>1, <3>1 DEF Leads, p
  <2>4. run'[j].at > 1 => status'[p] # "DRAFT"
    BY <1>0, <2>1, <2>3, DraftOnce DEF Underway, p
  <2>5. ASSUME Active(j)', p \notin Excused', run'[j].at > 1, run'[j].part \in Parts,
               \A h \in 1 .. run'[j].at - 1 : Does(p, h) # "report"
        PROVE  status'[p] = "RUNNING"
    <3>1. run[j].part \in Parts /\ run'[j].at \in {run[j].at, run[j].at + 1}
      BY <2>1, <2>5 DEF Leads
    <3>2. CASE run[j].at > 1
      <4>1. \A h \in 1 .. run[j].at - 1 : Does(p, h) # "report"
        BY <2>1, <2>5, <3>1
      <4>2. status[p] = "RUNNING"
        BY <1>0, <2>1, <2>5, <3>1, <3>2, <4>1 DEF Underway, p
      <4>3. ASSUME Report(j), run'[j].at = run[j].at + 1 PROVE FALSE
        <5>1. Does(p, run[j].at) = "report"
          BY <4>3, DoingIs DEF Report, p
        <5>2. run[j].at \in 1 .. run'[j].at - 1
          BY <2>1, <3>2, <4>3
        <5> QED
          BY <2>5, <5>1, <5>2
      <4> QED
        BY <2>1, <2>5, <4>2, <4>3 DEF Leads, p
    <3> QED
      BY <2>3, <2>5, <3>2
  <2> QED
    BY <2>1, <2>4, <2>5 DEF Underway, p
<1>2. ASSUME \/ Still(j)
             \/ \E i \in Job : Work(i) /\ i # j
      PROVE  Underway(j)'
  <2>1. /\ (row'[j] = "NONE" <=> row[j] = "NONE") /\ (row'[j] # "NONE" => of'[j] = of[j])
        /\ run'[j].at = run[j].at /\ run'[j].part = run[j].part
    <3>1. ASSUME NEW i \in Job, Work(i), i # j
          PROVE  row'[j] = row[j] /\ run'[j] = run[j] /\ of' = of
      BY <3>1, WorkIsStep DEF IsStep, MovesJob
    <3> QED
      BY <1>2, <3>1 DEF Still
  <2>2. ASSUME row'[j] # "NONE", run'[j].at > 1 PROVE status'[of'[j]] # "DRAFT"
    <3>1. of[j] \in Child /\ status[of[j]] # "DRAFT"
      BY <1>0, <2>1, <2>2 DEF Underway, TypeInv, JobsAreWhole
    <3> QED
      BY <2>1, <2>2, <3>1, DraftOnce
  <2>3. ASSUME Active(j)', of'[j] \notin Excused', run'[j].at > 1, run'[j].part \in Parts,
               \A h \in 1 .. run'[j].at - 1 : Does(of'[j], h) # "report"
        PROVE  status'[of'[j]] = "RUNNING"
    <3> DEFINE p == of[j]
    <3>1. row[j] # "NONE" /\ of'[j] = p /\ p \in Child /\ Active(j)
      BY <2>1, <2>3, ActiveBefore DEF Active, ACTIVE_JOB_STATUSES, TypeInv, JobsAreWhole
    <3> HIDE DEF p
    <3>2. status[p] = "RUNNING"
      BY <1>0, <2>1, <2>3, <3>1 DEF Underway, p
    <3>3. ASSUME NEW i \in Job, Work(i), of[i] = p PROVE i = j
      BY <3>1, <3>3, WorkIsStep DEF IsStep, RestInv, OneActive, Active, ACTIVE_JOB_STATUSES
    <3>4. ASSUME NEW d \in Driver, Mark(d), drv[d].child = p PROVE FALSE
      <4>1. OnlyJob(p, NoJob)
        BY <1>0, <2>3, <3>1, <3>4 DEF Mark, Drives, Settling, RestInv, LoneInv, Lone, Excused
      <4>2. NoJob \notin Job
        BY UpgradesAssumption
      <4> QED
        BY <3>1, <4>1, <4>2 DEF OnlyJob, p
    <3>5. ASSUME Work(j), Still(j) PROVE status'[p] = "RUNNING"
      BY <1>0, <1>1, <2>3, <3>1, <3>5 DEF Underway
    <3>6. ASSUME NEW i \in Job, Work(i), i # j, Work(j) PROVE FALSE
      BY <3>1, <3>6, WorkIsStep DEF IsStep, RestInv, OneActive, Active, ACTIVE_JOB_STATUSES
    <3>7. \A d \in Driver : Stop(d) => status[p] # "DRAFT"
      BY <3>2
    <3> QED
      BY <1>2, <3>1, <3>2, <3>3, <3>4, <3>5, <3>6, <3>7, StatusMoves
  <2> QED
    BY <2>2, <2>3 DEF Underway
<1>3. CASE Blank(j)
  BY <1>3 DEF Blank, Underway, NoRun
<1> QED
  BY <1>1, <1>2, <1>3, BesideWork

LEMMA LeavesStep ==
  ASSUME OneKey, TypeInv, RunsFit, \A i \in Job : OnTheWay(i), RestInv, TypeInv', [Next]_vars,
         NEW j \in Job
  PROVE  LeavesNone(j)'
<1> DEFINE p == of'[j]
<1> SUFFICES ASSUME row'[j] = "SUCCEEDED", p \notin Excused'
             PROVE  /\ ~ velnoxs'[p] /\ status'[p] # "DRAFT"
                    /\ \A i \in Job : ~ (Active(i)' /\ of'[i] = p)
  BY DEF LeavesNone, OnlyJob
<1>0. /\ Excused \subseteq Excused' /\ p \notin Excused /\ p \notin strayed' /\ p \in Child
      /\ LeavesNone(j) /\ Underway(j) /\ Held(j) /\ NoJob \notin Job
  <2>1. p \in Child
    BY DEF TypeInv, JobsAreWhole
  <2>2. Excused \subseteq Excused'
    BY <2>1, ParentMoves, RecordMoves DEF Excused
  <2>3. NoJob \notin Job
    BY UpgradesAssumption
  <2> QED
    BY <2>1, <2>2, <2>3 DEF RestInv, Excused
<1> HIDE DEF p
<1>only. ASSUME \A i \in Job : Active(i) => of[i] # p, status[p] # "DRAFT",
                NEW i \in Job, Active(i)', of'[i] = p
         PROVE  FALSE
  <2>1. row'[i] # "NONE"
    BY <1>only DEF Active, ACTIVE_JOB_STATUSES
  <2>2. row[i] # "NONE"
    BY <1>0, <1>only, <2>1, NewJob DEF RestInv
  <2>3. Active(i) /\ of[i] = p
    BY <1>only, <2>2, ActiveBefore, OwnersStay
  <2> QED
    BY <1>only, <2>3
<1>1. CASE row[j] = "SUCCEEDED"
  <2>1. of[j] = p
    BY <1>1, OwnersStay DEF p
  <2>2. ~ velnoxs[p] /\ status[p] # "DRAFT" /\ \A i \in Job : Active(i) => of[i] # p
    BY <1>0, <1>1, <2>1 DEF LeavesNone, OnlyJob
  <2>3. ~ velnoxs'[p]
    BY <1>0, <2>2, NewRecord
  <2> QED
    BY <1>0, <1>only, <2>2, <2>3, DraftOnce
<1>2. CASE row[j] # "SUCCEEDED"
  <2>1. Work(j)
    <3>1. ASSUME NEW i \in Job, Work(i), i # j PROVE FALSE
      BY <1>2, <3>1, WorkIsStep DEF IsStep, MovesJob
    <3>2. ~ Still(j) /\ ~ Blank(j)
      BY <1>2 DEF Still, Blank, Unheld, TERMINAL_JOB_STATUSES
    <3> QED
      BY <3>1, <3>2, BesideWork
  <2>2. /\ Succeed(j) /\ of' = of /\ row[j] = "RUNNING" /\ Fits(j) /\ of[j] = p
        /\ \A i \in Job : i # j => row'[i] = row[i]
    <3>1. row[j] = "RUNNING" /\ of' = of /\ \A i \in Job : i # j => row'[i] = row[i]
      BY <2>1, WorkIsStep DEF IsStep, MovesJob
    <3> QED
      BY <2>1, <3>1, WorkLeads DEF Leads, RunsFit, p
  <2>3. run[j].part = "go" /\ run[j].at > Count(p) /\ UNCHANGED <<status, velnoxs>>
    BY <2>2 DEF Succeed, In, Plan, Count, plans
  <2>4. run[j].at = Count(p) + 1 /\ run[j].at > 1
    <3>1. run[j].at \in 1 .. Count(p) + 1 /\ Count(p) \in Nat /\ 1 \in 1 .. Count(p)
      BY <1>0, <2>2, InPlaceOrder, FactsFirst DEF Fits
    <3> QED
      BY <2>3, <3>1
  <2>5. ~ Due(p, run[j].at)
    BY <1>0, <2>4, DueBetween DEF AtItsEnd
  <2>6. ~ velnoxs[p] /\ status[p] # "DRAFT"
    BY <1>0, <2>2, <2>3, <2>4, <2>5 DEF Held, Underway, Active, ACTIVE_JOB_STATUSES
  <2>7. \A i \in Job : ~ Active(i)'
    BY <2>2 DEF RestInv, OneActive, Active, ACTIVE_JOB_STATUSES
  <2> QED
    BY <2>3, <2>6, <2>7
<1> QED
  BY <1>1, <1>2

\* When a driver comes to mark a plan.
LEMMA MarkTurn ==
  ASSUME TypeInv, [Next]_vars, NEW d \in Driver, drv'[d].at = "mark"
  PROVE  LET c == drv'[d].child IN
         \/ drv'[d] = drv[d]
         \/ ~ velnoxs'[c] \/ c \in missed'
         \/ Notice(d, c) /\ row[named[c]] = "SUCCEEDED" /\ c \in Child
<1> USE DEF plans, details, jobs, cluster, history
<1>goes. ASSUME NEW e \in Driver, NEW at, Goes(e, at), drv'[d] # drv[d]
         PROVE  e = d /\ drv'[d].at = at /\ drv'[d].child = drv[d].child
  BY <1>goes DEF Goes, TypeInv, RoundTypes, Round
<1>1. ASSUME NEW e \in Driver, DriverUndoes(e), drv'[d] # drv[d] PROVE ~ velnoxs'[drv'[d].child]
  <2>1. /\ velnoxs' = velnoxs
        /\ \/ Goes(e, "undone")
           \/ Goes(e, "mark") /\ ~ velnoxs[drv[e].child]
    BY <1>1 DEF DriverUndoes
  <2> QED
    BY <1>1, <1>goes, <2>1
<1>2. ASSUME NEW e \in Driver, DriverMisses(e), drv'[d] # drv[d] PROVE drv'[d].child \in missed'
  BY <1>2, <1>goes DEF DriverMisses, Unreached
<1>3. ASSUME NEW e \in Driver, DriverRecords(e), drv'[d] # drv[d] PROVE ~ velnoxs'[drv'[d].child]
  <2>1. e = d /\ drv'[d].child = drv[d].child /\ drv[d].child \in Child
    BY <1>3, <1>goes DEF DriverRecords, Drives, TypeInv, RoundsAreWhole
  <2> QED
    BY <1>3, <2>1 DEF DriverRecords, Sets, TypeInv, PlanTypes
<1>4. ASSUME NEW e \in Driver, NEW p \in Child, Notice(e, p), drv'[d] # drv[d]
      PROVE  Notice(d, p) /\ row[named[p]] = "SUCCEEDED" /\ drv'[d].child = p
  <2>1. /\ drv' = [drv EXCEPT ![e] = [at |-> IF row[named[p]] = "SUCCEEDED" THEN "mark" ELSE "undo",
                                     child |-> p, job |-> named[p]]]
    BY <1>4 DEF Notice
  <2>2. e = d
    BY <1>4, <2>1 DEF TypeInv, RoundTypes
  <2>3. drv'[d] = [at |-> IF row[named[p]] = "SUCCEEDED" THEN "mark" ELSE "undo",
                   child |-> p, job |-> named[p]]
    BY <2>1, <2>2 DEF TypeInv, RoundTypes
  <2> QED
    BY <1>4, <2>2, <2>3
<1>5. CASE \/ drv'[d].child = drv[d].child /\ drv'[d].at = "queue"
           \/ drv'[d] = Idle
           \/ drv'[d].at \in {"stop", "create", "link"}
  BY <1>5 DEF Idle
<1>6. drv[d].at \in Settling /\ drv'[d].at \in Settling /\ drv'[d] # drv[d] =>
        \/ \E e \in Driver : DriverUndoes(e) \/ DriverMisses(e) \/ DriverRecords(e)
        \/ \E e \in Driver, p \in Child : Notice(e, p)
  <2>1. ASSUME \/ \E j \in Job : \/ Claim(j) \/ WorkerDies(j) \/ Reconcile(j)
                                 \/ Approve(j) \/ AskCancel(j) \/ Retry(j)
                                 \/ \E as \in {"CANCELLED", "FAILED"} : EndUnheld(j, as)
               \/ \E p \in Child : RunPlan(p) \/ \E j \in Job : LinkPlan(p, j)
               \/ ApiDies \/ RunComposite
               \/ \E t \in Target : NodeReturns(t)
        PROVE  drv' = drv
    BY <2>1
    DEF Claim, WorkerDies, Reconcile, Approve, AskCancel, Retry, EndUnheld, RunPlan, LinkPlan,
        ApiDies, RunComposite, NodeReturns
  <2>2. ASSUME NEW j \in Job, Work(j) PROVE drv' = drv
    BY <2>2, WorkIsStep DEF IsStep, MovesPlan
  <2>3. ASSUME NEW e \in Driver, \/ Mark(e) \/ EndComposite(e) \/ Enqueue(e) \/ DriverDies(e)
                                 \/ Stop(e) \/ Choose(e) \/ CreateJob(e) \/ LinkJob(e),
               drv'[d] # drv[d], drv'[d].at \in Settling
        PROVE  FALSE
    <3>1. \/ Rests(e) \/ Goes(e, "stop") \/ Goes(e, "queue")
          \/ drv' = [drv EXCEPT ![e] = [at |-> "create", child |-> NextChild, job |-> NoJob]]
          \/ drv' = [drv EXCEPT ![e].at = "link", ![e].job = Fresh]
      BY <2>3 DEF Mark, EndComposite, Enqueue, DriverDies, Stop, Choose, CreateJob, LinkJob
    <3>2. ASSUME \/ Rests(e)
                 \/ drv' = [drv EXCEPT ![e] = [at |-> "create", child |-> NextChild, job |-> NoJob]]
          PROVE  drv'[d].at \in {"idle", "create"}
      BY <2>3, <3>2 DEF Rests, Idle, TypeInv, RoundTypes
    <3>3. drv' = [drv EXCEPT ![e].at = "link", ![e].job = Fresh] => drv'[d].at = "link"
      BY <2>3 DEF TypeInv, RoundTypes, Round
    <3> QED
      BY <2>3, <3>1, <3>2, <3>3, <1>goes DEF Settling
  <2>4. UNCHANGED vars => drv' = drv
    BY DEF vars
  <2> QED
    BY <2>1, <2>2, <2>3, <2>4 DEF Next, Drive
<1>7. CASE drv[d].at \in Settling /\ drv'[d].at \in Settling /\ drv'[d] # drv[d]
  BY <1>1, <1>2, <1>3, <1>4, <1>6, <1>7
<1>8. ASSUME NEW p \in Child, Notice(d, p), drv'[d].child = p, drv'[d] # drv[d]
      PROVE  row[named[p]] = "SUCCEEDED"
  BY <1>4, <1>8
<1> QED
  BY <1>5, <1>7, <1>8, DriversTurn

LEMMA MarkStep ==
  ASSUME OneDriver, TypeInv, RunsFit, OwnJobs, RestInv, TypeInv', [Next]_vars, NEW d \in Driver
  PROVE  MarksClean(d)'
<1> DEFINE c == drv'[d].child
<1> SUFFICES ASSUME drv'[d].at = "mark", c \notin Excused' PROVE ~ velnoxs'[c]
  BY DEF MarksClean, Drives
<1>0. /\ c \notin Excused /\ c \notin missed' /\ c \notin strayed /\ c \in Child /\ NoJob \notin Job
  <2>1. c \in Child
    BY DEF TypeInv, RoundsAreWhole
  <2>2. Excused \subseteq Excused'
    BY <2>1, ParentMoves, RecordMoves DEF Excused
  <2>3. NoJob \notin Job
    BY UpgradesAssumption
  <2> QED
    BY <2>1, <2>2, <2>3 DEF Excused
<1> HIDE DEF c
<1>1. ASSUME drv'[d] = drv[d], velnoxs'[c] PROVE FALSE
  <2>1. drv[d].at = "mark" /\ drv[d].child = c
    BY <1>1 DEF c
  <2>2. ~ velnoxs[c] /\ OnlyJob(c, NoJob)
    BY <1>0, <2>1 DEF RestInv, MarksClean, LoneInv, Lone, Drives, Settling
  <2>3. PICK j \in Job : of[j] = c /\ Active(j)
    BY <1>0, <1>1, <2>2, NewRecord
  <2> QED
    BY <1>0, <2>2, <2>3 DEF OnlyJob
<1>2. ASSUME Notice(d, c), row[named[c]] = "SUCCEEDED" PROVE ~ velnoxs'[c]
  <2>1. named[c] \in Job /\ of[named[c]] = c /\ velnoxs' = velnoxs
    BY <1>0, <1>2 DEF Notice, OwnJobs, TypeInv, PlanTypes, plans
  <2>2. LeavesNone(named[c])
    BY <2>1 DEF RestInv
  <2> QED
    BY <1>0, <1>2, <2>1, <2>2 DEF LeavesNone
<1> QED
  BY <1>0, <1>1, <1>2, MarkTurn DEF c

\* Every step keeps it.
LEMMA RestStep ==
  ASSUME OneKey, OneDriver, TypeInv, RunsFit, \A i \in Job : OnTheWay(i), OwnJobs, OneWay,
         RestInv, TypeInv', RunsFit', [Next]_vars
  PROVE  RestInv'
<1>1. OneActive' /\ LoneInv'
  BY OneStaysActive, LoneStep DEF RestInv
<1>2. \A j \in Job : Held(j)' /\ Underway(j)' /\ LeavesNone(j)'
  BY <1>1, HeldStep, UnderwayStep, LeavesStep
<1>3. \A p \in Child : RecordFits(p)'
  BY RecordStep
<1>4. \A d \in Driver : MarksClean(d)'
  BY MarkStep
<1> QED
  BY <1>1, <1>2, <1>3, <1>4 DEF RestInv

LEMMA RestInit == Init => RestInv
<1> SUFFICES ASSUME Init PROVE RestInv
  OBVIOUS
<1>1. /\ \A j \in Job : row[j] = "NONE" /\ run[j] = NoRun
      /\ \A p \in Child : named[p] = NoJob /\ ~ velnoxs[p] /\ status[p] = "DRAFT"
      /\ \A d \in Driver : drv[d] = Idle
      /\ linking = {}
  BY DEF Init
<1>2. OneActive /\ \A p \in Child : RecordFits(p)
  BY <1>1 DEF OneActive, Active, ACTIVE_JOB_STATUSES, RecordFits, Over
<1>3. \A d \in Driver : MarksClean(d)
  BY <1>1 DEF MarksClean, Drives, Idle
<1>4. \A j \in Job : Held(j) /\ Underway(j) /\ LeavesNone(j)
  BY <1>1 DEF Held, Underway, LeavesNone, Active, ACTIVE_JOB_STATUSES
<1>5. LoneInv
  BY <1>1 DEF LoneInv, Lone, Drives, Idle, Settling
<1> QED
  BY <1>2, <1>3, <1>4, <1>5 DEF RestInv

\* "noout is always cleared", whatever the order of jobs, drivers, people and crashes: the
\* flag differs from what was found only while a plan says Velnox set it, and a plan that is
\* over says so only after a call to clear it was lost, or with a job it does not name
\* (ceph.noout-set, ceph.noout-unset, and cephNooutCleanup, which jobs and drivers call).
THEOREM NooutIsAsFound ==
  ASSUME OneKey, OneDriver
  PROVE  Spec => []NooutAsFound
<1> DEFINE Inv == TypeInv /\ ReleaseTypes /\ RunsAreSound /\ OrderInv /\ RestInv
<1>1. Init => Inv
  BY TypeInit, OrderInit, RestInit
<1>2. Inv /\ [Next]_vars => Inv'
  <2> SUFFICES ASSUME Inv, [Next]_vars PROVE Inv'
    OBVIOUS
  <2>1. TypeInv' /\ ReleaseTypes' /\ RunsAreSound' /\ OrderInv'
    BY TypeStep, ReleaseGrows, SoundStep, OrderStep
  <2>2. RunsFit /\ \A i \in Job : OnTheWay(i)
    BY SoundFits
  <2>3. RunsFit'
    BY <2>1 DEF RunsAreSound, Soundly, Unheld, NoRun, RunsFit
  <2>4. OwnJobs /\ OneWay
    BY DEF OrderInv
  <2>5. RestInv'
    BY <2>1, <2>2, <2>3, <2>4, RestStep
  <2> QED
    BY <2>1, <2>5
<1>3. Inv => Restored
  BY DEF RestInv, RecordFits, Restored, Excused
<1>4. Spec => []Recorded
  BY RecordedBeforeSet
<1> QED
  BY <1>1, <1>2, <1>3, <1>4, PTL DEF Spec, NooutAsFound
-----------------------------------------------------------------------------
(* Where a plan's nodes are without their guests *)

\* The evacuation of a node is behind, and its return is not.
Vacant(p, a, t) ==
  \E h \in 1 .. a - 1 :
    /\ Does(p, h) = "evacuate" /\ Whom(p, h) = t
    /\ \A m \in h + 1 .. a - 1 : ~ (Does(p, m) = "return" /\ Whom(p, m) = t)

\* One step more.
LEMMA VacantNext ==
  ASSUME NEW p, NEW t, NEW a \in Nat \ {0}
  PROVE  /\ ~ Vacant(p, 1, t)
         /\ Vacant(p, a + 1, t) =>
              \/ Does(p, a) = "evacuate" /\ Whom(p, a) = t
              \/ Vacant(p, a, t) /\ ~ (Does(p, a) = "return" /\ Whom(p, a) = t)
<1>1. ~ Vacant(p, 1, t)
  BY DEF Vacant
<1>2. ASSUME Vacant(p, a + 1, t), ~ (Does(p, a) = "evacuate" /\ Whom(p, a) = t)
      PROVE  Vacant(p, a, t) /\ ~ (Does(p, a) = "return" /\ Whom(p, a) = t)
  <2>1. PICK h \in 1 .. (a + 1) - 1 :
          /\ Does(p, h) = "evacuate" /\ Whom(p, h) = t
          /\ \A m \in h + 1 .. (a + 1) - 1 : ~ (Does(p, m) = "return" /\ Whom(p, m) = t)
    BY <1>2 DEF Vacant
  <2>2. h \in 1 .. a - 1
    BY <1>2, <2>1
  <2>3. \A m \in h + 1 .. a - 1 : m \in h + 1 .. (a + 1) - 1
    OBVIOUS
  <2>4. a \in h + 1 .. (a + 1) - 1
    BY <2>2
  <2> QED
    BY <2>1, <2>2, <2>3, <2>4 DEF Vacant
<1> QED
  BY <1>1, <1>2

\* A node is evacuated before it is rebooted, and its guests return after that.
LEMMA VacantThere ==
  ASSUME NEW p \in Child, NEW a \in 1 .. Count(p), Does(p, a) = "reboot"
  PROVE  Vacant(p, a, Whom(p, a))
<1> DEFINE n == Len(RunTargets[p])
<1>0. /\ n \in Nat /\ Count(p) \in Nat /\ Kind[p] # "ceph"
      /\ \A g, h \in 1 .. Count(p) : g < h <=> At(p, g) < At(p, h)
  BY InPlaceOrder, StepTargets
<1> HIDE DEF n
<1>1. PICK i, k : PveIs(p, a, i, k)
  BY <1>0, PveStep DEF Count
<1>2. /\ i = 14 /\ k \in 1 .. n /\ At(p, a) = 7 * k + 7 /\ Whom(p, a) = RunTargets[p][k]
  <2>1. /\ i \in 1 .. 19 /\ k \in 0 .. n /\ (k # 0 <=> i \in 11 .. 17) /\ PveDo(i) = "reboot"
        /\ Whom(p, a) = IF k = 0 THEN NoTarget ELSE RunTargets[p][k]
        /\ i \in 11 .. 17 => At(p, a) = 7 * k + i - 7
    BY <1>1, PveReads DEF n
  <2>2. i = 14
    BY <2>1, PveLines
  <2> QED
    BY <1>0, <2>1, <2>2
<1>3. PICK h \in 1 .. Count(p) : PveIs(p, h, 11, k)
  <2>1. k \in 0 .. n /\ k # 0 /\ Kind[p] # "ceph"
    BY <1>0, <1>2
  <2> QED
    BY <2>1, PveHas DEF Count, n
<1>4. At(p, h) = 7 * k + 4 /\ Does(p, h) = "evacuate" /\ Whom(p, h) = Whom(p, a)
  <2>1. At(p, h) = 7 * k + 11 - 7 /\ Does(p, h) = PveDo(11) /\ Whom(p, h) = RunTargets[p][k]
    <3>1. k # 0 /\ 11 \in 11 .. 17
      BY <1>0, <1>2
    <3> QED
      BY <1>3, <3>1, PveReads
  <2>2. PveDo(11) = "evacuate"
    BY PveLines
  <2> QED
    BY <1>0, <1>2, <2>1, <2>2
<1>5. h \in 1 .. a - 1
  BY <1>0, <1>2, <1>4
<1>6. ASSUME NEW m \in h + 1 .. a - 1, Does(p, m) = "return", Whom(p, m) = Whom(p, a) PROVE FALSE
  <2>1. m \in 1 .. Count(p) /\ At(p, m) < At(p, a) /\ At(p, h) < At(p, m)
    BY <1>0, <1>5
  <2>2. PICK g, l : PveIs(p, m, g, l)
    BY <1>0, <2>1, PveStep DEF Count
  <2>3. /\ g \in 1 .. 19 /\ l \in 0 .. n /\ (l # 0 <=> g \in 11 .. 17) /\ PveDo(g) = "return"
        /\ g \in 11 .. 17 => At(p, m) = 7 * l + g - 7
    BY <1>6, <2>2, PveReads DEF n
  <2>4. g = 16
    BY <2>3, PveLines
  <2>5. l \in Nat /\ At(p, m) = 7 * l + 9
    BY <1>0, <2>3, <2>4
  <2> QED
    BY <1>2, <1>4, <2>1, <2>5
<1> QED
  BY <1>4, <1>5, <1>6 DEF Vacant

-----------------------------------------------------------------------------
(* Who moves guests, and how a job comes to order a reboot *)

BeforeTypes == before \in [Child -> [Target -> {"none", "old", "installed", "new"}]]

\* What a job's step does to the guests and to the releases noted before it: ...
Rehomes(j) ==
  LET p == of[j]  a == run[j].at IN
  \* nothing, unless it is an evacuation that is passed, ...
  \/ /\ UNCHANGED <<busy, before>>
     /\ Does(p, a) = "evacuate" => run'[j].at # a + 1
  \* ... which takes the guests of a node on the old release away, ...
  \/ /\ Does(p, a) = "evacuate" /\ a <= Count(p)
     /\ run'[j].at = a + 1 /\ run'[j].part = "go"
     /\ before' = [before EXCEPT ![p][Here(j)] = release[Here(j)]]
     /\ busy' \subseteq busy /\ (release[Here(j)] = "old" => Here(j) \notin busy')
  \* ... or a return.
  \/ /\ Does(p, a) = "return" /\ a <= Count(p)
     /\ run'[j].at = a + 1 /\ run'[j].part = "go"
     /\ before' = before /\ busy' \subseteq busy \union {Here(j)}

\* It comes to order a reboot from the start of that step or with noout set, of a node that
\* was not yet on the new kernel, and while noout is set if the plan saw a Ceph.
Enters(j) ==
  LET p == of[j]  a == run[j].at IN
  run'[j].part \in {"flag", "look"} =>
    /\ UNCHANGED <<busy, before, ceph>> /\ run'[j].at = a /\ a <= Count(p)
    /\ \/ run[j].part = "go" /\ (Does(p, a) = "reboot" => release[Here(j)] # "new")
       \/ run[j].part = "flag"
    /\ run'[j].part = "look" => Does(p, a) = "reboot" /\ (ceph[p] => noout')

\* A job that goes on is at the step it was at, or at the next.
LEMMA StepsOn ==
  ASSUME TypeInv, RunsFit, \A i \in Job : OnTheWay(i), NEW j \in Job, Work(j), Active(j)'
  PROVE  run'[j].at \in {run[j].at, run[j].at + 1}
<1>1. of[j] \in Child /\ Fits(j) /\ run \in [Job -> Run]
  BY WorkIsStep DEF IsStep, TypeInv, JobTypes, JobsAreWhole, RunsFit
<1>2. Advances(j)
  BY WorkAdvances
<1>3. ~ GoesOut(j) => run'[j].at \in {run[j].at, run[j].at + 1}
  BY <1>1, <1>2, InPlaceOrder
  DEF Advances, GoesOn, GoesIn, GoesUndo, Waits, Onward, Into, Parks, Run, Fits
<1>4. GoesOut(j) => ~ Active(j)'
  BY DEF GoesOut, Ends, Active, ACTIVE_JOB_STATUSES, TERMINAL_JOB_STATUSES, TypeInv, JobTypes
<1> QED
  BY <1>3, <1>4

LEMMA WorkRehomes ==
  ASSUME TypeInv, RunsFit, NEW j \in Job, Work(j)
  PROVE  Rehomes(j) /\ Enters(j)
<1> USE DEF plans, details, cluster, history
<1> DEFINE p == of[j]  a == run[j].at
<1>0. /\ row[j] = "RUNNING" /\ Fits(j) /\ p \in Child /\ a \in Nat /\ a # 0 /\ NoRun.at # a + 1
      /\ run \in [Job -> Run] /\ NoRun.part = "go"
  <2>1. row[j] = "RUNNING"
    BY WorkIsStep DEF IsStep
  <2>2. Fits(j) /\ p \in Child
    BY <2>1 DEF RunsFit, TypeInv, JobsAreWhole
  <2>3. a \in Nat /\ a # 0
    BY <2>2, InPlaceOrder DEF Fits
  <2> QED
    BY <2>1, <2>2, <2>3 DEF NoRun, TypeInv, JobTypes
<1>1. /\ Onward(j) => run'[j].at = a + 1 /\ run'[j].part = "go"
      /\ \A part : Into(j, part) => run'[j].at = a /\ run'[j].part = part
      /\ \A ending : GiveUp(j, ending) => run'[j].at = a /\ run'[j].part = "undo"
      /\ Parks(j) => run'[j].at = a /\ run'[j].part = run[j].part
      /\ \A as : Ends(j, as) => run'[j] = NoRun
  BY <1>0 DEF Onward, Into, GiveUp, Parks, Ends, Run
<1> HIDE DEF p, a
\* A step that neither moves guests nor comes to order a reboot.
<1>calm. ASSUME UNCHANGED <<busy, before>>, run'[j].part \notin {"flag", "look"},
                run'[j].at # a + 1 \/ Does(p, a) # "evacuate"
         PROVE  Rehomes(j) /\ Enters(j)
  BY <1>calm DEF Rehomes, Enters, p, a
<1>steps. ASSUME \/ Facts(j) \/ Latest8(j) \/ Checks(j) \/ Recheck(j)
                 \/ \E mode \in {"AUTOMATIC", "APPROVED"} : Apply(j, mode)
                 \/ Report(j) \/ Repository(j) \/ Packages(j) \/ Restart(j) \/ Settle(j)
                 \/ Proven(j) \/ NooutUnset(j) \/ Validate(j) \/ Final(j)
          PROVE  Rehomes(j) /\ Enters(j)
  <2>1. /\ UNCHANGED <<busy, before>>
        /\ Onward(j) \/ Into(j, "cleared") \/ Into(j, "prove")
        /\ \E act \in {"facts", "latest8", "checks", "recheck", "automatic", "approved", "report",
                       "repository", "repositories", "packages", "restart", "settle", "require",
                       "verify", "unset", "validate", "final"} : Doing(j, act)
    BY <1>steps
    DEF Facts, Latest8, Checks, Recheck, Apply, Applies, Report, Repository, Packages, Restart,
        Settle, Proven, NooutUnset, Validate, Final
  <2>2. Does(p, a) # "evacuate"
    BY <2>1, DoingIs DEF p, a
  <2>3. run'[j].part \in {"go", "cleared", "prove"}
    BY <1>1, <2>1
  <2> QED
    BY <1>calm, <2>1, <2>2, <2>3
<1>within. ASSUME OrderReboot(j) \/ SeenBack(j) \/ Cleared(j) \/ Prove(j)
           PROVE  Rehomes(j) /\ Enters(j)
  <2>1. /\ UNCHANGED <<busy, before>> /\ run[j].part \in Midway
        /\ Onward(j) \/ Into(j, "back") \/ Into(j, "prove")
    BY <1>within DEF OrderReboot, SeenBack, Cleared, Prove, In, Midway
  <2>2. Does(p, a) # "evacuate"
    BY <1>0, <2>1 DEF Fits, Midway, p, a
  <2>3. run'[j].part \in {"go", "back", "prove"}
    BY <1>1, <2>1
  <2> QED
    BY <1>calm, <2>1, <2>2, <2>3
<1>undo. ASSUME \/ \E mode \in {"AUTOMATIC", "APPROVED"} : ApplyFails(j, mode)
                \/ StepFails(j) \/ Cancelled(j) \/ Undo(j) \/ UndoFails(j) \/ Undone(j) \/ Tell(j)
         PROVE  Rehomes(j) /\ Enters(j)
  <2>1. /\ UNCHANGED <<busy, before>>
        /\ \/ \E ending : GiveUp(j, ending)
           \/ Into(j, "undone") \/ Into(j, "tell") \/ Into(j, "end")
    BY <1>undo DEF ApplyFails, StepFails, Cancelled, Undo, UndoFails, Undone, Tell
  <2>2. run'[j].at = a /\ run'[j].part \in {"undo", "undone", "tell", "end"}
    BY <1>1, <2>1
  <2>3. run'[j].at # a + 1
    BY <1>0, <2>2
  <2> QED
    BY <1>calm, <2>1, <2>2, <2>3
<1>ends. ASSUME Succeed(j) \/ End(j) PROVE Rehomes(j) /\ Enters(j)
  <2>1. UNCHANGED <<busy, before>> /\ \E as : Ends(j, as)
    BY <1>ends DEF Succeed, End
  <2> QED
    BY <1>0, <1>1, <1>calm, <2>1
<1>gates. ASSUME Gate(j) \/ ChecksGate(j) PROVE Rehomes(j) /\ Enters(j)
  <2>1. /\ UNCHANGED <<busy, before>>
        /\ Onward(j) \/ Parks(j) \/ GiveUp(j, "FAILED")
        /\ \E act \in {"ask", "canary", "gate"} : Doing(j, act)
    BY <1>gates DEF Gate, ChecksGate
  <2>2. Does(p, a) # "evacuate" /\ run[j].part = "go"
    BY <2>1, DoingIs DEF p, a
  <2>3. run'[j].part \in {"go", "undo"}
    BY <1>1, <2>1, <2>2
  <2> QED
    BY <1>calm, <2>1, <2>2, <2>3
<1>noout. ASSUME NooutSet(j) PROVE Rehomes(j) /\ Enters(j)
  <2>1. UNCHANGED <<busy, before, ceph>> /\ Doing(j, "noout") /\ (Onward(j) \/ Into(j, "flag"))
    BY <1>noout DEF NooutSet
  <2>2. Does(p, a) = "noout" /\ run[j].part = "go" /\ a <= Count(p)
    BY <2>1, DoingIs DEF p, a
  <2> QED
    BY <1>1, <2>1, <2>2 DEF Rehomes, Enters, p, a
<1>reboots. ASSUME Reboot(j) PROVE Rehomes(j) /\ Enters(j)
  <2>1. /\ UNCHANGED <<busy, before, ceph, noout>> /\ Doing(j, "reboot")
        /\ \/ Onward(j)
           \/ release[It(j)] # "new" /\ Into(j, "flag")
           \/ release[It(j)] # "new" /\ Into(j, "look") /\ (ceph[p] => noout)
    BY <1>reboots DEF Reboot, Plan, p
  <2>2. Does(p, a) = "reboot" /\ run[j].part = "go" /\ a <= Count(p) /\ It(j) = Here(j)
    BY <2>1, DoingIs DEF p, a
  <2> QED
    BY <1>1, <2>1, <2>2 DEF Rehomes, Enters, p, a
<1>flags. ASSUME Flag(j) PROVE Rehomes(j) /\ Enters(j)
  <2>1. /\ UNCHANGED <<busy, before, ceph>> /\ noout' = TRUE /\ run[j].part = "flag"
        /\ \/ Does(p, a) = "reboot" /\ Into(j, "look")
           \/ Onward(j)
    BY <1>flags DEF Flag, FlagIt, In, Now, Does, p, a
  <2>2. Does(p, a) # "evacuate" /\ a <= Count(p)
    BY <1>0, <2>1 DEF Fits, Midway, p, a
  <2> QED
    BY <1>1, <2>1, <2>2 DEF Rehomes, Enters, p, a
<1>evacuates. ASSUME Evacuate(j) PROVE Rehomes(j) /\ Enters(j)
  <2>1. /\ Doing(j, "evacuate") /\ Onward(j)
        /\ before' = [before EXCEPT ![p][It(j)] = release[It(j)]]
        /\ busy' \subseteq busy /\ (release[It(j)] = "old" => It(j) \notin busy')
    BY <1>evacuates DEF Evacuate, Plan, p
  <2>2. Does(p, a) = "evacuate" /\ a <= Count(p) /\ It(j) = Here(j)
    BY <2>1, DoingIs DEF p, a
  <2> QED
    BY <1>1, <2>1, <2>2 DEF Rehomes, Enters, p, a
<1>returns. ASSUME Return(j) PROVE Rehomes(j) /\ Enters(j)
  <2>1. /\ Doing(j, "return") /\ Onward(j)
        /\ before' = before /\ busy' \subseteq busy \union {It(j)}
    BY <1>returns DEF Return
  <2>2. Does(p, a) = "return" /\ a <= Count(p) /\ It(j) = Here(j)
    BY <2>1, DoingIs DEF p, a
  <2> QED
    BY <1>1, <2>1, <2>2 DEF Rehomes, Enters, p, a
<1> QED
  BY <1>steps, <1>within, <1>undo, <1>ends, <1>gates, <1>noout, <1>reboots, <1>flags, <1>evacuates,
     <1>returns DEF Work

\* Nobody but a job moves guests or wakes a run, and beside jobs only a driver clears noout.
LEMMA BesideStays ==
  ASSUME TypeInv, [Next]_vars
  PROVE  \/ \E j \in Job : Work(j)
         \/ /\ UNCHANGED <<busy, before, ceph>>
            /\ \A j \in Job : row[j] = "RUNNING" /\ run'[j].alive => run[j].alive
            /\ noout' = noout \/ \E d \in Driver : Clears(d)
<1> USE DEF plans, details, jobs, cluster, history
<1> DEFINE Stays == UNCHANGED <<busy, before, ceph>>
           Wakes == \E j \in Job : row[j] = "RUNNING" /\ run'[j].alive /\ ~ run[j].alive
<1>0. CASE UNCHANGED vars
  BY <1>0 DEF vars
<1>1. run \in [Job -> Run] /\ row \in [Job -> Statuses] /\ ~ NoRun.alive
  BY DEF TypeInv, JobTypes, Statuses, NoRun
<1>edits. ASSUME NEW j \in Job, Claim(j) \/ WorkerDies(j) \/ Approve(j) \/ AskCancel(j)
          PROVE  Stays /\ noout' = noout /\ ~ Wakes
  <2>1. Stays /\ noout' = noout
    BY <1>edits DEF Claim, WorkerDies, Approve, AskCancel
  <2>2. /\ \A i \in Job \ {j} : run'[i] = run[i]
        /\ row[j] = "RUNNING" => run'[j].alive = run[j].alive \/ ~ run'[j].alive
    BY <1>1, <1>edits DEF Claim, WorkerDies, Approve, AskCancel, Run
  <2> QED
    BY <2>1, <2>2
<1>ends. ASSUME NEW j \in Job, \/ Reconcile(j)
                               \/ \E as \in {"CANCELLED", "FAILED"} : EndUnheld(j, as)
         PROVE  Stays /\ noout' = noout /\ ~ Wakes
  <2>1. Stays /\ noout' = noout /\ \E as : Ends(j, as)
    BY <1>ends DEF Reconcile, EndUnheld
  <2>2. run' = [run EXCEPT ![j] = NoRun]
    BY <2>1 DEF Ends
  <2> QED
    BY <1>1, <2>1, <2>2
<1>clears. ASSUME NEW d \in Driver, DriverUndoes(d) \/ DriverMisses(d)
           PROVE  Stays /\ ~ Wakes /\ (noout' = noout \/ Clears(d))
  <2>1. Stays /\ run' = run /\ Drives(d, "undo")
    BY <1>clears DEF DriverUndoes, DriverMisses
  <2>2. noout' = noout \/ velnoxs[drv[d].child]
    BY <1>clears DEF DriverUndoes, DriverMisses, Unset, Unreached
  <2>3. drv'[d].at # "undo"
    BY <1>clears DEF DriverUndoes, DriverMisses, Goes, TypeInv, RoundTypes, Round
  <2> QED
    BY <2>1, <2>2, <2>3 DEF Clears
<1>others. ASSUME \/ \E j \in Job : Retry(j)
                  \/ \E d \in Driver :
                       \/ \E p \in Child : Notice(d, p)
                       \/ DriverRecords(d) \/ Mark(d) \/ Stop(d) \/ EndComposite(d) \/ Choose(d)
                       \/ CreateJob(d) \/ LinkJob(d) \/ Enqueue(d) \/ DriverDies(d)
                  \/ \E p \in Child : RunPlan(p) \/ \E j \in Job : LinkPlan(p, j)
                  \/ ApiDies \/ RunComposite
                  \/ \E t \in Target : NodeReturns(t)
           PROVE  Stays /\ run' = run /\ noout' = noout
  BY <1>others
  DEF Retry, Insert, Notice, DriverRecords, Mark, Stop, EndComposite, Choose, CreateJob, LinkJob,
      Enqueue, DriverDies, RunPlan, LinkPlan, ApiDies, RunComposite, NodeReturns
<1> QED
  BY <1>0, <1>edits, <1>ends, <1>clears, <1>others DEF Next, Drive

\* The guests of an evacuated node are away; or it was passed over, with the new release
\* installed when its turn came, or rebooted since it was.
Away(p, t) == t \notin busy \/ before[p][t] = "installed" \/ release[t] = "new"
Readied(j) ==
  Active(j) =>
    /\ \A t \in Target : Vacant(of[j], run[j].at, t) => Away(of[j], t)
    /\ run[j].part = "look" \/ (run[j].part = "flag" /\ Does(of[j], run[j].at) = "reboot") =>
         Here(j) \notin busy \/ before[of[j]][Here(j)] = "installed"

GuestInv == BeforeTypes /\ OneActive /\ \A j \in Job : Readied(j)

\* A job at work keeps the guests away from what it has evacuated, ...
LEMMA WorkReadies ==
  ASSUME TypeInv, TypeInv', RunsFit, \A i \in Job : OnTheWay(i), ReleaseTypes, BeforeTypes,
         [Next]_vars, NEW j \in Job, Readied(j), Work(j)
  PROVE  Readied(j)' /\ BeforeTypes'
<1> DEFINE p == of[j]  a == run[j].at  t == Whom(p, a)
<1>0. /\ row[j] = "RUNNING" /\ p \in Child /\ of' = of /\ a \in Nat \ {0} /\ a \in 1 .. Count(p) + 1
      /\ Count(p) \in Nat /\ Here(j) = t
      /\ run[j].part \in {"flag", "look"} => a <= Count(p)
      /\ run[j].part = "flag" => Does(p, a) \in {"noout", "reboot"}
  <2>1. row[j] = "RUNNING" /\ of' = of
    BY WorkIsStep DEF IsStep, MovesJob
  <2>2. p \in Child /\ Fits(j)
    BY <2>1 DEF TypeInv, JobsAreWhole, RunsFit
  <2> QED
    BY <2>1, <2>2, InPlaceOrder DEF Fits, Midway, Here
<1>1. /\ \A u \in Target : Vacant(p, a, u) => Away(p, u)
      /\ run[j].part = "flag" /\ Does(p, a) = "reboot" =>
           t \notin busy \/ before[p][t] = "installed"
  BY <1>0 DEF Readied, Active, ACTIVE_JOB_STATUSES
<1>2. Rehomes(j) /\ Enters(j) /\ (Active(j)' => run'[j].at \in {a, a + 1})
  BY WorkRehomes, StepsOn
<1>3. \A u \in Target : release[u] = "new" => release'[u] = "new"
  BY ReleaseGrows
<1>4. a <= Count(p) /\ Does(p, a) \in {"evacuate", "reboot", "return"} => t \in Target
  <2> SUFFICES ASSUME a <= Count(p), Does(p, a) \in {"evacuate", "reboot", "return"}
               PROVE  t \in Target
    OBVIOUS
  <2>1. a \in 1 .. Count(p)
    BY <1>0
  <2>2. t \in Ran(RunTargets[p])
    BY <1>0, <2>1, StepTargets
  <2> QED
    BY <1>0, <2>2, RunTargetsFit DEF Ran
<1> HIDE DEF p, a, t
<1>5. BeforeTypes'
  <2>1. CASE before' = before
    BY <2>1 DEF BeforeTypes
  <2>2. CASE t \in Target /\ before' = [before EXCEPT ![p][t] = release[t]]
    <3> DEFINE R == {"none", "old", "installed", "new"}
    <3>1. before \in [Child -> [Target -> R]] /\ before[p] \in [Target -> R] /\ release[t] \in R
      BY <1>0, <2>2 DEF BeforeTypes, ReleaseTypes
    <3>2. [before[p] EXCEPT ![t] = release[t]] \in [Target -> R]
      BY <3>1
    <3> QED
      BY <1>0, <2>2, <3>1, <3>2 DEF BeforeTypes
  <2> QED
    BY <1>0, <1>2, <1>4, <2>1, <2>2 DEF Rehomes, p, a
<1>6. ASSUME Active(j)', NEW u \in Target, Vacant(p, run'[j].at, u)
      PROVE  u \notin busy' \/ before'[p][u] = "installed" \/ release'[u] = "new"
  <2>1. run'[j].at \in {a, a + 1}
    BY <1>2, <1>6
  <2>2. run'[j].at = a + 1 =>
          \/ Does(p, a) = "evacuate" /\ t = u
          \/ Vacant(p, a, u) /\ ~ (Does(p, a) = "return" /\ t = u)
    BY <1>0, <1>6, VacantNext DEF t
  <2>3. Vacant(p, a, u) => u \notin busy \/ before[p][u] = "installed" \/ release'[u] = "new"
    BY <1>1, <1>3 DEF Away
  <2>4. CASE /\ UNCHANGED <<busy, before>>
             /\ Does(p, a) = "evacuate" => run'[j].at # a + 1
    BY <1>6, <2>1, <2>2, <2>3, <2>4
  <2>5. CASE /\ Does(p, a) = "evacuate" /\ run'[j].at = a + 1 /\ t \in Target
             /\ before' = [before EXCEPT ![p][t] = release[t]]
             /\ busy' \subseteq busy /\ (release[t] = "old" => t \notin busy')
    <3>1. before \in [Child -> [Target -> {"none", "old", "installed", "new"}]]
          /\ before[p] \in [Target -> {"none", "old", "installed", "new"}]
      BY <1>0 DEF BeforeTypes
    <3>2. before'[p] = [before[p] EXCEPT ![t] = release[t]]
      BY <1>0, <2>5, <3>1
    <3>3. CASE u = t
      <4>1. before'[p][t] = release[t]
        BY <2>5, <3>1, <3>2
      <4>2. release[t] \in {"old", "installed", "new"}
        BY <2>5 DEF ReleaseTypes
      <4> QED
        BY <1>3, <2>5, <3>3, <4>1, <4>2
    <3>4. CASE u # t
      <4>1. before'[p][u] = before[p][u]
        BY <3>1, <3>2, <3>4
      <4> QED
        BY <2>2, <2>3, <2>5, <3>4, <4>1
    <3> QED
      BY <3>3, <3>4
  <2>6. CASE /\ Does(p, a) = "return" /\ run'[j].at = a + 1
             /\ before' = before /\ busy' \subseteq busy \union {t}
    BY <2>2, <2>3, <2>6
  <2> QED
    BY <1>0, <1>2, <1>4, <2>4, <2>5, <2>6 DEF Rehomes, p, a
<1>7. ASSUME run'[j].part = "look" \/ (run'[j].part = "flag" /\ Does(p, run'[j].at) = "reboot")
      PROVE  run'[j].at = a /\ (t \notin busy' \/ before'[p][t] = "installed")
  <2>1. /\ UNCHANGED <<busy, before>> /\ run'[j].at = a /\ a <= Count(p) /\ Does(p, a) = "reboot"
        /\ \/ run[j].part = "go" /\ release[t] # "new"
           \/ run[j].part = "flag"
    BY <1>0, <1>2, <1>7 DEF Enters, p, a
  <2>2. CASE run[j].part = "flag"
    BY <1>1, <2>1, <2>2
  <2>3. CASE release[t] # "new"
    <3>1. a \in 1 .. Count(p)
      BY <1>0, <2>1
    <3>2. Vacant(p, a, t) /\ t \in Target
      BY <1>0, <1>4, <2>1, <3>1, VacantThere DEF t
    <3> QED
      BY <1>1, <2>1, <2>3, <3>2 DEF Away
  <2> QED
    BY <2>1, <2>2, <2>3
<1>8. Readied(j)'
  BY <1>0, <1>6, <1>7 DEF Readied, Away, Here, p, t
<1> QED
  BY <1>5, <1>8

\* ... and every step does.
LEMMA GuestStep ==
  ASSUME OneKey, TypeInv, TypeInv', RunsFit, \A i \in Job : OnTheWay(i), ReleaseTypes, GuestInv,
         [Next]_vars
  PROVE  GuestInv'
<1>1. OneActive'
  BY OneStaysActive DEF GuestInv
<1>2. CASE \E j \in Job : Work(j)
  <2>1. PICK j \in Job : Work(j)
    BY <1>2
  <2>2. row[j] = "RUNNING" /\ IsStep(j)
    BY <2>1, WorkIsStep DEF IsStep
  <2>3. Readied(j)' /\ BeforeTypes'
    BY <2>1, WorkReadies DEF GuestInv
  <2>4. ASSUME NEW i \in Job, i # j PROVE Readied(i)'
    <3>1. row'[i] = row[i]
      BY <2>2, <2>4 DEF IsStep, MovesJob
    <3>2. ~ Active(i)'
      BY <2>2, <2>4, <3>1 DEF GuestInv, OneActive, Active, ACTIVE_JOB_STATUSES
    <3> QED
      BY <3>2 DEF Readied
  <2> QED
    BY <1>1, <2>3, <2>4 DEF GuestInv
<1>3. CASE (\A i \in Job : Still(i) \/ Blank(i)) /\ UNCHANGED <<busy, before>>
  <2>1. BeforeTypes'
    BY <1>3 DEF GuestInv, BeforeTypes
  <2>2. \A t \in Target : release[t] = "new" => release'[t] = "new"
    BY ReleaseGrows
  <2>3. ASSUME NEW i \in Job, Still(i) PROVE Readied(i)'
    <3>1. Active(i)' => Active(i)
      <4>1. row[i] \notin Unheld => Active(i)
        BY DEF TypeInv, JobTypes, JOB_STATUSES, Unheld, Active
      <4> QED
        BY <2>3, <4>1 DEF Still, Active
    <3> QED
      BY <1>3, <2>2, <2>3, <3>1 DEF GuestInv, Readied, Away, Still, Here
  <2>4. ASSUME NEW i \in Job, Blank(i) PROVE Readied(i)'
    <3>1. run'[i].at = 1 /\ run'[i].part = "go"
      BY <2>4 DEF Blank, NoRun
    <3> QED
      BY <3>1 DEF Readied, Vacant
  <2> QED
    BY <1>1, <1>3, <2>1, <2>3, <2>4 DEF GuestInv
<1> QED
  BY <1>2, <1>3, BesideWork, BesideStays

LEMMA GuestInit == Init => GuestInv
<1> SUFFICES ASSUME Init PROVE GuestInv
  OBVIOUS
<1>1. BeforeTypes
  BY DEF Init, BeforeTypes
<1>2. \A j \in Job : row[j] = "NONE"
  BY DEF Init
<1> QED
  BY <1>1, <1>2 DEF GuestInv, Readied, OneActive, Active, ACTIVE_JOB_STATUSES

\* Every child has its place in the composite.
LEMMA ChildrenOrdered ==
  /\ \A p \in Child : \E i \in DOMAIN Order : p = Order[i]
  /\ \A i \in DOMAIN Order : i \in Int /\ Order[i] \in Child
<1>1. Order \in Seq(Child) /\ Ran(Order) = Child
  BY UpgradesAssumption
<1>2. DOMAIN Order = 1 .. Len(Order) /\ Len(Order) \in Nat
  BY <1>1
<1> QED
  BY <1>1, <1>2 DEF Ran

\* noout is not taken from a job at a reboot but by a driver, for a plan that was run again
\* or, beside a composite, for another.
LEMMA BaredByDriver ==
  ASSUME OneActive, LoneInv, OwnJobs, OneAfterAnother, TypeInv, TypeInv', RunsFit, [Next]_vars,
         NEW j \in Job, ~ Bare(j), Bare(j)'
  PROVE  noout /\ Misled(j)
<1> DEFINE p == of[j]
<1>0. /\ row'[j] = "RUNNING" /\ run'[j].alive /\ run'[j].part = "look"
      /\ ceph'[of'[j]] /\ ~ noout'
  BY DEF Bare, In, Plan
<1>1. ASSUME NEW i \in Job, Work(i) PROVE FALSE
  <2>1. row[i] = "RUNNING" /\ IsStep(i) /\ of' = of
    BY <1>1, WorkIsStep DEF IsStep, MovesJob
  <2>2. i = j
    <3>1. i # j => row'[j] = row[j]
      BY <2>1 DEF IsStep, MovesJob
    <3> QED
      BY <1>0, <2>1, <3>1 DEF OneActive, Active, ACTIVE_JOB_STATUSES
  <2>3. UNCHANGED ceph /\ (ceph[p] => noout')
    BY <1>0, <1>1, <2>2, WorkRehomes DEF Enters
  <2> QED
    BY <1>0, <2>1, <2>3
<1>2. \A i \in Job : ~ Work(i)
  BY <1>1
<1>3. /\ ceph' = ceph /\ (row[j] = "RUNNING" => run[j].alive)
      /\ noout' = noout \/ \E d \in Driver : Clears(d)
  BY <1>0, <1>2, BesideStays
<1>4. run[j].part = "look" /\ of'[j] = p
  <2>1. ~ Blank(j)
    BY <1>0 DEF Blank, NoRun
  <2>2. Still(j)
    BY <1>2, <2>1, BesideWork
  <2> QED
    BY <1>0, <2>2 DEF Still
<1>5. row[j] = "RUNNING"
  BY <1>4 DEF TypeInv, JobsAreWhole
<1>6. noout
  BY <1>0, <1>3, <1>4, <1>5 DEF Bare, In, Plan
<1>7. PICK d \in Driver : Clears(d)
  BY <1>0, <1>3, <1>6
<1> DEFINE c == drv[d].child
<1>8. c \in Child /\ p \in Child /\ drv[d].at \in Settling /\ Active(j) /\ drv[d].job \in Job
  BY <1>5, <1>7
  DEF Clears, Drives, Settling, TypeInv, RoundsAreWhole, JobsAreWhole, Active, ACTIVE_JOB_STATUSES
<1>9. c # p \/ p \in strayed
  <2> SUFFICES ASSUME c = p, p \notin strayed PROVE FALSE
    OBVIOUS
  <2>1. OnlyJob(p, NoJob)
    BY <1>8 DEF LoneInv, Lone
  <2>2. j = NoJob
    BY <1>8, <2>1 DEF OnlyJob
  <2>3. NoJob \notin Job
    BY UpgradesAssumption
  <2> QED
    BY <2>2, <2>3
<1>10. parent = "none" \/ p \in strayed \/ c \in strayed
  <2> SUFFICES ASSUME parent # "none", p \notin strayed, c \notin strayed PROVE FALSE
    OBVIOUS
  <2>1. PICK i \in DOMAIN Order, k \in DOMAIN Order : c = Order[i] /\ p = Order[k]
    BY <1>8, ChildrenOrdered
  <2>2. i < k \/ k < i
    <3>1. i # k
      BY <1>9, <2>1
    <3>2. i \in Int /\ k \in Int
      BY ChildrenOrdered
    <3> QED
      BY <3>1, <3>2
  <2>3. Begun(c) /\ Begun(p)
    BY <1>8 DEF Begun, OwnJobs
  <2>4. i < k => Finished(c)
    BY <2>1, <2>3 DEF OneAfterAnother
  <2>5. k < i => Finished(p)
    BY <2>1, <2>3 DEF OneAfterAnother
  <2> QED
    BY <1>8, <2>2, <2>4, <2>5 DEF Finished, Settling
<1> QED
  BY <1>6, <1>7, <1>9, <1>10 DEF Misled, Plan

\* "Guests away", and "with Ceph's noout set around it": a node whose reboot comes next has
\* no guest on it, unless it had the new release installed when its turn came; and noout is
\* not taken from it but by a driver, for a plan that was run again or, beside a composite,
\* for another (pve.evacuate and pve.reboot, beside every call that clears noout).
THEOREM NodesAreReady ==
  ASSUME OneKey, OneDriver
  PROVE  Spec => RebootsArePrepared
<1> DEFINE Inv == /\ TypeInv /\ ReleaseTypes /\ RunsAreSound /\ OrderInv /\ RestInv
                  /\ BeforeTypes /\ \A j \in Job : Readied(j)
           Prepared == \A j \in Job : /\ Crowded(j) => before[Plan(j)][It(j)] = "installed"
                                      /\ ~ Bare(j) /\ Bare(j)' => noout /\ Misled(j)
<1>1. Init => Inv
  BY TypeInit, OrderInit, RestInit, GuestInit DEF GuestInv
<1>2. Inv /\ [Next]_vars => TypeInv'
  BY TypeStep
<1>3. Inv => /\ RunsFit /\ (\A i \in Job : OnTheWay(i)) /\ OneActive /\ LoneInv /\ GuestInv
             /\ OwnJobs /\ OneAfterAnother
  BY SoundFits DEF RestInv, GuestInv, OrderInv
<1>4. Inv /\ [Next]_vars => Inv'
  <2> SUFFICES ASSUME Inv, [Next]_vars PROVE Inv'
    OBVIOUS
  <2>1. TypeInv' /\ ReleaseTypes' /\ RunsAreSound' /\ OrderInv'
    BY TypeStep, ReleaseGrows, SoundStep, OrderStep
  <2>2. RunsFit'
    BY <2>1 DEF RunsAreSound, Soundly, Unheld, NoRun, RunsFit
  <2>3. OwnJobs /\ OneWay
    BY DEF OrderInv
  <2>4. RestInv'
    BY <1>3, <2>1, <2>2, <2>3, RestStep
  <2>5. GuestInv'
    BY <1>3, <2>1, GuestStep
  <2> QED
    BY <2>1, <2>4, <2>5 DEF GuestInv
<1>5. Inv /\ [Next]_vars => Prepared
  <2> SUFFICES ASSUME Inv, [Next]_vars, NEW j \in Job
               PROVE  /\ Crowded(j) => before[Plan(j)][It(j)] = "installed"
                      /\ ~ Bare(j) /\ Bare(j)' => noout /\ Misled(j)
    OBVIOUS
  <2>1. Crowded(j) => before[Plan(j)][It(j)] = "installed"
    <3>1. Readied(j) /\ It(j) = Here(j)
      BY DEF It, Now, Here, Whom
    <3> QED
      BY <3>1 DEF Crowded, In, Readied, Plan, Active, ACTIVE_JOB_STATUSES
  <2>2. ~ Bare(j) /\ Bare(j)' => noout /\ Misled(j)
    BY <1>2, <1>3, BaredByDriver
  <2> QED
    BY <2>1, <2>2
<1> QED
  BY <1>1, <1>4, <1>5, PTL DEF Spec, RebootsArePrepared

-----------------------------------------------------------------------------
(* A composite no child of which is run again *)

\* No node has a new release installed, and not started, to begin with.
FreshReleases == \A r \in Releases : \A t \in Target : r[t] # "installed"

\* It was installed by a job of a plan that has begun, behind the evacuation of the node.
Behind(p, a, t) == \E h \in 1 .. a - 1 : Does(p, h) = "evacuate" /\ Whom(p, h) = t
InstalledBy(p, t) ==
  /\ t \in Ran(RunTargets[p]) /\ status[p] # "DRAFT"
  /\ \E j \in Job : row[j] # "NONE" /\ of[j] = p
  /\ \A j \in Job : Active(j) /\ of[j] = p => Kind[p] = "ceph" \/ Behind(p, run[j].at, t)

OnceInv ==
  /\ Loyal /\ parent # "none"
  /\ \A t \in Target : release[t] = "installed" => \E p \in Child : InstalledBy(p, t)
  /\ \A p \in Child : \A t \in Target : before[p][t] # "installed"

\* Packages come behind the evacuation of their node, and that comes once.
LEMMA EvacuatedOnce ==
  ASSUME NEW p \in Child, NEW a \in 1 .. Count(p), Kind[p] # "ceph"
  PROVE  /\ Does(p, a) = "packages" => Behind(p, a, Whom(p, a))
         /\ Does(p, a) = "evacuate" => ~ Behind(p, a, Whom(p, a))
<1> DEFINE n == Len(RunTargets[p])
<1>0. /\ n \in Nat /\ Count(p) \in Nat
      /\ \A g, h \in 1 .. Count(p) : g < h <=> At(p, g) < At(p, h)
      /\ \A k, l \in 1 .. n : RunTargets[p][k] = RunTargets[p][l] => k = l
  BY InPlaceOrder, RunTargetsFit DEF Once
<1>1. PICK i, k : PveIs(p, a, i, k)
  BY PveStep DEF Count
<1>2. /\ i \in 1 .. 19 /\ k \in 0 .. n /\ (k # 0 <=> i \in 11 .. 17) /\ PveDo(i) = Does(p, a)
      /\ Whom(p, a) = IF k = 0 THEN NoTarget ELSE RunTargets[p][k]
      /\ i \in 11 .. 17 => At(p, a) = 7 * k + i - 7
  BY <1>1, PveReads
<1> HIDE DEF n
<1>3. ASSUME Does(p, a) = "packages" PROVE Behind(p, a, Whom(p, a))
  <2>1. i = 13
    BY <1>2, <1>3, PveLines
  <2>2. k \in 1 .. n /\ At(p, a) = 7 * k + 6 /\ Whom(p, a) = RunTargets[p][k]
    BY <1>0, <1>2, <2>1
  <2>3. PICK h \in 1 .. Count(p) : PveIs(p, h, 11, k)
    <3>1. k \in 0 .. n /\ k # 0
      BY <1>0, <2>2
    <3> QED
      BY <3>1, PveHas DEF Count, n
  <2>4. At(p, h) = 7 * k + 11 - 7 /\ Does(p, h) = PveDo(11) /\ Whom(p, h) = RunTargets[p][k]
    <3>1. k # 0 /\ 11 \in 11 .. 17
      BY <1>0, <2>2
    <3> QED
      BY <2>3, <3>1, PveReads
  <2>5. PveDo(11) = "evacuate"
    BY PveLines
  <2>6. h \in 1 .. a - 1
    BY <1>0, <2>2, <2>4
  <2> QED
    BY <2>2, <2>4, <2>5, <2>6 DEF Behind
<1>4. ASSUME Does(p, a) = "evacuate", NEW h \in 1 .. a - 1, Does(p, h) = "evacuate",
             Whom(p, h) = Whom(p, a)
      PROVE  FALSE
  <2>1. i = 11
    BY <1>2, <1>4, PveLines
  <2>2. k \in 1 .. n /\ At(p, a) = 7 * k + 4 /\ Whom(p, a) = RunTargets[p][k]
    BY <1>0, <1>2, <2>1
  <2>3. h \in 1 .. Count(p) /\ At(p, h) < At(p, a)
    BY <1>0
  <2>4. PICK g, l : PveIs(p, h, g, l)
    BY <2>3, PveStep DEF Count
  <2>5. /\ g \in 1 .. 19 /\ l \in 0 .. n /\ (l # 0 <=> g \in 11 .. 17) /\ PveDo(g) = "evacuate"
        /\ Whom(p, h) = IF l = 0 THEN NoTarget ELSE RunTargets[p][l]
        /\ g \in 11 .. 17 => At(p, h) = 7 * l + g - 7
    BY <1>4, <2>4, PveReads DEF n
  <2>6. g = 11
    BY <2>5, PveLines
  <2>7. l \in 1 .. n /\ At(p, h) = 7 * l + 4 /\ Whom(p, h) = RunTargets[p][l]
    BY <1>0, <2>5, <2>6
  <2>8. l = k
    BY <1>0, <1>4, <2>2, <2>7
  <2> QED
    BY <2>2, <2>3, <2>7, <2>8
<1> QED
  BY <1>3, <1>4 DEF Behind

\* Only a job installs, what its step says.
LEMMA WorkInstalls ==
  ASSUME TypeInv, ReleaseTypes, [Next]_vars, NEW t \in Target,
         release'[t] = "installed", release[t] # "installed"
  PROVE  \E j \in Job : Work(j) /\ Doing(j, "packages") /\ t \in Unpacks(j)
<1> USE DEF plans, details, jobs, cluster, history
<1>0. release' # release
  OBVIOUS
<1>1. ASSUME NEW j \in Job, Packages(j) \/ StepFails(j)
      PROVE  Work(j) /\ Doing(j, "packages") /\ t \in Unpacks(j)
  <2>1. Doing(j, "packages") /\ \E T \in SUBSET Unpacks(j) : Installing(T)
    BY <1>0, <1>1 DEF Packages, StepFails
  <2>2. t \in Unpacks(j)
    BY <2>1 DEF Installing
  <2> QED
    BY <1>1, <2>1, <2>2 DEF Work
<1>2. ASSUME NEW u, release' = [release EXCEPT ![u] = "new"] PROVE FALSE
  BY <1>2 DEF ReleaseTypes
<1>3. ASSUME NEW u, release' = [release EXCEPT ![u] = IF @ = "installed" THEN "new" ELSE @]
      PROVE  FALSE
  BY <1>3 DEF ReleaseTypes
<1>4. ASSUME UNCHANGED vars PROVE FALSE
  BY <1>0, <1>4 DEF vars
<1>works. ASSUME NEW j \in Job, Work(j) PROVE Packages(j) \/ StepFails(j)
  <2>1. ~ Restart(j)
    BY <1>2 DEF Restart
  <2>2. ~ (\/ Facts(j) \/ Latest8(j) \/ Checks(j) \/ Recheck(j) \/ Gate(j) \/ ChecksGate(j)
           \/ \E mode \in {"AUTOMATIC", "APPROVED"} : Apply(j, mode) \/ ApplyFails(j, mode)
           \/ Report(j) \/ Succeed(j) \/ NooutSet(j) \/ Repository(j) \/ Settle(j) \/ Proven(j)
           \/ NooutUnset(j) \/ Evacuate(j) \/ Reboot(j) \/ Flag(j) \/ OrderReboot(j)
           \/ SeenBack(j)
           \/ Validate(j) \/ Cleared(j) \/ Prove(j) \/ Return(j) \/ Final(j) \/ Cancelled(j)
           \/ Undo(j) \/ UndoFails(j) \/ Undone(j) \/ Tell(j) \/ End(j))
    BY <1>0
    DEF Facts, Latest8, Checks, Recheck, Gate, ChecksGate, Apply, ApplyFails, Report, Succeed,
        NooutSet, Repository, Settle, Proven, NooutUnset, Evacuate, Reboot, Flag, OrderReboot,
        SeenBack, Validate, Cleared, Prove, Return, Final, Cancelled, Undo, UndoFails, Undone,
        Tell, End
  <2> QED
    BY <1>works, <2>1, <2>2 DEF Work
<1>others. ASSUME \/ \E j \in Job : \/ Claim(j) \/ WorkerDies(j) \/ Reconcile(j)
                                    \/ Approve(j) \/ AskCancel(j) \/ Retry(j)
                                    \/ \E as \in {"CANCELLED", "FAILED"} : EndUnheld(j, as)
                  \/ \E d \in Driver : Drive(d) \/ DriverDies(d)
                  \/ \E p \in Child : RunPlan(p) \/ \E j \in Job : LinkPlan(p, j)
                  \/ ApiDies \/ RunComposite
           PROVE  FALSE
  BY <1>0, <1>others
  DEF Claim, WorkerDies, Reconcile, Approve, AskCancel, Retry, EndUnheld, Drive, DriverDies,
      RunPlan, LinkPlan, ApiDies, RunComposite, Notice, DriverUndoes, DriverMisses, DriverRecords,
      Mark, Stop, EndComposite, Choose, CreateJob, LinkJob, Enqueue
<1>returns. ASSUME NEW u \in Target, NodeReturns(u) PROVE FALSE
  BY <1>3, <1>returns DEF NodeReturns
<1> QED
  BY <1>1, <1>4, <1>works, <1>others, <1>returns DEF Next

\* Without retries no plan is run again.
LEMMA StaysLoyal ==
  ASSUME "retry" \notin Faults, TypeInv, OneWay, Loyal, parent # "none", [Next]_vars
  PROVE  Loyal' /\ parent' # "none"
<1> USE DEF plans, details, jobs, cluster, history
<1>1. parent' # "none"
  BY ParentMoves
<1>0. CASE UNCHANGED vars
  BY <1>0 DEF vars, Loyal
<1>works. ASSUME NEW j \in Job, Work(j) PROVE strayed' = strayed
  BY <1>works, WorkIsStep DEF IsStep, MovesPlan
<1>Retry. ASSUME NEW j \in Job, Retry(j) PROVE FALSE
  BY <1>Retry DEF Retry, Trouble
<1>ApiDies. ASSUME ApiDies PROVE FALSE
  BY <1>ApiDies DEF ApiDies, OneWay
<1>others. ASSUME \/ \E j \in Job : \/ Claim(j) \/ WorkerDies(j) \/ Reconcile(j)
                                    \/ Approve(j) \/ AskCancel(j)
                                    \/ \E as \in {"CANCELLED", "FAILED"} : EndUnheld(j, as)
                  \/ \E d \in Driver :
                       \/ \E q \in Child : Notice(d, q)
                       \/ DriverUndoes(d) \/ DriverMisses(d) \/ DriverRecords(d) \/ Mark(d)
                       \/ Stop(d) \/ EndComposite(d)
                       \/ Choose(d) \/ CreateJob(d) \/ LinkJob(d) \/ Enqueue(d) \/ DriverDies(d)
                  \/ \E p \in Child : RunPlan(p) \/ \E j \in Job : LinkPlan(p, j)
                  \/ RunComposite
                  \/ \E t \in Target : NodeReturns(t)
           PROVE  strayed' = strayed
  BY <1>others
  DEF Claim, WorkerDies, Reconcile, Approve, AskCancel, EndUnheld, Notice, DriverUndoes,
      DriverMisses, DriverRecords, Mark, Stop, EndComposite, Choose, CreateJob, LinkJob, Enqueue,
      DriverDies, RunPlan, LinkPlan, RunComposite, NodeReturns
<1> QED
  BY <1>0, <1>1, <1>works, <1>Retry, <1>ApiDies, <1>others DEF Next, Drive, Loyal

\* While a node waits for its reboot, only the plan that installed is at work.
LEMMA OnlyInstaller ==
  ASSUME OneAfterAnother, Loyal, parent # "none", NEW p \in Child, NEW t \in Target,
         release[t] = "installed", InstalledBy(p, t), NEW j \in Job, Active(j), of[j] \in Child
  PROVE  of[j] = p
<1> DEFINE q == of[j]
<1> SUFFICES ASSUME q # p PROVE FALSE
  OBVIOUS
<1>1. Begun(p) /\ Begun(q)
  BY DEF InstalledBy, Begun
<1> HIDE DEF q
<1>2. PICK i \in DOMAIN Order, k \in DOMAIN Order : p = Order[i] /\ q = Order[k]
  BY ChildrenOrdered DEF q
<1>3. i < k \/ k < i
  <2>1. i \in Int /\ k \in Int /\ i # k
    BY <1>2, ChildrenOrdered
  <2> QED
    BY <2>1
<1>4. i < k => Finished(p)
  BY <1>1, <1>2 DEF OneAfterAnother, Loyal
<1>5. k < i => Finished(q)
  BY <1>1, <1>2 DEF OneAfterAnother, Loyal
<1>6. ~ Finished(p)
  BY DEF InstalledBy, Finished, Complete, AllOn, Sequence
<1> QED
  BY <1>3, <1>4, <1>5, <1>6 DEF Finished, q

\* What was installed stays its plan's.
LEMMA InstallerStays ==
  ASSUME TypeInv, RunsFit, \A i \in Job : OnTheWay(i), LoneInv, Loyal', [Next]_vars,
         NEW p \in Child, NEW t \in Target, InstalledBy(p, t)
  PROVE  InstalledBy(p, t)'
<1>1. status'[p] # "DRAFT"
  BY DraftOnce DEF InstalledBy
<1>2. \E j \in Job : row'[j] # "NONE" /\ of'[j] = p
  BY OwnersStay DEF InstalledBy
<1>3. ASSUME NEW j \in Job, Active(j)', of'[j] = p, Kind[p] # "ceph"
      PROVE  Behind(p, run'[j].at, t)
  <2>1. row[j] # "NONE"
    <3>1. row'[j] # "NONE"
      BY <1>3 DEF Active, ACTIVE_JOB_STATUSES
    <3>2. p \notin strayed'
      BY DEF Loyal
    <3> QED
      BY <1>3, <3>1, <3>2, NewJob DEF InstalledBy
  <2>2. Active(j) /\ of[j] = p
    BY <1>3, <2>1, ActiveBefore, OwnersStay
  <2>3. Behind(p, run[j].at, t)
    BY <1>3, <2>2 DEF InstalledBy
  <2>4. run[j].at \in Nat /\ run'[j].at \in {run[j].at, run[j].at + 1}
    <3>1. run[j].at \in Nat
      BY DEF TypeInv, JobTypes, Run
    <3>2. ASSUME NEW i \in Job, Work(i) PROVE run'[j].at \in {run[j].at, run[j].at + 1}
      <4>1. CASE i = j
        BY <1>3, <3>2, <4>1, StepsOn
      <4>2. CASE i # j
        BY <3>2, <4>2, WorkIsStep DEF IsStep, MovesJob
      <4> QED
        BY <4>1, <4>2
    <3>3. Blank(j) => FALSE
      BY <1>3, <2>1 DEF Blank, Active, ACTIVE_JOB_STATUSES
    <3> QED
      BY <3>1, <3>2, <3>3, BesideWork DEF Still
  <2> QED
    BY <2>3, <2>4 DEF Behind
<1> QED
  BY <1>1, <1>2, <1>3 DEF InstalledBy

\* Every step of a composite that is not retried keeps it.
LEMMA OnceStep ==
  ASSUME OneKey, "retry" \notin Faults, TypeInv, TypeInv', ReleaseTypes, RunsFit,
         \A i \in Job : OnTheWay(i), OrderInv, RestInv, BeforeTypes, OnceInv, [Next]_vars
  PROVE  OnceInv'
<1>1. Loyal' /\ parent' # "none"
  BY StaysLoyal DEF OnceInv, OrderInv
<1>2. ASSUME NEW t \in Target, release'[t] = "installed"
      PROVE  \E p \in Child : InstalledBy(p, t)'
  <2>1. CASE release[t] = "installed"
    <3>1. PICK p \in Child : InstalledBy(p, t)
      BY <2>1 DEF OnceInv
    <3>2. InstalledBy(p, t)'
      BY <1>1, <3>1, InstallerStays DEF RestInv
    <3> QED
      BY <3>2
  <2>2. CASE release[t] # "installed"
    <3>1. PICK j \in Job : Work(j) /\ Doing(j, "packages") /\ t \in Unpacks(j)
      BY <1>2, <2>2, WorkInstalls
    <3>0. of[j] \in Child
      BY <3>1, WorkIsStep DEF IsStep, TypeInv, JobsAreWhole
    <3>p. PICK p \in Child : p = of[j]
      BY <3>0
    <3> DEFINE a == run[j].at
    <3>2. /\ row[j] = "RUNNING" /\ p \in Child /\ Does(p, a) = "packages" /\ a \in 1 .. Count(p)
          /\ It(j) = Whom(p, a)
      <4>1. row[j] = "RUNNING" /\ Does(p, a) = "packages" /\ a <= Count(p) /\ It(j) = Here(j)
        BY <3>1, <3>p, DoingIs
      <4>2. p \in Child /\ Fits(j)
        BY <4>1 DEF TypeInv, JobsAreWhole, RunsFit
      <4> QED
        BY <3>p, <4>1, <4>2, InPlaceOrder DEF Fits, Here
    <3>3. of'[j] = p /\ row'[j] # "NONE"
      BY <3>2, <3>p, OwnersStay
    <3>4. status'[p] # "DRAFT"
      <4>1. a > 1
        <5>1. a # 1
          BY <3>2, FactsFirst
        <5> QED
          BY <3>2, <5>1, InPlaceOrder
      <4>2. status[p] # "DRAFT"
        BY <3>2, <3>p, <4>1 DEF RestInv, Underway
      <4> QED
        BY <3>2, <4>2, DraftOnce
    <3>5. NoTarget \notin Target
      BY UpgradesAssumption
    <3>6. t \in Ran(RunTargets[p]) /\ (Kind[p] # "ceph" => t = Whom(p, a))
      <4>1. Kind[p] # "ceph" => Whom(p, a) \in Ran(RunTargets[p]) /\ Whom(p, a) # NoTarget
        <5>1. Ran(RunTargets[p]) \subseteq Target
          BY <3>2, RunTargetsFit DEF Ran
        <5> QED
          BY <3>2, <3>5, <5>1, StepTargets
      <4>2. Whom(p, a) \in Ran(RunTargets[p]) \union {NoTarget}
        BY <3>2, StepTargets
      <4> QED
        BY <3>1, <3>2, <3>p, <4>1, <4>2 DEF Unpacks, Sequence, Plan
    <3>7. ASSUME NEW i \in Job, Active(i)', of'[i] = p, Kind[p] # "ceph"
          PROVE  Behind(p, run'[i].at, t)
      <4>1. i = j
        <5>1. row'[i] = row[i] \/ i = j
          BY <3>1, WorkIsStep DEF IsStep, MovesJob
        <5> QED
          BY <3>2, <3>7, <5>1 DEF RestInv, OneActive, Active, ACTIVE_JOB_STATUSES
      <4>2. run'[i].at \in {a, a + 1}
        BY <3>1, <3>7, <4>1, StepsOn
      <4>3. Behind(p, a, t)
        BY <3>2, <3>6, <3>7, EvacuatedOnce
      <4> QED
        BY <3>2, <4>2, <4>3 DEF Behind
    <3>8. InstalledBy(p, t)'
      BY <3>3, <3>4, <3>6, <3>7 DEF InstalledBy
    <3> QED
      BY <3>2, <3>8
  <2> QED
    BY <2>1, <2>2
<1>3. ASSUME NEW p \in Child, NEW t \in Target PROVE before'[p][t] # "installed"
  <2>1. before[p][t] # "installed"
    BY DEF OnceInv
  <2>2. CASE before' = before
    BY <2>1, <2>2
  <2>3. ASSUME NEW j \in Job, Work(j), before' # before PROVE before'[p][t] # "installed"
    <3> DEFINE q == of[j]  a == run[j].at  u == Whom(q, a)
    <3>1. /\ Does(q, a) = "evacuate" /\ a <= Count(q)
          /\ before' = [before EXCEPT ![q][u] = release[u]]
      BY <2>3, WorkRehomes DEF Rehomes, Here
    <3>2. row[j] = "RUNNING" /\ Active(j) /\ q \in Child /\ a \in 1 .. Count(q) /\ Kind[q] # "ceph"
      <4>1. row[j] = "RUNNING"
        BY <2>3, WorkIsStep DEF IsStep
      <4>2. q \in Child /\ Fits(j)
        BY <4>1 DEF TypeInv, JobsAreWhole, RunsFit
      <4>3. a \in 1 .. Count(q)
        BY <3>1, <4>2, InPlaceOrder DEF Fits
      <4> QED
        BY <3>1, <4>1, <4>2, <4>3, StepTargets DEF Active, ACTIVE_JOB_STATUSES
    <3>3. u \in Target
      <4>1. u \in Ran(RunTargets[q])
        BY <3>1, <3>2, StepTargets
      <4> QED
        BY <3>2, <4>1, RunTargetsFit DEF Ran
    <3>4. release[u] # "installed"
      <4> SUFFICES ASSUME release[u] = "installed" PROVE FALSE
        OBVIOUS
      <4>1. PICK r \in Child : InstalledBy(r, u)
        BY <3>3 DEF OnceInv
      <4>2. q = r
        BY <3>2, <3>3, <4>1, OnlyInstaller DEF OnceInv, OrderInv
      <4>3. Behind(q, a, u)
        BY <3>2, <4>1, <4>2 DEF InstalledBy
      <4> QED
        BY <3>1, <3>2, <4>3, EvacuatedOnce
    <3> HIDE DEF q, a, u
    <3>5. /\ before \in [Child -> [Target -> {"none", "old", "installed", "new"}]]
          /\ before[q] \in [Target -> {"none", "old", "installed", "new"}]
      BY <3>2 DEF BeforeTypes
    <3>6. before'[q] = [before[q] EXCEPT ![u] = release[u]] /\ (p # q => before'[p] = before[p])
      BY <3>1, <3>2, <3>5
    <3> QED
      BY <2>1, <3>3, <3>4, <3>5, <3>6
  <2> QED
    BY <2>2, <2>3, BesideStays
<1> QED
  BY <1>1, <1>2, <1>3 DEF OnceInv

\* Nothing has been installed.
LEMMA OnceInit ==
  ASSUME Composites \subseteq {TRUE}, FreshReleases
  PROVE  Init => OnceInv /\ \A j \in Job : ~ Bare(j)
<1> SUFFICES ASSUME Init PROVE OnceInv /\ \A j \in Job : ~ Bare(j)
  OBVIOUS
<1>1. Loyal /\ parent # "none"
  BY DEF Init, Loyal
<1>2. \A t \in Target : release[t] # "installed"
  BY DEF Init, FreshReleases
<1>3. \A p \in Child : \A t \in Target : before[p][t] # "installed"
  BY DEF Init
<1>4. \A j \in Job : row[j] = "NONE"
  BY DEF Init
<1> QED
  BY <1>1, <1>2, <1>3, <1>4 DEF OnceInv, Bare, In

\* "Guests away", and "with Ceph's noout set around it": of a composite that found no node
\* with the new release installed and no child of which is run again, no node reboots with a
\* guest on it or, as far as the playbook saw a Ceph, without noout; whatever else breaks off
\* or dies.  With a retry the code breaks that (pve.evacuate, pve.reboot, driveUpgrades).
THEOREM CompositeIsPrepared ==
  ASSUME OneKey, OneDriver, Composites \subseteq {TRUE}, "retry" \notin Faults, FreshReleases
  PROVE  Spec => EveryRebootIsPrepared
<1> DEFINE Inv == /\ TypeInv /\ ReleaseTypes /\ RunsAreSound /\ OrderInv /\ RestInv
                  /\ BeforeTypes /\ (\A j \in Job : Readied(j))
                  /\ OnceInv /\ \A j \in Job : ~ Bare(j)
<1>1. Init => Inv
  BY TypeInit, OrderInit, RestInit, GuestInit, OnceInit DEF GuestInv
<1>2. Inv => /\ RunsFit /\ (\A i \in Job : OnTheWay(i)) /\ OneActive /\ LoneInv /\ GuestInv
             /\ OwnJobs /\ OneAfterAnother /\ OneWay
  BY SoundFits DEF RestInv, GuestInv, OrderInv
<1>3. Inv /\ [Next]_vars => Inv'
  <2> SUFFICES ASSUME Inv, [Next]_vars PROVE Inv'
    OBVIOUS
  <2>1. TypeInv' /\ ReleaseTypes' /\ RunsAreSound' /\ OrderInv'
    BY TypeStep, ReleaseGrows, SoundStep, OrderStep
  <2>2. RunsFit'
    BY <2>1 DEF RunsAreSound, Soundly, Unheld, NoRun, RunsFit
  <2>3. RestInv'
    BY <1>2, <2>1, <2>2, RestStep
  <2>4. GuestInv'
    BY <1>2, <2>1, GuestStep
  <2>5. OnceInv'
    BY <1>2, <2>1, OnceStep
  <2>6. ASSUME NEW j \in Job PROVE ~ Bare(j)'
    <3>1. ~ Misled(j)
      BY DEF Misled, OnceInv, Loyal
    <3> QED
      BY <1>2, <2>1, <3>1, BaredByDriver
  <2> QED
    BY <2>1, <2>3, <2>4, <2>5, <2>6 DEF GuestInv
<1>4. Inv => \A j \in Job : ~ Crowded(j) /\ ~ Bare(j)
  <2> SUFFICES ASSUME Inv, NEW j \in Job, Crowded(j) PROVE FALSE
    OBVIOUS
  <2> DEFINE p == of[j]  a == run[j].at
  <2>1. row[j] = "RUNNING" /\ run[j].part = "look" /\ It(j) \in busy /\ It(j) = Whom(p, a)
    BY DEF Crowded, In, It, Now, Whom
  <2>2. p \in Child /\ a \in 1 .. Count(p) /\ Does(p, a) = "reboot"
    <3>1. p \in Child /\ Fits(j)
      BY <1>2, <2>1 DEF TypeInv, JobsAreWhole, RunsFit
    <3> QED
      BY <2>1, <3>1, InPlaceOrder DEF Fits, Midway
  <2>3. Whom(p, a) \in Target
    <3>1. Whom(p, a) \in Ran(RunTargets[p])
      BY <2>2, StepTargets
    <3> QED
      BY <2>2, <3>1, RunTargetsFit DEF Ran
  <2>4. before[p][Whom(p, a)] = "installed"
    <3>1. Readied(j) /\ Active(j) /\ Here(j) = Whom(p, a)
      BY <2>1 DEF Active, ACTIVE_JOB_STATUSES, Here
    <3> QED
      BY <2>1, <3>1 DEF Readied
  <2> QED
    BY <2>2, <2>3, <2>4 DEF OnceInv
<1>5. Inv => \A j \in Job : Crowded(j) \/ Bare(j) => It(j) \notin down' \ down
  BY <1>4
<1> QED
  BY <1>1, <1>3, <1>5, PTL DEF Spec, EveryRebootIsPrepared

=============================================================================
