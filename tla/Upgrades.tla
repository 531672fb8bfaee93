------------------------------ MODULE Upgrades -------------------------------
(***************************************************************************)
(* Major upgrades: the plans of one cluster, the jobs that run their       *)
(* playbooks step by step (engine.ts with ceph.ts and pve.ts), the API     *)
(* that starts a plan, and the drivers, one per worker process, that start *)
(* a composite's children one after another and settle plans whose job is  *)
(* over (composite.ts).                                                    *)
(*                                                                         *)
(* A step of a playbook is one action, except where it writes in several   *)
(* places and a failure between the writes is told apart: Ceph's noout and *)
(* the record that Velnox set it, the reboot, the clean-up, and the        *)
(* driver's insert, link and enqueue.  `part` says where a job stands.     *)
(*                                                                         *)
(* The jobs are rows as JobStates has them; their leases, retries of       *)
(* requests and events are the matter of Jobs.tla.  A finding of the       *)
(* checks is told apart only by whether it stops the upgrade, and a        *)
(* remediation by how it is routed.                                        *)
(***************************************************************************)
EXTENDS JobStates, Integers, Sequences, FiniteSets

CONSTANTS
  Child,       \* the plans that have a playbook
  Order,       \* ... in the order of the composite
  Kind,        \* "ceph" or "pve", per plan
  Target,      \* nodes and Ceph daemons
  NoTarget,    \* the target of a step that runs once
  TargetsOf,   \* the targets of each plan, in order
  LeftOut,     \* ... those that do not apply from the start
  Releases,    \* what the targets may run before the plan
  HasCeph,
  NoJob, NoChild,
  Driver,      \* the upgrade drivers, one per worker process
  Composites,  \* whether the plans are a composite's, a set of BOOLEANs
  Alone,       \* the plans that are run by themselves when they are not
  MaxTroubles, \* bound: how often something goes wrong, or is cancelled or retried
  Faults       \* what may go wrong, a subset of FaultKinds

\* refused: a step fails.  noanswer: a call to the cluster breaks off, done or not.
\* crash: a worker process dies.  apiloss: the API does.  retry: a job is retried.
\* cancel: jobs are cancelled and approvals rejected.
FaultKinds == {"refused", "noanswer", "crash", "apiloss", "retry", "cancel"}

Ran(s)  == {s[i] : i \in 1 .. Len(s)}
Once(s) == \A i, k \in 1 .. Len(s) : s[i] = s[k] => i = k

ASSUME UpgradesAssumption ==
  /\ Order \in Seq(Child) /\ Ran(Order) = Child /\ Once(Order)
  /\ Kind \in [Child -> {"ceph", "pve"}]
  /\ NoTarget \notin Target
  /\ TargetsOf \in [Child -> Seq(Target)]
  /\ \A p \in Child : Once(TargetsOf[p])
  /\ LeftOut \in [Child -> SUBSET Target]
  /\ Releases \subseteq [Target -> {"old", "installed", "new"}]
  /\ HasCeph \in BOOLEAN
  /\ NoJob \notin Job /\ NoChild \notin Child
  /\ Composites \subseteq BOOLEAN /\ Alone \subseteq Child
  /\ MaxTroubles \in Nat
  /\ Faults \subseteq FaultKinds

VARIABLES
  \* the plans
  status,     \* upgrade_plans.status of the plans with a playbook
  parent,     \* ... of the composite, "none" when there is none
  named,      \* upgrade_plans.job_id
  target,     \* upgrade_targets.status
  before,     \* ... the release in its pre_state
  found,      \* the worst finding of the last run of the checks
  fixes,      \* the remediations that are PLANNED
  velnoxs,    \* facts.nooutSetByVelnox
  ceph,       \* facts.ceph: the playbook saw a Ceph
  \* the jobs
  row,        \* jobs.status
  of,         \* the plan in its params
  queued,     \* the jobs the queue holds
  run,        \* the run of each job in its worker
  linking,    \* plan and job of an API request that has still to write the plan
  drv,        \* where each driver is
  \* the cluster
  noout,
  release,    \* "old", "installed" (not yet rebooted or restarted) or "new"
  down,       \* nodes on their reboot
  busy,       \* nodes with running guests
  moved,      \* nodes whose guests an evacuation moved
  \* history
  preset,     \* noout as it was found
  missed,     \* plans a clean-up of which did not reach the cluster
  strayed,    \* plans that ran in a job they do not name
  troubles    \* as a count

plans   == <<status, parent, named, velnoxs, ceph>>
details == <<target, before, found, fixes>>
jobs    == <<row, of, queued, run>>
cluster == <<noout, release, down, busy, moved>>
history == <<preset, missed, strayed, troubles>>
vars    == <<plans, details, jobs, linking, drv, cluster, history>>

-----------------------------------------------------------------------------
(* Playbooks, and a job's steps from them *)

One(action)  == [do |-> action, each |-> FALSE]
Each(action) == [do |-> action, each |-> TRUE]

CephPlaybook ==
  << One("facts"), One("checks"), One("automatic"), One("ask"), One("approved"),
     One("recheck"), One("gate"), One("repository"), One("noout"), One("packages"),
     Each("restart"), Each("settle"), One("require"), One("unset"), One("verify"),
     One("report") >>

PvePlaybook ==
  << One("facts"), One("latest8"), One("ask"), One("approved"), One("checks"),
     One("automatic"), One("ask"), One("approved"), One("recheck"), One("gate"),
     Each("evacuate"), Each("repositories"), Each("packages"), Each("reboot"),
     Each("validate"), Each("return"), Each("canary"), One("final"), One("report") >>

\* What a sequence has at the positions in K, in order.
Nth(K, n)   == CHOOSE i \in K : Cardinality({h \in K : h <= i}) = n
Those(s, K) == [n \in 1 .. Cardinality(K) |-> s[Nth(K, n)]]

\* A target left out from the start is not the run's.
RunTargets == [p \in Child |->
  Those(TargetsOf[p], {i \in DOMAIN TargetsOf[p] : TargetsOf[p][i] \notin LeftOut[p]})]

Playbook(p) == IF Kind[p] = "ceph" THEN CephPlaybook ELSE PvePlaybook
Grouped(p)  == {i \in DOMAIN Playbook(p) : Playbook(p)[i].each}

\* The position of a step of the group among the steps of the job: the k-th target's.
PlaceByStep(i, k, first, size, n) == first + (i - first) * n + k - 1  \* faulty: step by step
PlaceOf(i, k, first, size, n)     == first + (k - 1) * size + i - first

\* upgradePlaybook: steps done once, and those done per target, target by target.
Listed(p) ==
  LET def   == Playbook(p)
      T     == RunTargets[p]
      n     == Len(T)
      size  == Cardinality(Grouped(p))
      first == CHOOSE i \in Grouped(p) : \A h \in Grouped(p) : i <= h
      On(i, t) == [do |-> def[i].do, target |-> t]
      InGroup(s) == LET ik == CHOOSE ik \in Grouped(p) \X (1 .. n) :
                                PlaceOf(ik[1], ik[2], first, size, n) = s
                    IN On(ik[1], T[ik[2]])
  IN [s \in 1 .. Len(def) + (n - 1) * size |->
        IF s < first THEN On(s, NoTarget)
        ELSE IF s < first + n * size THEN InGroup(s) ELSE On(s - (n - 1) * size, NoTarget)]

\* The canary's gate stands after the first target only, and only when others follow.
Gated(p, s) ==
  s.do # "canary" \/ (Len(RunTargets[p]) > 1 /\ s.target = RunTargets[p][1])
Kept(p, s)  == Those(s, {i \in DOMAIN s : Gated(p, s[i])})
Unrolled(p) == Kept(p, Listed(p))

Steps == [p \in Child |-> Unrolled(p)]

-----------------------------------------------------------------------------
(* Jobs *)

NoRun == [ at |-> 1, part |-> "go", approved |-> 0, ending |-> "none",
           asked |-> FALSE, alive |-> FALSE ]

\* Something goes wrong.
Trouble(fault) ==
  /\ fault \in Faults
  /\ troubles < MaxTroubles
  /\ troubles' = troubles + 1

Fresh == CHOOSE j \in Job : row[j] = "NONE"

InsertUnchecked(p, inQueue) ==  \* faulty: does not look at the key
  /\ \E j \in Job : row[j] = "NONE"
  /\ row' = [row EXCEPT ![Fresh] = "QUEUED"]
  /\ of' = [of EXCEPT ![Fresh] = p]
  /\ queued' = IF inQueue THEN queued \union {Fresh} ELSE queued
  /\ UNCHANGED run

\* A new row, when the cluster's key is free and the bound on rows allows it.
Insert(p, inQueue) ==
  /\ \E j \in Job : row[j] = "NONE"
  /\ KeyFree(row, Fresh)
  /\ row' = [row EXCEPT ![Fresh] = "QUEUED"]
  /\ of' = [of EXCEPT ![Fresh] = p]
  /\ queued' = IF inQueue THEN queued \union {Fresh} ELSE queued
  /\ UNCHANGED run

Active(j) == row[j] \in ACTIVE_JOB_STATUSES
EndedByItself(j) == row[j] \in {"SUCCEEDED", "FAILED"}  \* faulty: a cancelled job is overlooked
Ended(j)  == row[j] \in TERMINAL_JOB_STATUSES

In(j, part)   == row[j] = "RUNNING" /\ run[j].alive /\ run[j].part = part
Now(j)        == Steps[of[j]][run[j].at]
Doing(j, act) == In(j, "go") /\ run[j].at <= Len(Steps[of[j]]) /\ Now(j).do = act

Into(j, part)     == run' = [run EXCEPT ![j].part = part] /\ UNCHANGED <<row, of, queued>>
Onward(j)         == /\ run' = [run EXCEPT ![j].at = @ + 1, ![j].part = "go"]
                     /\ UNCHANGED <<row, of, queued>>
GiveUp(j, ending) == /\ run' = [run EXCEPT ![j].part = "undo", ![j].ending = ending]
                     /\ UNCHANGED <<row, of, queued>>

\* The row says how it ended, and nothing is left of its run.
Ends(j, as) ==
  /\ row' = [row EXCEPT ![j] = as]
  /\ queued' = queued \ {j}
  /\ run' = [run EXCEPT ![j] = NoRun]
  /\ UNCHANGED of

Claim(j) ==
  /\ row[j] = "QUEUED" /\ j \in queued
  /\ row' = [row EXCEPT ![j] = "RUNNING"]
  /\ queued' = queued \ {j}
  /\ run' = [run EXCEPT ![j].alive = TRUE]
  /\ UNCHANGED <<of, plans, details, linking, drv, cluster, history>>

\* The worker dies, and the reconciler finds that nobody has the job.
WorkerDies(j) ==
  /\ Trouble("crash")
  /\ row[j] = "RUNNING" /\ run[j].alive
  /\ run' = [run EXCEPT ![j].alive = FALSE]
  /\ UNCHANGED <<row, of, queued, plans, details, linking, drv, cluster, preset, missed, strayed>>

Reconcile(j) ==
  /\ row[j] = "RUNNING" /\ ~ run[j].alive
  /\ Ends(j, "FAILED")
  /\ UNCHANGED <<plans, details, linking, drv, cluster, history>>

Parks(j) ==
  /\ row' = [row EXCEPT ![j] = "WAITING_APPROVAL"]
  /\ run' = [run EXCEPT ![j].alive = FALSE]
  /\ UNCHANGED <<of, queued>>

Approve(j) ==
  /\ row[j] = "WAITING_APPROVAL"
  /\ row' = [row EXCEPT ![j] = "QUEUED"]
  /\ queued' = queued \union {j}
  /\ run' = [run EXCEPT ![j].approved = run[j].at]
  /\ UNCHANGED <<of, plans, details, linking, drv, cluster, history>>

\* A rejection, or a cancellation of a job no worker has: the API ends it, by itself.
EndUnheld(j, as) ==
  /\ Trouble("cancel")
  /\ \/ row[j] = "WAITING_APPROVAL"
     \/ row[j] = "QUEUED" /\ as = "CANCELLED"
  /\ Ends(j, as)
  /\ UNCHANGED <<plans, details, linking, drv, cluster, preset, missed, strayed>>

AskCancel(j) ==
  /\ Trouble("cancel")
  /\ row[j] = "RUNNING" /\ ~ run[j].asked
  /\ run' = [run EXCEPT ![j].asked = TRUE]
  /\ UNCHANGED <<row, of, queued, plans, details, linking, drv, cluster, preset, missed, strayed>>

\* Bound: the rows left suffice for the plans that have not begun.
Spare ==
  Cardinality({j \in Job : row[j] = "NONE"}) > Cardinality({p \in Child : status[p] = "DRAFT"})

\* The plan goes on naming the job that was retried.
Retry(j) ==
  /\ Trouble("retry")
  /\ Spare
  /\ row[j] \in {"FAILED", "CANCELLED"}
  /\ Insert(of[j], TRUE)
  /\ strayed' = strayed \union {of[j]}
  /\ UNCHANGED <<plans, details, linking, drv, cluster, preset, missed>>

-----------------------------------------------------------------------------
(* What every playbook shares: facts, checks, remediations, the gate, the report *)

Plan(j) == of[j]
Sets(f, p, v) == f' = [f EXCEPT ![p] = v]

\* ceph.facts, pve.facts: Ceph is seen, or the call that asks for it failed in silence.
Facts(j) ==
  /\ Doing(j, "facts")
  /\ Sets(status, Plan(j), "RUNNING")
  /\ \/ Sets(ceph, Plan(j), HasCeph) /\ UNCHANGED troubles
     \/ Kind[Plan(j)] = "pve" /\ Sets(ceph, Plan(j), FALSE) /\ Trouble("refused")
  /\ Onward(j)
  /\ UNCHANGED <<parent, named, velnoxs, details, linking, drv, cluster, preset, missed, strayed>>

\* The remediations, by how they come about and how they are routed.
Fix == {"auto", "asked"}
FixesBy(mode) == IF mode = "AUTOMATIC" THEN {"auto"} ELSE {"asked"}
Pending(p, mode) == fixes[p] \intersect FixesBy(mode)

\* The update to the newest Proxmox VE 8 is a remediation to ask for.
Latest8(j) ==
  /\ Doing(j, "latest8")
  /\ \E new \in SUBSET {"asked"} : Sets(fixes, Plan(j), fixes[Plan(j)] \union new)
  /\ Onward(j)
  /\ UNCHANGED <<plans, target, before, found, linking, drv, cluster, history>>

\* No finding that stops, one that blocks, or a line Velnox does not recognise.
Findings == {"clear", "BLOCKER", "UNKNOWN"}

\* The first run of the checks plans remediations anew, and a later one plans none.
Checks(j) ==
  /\ Doing(j, "checks")
  /\ \E worst \in Findings : Sets(found, Plan(j), worst)
  /\ \E new \in SUBSET {"auto", "asked"} : Sets(fixes, Plan(j), new)
  /\ Onward(j)
  /\ UNCHANGED <<plans, target, before, linking, drv, cluster, history>>

Recheck(j) ==
  /\ Doing(j, "recheck")
  /\ \E worst \in Findings : Sets(found, Plan(j), worst)
  /\ Onward(j)
  /\ UNCHANGED <<plans, target, before, fixes, linking, drv, cluster, history>>

Applies(j, mode) == Doing(j, IF mode = "AUTOMATIC" THEN "automatic" ELSE "approved")

\* Applied and validated one by one; the first that is not fails the step.
Apply(j, mode) ==
  /\ Applies(j, mode)
  /\ Sets(fixes, Plan(j), fixes[Plan(j)] \ FixesBy(mode))
  /\ Onward(j)
  /\ UNCHANGED <<plans, target, before, found, linking, drv, cluster, history>>

ApplyFails(j, mode) ==
  /\ Applies(j, mode)
  /\ \E f \in Pending(Plan(j), mode) : Sets(fixes, Plan(j), fixes[Plan(j)] \ {f})
  /\ Trouble("refused")
  /\ GiveUp(j, "FAILED")
  /\ UNCHANGED <<plans, target, before, found, linking, drv, cluster, preset, missed, strayed>>

\* Whether an approval has something to ask: the canary's always does.
Asks(j) == Now(j).do = "canary" \/ Pending(Plan(j), "APPROVED") # {}

Gate(j) ==
  /\ Doing(j, "ask") \/ Doing(j, "canary")
  /\ IF Asks(j) /\ run[j].approved # run[j].at THEN Parks(j) ELSE Onward(j)
  /\ UNCHANGED <<plans, details, linking, drv, cluster, history>>

\* STOPPING_SEVERITIES.
Open(p) == found[p] \in {"BLOCKER", "UNKNOWN"}

ChecksGate(j) ==
  /\ Doing(j, "gate")
  /\ IF Open(Plan(j))
     THEN Sets(status, Plan(j), "BLOCKED") /\ GiveUp(j, "FAILED")
     ELSE UNCHANGED status /\ Onward(j)
  /\ UNCHANGED <<parent, named, velnoxs, ceph, details, linking, drv, cluster, history>>

Report(j) ==
  /\ Doing(j, "report")
  /\ Sets(status, Plan(j), "COMPLETED")
  /\ Onward(j)
  /\ UNCHANGED <<parent, named, velnoxs, ceph, details, linking, drv, cluster, history>>

Succeed(j) ==
  /\ In(j, "go") /\ run[j].at > Len(Steps[Plan(j)])
  /\ Ends(j, "SUCCEEDED")
  /\ UNCHANGED <<plans, details, linking, drv, cluster, history>>

-----------------------------------------------------------------------------
(* Ceph: noout, packages everywhere, then daemon by daemon *)

It(j) == Now(j).target
Sequence(p) == RunTargets[p]

\* Recorded before it is set.
NooutSet(j) ==
  /\ Doing(j, "noout")
  /\ IF noout THEN Onward(j) /\ UNCHANGED velnoxs
     ELSE Into(j, "flag") /\ Sets(velnoxs, Plan(j), TRUE)
  /\ UNCHANGED <<status, parent, named, ceph, details, linking, drv, cluster, history>>

\* Sources and the like, whose effect nothing here depends on.
Repository(j) ==
  /\ Doing(j, "repository") \/ Doing(j, "repositories")
  /\ Onward(j)
  /\ UNCHANGED <<plans, details, linking, drv, cluster, history>>

Installing(T) == release' = [t \in Target |-> IF t \in T /\ release[t] = "old" THEN "installed"
                                              ELSE release[t]]

\* ceph.packages on every node's daemons; pve.dist-upgrade on its node, unless it is on 9.
Unpacks(j) == IF It(j) = NoTarget THEN Ran(Sequence(Plan(j))) ELSE {It(j)}
Packages(j) ==
  /\ Doing(j, "packages")
  /\ Installing(Unpacks(j))
  /\ Onward(j)
  /\ UNCHANGED <<plans, details, linking, drv, noout, down, busy, moved, history>>

Restart(j) ==
  /\ Doing(j, "restart")
  /\ release[It(j)] # "old"
  /\ target' = [target EXCEPT ![Plan(j)][It(j)] = "RUNNING"]
  /\ release' = [release EXCEPT ![It(j)] = "new"]
  /\ Onward(j)
  /\ UNCHANGED <<plans, before, found, fixes, linking, drv, noout, down, busy, moved, history>>

Settle(j) ==
  /\ Doing(j, "settle")
  /\ target' = [target EXCEPT ![Plan(j)][It(j)] = "DONE"]
  /\ Onward(j)
  /\ UNCHANGED <<plans, before, found, fixes, linking, drv, cluster, history>>

AllOn(p, R) == \A t \in Ran(Sequence(p)) : release[t] \in R

\* ceph.require-osd-release and ceph.verify; the latter also wants noout as it was found.
Proven(j) ==
  /\ Doing(j, "require") \/ (Doing(j, "verify") /\ noout = preset)
  /\ AllOn(Plan(j), {"new"})
  /\ Onward(j)
  /\ UNCHANGED <<plans, details, linking, drv, cluster, history>>

NooutUnset(j) ==
  /\ Doing(j, "unset")
  /\ IF velnoxs[Plan(j)] THEN noout' = FALSE /\ Into(j, "cleared") ELSE UNCHANGED noout /\ Onward(j)
  /\ UNCHANGED <<plans, details, linking, drv, release, down, busy, moved, history>>

-----------------------------------------------------------------------------
(* Proxmox VE: node by node *)

Evacuate(j) ==
  /\ Doing(j, "evacuate")
  /\ target' = [target EXCEPT ![Plan(j)][It(j)] = "RUNNING"]
  /\ before' = [before EXCEPT ![Plan(j)][It(j)] = release[It(j)]]
  /\ IF release[It(j)] = "old" /\ It(j) \in busy
     THEN busy' = busy \ {It(j)} /\ moved' = moved \union {It(j)}
     ELSE UNCHANGED <<busy, moved>>
  /\ Onward(j)
  /\ UNCHANGED <<plans, found, fixes, linking, drv, noout, release, down, history>>

\* The reboot: not needed; or noout first, where there is Ceph and it is not set; ...
Reboot(j) ==
  /\ Doing(j, "reboot")
  /\ IF release[It(j)] = "new" THEN Onward(j) /\ UNCHANGED velnoxs
     ELSE IF ceph[Plan(j)] /\ ~ noout THEN Into(j, "flag") /\ Sets(velnoxs, Plan(j), TRUE)
     ELSE Into(j, "look") /\ UNCHANGED velnoxs
  /\ UNCHANGED <<status, parent, named, ceph, details, linking, drv, cluster, history>>

FlagNever(j) == UNCHANGED noout  \* faulty: recorded and never set
FlagIt(j) == noout' = TRUE

Flag(j) ==
  /\ In(j, "flag")
  /\ FlagIt(j)
  /\ IF Now(j).do = "reboot" THEN Into(j, "look") ELSE Onward(j)
  /\ UNCHANGED <<plans, details, linking, drv, release, down, busy, moved, history>>

\* ... then, as the quorum allows it, the order, and the wait for a fresh uptime.
OrderReboot(j) ==
  /\ In(j, "look")
  /\ down' = down \union {It(j)}
  /\ Into(j, "back")
  /\ UNCHANGED <<plans, details, linking, drv, noout, release, busy, moved, history>>

NodeReturns(t) ==
  /\ t \in down
  /\ down' = down \ {t}
  /\ release' = [release EXCEPT ![t] = IF @ = "installed" THEN "new" ELSE @]
  /\ UNCHANGED <<plans, details, jobs, linking, drv, noout, busy, moved, history>>

SeenBack(j) ==
  /\ In(j, "back")
  /\ It(j) \notin down
  /\ Onward(j)
  /\ UNCHANGED <<plans, details, linking, drv, cluster, history>>

\* On 9 and its new kernel, Ceph whole; noout cleared, where Velnox set it; pve8to9 again.
Validate(j) ==
  /\ Doing(j, "validate")
  /\ release[It(j)] = "new"
  /\ IF ceph[Plan(j)] /\ velnoxs[Plan(j)] THEN noout' = FALSE /\ Into(j, "cleared")
     ELSE UNCHANGED noout /\ Into(j, "prove")
  /\ UNCHANGED <<plans, details, linking, drv, release, down, busy, moved, history>>

Cleared(j) ==
  /\ In(j, "cleared")
  /\ Sets(velnoxs, Plan(j), FALSE)
  /\ IF Now(j).do = "validate" THEN Into(j, "prove") ELSE Onward(j)
  /\ UNCHANGED <<status, parent, named, ceph, details, linking, drv, cluster, history>>

Prove(j) ==
  /\ In(j, "prove")
  /\ Onward(j)
  /\ UNCHANGED <<plans, details, linking, drv, cluster, history>>

Return(j) ==
  /\ Doing(j, "return")
  /\ IF It(j) \in moved THEN busy' = busy \union {It(j)} /\ moved' = moved \ {It(j)}
     ELSE UNCHANGED <<busy, moved>>
  /\ target' = [target EXCEPT ![Plan(j)][It(j)] =
                  IF before[Plan(j)][It(j)] = "old" THEN "DONE" ELSE "NOT_APPLICABLE"]
  /\ Onward(j)
  /\ UNCHANGED <<plans, before, found, fixes, linking, drv, noout, release, down, history>>

\* pve.final reads every node of the plan, those left out included.
Final(j) ==
  /\ Doing(j, "final")
  /\ \A t \in Ran(TargetsOf[Plan(j)]) : release[t] # "old"
  /\ Onward(j)
  /\ UNCHANGED <<plans, details, linking, drv, cluster, history>>

-----------------------------------------------------------------------------
(* Failure, cancellation, and what they undo *)

Parts == {"go", "flag", "look", "back", "cleared", "prove"}

\* What a step finds for itself: no new release, a node that does not return, noout left.
Fruitless(j) ==
  \/ Doing(j, "restart") /\ release[It(j)] = "old"
  \/ Doing(j, "validate") /\ release[It(j)] # "new"
  \/ Doing(j, "require") /\ ~ AllOn(Plan(j), {"new"})
  \/ Doing(j, "verify") /\ ~ (AllOn(Plan(j), {"new"}) /\ noout = preset)
  \/ Doing(j, "final") /\ \E t \in Ran(TargetsOf[Plan(j)]) : release[t] = "old"
  \/ In(j, "back") /\ It(j) \in down

MarksTarget(j) == Now(j).do \in {"restart", "settle", "validate"}

\* A step throws: some of its targets may have their packages by then, a node may be on
\* its way, and a call about noout that broke off may have been heard.
StepFails(j) ==
  /\ \E part \in Parts : In(j, part)
  /\ run[j].at <= Len(Steps[Plan(j)])
  /\ IF Fruitless(j) THEN UNCHANGED troubles ELSE Trouble("refused")
  /\ IF Doing(j, "packages") THEN \E T \in SUBSET Unpacks(j) : Installing(T) ELSE UNCHANGED release
  /\ \/ UNCHANGED target
     \/ MarksTarget(j) /\ target' = [target EXCEPT ![Plan(j)][It(j)] = "FAILED"]
  /\ \/ UNCHANGED noout
     \/ "noanswer" \in Faults /\ In(j, "flag") /\ noout' = TRUE
  /\ GiveUp(j, "FAILED")
  /\ UNCHANGED <<plans, before, found, fixes, linking, drv, down, busy, moved,
                 preset, missed, strayed>>

\* At a boundary, or in the wait for a node.
Cancelled(j) ==
  /\ run[j].asked
  /\ In(j, "go") \/ In(j, "back")
  /\ GiveUp(j, "CANCELLED")
  /\ UNCHANGED <<plans, details, linking, drv, cluster, history>>

\* runPlaybookCleanup: noout first, the record of it after.
UnsetAlways(p) == noout' = FALSE  \* faulty: whoever set it
Unset(p) == noout' = IF velnoxs[p] THEN FALSE ELSE noout
Unreached(p) == /\ velnoxs[p] /\ Trouble("noanswer")
                /\ noout' \in {noout, FALSE}
                /\ missed' = missed \union {p}

Undo(j) ==
  /\ In(j, "undo")
  /\ Unset(Plan(j))
  /\ Into(j, IF velnoxs[Plan(j)] THEN "undone" ELSE "tell")
  /\ UNCHANGED <<plans, details, linking, drv, release, down, busy, moved, history>>

\* It throws, and the runner goes on without the rest of the clean-up.
UndoFails(j) ==
  /\ In(j, "undo")
  /\ Unreached(Plan(j))
  /\ Into(j, "end")
  /\ UNCHANGED <<plans, details, linking, drv, release, down, busy, moved, preset, strayed>>

Undone(j) ==
  /\ In(j, "undone")
  /\ Sets(velnoxs, Plan(j), FALSE)
  /\ Into(j, "tell")
  /\ UNCHANGED <<status, parent, named, ceph, details, linking, drv, cluster, history>>

Tell(j) ==
  /\ In(j, "tell")
  /\ Sets(status, Plan(j), IF run[j].ending = "CANCELLED" THEN "CANCELLED"
                           ELSE IF status[Plan(j)] = "BLOCKED" THEN "BLOCKED" ELSE "FAILED")
  /\ Into(j, "end")
  /\ UNCHANGED <<parent, named, velnoxs, ceph, details, linking, drv, cluster, history>>

End(j) ==
  /\ In(j, "end")
  /\ Ends(j, run[j].ending)
  /\ UNCHANGED <<plans, details, linking, drv, cluster, history>>

-----------------------------------------------------------------------------
(* The API starts a plan *)

\* The job is inserted and enqueued ...
RunPlan(p) ==
  /\ parent = "none" /\ p \in Alone
  /\ status[p] = "DRAFT"
  /\ linking = {}
  /\ Insert(p, TRUE)
  /\ linking' = {<<p, Fresh>>}
  /\ UNCHANGED <<plans, details, drv, cluster, history>>

\* ... and then the plan is written, whatever has become of the job.
LinkPlan(p, j) ==
  /\ <<p, j>> \in linking
  /\ Sets(status, p, "RUNNING") /\ Sets(named, p, j)
  /\ linking' = {}
  /\ UNCHANGED <<parent, velnoxs, ceph, details, jobs, drv, cluster, history>>

ApiDies ==
  /\ Trouble("apiloss")
  /\ linking # {}
  /\ linking' = {}
  /\ strayed' = strayed \union {l[1] : l \in linking}
  /\ UNCHANGED <<plans, details, jobs, drv, cluster, preset, missed>>

RunComposite ==
  /\ parent = "DRAFT"
  /\ parent' = "RUNNING"
  /\ UNCHANGED <<status, named, velnoxs, ceph, details, jobs, linking, drv, cluster, history>>

-----------------------------------------------------------------------------
(* The drivers *)

Idle == [at |-> "idle", child |-> NoChild, job |-> NoJob]
Drives(d, at) == drv[d].at = at
Goes(d, at) == drv' = [drv EXCEPT ![d].at = at]
Rests(d)    == drv' = [drv EXCEPT ![d] = Idle]

\* A plan whose job is over though the plan does not know.
Notice(d, p) ==
  /\ Drives(d, "idle")
  /\ status[p] = "RUNNING" /\ named[p] # NoJob
  /\ Ended(named[p])
  /\ drv' = [drv EXCEPT ![d] = [at |-> IF row[named[p]] = "SUCCEEDED" THEN "mark" ELSE "undo",
                                child |-> p, job |-> named[p]]]
  /\ UNCHANGED <<plans, details, jobs, linking, cluster, history>>

DriverUndoes(d) ==
  /\ Drives(d, "undo")
  /\ Unset(drv[d].child)
  /\ Goes(d, IF velnoxs[drv[d].child] THEN "undone" ELSE "mark")
  /\ UNCHANGED <<plans, details, jobs, linking, release, down, busy, moved, history>>

\* Its errors are swallowed.
DriverMisses(d) ==
  /\ Drives(d, "undo")
  /\ Unreached(drv[d].child)
  /\ Goes(d, "mark")
  /\ UNCHANGED <<plans, details, jobs, linking, release, down, busy, moved, preset, strayed>>

DriverRecords(d) ==
  /\ Drives(d, "undone")
  /\ Sets(velnoxs, drv[d].child, FALSE)
  /\ Goes(d, "mark")
  /\ UNCHANGED <<status, parent, named, ceph, details, jobs, linking, cluster, history>>

Became(j) == IF row[j] = "SUCCEEDED" THEN "COMPLETED"
             ELSE IF row[j] = "CANCELLED" THEN "CANCELLED" ELSE "FAILED"

Mark(d) ==
  /\ Drives(d, "mark")
  /\ Sets(status, drv[d].child, Became(drv[d].job))
  /\ Rests(d)
  /\ UNCHANGED <<parent, named, velnoxs, ceph, details, jobs, linking, cluster, history>>

\* compositeNext: the first child that is not complete decides.
Over == {"COMPLETED", "FAILED", "CANCELLED", "BLOCKED"}
Incomplete == {i \in DOMAIN Order : status[Order[i]] # "COMPLETED"}
NextIfNotFailed == Order[CHOOSE i \in DOMAIN Order :  \* faulty: passes over a failed child
  \/ status[Order[i]] \in {"DRAFT", "RUNNING"}
  \/ \A h \in DOMAIN Order : status[Order[h]] \in Over /\ i = Len(Order)]
NextChild == Order[CHOOSE i \in Incomplete : \A h \in Incomplete : i <= h]

Stop(d) ==
  /\ Drives(d, "idle")
  /\ parent = "RUNNING"
  /\ Incomplete # {}
  /\ status[NextChild] \in Over
  /\ status' = [p \in Child |-> IF status[p] = "DRAFT" THEN "CANCELLED" ELSE status[p]]
  /\ Goes(d, "stop")
  /\ UNCHANGED <<parent, named, velnoxs, ceph, details, jobs, linking, cluster, history>>

EndComposite(d) ==
  /\ \/ Drives(d, "stop") /\ parent' = "FAILED"
     \/ Drives(d, "idle") /\ parent = "RUNNING" /\ Incomplete = {} /\ parent' = "COMPLETED"
  /\ Rests(d)
  /\ UNCHANGED <<status, named, velnoxs, ceph, details, jobs, linking, cluster, history>>

\* The next child is due and the cluster's key was free when looked at ...
Choose(d) ==
  /\ Drives(d, "idle")
  /\ parent = "RUNNING"
  /\ Incomplete # {}
  /\ status[NextChild] = "DRAFT"
  /\ \A j \in Job : ~ Active(j)
  /\ drv' = [drv EXCEPT ![d] = [at |-> "create", child |-> NextChild, job |-> NoJob]]
  /\ UNCHANGED <<plans, details, jobs, linking, cluster, history>>

\* ... a job is inserted, or the key has been taken since ...
CreateJob(d) ==
  /\ Drives(d, "create")
  /\ \/ /\ Insert(drv[d].child, FALSE)
        /\ drv' = [drv EXCEPT ![d].at = "link", ![d].job = Fresh]
     \/ (\E j \in Job : Active(j)) /\ Rests(d) /\ UNCHANGED jobs
  /\ UNCHANGED <<plans, details, linking, cluster, history>>

\* ... the plan names it, and it is enqueued.
LinkJob(d) ==
  /\ Drives(d, "link")
  /\ Sets(status, drv[d].child, "RUNNING") /\ Sets(named, drv[d].child, drv[d].job)
  /\ Goes(d, "queue")
  /\ UNCHANGED <<parent, velnoxs, ceph, details, jobs, linking, cluster, history>>

Enqueue(d) ==
  /\ Drives(d, "queue")
  /\ queued' = queued \union {drv[d].job}
  /\ Rests(d)
  /\ UNCHANGED <<plans, details, row, of, run, linking, cluster, history>>

DriverDies(d) ==
  /\ Trouble("crash")
  /\ ~ Drives(d, "idle")
  /\ Rests(d)
  /\ UNCHANGED <<plans, details, jobs, linking, cluster, preset, missed, strayed>>

-----------------------------------------------------------------------------
(* The specification *)

Init ==
  /\ status = [p \in Child |-> "DRAFT"]
  /\ parent \in {IF c THEN "DRAFT" ELSE "none" : c \in Composites}
  /\ named = [p \in Child |-> NoJob]
  /\ target = [p \in Child |->
                 [t \in Target |-> IF t \in LeftOut[p] THEN "NOT_APPLICABLE" ELSE "PENDING"]]
  /\ before = [p \in Child |-> [t \in Target |-> "none"]]
  /\ found = [p \in Child |-> "clear"]
  /\ fixes = [p \in Child |-> {}]
  /\ velnoxs = [p \in Child |-> FALSE]
  /\ ceph = [p \in Child |-> FALSE]
  /\ row = [j \in Job |-> "NONE"]
  /\ of = [j \in Job |-> NoChild]
  /\ queued = {}
  /\ run = [j \in Job |-> NoRun]
  /\ linking = {}
  /\ drv = [d \in Driver |-> Idle]
  /\ noout \in IF HasCeph THEN BOOLEAN ELSE {FALSE}
  /\ preset = noout
  /\ release \in Releases
  /\ down = {} /\ busy = UNION {Ran(TargetsOf[p]) : p \in {q \in Child : Kind[q] = "pve"}}
  /\ moved = {}
  /\ missed = {} /\ strayed = {} /\ troubles = 0

\* What a live worker does with a job it has.
Work(j) ==
  \/ Facts(j) \/ Latest8(j) \/ Checks(j) \/ Recheck(j) \/ Gate(j) \/ ChecksGate(j)
  \/ \E mode \in {"AUTOMATIC", "APPROVED"} : Apply(j, mode) \/ ApplyFails(j, mode)
  \/ Report(j) \/ Succeed(j)
  \/ NooutSet(j) \/ Repository(j) \/ Packages(j) \/ Restart(j) \/ Settle(j) \/ Proven(j)
  \/ NooutUnset(j)
  \/ Evacuate(j) \/ Reboot(j) \/ Flag(j) \/ OrderReboot(j) \/ SeenBack(j)
  \/ Validate(j) \/ Cleared(j) \/ Prove(j) \/ Return(j) \/ Final(j)
  \/ StepFails(j) \/ Cancelled(j)
  \/ Undo(j) \/ UndoFails(j) \/ Undone(j) \/ Tell(j) \/ End(j)

Drive(d) ==
  \/ \E p \in Child : Notice(d, p)
  \/ DriverUndoes(d) \/ DriverMisses(d) \/ DriverRecords(d) \/ Mark(d)
  \/ Stop(d) \/ EndComposite(d) \/ Choose(d) \/ CreateJob(d) \/ LinkJob(d) \/ Enqueue(d)

Next ==
  \/ \E j \in Job : \/ Claim(j) \/ Work(j) \/ WorkerDies(j) \/ Reconcile(j)
                    \/ Approve(j) \/ AskCancel(j) \/ Retry(j)
                    \/ \E as \in {"CANCELLED", "FAILED"} : EndUnheld(j, as)
  \/ \E d \in Driver : Drive(d) \/ DriverDies(d)
  \/ \E p \in Child : RunPlan(p) \/ \E j \in Job : LinkPlan(p, j)
  \/ ApiDies \/ RunComposite
  \/ \E t \in Target : NodeReturns(t)

Spec == Init /\ [][Next]_vars

\* Workers take jobs and go on with them, the reconciler and the drivers run every few
\* seconds, and the API goes on with a request it has begun.  Nobody has to approve.
Fairness ==
  /\ \A j \in Job : WF_vars(Claim(j)) /\ WF_vars(Work(j)) /\ WF_vars(Reconcile(j))
  /\ \A d \in Driver : WF_vars(Drive(d))
  /\ \A p \in Child, j \in Job : WF_vars(LinkPlan(p, j))

FairSpec == Spec /\ Fairness

-----------------------------------------------------------------------------
(* Properties *)

Board == INSTANCE JobBoard WITH status <- row

\* The rows move as the job system promises, whoever inserts and ends them.
ImplementsBoard == Board!Spec

\* "Recorded before it is set: a failure between the two still clears it": noout differs
\* from what was found only while a plan says Velnox set it, and never where it was set.
Recorded == noout # preset => ~ preset /\ \E p \in Child : velnoxs[p] \/ p \in strayed

\* "noout is always cleared", also for a worker that died: a plan that is over has left it
\* only if a call that was to clear it did not reach the cluster.
Restored ==
  \A p \in Child : status[p] \in Over /\ velnoxs[p] /\ noout => p \in missed \union strayed

NooutAsFound == Recorded /\ Restored

\* "One is upgraded and validated before the next begins", "before any target is touched"
\* nothing that stops the upgrade is open, and a person has looked at the first node.
Begins(p, t) == target[p][t] # "RUNNING" /\ target'[p][t] = "RUNNING"
Looked(p) == \E j \in Job : /\ of[j] = p /\ row[j] = "RUNNING"
                            /\ run[j].approved # 0
                            /\ Steps[p][run[j].approved].do = "canary"
InTurn ==
  [][\A p \in Child : \A k \in DOMAIN Sequence(p) :
       Begins(p, Sequence(p)[k]) =>
         /\ found[p] = "clear"
         /\ \A i \in 1 .. k - 1 : target[p][Sequence(p)[i]] \in {"DONE", "NOT_APPLICABLE"}
         /\ Kind[p] = "pve" /\ k > 1 => Looked(p)]_vars

\* "Guests away", and "with Ceph's noout set around it": a node reboots with no guest on it
\* and, with Ceph as far as the playbook saw one, only while noout is set ...
Crowded(j) == In(j, "look") /\ It(j) \in busy
Bare(j)    == In(j, "look") /\ ceph[Plan(j)] /\ ~ noout
EveryRebootIsPrepared ==
  [][\A j \in Job : Crowded(j) \/ Bare(j) => It(j) \notin down' \ down]_vars

\* ... which holds but for a node that had the new release installed when its turn came, so
\* that the evacuation passed it over and the reboot does not; and for noout that a driver
\* clears under the job, for a plan that was run again, whose job it takes to be over, or for
\* another one of the plans run by themselves.
Clears(d)  == Drives(d, "undo") /\ drv'[d].at # "undo" /\ velnoxs[drv[d].child]
Misled(j)  ==
  \E d \in Driver : /\ Clears(d)
                    /\ \/ {Plan(j), drv[d].child} \intersect strayed # {}
                       \/ parent = "none" /\ drv[d].child # Plan(j)
RebootsArePrepared ==
  [][\A j \in Job : /\ Crowded(j) => before[Plan(j)][It(j)] = "installed"
                    /\ ~ Bare(j) /\ Bare(j)' => noout /\ Misled(j)]_vars

\* "The composite fails and the children after it are cancelled, never started": a child
\* has a job only when those before it are complete, every target of theirs running the new
\* release, or when one of them was run again.
Complete(p) == status[p] = "COMPLETED" /\ AllOn(p, {"new"})
ChildrenInOrder ==
  parent # "none" =>
    \A j \in Job : of[j] # NoChild =>
      \A i, k \in DOMAIN Order : i < k /\ Order[k] = of[j] =>
        Complete(Order[i]) \/ Order[i] \in strayed

\* A composite that was started ends, unless a person leaves an approval open for ever, or
\* a worker died between inserting a child's job and enqueueing it.
HeldUp == \E j \in Job : row[j] = "WAITING_APPROVAL" \/ (row[j] = "QUEUED" /\ j \notin queued)
CompositeEnds == parent = "RUNNING" ~> parent \in {"COMPLETED", "FAILED"} \/ []HeldUp
=============================================================================
