---------------------------- MODULE RollingUpdate ----------------------------
(***************************************************************************)
(* One update job of a cluster: cluster.rolling_update (rolling.ts), which *)
(* empties, updates and reboots a cluster's nodes group after group, or    *)
(* node.update (playbook.ts), which does one node and moves no guest.      *)
(* Both do to a node what node-ops.ts does.                                *)
(*                                                                         *)
(* The nodes of a group are worked on in parallel under Promise.all: the   *)
(* first that fails ends the step and with it the job, while the work on   *)
(* the others goes on.  So a node has a task of its own, and a task may    *)
(* outlive the job.                                                        *)
(*                                                                         *)
(* Reads that follow each other and decide something together are one      *)
(* action; what was read is kept where it is used after an await (the      *)
(* places of the guests in an evacuation, the quorum before a reboot).     *)
(* Memory and Ceph are not modelled: a guest may be found no room for, and *)
(* a cluster may be found not healthy, at any time.                        *)
(***************************************************************************)
EXTENDS Integers, Sequences, FiniteSets

CONSTANTS
  Node,         \* the cluster's nodes, each a voter
  Guest,
  Nowhere,      \* the place of a guest that does not run
  Home,         \* where each guest runs before the job
  Blocked,      \* the guests that cannot be moved live
  Rules,        \* the placement rules in force
  Plans,        \* the jobs that may be asked for
  MaxOutages,   \* bound: nodes that fail by themselves
  Faults        \* what may go wrong, a subset of FaultKinds

\* refused: a command or a task on a node, or a guest's, fails and says so.
\* noanswer: a call breaks off, and what it started goes on.
\* outage: a node fails by itself.  cancel: the job is cancelled.
FaultKinds == {"refused", "noanswer", "outage", "cancel"}

RuleKinds == {"KEEP_APART", "KEEP_TOGETHER", "PREFER_NODES"}
Rule == [kind : RuleKinds, guests : SUBSET Guest, nodes : SUBSET Node]

REBOOT_POLICIES == {"NEVER", "IF_REQUIRED", "ALWAYS"}

\* What the API puts into the job: the nodes in the order they are updated, how
\* many together, and the choices of the request and of the cluster's policy.
Plan == [ kind : {"rolling", "node"}, nodes : Seq(Node), concurrency : Nat \ {0},
          reboot : REBOOT_POLICIES, shutdown : BOOLEAN, back : BOOLEAN,
          approve : BOOLEAN, window : BOOLEAN ]

ASSUME RollingAssumption ==
  /\ IsFiniteSet(Node) /\ Node # {}
  /\ Nowhere \notin Node
  /\ Home \in [Guest -> Node]
  /\ Blocked \subseteq Guest
  /\ Rules \subseteq Rule
  /\ Plans \subseteq Plan
  /\ MaxOutages \in Nat
  /\ Faults \subseteq FaultKinds

VARIABLES
  \* the cluster
  host,      \* "up", "ordered" (a reboot was asked for and has not begun) or "down"
  updated,   \* the nodes whose dist-upgrade has finished
  place,     \* the node each guest is on
  guest,     \* "running", "shut" (by the job) or "dead" (its node failed)
  drifting,  \* migrations that were started and never answered, guest |-> node
  \* the job
  plan,      \* its parameters
  phase,     \* where its playbook is
  at,        \* the group it is at
  task,      \* what is being done to each node
  todo,      \* the guests the evacuation or the return has still to see to
  view,      \* the evacuation's picture of where the guests are
  online,    \* ... and of which nodes are there
  moves,     \* what the evacuations recorded
  returned,  \* the guests a return step brought back, per group
  outcome,   \* the status the job ended with
  said,      \* the guests the job's output or error says are not back
  \* history
  outages,   \* nodes that failed by themselves, as a count
  lost       \* the nodes that failed by themselves since this node's look at the quorum

cluster == <<host, updated, place, guest, drifting>>
evac    == <<todo, view, online>>
record  == <<moves, returned, outcome, said>>
history == <<outages, lost>>
vars    == <<cluster, plan, phase, at, task, evac, record, history>>

-----------------------------------------------------------------------------
(* The plan: groups that keep quorum *)

Voters == Cardinality(Node)
MaxUnavailable == IF Voters <= 1 THEN 1 ELSE (Voters - 1) \div 2

Smaller(a, b) == IF a < b THEN a ELSE b

\* planRollingGroups: slices of the list, no larger than asked and than quorum allows.
GroupSize(p) == IF p.kind = "node" THEN 1 ELSE Smaller(p.concurrency, MaxUnavailable)
GroupCount(p) == (Len(p.nodes) + GroupSize(p) - 1) \div GroupSize(p)
Slice(p, g) == {i \in 1 .. Len(p.nodes) : (g - 1) * GroupSize(p) < i /\ i <= g * GroupSize(p)}
Group(p, g) == {p.nodes[i] : i \in Slice(p, g)}

\* What the API lets become a job: with less than one node to spare there is no
\* rolling update; a single node is updated whatever the size of the cluster.
Planned(p) ==
  /\ Len(p.nodes) > 0
  /\ \A i, j \in 1 .. Len(p.nodes) : p.nodes[i] = p.nodes[j] => i = j
  /\ IF p.kind = "node" THEN Len(p.nodes) = 1 ELSE MaxUnavailable >= 1

Here == Group(plan, at)
Rolling == plan.kind = "rolling"

-----------------------------------------------------------------------------
(* The cluster as Proxmox reports it *)

Down == {n \in Node : host[n] = "down"}
Up   == Node \ Down
Quorate == Voters <= 1 \/ 2 * Cardinality(Up) > Voters

\* quorumAllows: quorate, and with `leaving` more down still within the bound.
QuorumIgnoringDown(leaving) == Voters <= 1 \/ (Quorate /\ leaving <= MaxUnavailable)  \* faulty
QuorumAllows(leaving) ==
  Voters <= 1 \/ (Quorate /\ Cardinality(Down) + leaving <= MaxUnavailable)

Whole == Down = {} /\ Quorate

RunningOn(N) == {g \in Guest : guest[g] = "running" /\ place[g] \in N}

\* positionsOf: the running guests and where they are.
Positions == [g \in Guest |-> IF guest[g] = "running" THEN place[g] ELSE Nowhere]
Without(v, G) == [g \in Guest |-> IF g \in G THEN Nowhere ELSE v[g]]

\* placementForbids: a rule forbids the guest the node, where the others are as in v.
Forbids(v, g, n) ==
  \E r \in Rules :
    LET others == {o \in r.guests \ {g} : v[o] # Nowhere}
    IN /\ g \in r.guests
       /\ \/ r.kind = "KEEP_APART" /\ \E o \in others : v[o] = n
          \/ r.kind = "KEEP_TOGETHER" /\ others # {} /\ \A o \in others : v[o] # n
          \/ r.kind = "PREFER_NODES" /\ n \notin r.nodes

\* chooseTarget: which of them has the most room is not modelled.
TargetsInGroup(g) == {n \in online : ~ Forbids(view, g, n)}  \* faulty: forgets who is leaving
Targets(g) == {n \in online \ Here : ~ Forbids(view, g, n)}

-----------------------------------------------------------------------------
(* How the job ends *)

\* unaccounted: every guest moved or shut down up to this group and not brought back.
StillAway(m) == <<m.group, m.guest>> \notin returned
UnaccountedBefore ==  \* faulty: the groups before, and not the one it is at
  {m.guest : m \in {x \in moves : x.group < at /\ StillAway(x)}}
Unaccounted == {m.guest : m \in {x \in moves : x.group <= at /\ StillAway(x)}}

\* unit, and the errors of the window and of validate: a failure after the first group is
\* partial, and all but the window's names the guests; what is no StepError passes as it is.
StoppedBy(error) ==
  CASE error = "cancelled" -> "CANCELLED"
    [] error \in {"step", "window"} /\ at > 1 -> "PARTIALLY_SUCCEEDED"
    [] OTHER -> "FAILED"

Stop(error) ==
  /\ phase' = "over"
  /\ outcome' = StoppedBy(error)
  /\ said' = IF error = "step" THEN said \union Unaccounted ELSE said
  /\ UNCHANGED <<plan, at, evac, moves, returned>>

\* The errors a call may end with: its own refusal, a call that broke off, an abort.
Interruptions == (IF "noanswer" \in Faults THEN {"other"} ELSE {})
                 \union (IF "cancel" \in Faults THEN {"cancelled"} ELSE {})
CallErrors == (IF "refused" \in Faults THEN {"step"} ELSE {}) \union Interruptions

-----------------------------------------------------------------------------
(* Preflight, approval, window *)

\* The trial of the preflight: the guests of the group fit in somewhere else.
CanEmpty(G) ==
  LET leaving == RunningOn(G)
      rest    == Without(Positions, leaving)
  IN \E to \in [leaving \ Blocked -> Up \ G] :
       LET v == [g \in Guest |-> IF g \in leaving \ Blocked THEN to[g] ELSE rest[g]]
       IN \A g \in leaving \ Blocked : ~ Forbids(v, g, to[g])

WithinQuorum == \A g \in 1 .. GroupCount(plan) : Cardinality(Group(plan, g)) <= MaxUnavailable

Targeted == {plan.nodes[i] : i \in 1 .. Len(plan.nodes)}

\* What the preflight of either job asks of the cluster.
PreflightPasses ==
  IF Rolling
  THEN /\ Whole
       /\ WithinQuorum
       /\ plan.shutdown \/ RunningOn(Targeted) \intersect Blocked = {}
       /\ \A g \in 1 .. GroupCount(plan) : CanEmpty(Group(plan, g))
  ELSE Quorate /\ Here \subseteq Up

StartUpdate ==
  /\ phase' = "update"
  /\ task' = [n \in Node |-> IF n \in Here THEN "lists" ELSE "idle"]

\* Where a job goes once it may change something.
Begin ==
  \/ Rolling /\ phase' = "evacuate" /\ UNCHANGED task
  \/ ~ Rolling /\ plan.window /\ phase' = "window" /\ UNCHANGED task
  \/ ~ Rolling /\ ~ plan.window /\ StartUpdate

Preflight ==
  /\ phase = "preflight"
  /\ PreflightPasses
  /\ IF plan.approve THEN phase' = "approve" /\ UNCHANGED task ELSE Begin
  /\ UNCHANGED <<cluster, plan, at, evac, record, history>>

PreflightFails ==
  /\ phase = "preflight"
  /\ ~ PreflightPasses \/ "refused" \in Faults
  /\ Stop("step")
  /\ UNCHANGED <<cluster, task, history>>

Approve ==
  /\ phase = "approve"
  /\ Begin
  /\ UNCHANGED <<cluster, plan, at, evac, record, history>>

Reject ==
  /\ phase = "approve"
  /\ Stop("other")
  /\ UNCHANGED <<cluster, task, history>>

\* node.update's step of its own.
WindowOpen ==
  /\ phase = "window"
  /\ StartUpdate
  /\ UNCHANGED <<cluster, plan, at, evac, record, history>>

\* checkWindow before a group, or node.update's step: closed, so the job stops.
WindowClosed ==
  /\ plan.window
  /\ phase \in {"window", "evacuate"}
  /\ Stop("window")
  /\ UNCHANGED <<cluster, task, history>>

-----------------------------------------------------------------------------
(* Evacuating a group *)

\* The cluster is read once: who must leave, where everybody else is, which nodes are there.
Assess ==
  /\ phase = "evacuate"
  /\ todo' = RunningOn(Here)
  /\ view' = Without(Positions, RunningOn(Here))
  /\ online' = Up
  /\ phase' = "moving"
  /\ UNCHANGED <<cluster, plan, at, task, record, history>>

Entry(g, to) == [guest |-> g, from |-> place[g], to |-> to, group |-> at]

MoveAwayBlind(g, to) ==  \* faulty: the picture the rules are judged by stays as it was
  /\ phase = "moving"
  /\ g \in todo \ Blocked /\ to \in Targets(g)
  /\ guest[g] = "running" /\ host[place[g]] # "down" /\ host[to] # "down"
  /\ place' = [place EXCEPT ![g] = to]
  /\ moves' = moves \union {Entry(g, to)}
  /\ todo' = todo \ {g}
  /\ UNCHANGED <<host, updated, guest, drifting, plan, phase, at, task, view, online,
                 returned, outcome, said, history>>

\* A guest that can move goes live to a node that may take it.
MoveAway(g, to) ==
  /\ phase = "moving"
  /\ g \in todo \ Blocked
  /\ to \in Targets(g)
  /\ guest[g] = "running" /\ host[place[g]] # "down" /\ host[to] # "down"
  /\ place' = [place EXCEPT ![g] = to]
  /\ view' = [view EXCEPT ![g] = to]
  /\ moves' = moves \union {Entry(g, to)}
  /\ todo' = todo \ {g}
  /\ UNCHANGED <<host, updated, guest, drifting, plan, phase, at, task, online,
                 returned, outcome, said, history>>

\* One that cannot is shut down, when the request allows it.
ShutDown(g) ==
  /\ phase = "moving"
  /\ g \in todo \intersect Blocked
  /\ plan.shutdown
  /\ guest[g] = "running" /\ host[place[g]] # "down"
  /\ guest' = [guest EXCEPT ![g] = "shut"]
  /\ moves' = moves \union {Entry(g, Nowhere)}
  /\ todo' = todo \ {g}
  /\ UNCHANGED <<host, updated, place, drifting, plan, phase, at, task, view, online,
                 returned, outcome, said, history>>

\* There is nothing to be done with the guest: the step fails by itself.
CannotLeave(g) ==
  \/ g \in Blocked /\ ~ plan.shutdown
  \/ g \notin Blocked /\ Targets(g) = {}
  \/ guest[g] # "running"
  \/ \E n \in Targets(g) : host[n] = "down"

EvacuationFails(error) ==
  /\ phase = "moving"
  /\ \E g \in todo : (error = "step" /\ CannotLeave(g)) \/ error \in CallErrors
  /\ \/ UNCHANGED drifting
     \/ \E g \in todo \ Blocked : \E to \in Targets(g) :
          error # "step" /\ drifting' = [drifting EXCEPT ![g] = to]
  /\ Stop(error)
  /\ UNCHANGED <<host, updated, place, guest, task, history>>

\* A migration nobody waits for arrives.
Land(g) ==
  /\ drifting[g] # Nowhere
  /\ guest[g] = "running" /\ host[drifting[g]] # "down"
  /\ place' = [place EXCEPT ![g] = drifting[g]]
  /\ drifting' = [drifting EXCEPT ![g] = Nowhere]
  /\ UNCHANGED <<host, updated, guest, plan, phase, at, task, evac, record, history>>

Emptied ==
  /\ phase = "moving"
  /\ todo = {}
  /\ StartUpdate
  /\ UNCHANGED <<cluster, plan, at, evac, record, history>>

-----------------------------------------------------------------------------
(* What is done to a node, in parallel with the others of its group *)

Goes(n, t) == task' = [task EXCEPT ![n] = t]

\* refreshLists and simulate returned: dist-upgrade starts.
BeginUpgrade(n) ==
  /\ task[n] = "lists" /\ host[n] # "down"
  /\ Goes(n, "apt")
  /\ UNCHANGED <<cluster, plan, phase, at, evac, record, history>>

FinishUpgrade(n) ==
  /\ task[n] = "apt" /\ host[n] # "down"
  /\ updated' = updated \union {n}
  /\ Goes(n, "installed")
  /\ UNCHANGED <<host, place, guest, drifting, plan, phase, at, evac, record, history>>

\* Promise.all of the update, then the reboot step begins.
SomeInstalled == \E n \in Here : task[n] = "installed"  \* faulty: Promise.race
AllInstalled  == \A n \in Here : task[n] = "installed"

UpdateDone ==
  /\ phase = "update"
  /\ AllInstalled
  /\ phase' = "reboot"
  /\ task' = [n \in Node |-> IF n \in Here THEN "reading" ELSE task[n]]
  /\ UNCHANGED <<cluster, plan, at, evac, record, history>>

\* rebootIfNeeded: nothing to do, under the policy.
NoReboot(n) ==
  /\ task[n] = "reading" /\ host[n] # "down"
  /\ plan.reboot # "ALWAYS"
  /\ Goes(n, "done")
  /\ UNCHANGED <<cluster, plan, phase, at, evac, record, history>>

\* ... or the quorum is looked at, with the whole group counted as leaving ...
LookAtQuorum(n) ==
  /\ task[n] = "reading" /\ host[n] # "down"
  /\ plan.reboot # "NEVER"
  /\ QuorumAllows(Cardinality(Here))
  /\ Goes(n, "looked")
  /\ lost' = [lost EXCEPT ![n] = {}]
  /\ UNCHANGED <<cluster, plan, phase, at, evac, record, outages>>

\* ... and the reboot is ordered on the strength of it.
OrderReboot(n) ==
  /\ task[n] = "looked" /\ host[n] # "down"
  /\ host' = [host EXCEPT ![n] = "ordered"]
  /\ Goes(n, "polling")
  /\ UNCHANGED <<updated, place, guest, drifting, plan, phase, at, evac, record, history>>

\* The node answers with a fresh uptime.
SeenBack(n) ==
  /\ task[n] = "polling" /\ host[n] = "up"
  /\ Goes(n, "done")
  /\ UNCHANGED <<cluster, plan, phase, at, evac, record, history>>

\* How the work on a node may fail.  A node that is down breaks the call off; a cancellation
\* reaches the waits, and not apt.
TaskErrors(n) ==
  (IF task[n] \in {"lists", "apt", "reading"} /\ "refused" \in Faults THEN {"step"} ELSE {})
  \union (IF task[n] = "reading" /\ plan.reboot # "NEVER" /\ ~ QuorumAllows(Cardinality(Here))
          THEN {"step"} ELSE {})
  \union (IF task[n] = "polling" /\ host[n] # "up" THEN {"step"} ELSE {})
  \union (IF task[n] \in {"lists", "apt", "reading", "looked"}
             /\ (host[n] = "down" \/ "noanswer" \in Faults) THEN {"other"} ELSE {})
  \union (IF task[n] \in {"lists", "polling"} /\ "cancel" \in Faults THEN {"cancelled"} ELSE {})

\* The first rejection ends the step and the job; a later one ends only itself.
TaskFails(n, error) ==
  /\ error \in TaskErrors(n)
  /\ Goes(n, "idle")
  /\ IF phase = "over"
     THEN UNCHANGED <<plan, phase, at, evac, record>>
     ELSE Stop(error)
  /\ UNCHANGED <<cluster, history>>

RebootDone ==
  /\ phase = "reboot"
  /\ \A n \in Here : task[n] = "done"
  /\ phase' = IF Rolling THEN "validate" ELSE "verify"
  /\ UNCHANGED <<cluster, plan, at, task, evac, record, history>>

-----------------------------------------------------------------------------
(* Validation, the way back, the end *)

\* validate: the group is online, every node is, and the cluster is quorate.
Validated == Whole

Validate ==
  /\ phase = "validate"
  /\ Validated
  /\ phase' = "return"
  /\ todo' = {m.guest : m \in {x \in moves : x.group = at}}
  /\ UNCHANGED <<cluster, plan, at, task, view, online, record, history>>

ValidateWaits == phase = "validate" /\ ~ Validated /\ UNCHANGED vars  \* faulty: no end to it

\* The minutes to settle are over and something is still wrong.
ValidateFails ==
  /\ phase = "validate"
  /\ ~ Validated \/ "refused" \in Faults
  /\ Stop("step")
  /\ UNCHANGED <<cluster, task, history>>

\* The reasons to leave a moved guest where it is.
Stays(m) ==
  \/ ~ plan.back
  \/ Forbids(Without(Positions, {m.guest}), m.guest, m.from)
  \/ place[m.guest] # m.to
  \/ guest[m.guest] # "running"

LeaveThere(m) ==
  /\ phase = "return"
  /\ m.group = at /\ m.guest \in todo
  /\ \/ m.to # Nowhere /\ Stays(m)
     \/ host[m.from] = "down" \/ "refused" \in Faults
  /\ said' = said \union {m.guest}
  /\ todo' = todo \ {m.guest}
  /\ UNCHANGED <<cluster, plan, phase, at, task, view, online, moves, returned, outcome, history>>

BringBack(m) ==
  /\ phase = "return"
  /\ m.group = at /\ m.guest \in todo
  /\ m.to # Nowhere
  /\ ~ Stays(m)
  /\ host[m.from] # "down" /\ host[m.to] # "down"
  /\ place' = [place EXCEPT ![m.guest] = m.from]
  /\ returned' = returned \union {<<at, m.guest>>}
  /\ todo' = todo \ {m.guest}
  /\ UNCHANGED <<host, updated, guest, drifting, plan, phase, at, task, view, online,
                 moves, outcome, said, history>>

StartAgain(m) ==
  /\ phase = "return"
  /\ m.group = at /\ m.guest \in todo
  /\ m.to = Nowhere
  /\ host[m.from] # "down"
  /\ guest' = [guest EXCEPT ![m.guest] = "running"]
  /\ returned' = returned \union {<<at, m.guest>>}
  /\ todo' = todo \ {m.guest}
  /\ UNCHANGED <<host, updated, place, drifting, plan, phase, at, task, view, online,
                 moves, outcome, said, history>>

NextGroup ==
  /\ phase = "return"
  /\ todo = {}
  /\ at < GroupCount(plan)
  /\ at' = at + 1
  /\ phase' = "evacuate"
  /\ task' = [n \in Node |-> "idle"]
  /\ UNCHANGED <<cluster, plan, evac, record, history>>

Succeed ==
  /\ \/ phase = "return" /\ todo = {} /\ at = GroupCount(plan)
     \/ phase = "verify"
  /\ phase' = "over"
  /\ outcome' = "SUCCEEDED"
  /\ task' = [n \in Node |-> "idle"]
  /\ UNCHANGED <<cluster, plan, at, evac, moves, returned, said, history>>

\* A cancellation at a step boundary or in a wait, or a call that breaks off and that
\* nothing catches.
Interrupted(error) ==
  /\ error \in Interruptions
  /\ \/ phase \in {"preflight", "window", "evacuate", "return", "verify"}
     \/ error = "cancelled" /\ phase = "validate"
  /\ Stop(error)
  /\ UNCHANGED <<cluster, task, history>>

-----------------------------------------------------------------------------
(* The nodes by themselves *)

FailWith(n) == [g \in Guest |-> IF place[g] = n /\ guest[g] = "running" THEN "dead" ELSE guest[g]]

\* A node that was told to reboot goes down.
GoDown(n) ==
  /\ host[n] = "ordered"
  /\ host' = [host EXCEPT ![n] = "down"]
  /\ guest' = FailWith(n)
  /\ UNCHANGED <<updated, place, drifting, plan, phase, at, task, evac, record, history>>

ComeUp(n) ==
  /\ host[n] = "down"
  /\ host' = [host EXCEPT ![n] = "up"]
  /\ UNCHANGED <<updated, place, guest, drifting, plan, phase, at, task, evac, record, history>>

\* A node fails by itself.
Outage(n) ==
  /\ "outage" \in Faults
  /\ outages < MaxOutages
  /\ host[n] # "down"
  /\ host' = [host EXCEPT ![n] = "down"]
  /\ guest' = FailWith(n)
  /\ outages' = outages + 1
  /\ lost' = [m \in Node |->
       IF task[m] = "looked" \/ host[m] = "ordered" THEN lost[m] \union {n} ELSE lost[m]]
  /\ UNCHANGED <<updated, place, drifting, plan, phase, at, task, evac, record>>

-----------------------------------------------------------------------------
(* The specification *)

Init ==
  /\ host = [n \in Node |-> "up"]
  /\ updated = {}
  /\ place = Home
  /\ guest = [g \in Guest |-> "running"]
  /\ drifting = [g \in Guest |-> Nowhere]
  /\ plan \in {p \in Plans : Planned(p)}
  /\ phase = "preflight"
  /\ at = 1
  /\ task = [n \in Node |-> "idle"]
  /\ todo = {} /\ view = [g \in Guest |-> Nowhere] /\ online = {}
  /\ moves = {} /\ returned = {} /\ said = {}
  /\ outcome = "none"
  /\ outages = 0
  /\ lost = [n \in Node |-> {}]

\* The steps of the playbook.
Playbook ==
  \/ Preflight \/ PreflightFails \/ WindowOpen \/ WindowClosed
  \/ Assess \/ Emptied \/ UpdateDone \/ RebootDone
  \/ \E g \in Guest : ShutDown(g) \/ \E to \in Node : MoveAway(g, to)
  \/ \E error \in {"step", "other", "cancelled"} : EvacuationFails(error)
  \/ Validate \/ ValidateFails \/ NextGroup \/ Succeed
  \/ \E m \in moves : LeaveThere(m) \/ BringBack(m) \/ StartAgain(m)

\* The work on one node.
Work(n) ==
  \/ BeginUpgrade(n) \/ FinishUpgrade(n) \/ NoReboot(n) \/ LookAtQuorum(n)
  \/ OrderReboot(n) \/ SeenBack(n)
  \/ \E error \in {"step", "other", "cancelled"} : TaskFails(n, error)

Next ==
  \/ Playbook
  \/ Approve \/ Reject
  \/ \E error \in {"other", "cancelled"} : Interrupted(error)
  \/ \E n \in Node : Work(n) \/ GoDown(n) \/ ComeUp(n) \/ Outage(n)
  \/ \E g \in Guest : Land(g)

Spec == Init /\ [][Next]_vars

\* The process that runs the job goes on with it, and every wait ends: in an answer, or
\* in its own time limit.  Nodes need not come back, and nobody has to approve.
Fairness == WF_vars(Playbook) /\ \A n \in Node : WF_vars(Work(n))

FairSpec == Spec /\ Fairness
-----------------------------------------------------------------------------
(* Properties *)

Phases == {"preflight", "approve", "window", "evacuate", "moving", "update", "reboot",
           "validate", "return", "verify", "over"}

Tasks == {"idle", "lists", "apt", "installed", "reading", "looked", "polling", "done"}

Move == [guest : Guest, from : Node, to : Node \union {Nowhere}, group : Nat]

TypeOK ==
  /\ host \in [Node -> {"up", "ordered", "down"}]
  /\ updated \subseteq Node
  /\ place \in [Guest -> Node]
  /\ guest \in [Guest -> {"running", "shut", "dead"}]
  /\ drifting \in [Guest -> Node \union {Nowhere}]
  /\ plan \in Plan
  /\ phase \in Phases
  /\ at \in Nat \ {0}
  /\ task \in [Node -> Tasks]
  /\ todo \subseteq Guest
  /\ view \in [Guest -> Node \union {Nowhere}]
  /\ online \subseteq Node
  /\ moves \subseteq Move
  /\ returned \subseteq Nat \X Guest
  /\ outcome \in {"none", "SUCCEEDED", "PARTIALLY_SUCCEEDED", "FAILED", "CANCELLED"}
  /\ said \subseteq Guest
  /\ outages \in Nat
  /\ lost \in [Node -> SUBSET Node]

\* "At no point may the number of unavailable quorum-voting nodes exceed (n - 1) / 2": a
\* node that was told to reboot never takes the cluster past it, unless another node has
\* failed by itself since the quorum was looked at for this one and is still away.
RebootKeepsQuorum ==
  [][\A n \in Node :
       host[n] = "ordered" /\ host'[n] = "down" /\ outages' = outages =>
         \/ Voters <= 1
         \/ Cardinality(Down') <= MaxUnavailable
         \/ lost[n] \intersect Down' # {}]_vars

\* "Guests moved away first": a rolling update's reboot takes no running guest down.
RebootsEmpty ==
  [][\A n \in Node :
       Rolling /\ host[n] = "ordered" /\ host'[n] = "down" /\ outages' = outages =>
         RunningOn({n}) = {}]_vars

\* "The groups after it are not started": when a dist-upgrade starts on a node, its group's
\* turn has come: every node of the groups before has its updates, and nothing is still
\* being done to it, by this job or by what a failed one left going.
GroupsInOrder ==
  [][\A n \in Node :
       task[n] = "lists" /\ task'[n] = "apt" =>
         \E g \in 1 .. GroupCount(plan) :
           /\ n \in Group(plan, g)
           /\ \A m \in UNION {Group(plan, f) : f \in 1 .. g - 1} :
                m \in updated /\ task[m] = "idle" /\ host[m] # "ordered"]_vars

\* "The job says which guests were moved and not returned": a job that succeeds, or stops on
\* a failure of its own after the first group, names every guest that is not where it was,
\* or is still shut down.
Displaced(g) == place[g] # Home[g] \/ guest[g] = "shut"
AccountedFor ==
  outcome \in {"SUCCEEDED", "PARTIALLY_SUCCEEDED"} => \A g \in Guest : Displaced(g) => g \in said

\* "The rolling update keeps the rules": guests kept apart are never brought together.
ApartStaysApart ==
  \A r \in Rules : r.kind = "KEEP_APART" =>
    \A g, h \in r.guests :
      g # h /\ guest[g] = "running" /\ guest[h] = "running" => place[g] # place[h]

\* The job ends, or waits for an approval, whatever nodes and commands do.
RunEnds == phase \notin {"approve", "over"} ~> phase \in {"approve", "over"}
=============================================================================
