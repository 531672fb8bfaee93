---------------------------- MODULE RollingProofs ----------------------------
(***************************************************************************)
(* What an update job keeps to, for any number of nodes and guests, any    *)
(* plan and any failures of nodes and calls.                               *)
(***************************************************************************)
EXTENDS RollingUpdate, FiniteSetTheorems, TLAPS

-----------------------------------------------------------------------------
(* Types *)

\* A group is a set of nodes.
LEMMA GroupIsNodes ==
  ASSUME NEW p \in Plan, NEW g
  PROVE  Group(p, g) \subseteq Node
BY DEF Group, Slice, Plan

\* What an action leaves to Stop, and what Stop leaves.
LEMMA StopType ==
  ASSUME TypeOK, NEW error, Stop(error)
  PROVE  /\ phase' = "over" /\ phase' \in Phases
         /\ outcome' \in {"none", "SUCCEEDED", "PARTIALLY_SUCCEEDED", "FAILED", "CANCELLED"}
         /\ said' \subseteq Guest
         /\ UNCHANGED <<plan, at, todo, view, online, moves, returned>>
<1>1. outcome' = StoppedBy(error) /\ phase' = "over"
  BY DEF Stop
<1>2. StoppedBy(error) \in {"PARTIALLY_SUCCEEDED", "FAILED", "CANCELLED"}
  BY DEF StoppedBy
<1>3. said' \subseteq Guest
  BY DEF Stop, Unaccounted, TypeOK, Move
<1>4. UNCHANGED <<plan, at, todo, view, online, moves, returned>>
  BY DEF Stop, evac
<1> QED
  BY <1>1, <1>2, <1>3, <1>4 DEF Phases

LEMMA InitType == Init => TypeOK
<1> SUFFICES ASSUME Init PROVE TypeOK
  OBVIOUS
<1>1. plan \in Plan
  BY RollingAssumption DEF Init
<1>2. place \in [Guest -> Node]
  BY RollingAssumption DEF Init
<1> QED
  BY <1>1, <1>2 DEF Init, TypeOK, Phases, Tasks, Move

\* The steps that only move the playbook on, and the ends.
LEMMA BeginType ==
  ASSUME TypeOK, Begin
  PROVE  phase' \in Phases /\ task' \in [Node -> Tasks]
BY DEF Begin, StartUpdate, TypeOK, Phases, Tasks

LEMMA PlaybookMovesType ==
  ASSUME TypeOK,
         \/ Preflight \/ Approve \/ WindowOpen \/ Emptied \/ UpdateDone \/ RebootDone
         \/ NextGroup \/ Succeed
  PROVE  TypeOK'
<1> USE DEF cluster, evac, record, history
<1>1. CASE Preflight \/ Approve
  <2>1. phase' \in Phases /\ task' \in [Node -> Tasks]
    BY <1>1, BeginType DEF Preflight, Approve, TypeOK, Phases
  <2> QED
    BY <1>1, <2>1 DEF Preflight, Approve, TypeOK
<1>2. CASE WindowOpen \/ Emptied
  <2>1. phase' \in Phases /\ task' \in [Node -> Tasks]
    BY <1>2 DEF WindowOpen, Emptied, StartUpdate, Phases, Tasks
  <2> QED
    BY <1>2, <2>1 DEF WindowOpen, Emptied, TypeOK
<1>3. CASE UpdateDone \/ RebootDone
  <2>1. phase' \in Phases /\ task' \in [Node -> Tasks]
    BY <1>3 DEF UpdateDone, RebootDone, TypeOK, Phases, Tasks
  <2> QED
    BY <1>3, <2>1 DEF UpdateDone, RebootDone, TypeOK
<1>4. CASE NextGroup
  <2>1. phase' \in Phases /\ task' \in [Node -> Tasks] /\ at' \in Nat \ {0}
    BY <1>4 DEF NextGroup, TypeOK, Phases, Tasks
  <2> QED
    BY <1>4, <2>1 DEF NextGroup, TypeOK
<1>5. CASE Succeed
  <2>1. phase' \in Phases /\ task' \in [Node -> Tasks]
    BY <1>5 DEF Succeed, Phases, Tasks
  <2> QED
    BY <1>5, <2>1 DEF Succeed, TypeOK
<1> QED
  BY <1>1, <1>2, <1>3, <1>4, <1>5

LEMMA StopsType ==
  ASSUME TypeOK, NEW error,
         \/ PreflightFails \/ Reject \/ WindowClosed \/ ValidateFails
         \/ EvacuationFails(error) \/ Interrupted(error)
  PROVE  TypeOK'
<1> USE DEF cluster, history
<1>1. CASE PreflightFails \/ Reject \/ WindowClosed \/ ValidateFails \/ Interrupted(error)
  <2>1. /\ UNCHANGED <<cluster, task, history>>
        /\ \E e : Stop(e)
    BY <1>1 DEF PreflightFails, Reject, WindowClosed, ValidateFails, Interrupted
  <2> QED
    BY <2>1, StopType DEF TypeOK
<1>2. CASE EvacuationFails(error)
  <2>1. /\ UNCHANGED <<host, updated, place, guest, task, history>>
        /\ Stop(error)
    BY <1>2 DEF EvacuationFails
  <2>2. drifting' \in [Guest -> Node \union {Nowhere}]
    BY <1>2 DEF EvacuationFails, Targets, TypeOK
  <2> QED
    BY <2>1, <2>2, StopType DEF TypeOK
<1> QED
  BY <1>1, <1>2

LEMMA GuestsType ==
  ASSUME TypeOK,
         \/ Assess \/ Validate
         \/ \E g \in Guest : ShutDown(g) \/ Land(g) \/ \E to \in Node : MoveAway(g, to)
         \/ \E m \in moves : LeaveThere(m) \/ BringBack(m) \/ StartAgain(m)
  PROVE  TypeOK'
<1> USE DEF cluster, evac, record, history
<1>1. CASE Assess
  <2>1. /\ todo' \subseteq Guest /\ online' \subseteq Node
        /\ view' \in [Guest -> Node \union {Nowhere}]
    BY <1>1 DEF Assess, RunningOn, Without, Positions, Up, TypeOK
  <2> QED
    BY <1>1, <2>1 DEF Assess, TypeOK, Phases
<1>2. CASE Validate
  <2>1. todo' \subseteq Guest
    BY <1>2 DEF Validate, TypeOK, Move
  <2> QED
    BY <1>2, <2>1 DEF Validate, TypeOK, Phases
<1>3. ASSUME NEW g \in Guest, ShutDown(g) PROVE TypeOK'
  <2>1. Entry(g, Nowhere) \in Move
    BY DEF Entry, Move, TypeOK
  <2> QED
    BY <1>3, <2>1 DEF ShutDown, TypeOK
<1>4. ASSUME NEW g \in Guest, NEW to \in Node, MoveAway(g, to) PROVE TypeOK'
  <2>1. Entry(g, to) \in Move
    BY DEF Entry, Move, TypeOK
  <2> QED
    BY <1>4, <2>1 DEF MoveAway, TypeOK
<1>5. ASSUME NEW g \in Guest, Land(g) PROVE TypeOK'
  <2>1. drifting[g] \in Node
    BY <1>5 DEF Land, TypeOK
  <2> QED
    BY <1>5, <2>1 DEF Land, TypeOK
<1>6. ASSUME NEW m \in moves, LeaveThere(m) \/ BringBack(m) \/ StartAgain(m) PROVE TypeOK'
  <2>1. m.guest \in Guest /\ m.from \in Node /\ at \in Nat
    BY DEF TypeOK, Move
  <2>2. CASE LeaveThere(m)
    BY <2>1, <2>2 DEF LeaveThere, TypeOK
  <2>3. CASE BringBack(m)
    BY <2>1, <2>3 DEF BringBack, TypeOK
  <2>4. CASE StartAgain(m)
    BY <2>1, <2>4 DEF StartAgain, TypeOK
  <2> QED
    BY <1>6, <2>2, <2>3, <2>4
<1> QED
  BY <1>1, <1>2, <1>3, <1>4, <1>5, <1>6

LEMMA NodesType ==
  ASSUME TypeOK, NEW n \in Node, Work(n) \/ GoDown(n) \/ ComeUp(n) \/ Outage(n)
  PROVE  TypeOK'
<1> USE DEF cluster, evac, record, history
<1>1. CASE BeginUpgrade(n) \/ NoReboot(n) \/ SeenBack(n)
  BY <1>1 DEF BeginUpgrade, NoReboot, SeenBack, Goes, TypeOK, Tasks
<1>2. CASE FinishUpgrade(n)
  BY <1>2 DEF FinishUpgrade, Goes, TypeOK, Tasks
<1>3. CASE LookAtQuorum(n)
  BY <1>3 DEF LookAtQuorum, Goes, TypeOK, Tasks
<1>4. CASE OrderReboot(n)
  BY <1>4 DEF OrderReboot, Goes, TypeOK, Tasks
<1>5. ASSUME NEW error, TaskFails(n, error) PROVE TypeOK'
  <2>1. task' \in [Node -> Tasks] /\ UNCHANGED <<cluster, history>>
    BY <1>5 DEF TaskFails, Goes, TypeOK, Tasks
  <2>2. UNCHANGED <<plan, phase, at, evac, record>> \/ Stop(error)
    BY <1>5 DEF TaskFails
  <2> QED
    BY <2>1, <2>2, StopType DEF TypeOK
<1>6. CASE GoDown(n)
  <2>1. guest' \in [Guest -> {"running", "shut", "dead"}]
    BY <1>6 DEF GoDown, FailWith, TypeOK
  <2> QED
    BY <1>6, <2>1 DEF GoDown, TypeOK
<1>7. CASE ComeUp(n)
  BY <1>7 DEF ComeUp, TypeOK
<1>8. CASE Outage(n)
  <2>1. /\ guest' \in [Guest -> {"running", "shut", "dead"}]
        /\ lost' \in [Node -> SUBSET Node] /\ outages' \in Nat
    BY <1>8 DEF Outage, FailWith, TypeOK
  <2> QED
    BY <1>8, <2>1 DEF Outage, TypeOK
<1> QED
  BY <1>1, <1>2, <1>3, <1>4, <1>5, <1>6, <1>7, <1>8 DEF Work

LEMMA NextType == TypeOK /\ [Next]_vars => TypeOK'
<1> SUFFICES ASSUME TypeOK, [Next]_vars PROVE TypeOK'
  OBVIOUS
<1>1. CASE UNCHANGED vars
  BY <1>1 DEF vars, cluster, evac, record, history, TypeOK
<1>2. CASE Playbook
  BY <1>2, PlaybookMovesType, StopsType, GuestsType DEF Playbook
<1>3. CASE Approve \/ Reject \/ \E error \in {"other", "cancelled"} : Interrupted(error)
  BY <1>3, PlaybookMovesType, StopsType
<1>4. ASSUME NEW n \in Node, Work(n) \/ GoDown(n) \/ ComeUp(n) \/ Outage(n) PROVE TypeOK'
  BY <1>4, NodesType
<1>5. ASSUME NEW g \in Guest, Land(g) PROVE TypeOK'
  BY <1>5, GuestsType
<1> QED
  BY <1>1, <1>2, <1>3, <1>4, <1>5 DEF Next

\* Every variable of an update keeps its type, whatever nodes, calls and people do.
THEOREM TypeCorrect == Spec => []TypeOK
BY InitType, NextType, PTL DEF Spec

-----------------------------------------------------------------------------
(* Quorum *)

\* The phases in which nodes are worked on, or may still be, and those in which the
\* work on a group is over.
Working == {"update", "reboot", "validate", "return", "verify", "over"}
Settled == {"validate", "return", "verify"}

\* Only nodes of the group the job is at are worked on ...
WorkIsHere == \A n \in Node : task[n] # "idle" => n \in Here /\ phase \in Working

\* ... or about to go down; and while the job runs, it waits for those.
OrderedIsHere ==
  \A n \in Node : host[n] = "ordered" => n \in Here /\ (task[n] = "polling" \/ phase = "over")

GroupDone == phase \in Settled => \A n \in Here : task[n] = "done"

\* A node whose reboot was decided on: with the whole group down, and the nodes that were
\* down when the quorum was looked at for it, the cluster stays within its bound.
Committed(n) == task[n] = "looked" \/ host[n] = "ordered"
Counted(n) == (Down \ Here) \ lost[n]
Within(n) == Voters <= 1 \/ Cardinality(Counted(n)) + Cardinality(Here) <= MaxUnavailable
CommittedWithin == \A n \in Node : Committed(n) => Within(n)

QuorumInv == TypeOK /\ WorkIsHere /\ OrderedIsHere /\ GroupDone /\ CommittedWithin

\* Sets of nodes are finite, and a smaller one has no more of them.
LEMMA NodesCount ==
  ASSUME NEW S \in SUBSET Node
  PROVE  /\ IsFiniteSet(S) /\ Cardinality(S) \in Nat
         /\ \A T \in SUBSET S : IsFiniteSet(T) /\ Cardinality(T) \in Nat
                                /\ Cardinality(T) <= Cardinality(S)
<1>1. IsFiniteSet(S)
  BY RollingAssumption, FS_Subset
<1> QED
  BY <1>1, FS_Subset, FS_CardinalityType

LEMMA BoundType == MaxUnavailable \in Int /\ Voters \in Nat
<1>1. Voters \in Nat
  BY RollingAssumption, FS_CardinalityType DEF Voters
<1> QED
  BY <1>1 DEF MaxUnavailable

LEMMA HereIsNodes == TypeOK => Here \subseteq Node
BY GroupIsNodes DEF TypeOK, Here

\* Fewer nodes counted, and the bound still holds.
LEMMA FewerWithin ==
  ASSUME TypeOK, UNCHANGED <<plan, at>>, NEW n \in Node, Within(n),
         Counted(n)' \subseteq Counted(n)
  PROVE  Within(n)'
<1>1. Here' = Here
  BY DEF Here
<1>2. Counted(n) \in SUBSET Node /\ Here \in SUBSET Node
  BY HereIsNodes DEF Counted, Down
<1>3. /\ Cardinality(Counted(n)) \in Nat /\ Cardinality(Here) \in Nat
      /\ Cardinality(Counted(n)') \in Nat
      /\ Cardinality(Counted(n)') <= Cardinality(Counted(n))
  BY <1>2, NodesCount
<1>4. UNCHANGED <<Voters, MaxUnavailable>>
  BY DEF Voters, MaxUnavailable
<1> HIDE DEF Counted, Here
<1> QED
  BY <1>1, <1>3, <1>4, BoundType DEF Within

\* When nothing changes for the nodes, only who is committed matters.
LEMMA SameNodes ==
  ASSUME QuorumInv, UNCHANGED <<host, plan, at, lost>>,
         \A n \in Node : Committed(n)' => Committed(n)
  PROVE  CommittedWithin'
<1> SUFFICES ASSUME NEW n \in Node, Committed(n)' PROVE Within(n)'
  BY DEF CommittedWithin
<1>1. Within(n)
  BY DEF QuorumInv, CommittedWithin
<1>2. Counted(n)' = Counted(n)
  BY DEF Counted, Down, Here
<1> QED
  BY <1>1, <1>2, FewerWithin DEF QuorumInv

LEMMA InitQuorum == Init => QuorumInv
<1> SUFFICES ASSUME Init PROVE QuorumInv
  OBVIOUS
<1>1. \A n \in Node : task[n] = "idle" /\ host[n] = "up"
  BY DEF Init
<1>2. phase = "preflight"
  BY DEF Init
<1> QED
  BY <1>1, <1>2, InitType
  DEF QuorumInv, WorkIsHere, OrderedIsHere, GroupDone, CommittedWithin, Committed, Settled

\* Before a group's nodes are worked on, none is, and none is about to go down.
LEMMA Untouched ==
  ASSUME QuorumInv, phase \notin Working
  PROVE  \A n \in Node : task[n] = "idle" /\ host[n] # "ordered" /\ ~ Committed(n)
<1>1. \A n \in Node : task[n] = "idle"
  BY DEF QuorumInv, WorkIsHere
<1>2. \A n \in Node : host[n] # "ordered"
  BY <1>1 DEF QuorumInv, OrderedIsHere, Working
<1> QED
  BY <1>1, <1>2 DEF Committed

\* After it, none is either.
LEMMA SettledNodes ==
  ASSUME QuorumInv, phase \in Settled
  PROVE  \A n \in Node : task[n] \in {"idle", "done"} /\ host[n] # "ordered" /\ ~ Committed(n)
<1>1. \A n \in Node : task[n] \in {"idle", "done"}
  BY DEF QuorumInv, WorkIsHere, GroupDone
<1>2. \A n \in Node : host[n] # "ordered"
  BY <1>1 DEF QuorumInv, OrderedIsHere, Settled
<1> QED
  BY <1>1, <1>2 DEF Committed

\* The playbook moves on, and no task does.
LEMMA PhaseMoves ==
  ASSUME QuorumInv, TypeOK', UNCHANGED <<host, plan, at, task, lost>>,
         \/ phase' \in {phase, "over"}
         \/ phase \notin Working /\ phase' \notin Settled
         \/ phase \in Working \ {"over"} /\ phase' \in Settled /\ \A n \in Here : task[n] = "done"
  PROVE  QuorumInv'
<1>1. Here' = Here
  BY DEF Here
<1>2. CommittedWithin'
  BY SameNodes DEF Committed
<1>3. CASE phase' \in {phase, "over"}
  <2>1. WorkIsHere' /\ OrderedIsHere' /\ GroupDone'
    BY <1>1, <1>3 DEF QuorumInv, WorkIsHere, OrderedIsHere, GroupDone, Working, Settled
  <2> QED
    BY <2>1, <1>2 DEF QuorumInv
<1>4. CASE phase \notin Working /\ phase' \notin Settled
  <2>1. WorkIsHere' /\ OrderedIsHere' /\ GroupDone'
    BY <1>4, Untouched DEF WorkIsHere, OrderedIsHere, GroupDone
  <2> QED
    BY <2>1, <1>2 DEF QuorumInv
<1>5. CASE phase \in Working \ {"over"} /\ phase' \in Settled /\ \A n \in Here : task[n] = "done"
  <2>1. WorkIsHere' /\ OrderedIsHere' /\ GroupDone'
    BY <1>1, <1>5 DEF QuorumInv, WorkIsHere, OrderedIsHere, GroupDone, Working, Settled
  <2> QED
    BY <2>1, <1>2 DEF QuorumInv
<1> QED
  BY <1>3, <1>4, <1>5

\* The work on a group starts, or is over, and all tasks are written at once.
LEMMA TasksWritten ==
  ASSUME QuorumInv, TypeOK', UNCHANGED <<host, plan, lost>>,
         \A n \in Node : ~ Committed(n),
         \A n \in Node : task'[n] # "looked",
         \A n \in Node : task'[n] # "idle" => n \in Here' /\ phase' \in Working,
         phase' \notin Settled
  PROVE  QuorumInv'
<1>1. \A n \in Node : host'[n] # "ordered" /\ ~ Committed(n)'
  BY DEF Committed
<1>2. CommittedWithin' /\ OrderedIsHere'
  BY <1>1 DEF CommittedWithin, OrderedIsHere
<1>3. WorkIsHere' /\ GroupDone'
  BY DEF WorkIsHere, GroupDone
<1> QED
  BY <1>2, <1>3 DEF QuorumInv

LEMMA StartsQuorum ==
  ASSUME QuorumInv, TypeOK', UNCHANGED <<host, plan, at, lost>>, phase \notin Working,
         StartUpdate
  PROVE  QuorumInv'
<1>1. \A n \in Node : ~ Committed(n)
  BY Untouched
<1>2. /\ \A n \in Node : task'[n] # "looked"
      /\ \A n \in Node : task'[n] # "idle" => n \in Here'
      /\ phase' = "update"
  BY DEF StartUpdate, Here
<1> QED
  BY <1>1, <1>2, TasksWritten DEF Working, Settled

LEMMA PlaybookQuorum == QuorumInv /\ TypeOK' /\ Playbook => QuorumInv'
<1> SUFFICES ASSUME QuorumInv, TypeOK', Playbook PROVE QuorumInv'
  OBVIOUS
<1> USE DEF cluster, evac, record, history
<1>1. CASE Preflight
  <2>1. UNCHANGED <<host, plan, at, lost>> /\ phase \notin Working
    BY <1>1 DEF Preflight, Working
  <2>2. \/ StartUpdate
        \/ UNCHANGED task /\ phase' \in {"approve", "evacuate", "window"}
    BY <1>1 DEF Preflight, Begin
  <2> QED
    BY <2>1, <2>2, StartsQuorum, PhaseMoves DEF Settled
<1>2. CASE WindowOpen \/ Emptied
  BY <1>2, StartsQuorum DEF WindowOpen, Emptied, Working
<1>3. CASE PreflightFails \/ WindowClosed \/ ValidateFails
           \/ \E error \in {"step", "other", "cancelled"} : EvacuationFails(error)
  <2>1. UNCHANGED <<host, plan, at, task, lost>> /\ phase' = "over"
    BY <1>3 DEF PreflightFails, WindowClosed, ValidateFails, EvacuationFails, Stop
  <2> QED
    BY <2>1, PhaseMoves
<1>4. CASE Assess
  BY <1>4, PhaseMoves DEF Assess, Working, Settled
<1>5. CASE UpdateDone
  <2>1. \A n \in Node : task[n] \in {"idle", "installed"}
    BY <1>5 DEF UpdateDone, AllInstalled, QuorumInv, WorkIsHere
  <2>2. \A n \in Node : ~ Committed(n)
    BY <1>5, <2>1 DEF UpdateDone, QuorumInv, OrderedIsHere, Committed
  <2>3. /\ \A n \in Node : task'[n] # "looked"
        /\ \A n \in Node : task'[n] # "idle" => n \in Here'
        /\ phase' = "reboot"
    BY <1>5, <2>1 DEF UpdateDone, Here, QuorumInv, WorkIsHere
  <2> QED
    BY <1>5, <2>2, <2>3, TasksWritten DEF UpdateDone, Working, Settled
<1>6. CASE RebootDone
  <2>1. phase \in Working \ {"over"} /\ phase' \in Settled /\ \A n \in Here : task[n] = "done"
    BY <1>6 DEF RebootDone, Working, Settled
  <2> QED
    BY <1>6, <2>1, PhaseMoves DEF RebootDone
<1>7. CASE \E g \in Guest : ShutDown(g) \/ \E to \in Node : MoveAway(g, to)
  <2>1. UNCHANGED <<host, plan, at, task, lost, phase>>
    BY <1>7 DEF ShutDown, MoveAway
  <2> QED
    BY <2>1, PhaseMoves
<1>8. CASE Validate
  <2>1. phase \in Working \ {"over"} /\ phase' \in Settled /\ \A n \in Here : task[n] = "done"
    BY <1>8 DEF Validate, Working, Settled, QuorumInv, GroupDone
  <2> QED
    BY <1>8, <2>1, PhaseMoves DEF Validate
<1>9. CASE NextGroup \/ Succeed
  <2>1. phase \in Settled /\ UNCHANGED <<host, plan, lost>>
    BY <1>9 DEF NextGroup, Succeed, Settled
  <2>2. \A n \in Node : ~ Committed(n)
    BY <2>1, SettledNodes
  <2>3. /\ \A n \in Node : task'[n] = "idle"
        /\ phase' \notin Settled
    BY <1>9 DEF NextGroup, Succeed, Settled
  <2> QED
    BY <2>1, <2>2, <2>3, TasksWritten
<1>10. CASE \E m \in moves : LeaveThere(m) \/ BringBack(m) \/ StartAgain(m)
  <2>1. UNCHANGED <<host, plan, at, task, lost, phase>>
    BY <1>10 DEF LeaveThere, BringBack, StartAgain
  <2> QED
    BY <2>1, PhaseMoves
<1> QED
  BY <1>1, <1>2, <1>3, <1>4, <1>5, <1>6, <1>7, <1>8, <1>9, <1>10 DEF Playbook

\* A task goes on: it was under way, so its node is of this group.
LEMMA TaskMoves ==
  ASSUME QuorumInv, TypeOK', UNCHANGED <<plan, at>>,
         NEW n \in Node, task[n] \notin {"idle", "done"}, NEW t, Goes(n, t),
         phase' \in {phase, "over"}, task[n] = "polling" => host[n] # "ordered" \/ phase' = "over",
         \A m \in Node : host'[m] = "ordered" => host[m] = "ordered" \/ (m = n /\ t = "polling")
  PROVE  WorkIsHere' /\ OrderedIsHere' /\ GroupDone'
<1>1. Here' = Here
  BY DEF Here
<1>2. n \in Here /\ phase \in Working \ Settled
  BY DEF QuorumInv, WorkIsHere, GroupDone
<1>3. \A m \in Node : task'[m] = (IF m = n THEN t ELSE task[m])
  BY DEF Goes, QuorumInv, TypeOK
<1>4. WorkIsHere'
  BY <1>1, <1>2, <1>3 DEF QuorumInv, WorkIsHere, Working
<1>5. GroupDone'
  BY <1>2 DEF GroupDone, Settled
<1>6. OrderedIsHere'
  BY <1>1, <1>2, <1>3 DEF QuorumInv, OrderedIsHere
<1> QED
  BY <1>4, <1>5, <1>6

LEMMA WorkQuorum ==
  ASSUME QuorumInv, TypeOK', NEW n \in Node, Work(n)
  PROVE  QuorumInv'
<1> USE DEF cluster, evac, record, history
<1>1. CASE BeginUpgrade(n) \/ FinishUpgrade(n) \/ NoReboot(n) \/ SeenBack(n)
  <2>1. PICK t \in {"apt", "installed", "done"} : Goes(n, t)
    BY <1>1 DEF BeginUpgrade, FinishUpgrade, NoReboot, SeenBack
  <2>2. /\ UNCHANGED <<host, plan, at, lost, phase>> /\ task[n] \notin {"idle", "done"}
        /\ task[n] = "polling" => host[n] # "ordered"
    BY <1>1 DEF BeginUpgrade, FinishUpgrade, NoReboot, SeenBack
  <2>3. WorkIsHere' /\ OrderedIsHere' /\ GroupDone'
    BY <2>1, <2>2, TaskMoves
  <2>4. \A m \in Node : Committed(m)' => Committed(m)
    BY <2>1, <2>2 DEF Committed, Goes, QuorumInv, TypeOK
  <2> QED
    BY <2>2, <2>3, <2>4, SameNodes DEF QuorumInv
<1>2. CASE LookAtQuorum(n)
  <2>1. /\ Goes(n, "looked") /\ UNCHANGED <<host, plan, at, phase>> /\ task[n] = "reading"
        /\ lost' = [lost EXCEPT ![n] = {}]
        /\ QuorumAllows(Cardinality(Here))
    BY <1>2 DEF LookAtQuorum
  <2>2. WorkIsHere' /\ OrderedIsHere' /\ GroupDone'
    BY <2>1, TaskMoves
  <2>3. Here' = Here /\ Down' = Down
    BY <2>1 DEF Here, Down
  <2>4. ASSUME NEW m \in Node, Committed(m)' PROVE Within(m)'
    <3>1. CASE m = n
      <4>1. Counted(m)' \in SUBSET Down /\ Down \in SUBSET Node
        BY <2>3 DEF Counted, Down
      <4>2. /\ Cardinality(Counted(m)') \in Nat /\ Cardinality(Down) \in Nat
            /\ Cardinality(Counted(m)') <= Cardinality(Down)
        BY <4>1, NodesCount
      <4>3. Here \in SUBSET Node
        BY HereIsNodes DEF QuorumInv
      <4>4. Cardinality(Here) \in Nat
        BY <4>3, NodesCount
      <4>5. Voters <= 1 \/ Cardinality(Down) + Cardinality(Here) <= MaxUnavailable
        BY <2>1 DEF QuorumAllows
      <4>6. Voters <= 1 \/ Cardinality(Counted(m)') + Cardinality(Here) <= MaxUnavailable
        BY <4>2, <4>4, <4>5, BoundType
      <4>7. UNCHANGED <<Voters, MaxUnavailable>>
        BY DEF Voters, MaxUnavailable
      <4> QED
        BY <4>6, <4>7, <2>3 DEF Within
    <3>2. CASE m # n
      <4>1. Committed(m)
        BY <2>1, <2>4, <3>2 DEF Committed, Goes, QuorumInv, TypeOK
      <4>2. lost'[m] = lost[m]
        BY <2>1, <3>2 DEF QuorumInv, TypeOK
      <4>3. Counted(m)' = Counted(m)
        BY <4>2, <2>3 DEF Counted
      <4> QED
        BY <4>1, <4>3, <2>1, FewerWithin DEF QuorumInv, CommittedWithin
    <3> QED
      BY <3>1, <3>2
  <2> QED
    BY <2>2, <2>4 DEF QuorumInv, CommittedWithin
<1>3. CASE OrderReboot(n)
  <2>1. /\ Goes(n, "polling") /\ UNCHANGED <<plan, at, phase, lost>> /\ task[n] = "looked"
        /\ host' = [host EXCEPT ![n] = "ordered"] /\ host[n] # "down"
    BY <1>3 DEF OrderReboot
  <2>2. \A m \in Node : host'[m] = (IF m = n THEN "ordered" ELSE host[m])
    BY <2>1 DEF QuorumInv, TypeOK
  <2>3. WorkIsHere' /\ OrderedIsHere' /\ GroupDone'
    BY <2>1, <2>2, TaskMoves
  <2>4. Down' = Down /\ Here' = Here
    BY <2>1, <2>2 DEF Down, Here
  <2>5. ASSUME NEW m \in Node, Committed(m)' PROVE Within(m)'
    <3>1. Committed(m)
      BY <2>1, <2>2, <2>5 DEF Committed, Goes, QuorumInv, TypeOK
    <3>2. Counted(m)' = Counted(m)
      BY <2>1, <2>4 DEF Counted
    <3> QED
      BY <3>1, <3>2, <2>1, FewerWithin DEF QuorumInv, CommittedWithin
  <2> QED
    BY <2>3, <2>5 DEF QuorumInv, CommittedWithin
<1>4. ASSUME NEW error, TaskFails(n, error) PROVE QuorumInv'
  <2>1. Goes(n, "idle") /\ UNCHANGED <<host, plan, at, lost>> /\ phase' = "over"
    BY <1>4 DEF TaskFails, Stop
  <2>2. task[n] \notin {"idle", "done"}
    BY <1>4 DEF TaskFails, TaskErrors
  <2>3. WorkIsHere' /\ OrderedIsHere' /\ GroupDone'
    BY <2>1, <2>2, TaskMoves
  <2>4. \A m \in Node : Committed(m)' => Committed(m)
    BY <2>1 DEF Committed, Goes, QuorumInv, TypeOK
  <2> QED
    BY <2>1, <2>3, <2>4, SameNodes DEF QuorumInv
<1> QED
  BY <1>1, <1>2, <1>3, <1>4 DEF Work

\* Nodes go down and come back: as ordered, or by themselves.
LEMMA NodesQuorum ==
  ASSUME QuorumInv, TypeOK', NEW n \in Node, GoDown(n) \/ ComeUp(n) \/ Outage(n)
  PROVE  QuorumInv'
<1> USE DEF evac, record
<1>1. UNCHANGED <<plan, phase, at, task>>
  BY DEF GoDown, ComeUp, Outage
<1>2. Here' = Here
  BY <1>1 DEF Here
<1>3. PICK h \in {"up", "down"} : host' = [host EXCEPT ![n] = h]
  BY DEF GoDown, ComeUp, Outage
<1>4. \A m \in Node : host'[m] = (IF m = n THEN h ELSE host[m])
  BY <1>3 DEF QuorumInv, TypeOK
<1>5. WorkIsHere' /\ OrderedIsHere' /\ GroupDone'
  BY <1>1, <1>2, <1>4 DEF QuorumInv, WorkIsHere, OrderedIsHere, GroupDone
<1>6. ASSUME NEW m \in Node, Committed(m)' PROVE Within(m)'
  <2>1. Committed(m)
    BY <1>1, <1>4, <1>6 DEF Committed
  <2>2. Counted(m)' \subseteq Counted(m)
    <3>1. CASE GoDown(n)
      <4>1. n \in Here /\ lost' = lost
        BY <3>1 DEF GoDown, QuorumInv, OrderedIsHere, history
      <4> QED
        BY <4>1, <1>2, <1>4 DEF Counted, Down
    <3>2. CASE ComeUp(n)
      <4>1. lost' = lost /\ h = "up"
        BY <3>2, <1>3 DEF ComeUp, history, QuorumInv, TypeOK
      <4> QED
        BY <4>1, <1>2, <1>4 DEF Counted, Down
    <3>3. CASE Outage(n)
      <4>1. lost'[m] = lost[m] \union {n}
        BY <3>3, <2>1 DEF Outage, Committed
      <4> QED
        BY <4>1, <1>2, <1>4 DEF Counted, Down
    <3> QED
      BY <3>1, <3>2, <3>3
  <2> QED
    BY <2>1, <2>2, <1>1, FewerWithin DEF QuorumInv, CommittedWithin
<1> QED
  BY <1>5, <1>6 DEF QuorumInv, CommittedWithin

LEMMA NextQuorum == QuorumInv /\ [Next]_vars => QuorumInv'
<1> SUFFICES ASSUME QuorumInv, [Next]_vars PROVE QuorumInv'
  OBVIOUS
<1> USE DEF cluster, evac, record, history
<1>1. TypeOK'
  BY NextType DEF QuorumInv
<1>2. CASE UNCHANGED vars
  BY <1>1, <1>2, PhaseMoves DEF vars
<1>3. CASE Playbook
  BY <1>1, <1>3, PlaybookQuorum
<1>4. CASE Approve
  <2>1. UNCHANGED <<host, plan, at, lost>> /\ phase \notin Working
    BY <1>4 DEF Approve, Working
  <2>2. StartUpdate \/ (UNCHANGED task /\ phase' \in {"evacuate", "window"})
    BY <1>4 DEF Approve, Begin
  <2> QED
    BY <1>1, <2>1, <2>2, StartsQuorum, PhaseMoves DEF Settled
<1>5. CASE Reject \/ \E error \in {"other", "cancelled"} : Interrupted(error)
  <2>1. UNCHANGED <<host, plan, at, task, lost>> /\ phase' = "over"
    BY <1>5 DEF Reject, Interrupted, Stop
  <2> QED
    BY <1>1, <2>1, PhaseMoves
<1>6. ASSUME NEW n \in Node, Work(n) \/ GoDown(n) \/ ComeUp(n) \/ Outage(n) PROVE QuorumInv'
  BY <1>1, <1>6, WorkQuorum, NodesQuorum
<1>7. ASSUME NEW g \in Guest, Land(g) PROVE QuorumInv'
  <2>1. UNCHANGED <<host, plan, at, task, lost, phase>>
    BY <1>7 DEF Land
  <2> QED
    BY <1>1, <2>1, PhaseMoves
<1> QED
  BY <1>2, <1>3, <1>4, <1>5, <1>6, <1>7 DEF Next

\* The step at which a node obeys: what is down then was counted, or is of the group.
LEMMA DownWithin ==
  ASSUME QuorumInv, NEW n \in Node, host[n] = "ordered", lost[n] \intersect Down' = {},
         Voters > 1, GoDown(n)
  PROVE  Cardinality(Down') <= MaxUnavailable
<1>1. n \in Here /\ Within(n) /\ Here \in SUBSET Node
  BY HereIsNodes DEF QuorumInv, OrderedIsHere, CommittedWithin, Committed
<1>2. \A m \in Node : host'[m] = (IF m = n THEN "down" ELSE host[m])
  BY DEF GoDown, QuorumInv, TypeOK
<1>3. Down' \subseteq Counted(n) \union Here
  BY <1>1, <1>2 DEF Down, Counted
<1>4. Counted(n) \in SUBSET Node
  BY DEF Counted, Down
<1>5. /\ IsFiniteSet(Counted(n)) /\ Cardinality(Counted(n)) \in Nat
      /\ IsFiniteSet(Here) /\ Cardinality(Here) \in Nat
  BY <1>1, <1>4, NodesCount
<1>6. /\ Cardinality(Counted(n) \union Here)
           = Cardinality(Counted(n)) + Cardinality(Here)
             - Cardinality(Counted(n) \intersect Here)
      /\ Cardinality(Counted(n) \intersect Here) \in Nat
  BY <1>5, FS_Union, FS_Intersection, FS_CardinalityType
<1>7. Counted(n) \union Here \in SUBSET Node
  BY <1>1, <1>4
<1>8. /\ Cardinality(Down') \in Nat /\ Cardinality(Counted(n) \union Here) \in Nat
      /\ Cardinality(Down') <= Cardinality(Counted(n) \union Here)
  BY <1>3, <1>7, NodesCount
<1> HIDE DEF Counted, Here
<1>9. Cardinality(Counted(n)) + Cardinality(Here) <= MaxUnavailable
  BY <1>1, BoundType DEF Within
<1> QED
  BY <1>5, <1>6, <1>8, <1>9, BoundType

\* A node that was told to reboot takes the cluster past its bound only after another has
\* failed by itself: for every number of nodes, groups and failures.
THEOREM RebootsKeepQuorum == Spec => RebootKeepsQuorum
<1> DEFINE Kept == \A n \in Node :
             host[n] = "ordered" /\ host'[n] = "down" /\ outages' = outages =>
               \/ Voters <= 1
               \/ Cardinality(Down') <= MaxUnavailable
               \/ lost[n] \intersect Down' # {}
<1>1. Spec => []QuorumInv
  BY InitQuorum, NextQuorum, PTL DEF Spec
<1>2. ASSUME QuorumInv, [Next]_vars, NEW n \in Node,
             host[n] = "ordered", host'[n] = "down", outages' = outages
      PROVE  GoDown(n)
  <2> USE <1>2 DEF cluster, evac, record, history
  <2>1. CASE UNCHANGED vars
    BY <2>1 DEF vars
  <2>2. ASSUME NEW m \in Node, Work(m) PROVE FALSE
    <3>1. UNCHANGED host \/ host' = [host EXCEPT ![m] = "ordered"]
      BY <2>2 DEF Work, BeginUpgrade, FinishUpgrade, NoReboot, LookAtQuorum, OrderReboot,
                  SeenBack, TaskFails
    <3> QED
      BY <3>1 DEF QuorumInv, TypeOK
  <2>3. ASSUME NEW m \in Node, GoDown(m) PROVE m = n
    BY <2>3 DEF GoDown, QuorumInv, TypeOK
  <2>4. ASSUME NEW m \in Node, ComeUp(m) PROVE FALSE
    BY <2>4 DEF ComeUp, QuorumInv, TypeOK
  <2>5. ASSUME NEW m \in Node, Outage(m) PROVE FALSE
    BY <2>5 DEF Outage, QuorumInv, TypeOK
  <2>6. CASE \/ Approve \/ Reject \/ \E error \in {"other", "cancelled"} : Interrupted(error)
             \/ \E g \in Guest : Land(g)
    <3>1. UNCHANGED host
      BY <2>6 DEF Approve, Reject, Interrupted, Land
    <3> QED
      BY <3>1
  <2>7. CASE Playbook
    <3>1. UNCHANGED host
      BY <2>7 DEF Playbook, Preflight, PreflightFails, WindowOpen, WindowClosed, Assess,
                  Emptied, UpdateDone, RebootDone, ShutDown, MoveAway, EvacuationFails,
                  Validate, ValidateFails, NextGroup, Succeed, LeaveThere, BringBack,
                  StartAgain
    <3> QED
      BY <3>1
  <2> QED
    BY <2>1, <2>2, <2>3, <2>4, <2>5, <2>6, <2>7 DEF Next
<1>3. QuorumInv /\ [Next]_vars => [Kept]_vars
  <2> SUFFICES ASSUME QuorumInv, [Next]_vars PROVE Kept
    OBVIOUS
  <2> SUFFICES ASSUME NEW n \in Node, host[n] = "ordered", host'[n] = "down",
                      outages' = outages, ~ (Voters <= 1), lost[n] \intersect Down' = {}
               PROVE  Cardinality(Down') <= MaxUnavailable
    OBVIOUS
  <2>1. GoDown(n)
    BY <1>2
  <2>2. Voters > 1
    BY BoundType
  <2> QED
    BY <2>1, <2>2, DownWithin
<1> QED
  BY <1>1, <1>3, PTL DEF Spec, RebootKeepsQuorum

-----------------------------------------------------------------------------
(* One group after the other *)

\* The tasks that come after the dist-upgrade, and the nodes of the groups that had their turn.
AfterUpgrade == {"installed", "reading", "looked", "polling", "done"}
UpgradedFirst == \A n \in Node : task[n] \in AfterUpgrade => n \in updated
EarlierUpdated == \A f \in 1 .. at - 1 : Group(plan, f) \subseteq updated
InPlan == Planned(plan) /\ at \in 1 .. GroupCount(plan)

OrderInv == QuorumInv /\ InPlan /\ UpgradedFirst /\ EarlierUpdated

LEMMA GroupSizeType ==
  ASSUME NEW p \in Plan, Planned(p)
  PROVE  GroupSize(p) \in Nat \ {0} /\ GroupCount(p) \in Nat \ {0}
<1>1. Len(p.nodes) \in Nat \ {0} /\ p.concurrency \in Nat \ {0}
  BY DEF Plan, Planned
<1>2. GroupSize(p) \in Nat \ {0}
  BY <1>1, BoundType DEF GroupSize, Smaller, Planned
<1>3. ASSUME NEW l \in Nat \ {0}, NEW s \in Nat \ {0} PROVE (l + s - 1) \div s \in Nat \ {0}
  OBVIOUS
<1> QED
  BY <1>1, <1>2, <1>3 DEF GroupCount

\* No node is in two groups.
LEMMA GroupsApart ==
  ASSUME NEW p \in Plan, Planned(p), NEW f \in Nat \ {0}, NEW g \in Nat \ {0}, f < g
  PROVE  Group(p, f) \intersect Group(p, g) = {}
<1>1. GroupSize(p) \in Nat \ {0}
  BY GroupSizeType
<1>2. ASSUME NEW s \in Nat PROVE f * s <= (g - 1) * s
  OBVIOUS
<1>3. Slice(p, f) \intersect Slice(p, g) = {}
  <2> SUFFICES ASSUME NEW i \in Slice(p, f), i \in Slice(p, g) PROVE FALSE
    OBVIOUS
  <2>1. i \in 1 .. Len(p.nodes) /\ Len(p.nodes) \in Nat
    BY DEF Slice, Plan
  <2>2. i <= f * GroupSize(p) /\ (g - 1) * GroupSize(p) < i
    BY DEF Slice
  <2>3. f * GroupSize(p) \in Int /\ (g - 1) * GroupSize(p) \in Int
    BY <1>1
  <2> QED
    BY <1>1, <1>2, <2>1, <2>2, <2>3
<1> SUFFICES ASSUME NEW i \in Slice(p, f), NEW j \in Slice(p, g), p.nodes[i] = p.nodes[j]
             PROVE  FALSE
  BY DEF Group
<1>4. i \in 1 .. Len(p.nodes) /\ j \in 1 .. Len(p.nodes)
  BY DEF Slice
<1>5. i = j
  BY <1>4 DEF Planned
<1> QED
  BY <1>3, <1>5

LEMMA InitOrder == Init => OrderInv
<1> SUFFICES ASSUME Init PROVE OrderInv
  OBVIOUS
<1>1. plan \in Plan /\ Planned(plan) /\ at = 1 /\ \A n \in Node : task[n] = "idle"
  BY RollingAssumption DEF Init
<1>2. InPlan
  BY <1>1, GroupSizeType DEF InPlan
<1> QED
  BY <1>1, <1>2, InitQuorum DEF OrderInv, UpgradedFirst, EarlierUpdated, AfterUpgrade

\* Within a group it is enough that a node is upgraded before it is worked on further.
LEMMA SameGroup ==
  ASSUME OrderInv, QuorumInv', UNCHANGED <<plan, at>>, updated \subseteq updated',
         \A n \in Node : task'[n] \in AfterUpgrade => task[n] \in AfterUpgrade \/ n \in updated'
  PROVE  OrderInv'
<1>1. InPlan' /\ UpgradedFirst'
  BY DEF OrderInv, InPlan, UpgradedFirst, Planned, GroupCount, GroupSize
<1>2. EarlierUpdated'
  BY DEF OrderInv, EarlierUpdated
<1> QED
  BY <1>1, <1>2 DEF OrderInv

LEMMA PlaybookOrder == OrderInv /\ QuorumInv' /\ Playbook => OrderInv'
<1> SUFFICES ASSUME OrderInv, QuorumInv', Playbook PROVE OrderInv'
  OBVIOUS
<1> USE DEF cluster, evac, record, history
<1>1. CASE NextGroup
  <2>1. /\ phase \in Settled /\ at < GroupCount(plan) /\ at' = at + 1
        /\ UNCHANGED <<plan, updated>>
        /\ \A n \in Node : task'[n] = "idle"
    BY <1>1 DEF NextGroup, Settled
  <2>2. plan \in Plan /\ Planned(plan) /\ at \in Nat \ {0} /\ GroupCount(plan) \in Nat
    BY GroupSizeType DEF OrderInv, InPlan, QuorumInv, TypeOK
  <2>3. InPlan'
    BY <2>1, <2>2 DEF InPlan, Planned, GroupCount, GroupSize
  <2>4. Group(plan, at) \subseteq updated
    <3>1. \A n \in Here : n \in Node /\ task[n] = "done"
      BY <2>1, HereIsNodes DEF OrderInv, QuorumInv, GroupDone
    <3> QED
      BY <3>1 DEF OrderInv, UpgradedFirst, AfterUpgrade, Here
  <2>5. EarlierUpdated'
    <3> SUFFICES ASSUME NEW f \in 1 .. at PROVE Group(plan, f) \subseteq updated
      BY <2>1, <2>2 DEF EarlierUpdated
    <3>1. f = at \/ f \in 1 .. at - 1
      BY <2>2
    <3> QED
      BY <2>4, <3>1 DEF OrderInv, EarlierUpdated
  <2>6. UpgradedFirst'
    BY <2>1 DEF UpgradedFirst, AfterUpgrade
  <2> QED
    BY <2>3, <2>5, <2>6 DEF OrderInv
<1>2. CASE UpdateDone
  <2>1. UNCHANGED <<plan, at, updated>>
    BY <1>2 DEF UpdateDone
  <2>2. \A n \in Node : task'[n] \in AfterUpgrade => task[n] \in AfterUpgrade
    BY <1>2 DEF UpdateDone, AllInstalled, AfterUpgrade
  <2> QED
    BY <2>1, <2>2, SameGroup
<1>3. CASE \/ Preflight \/ PreflightFails \/ WindowOpen \/ WindowClosed
           \/ Assess \/ Emptied \/ RebootDone
           \/ \E g \in Guest : ShutDown(g) \/ \E to \in Node : MoveAway(g, to)
           \/ \E error \in {"step", "other", "cancelled"} : EvacuationFails(error)
           \/ Validate \/ ValidateFails \/ Succeed
           \/ \E m \in moves : LeaveThere(m) \/ BringBack(m) \/ StartAgain(m)
  <2>1. UNCHANGED <<plan, at, updated>>
    BY <1>3 DEF Preflight, PreflightFails, WindowOpen, WindowClosed, Assess, Emptied,
                RebootDone, ShutDown, MoveAway, EvacuationFails, Validate, ValidateFails,
                Succeed, LeaveThere, BringBack, StartAgain, Stop
  <2>2. \A n \in Node : task'[n] \in {task[n], "idle", "lists"}
    BY <1>3 DEF Preflight, PreflightFails, WindowOpen, WindowClosed, Assess, Emptied,
                RebootDone, ShutDown, MoveAway, EvacuationFails, Validate, ValidateFails,
                Succeed, LeaveThere, BringBack, StartAgain, Begin, StartUpdate
  <2> QED
    BY <2>1, <2>2, SameGroup DEF AfterUpgrade
<1> QED
  BY <1>1, <1>2, <1>3 DEF Playbook

LEMMA NextOrder == OrderInv /\ [Next]_vars => OrderInv'
<1> SUFFICES ASSUME OrderInv, [Next]_vars PROVE OrderInv'
  OBVIOUS
<1> USE DEF cluster, evac, record, history
<1>1. QuorumInv /\ QuorumInv' /\ task \in [Node -> Tasks]
  BY NextQuorum DEF OrderInv, QuorumInv, TypeOK
<1>2. CASE Playbook
  BY <1>1, <1>2, PlaybookOrder
<1>3. CASE Approve
  <2>1. UNCHANGED <<plan, at, updated>> /\ \A n \in Node : task'[n] \in {task[n], "idle", "lists"}
    BY <1>3 DEF Approve, Begin, StartUpdate
  <2> QED
    BY <1>1, <2>1, SameGroup DEF AfterUpgrade
<1>4. CASE \/ UNCHANGED vars \/ Reject
           \/ \E error \in {"other", "cancelled"} : Interrupted(error)
           \/ \E n \in Node : GoDown(n) \/ ComeUp(n) \/ Outage(n)
           \/ \E g \in Guest : Land(g)
  <2>1. UNCHANGED <<plan, at, updated, task>>
    BY <1>4 DEF vars, Reject, Interrupted, GoDown, ComeUp, Outage, Land, Stop
  <2> QED
    BY <1>1, <2>1, SameGroup
<1>5. ASSUME NEW n \in Node, Work(n) PROVE OrderInv'
  <2>1. CASE FinishUpgrade(n)
    BY <1>1, <2>1, SameGroup DEF FinishUpgrade, Goes, AfterUpgrade
  <2>2. CASE BeginUpgrade(n) \/ \E error \in {"step", "other", "cancelled"} : TaskFails(n, error)
    <3>1. UNCHANGED <<plan, at, updated>>
      BY <2>2 DEF BeginUpgrade, TaskFails, Stop
    <3>2. \A m \in Node : task'[m] \in {task[m], "apt", "idle"}
      BY <1>1, <2>2 DEF BeginUpgrade, TaskFails, Goes
    <3> QED
      BY <1>1, <3>1, <3>2, SameGroup DEF AfterUpgrade
  <2>3. CASE NoReboot(n) \/ LookAtQuorum(n) \/ OrderReboot(n) \/ SeenBack(n)
    <3>1. UNCHANGED <<plan, at, updated>> /\ task[n] \in AfterUpgrade
      BY <2>3 DEF NoReboot, LookAtQuorum, OrderReboot, SeenBack, AfterUpgrade
    <3>2. \A m \in Node : m # n => task'[m] = task[m]
      BY <1>1, <2>3 DEF NoReboot, LookAtQuorum, OrderReboot, SeenBack, Goes
    <3> QED
      BY <1>1, <3>1, <3>2, SameGroup
  <2> QED
    BY <1>5, <2>1, <2>2, <2>3 DEF Work
<1> QED
  BY <1>2, <1>3, <1>4, <1>5 DEF Next

\* Only the work on a node starts its dist-upgrade.
LEMMA OnlyWorkUpgrades ==
  ASSUME OrderInv, [Next]_vars, NEW n \in Node, task[n] = "lists", task'[n] = "apt"
  PROVE  BeginUpgrade(n)
<1> USE DEF cluster, evac, record, history
<1>1. task \in [Node -> Tasks]
  BY DEF OrderInv, QuorumInv, TypeOK
<1>2. ASSUME NEW m \in Node, Work(m) PROVE BeginUpgrade(n)
  <2>1. CASE BeginUpgrade(m)
    BY <1>1, <2>1 DEF BeginUpgrade, Goes
  <2>2. CASE \/ FinishUpgrade(m) \/ NoReboot(m) \/ LookAtQuorum(m) \/ OrderReboot(m)
             \/ SeenBack(m) \/ \E error \in {"step", "other", "cancelled"} : TaskFails(m, error)
    BY <1>1, <2>2 DEF FinishUpgrade, NoReboot, LookAtQuorum, OrderReboot, SeenBack, TaskFails,
                      Goes
  <2> QED
    BY <1>2, <2>1, <2>2 DEF Work
<1>3. CASE \/ UNCHANGED vars \/ Approve \/ Reject
           \/ \E error \in {"other", "cancelled"} : Interrupted(error)
           \/ \E m \in Node : GoDown(m) \/ ComeUp(m) \/ Outage(m)
           \/ \E g \in Guest : Land(g)
  BY <1>3 DEF vars, Approve, Begin, StartUpdate, Reject, Interrupted, GoDown, ComeUp, Outage,
              Land
<1>4. CASE Playbook
  BY <1>4 DEF Playbook, Preflight, PreflightFails, WindowOpen, WindowClosed, Assess, Emptied,
              UpdateDone, RebootDone, ShutDown, MoveAway, EvacuationFails, Validate,
              ValidateFails, NextGroup, Succeed, LeaveThere, BringBack, StartAgain, Begin,
              StartUpdate
<1> QED
  BY <1>2, <1>3, <1>4 DEF Next

\* When a dist-upgrade starts, the groups before have had theirs, and nothing is being
\* done to their nodes: for every plan, whatever fails on the way.
THEOREM GroupsTakeTurns == Spec => GroupsInOrder
<1> DEFINE InTurn == \A n \in Node :
             task[n] = "lists" /\ task'[n] = "apt" =>
               \E g \in 1 .. GroupCount(plan) :
                 /\ n \in Group(plan, g)
                 /\ \A m \in UNION {Group(plan, f) : f \in 1 .. g - 1} :
                      m \in updated /\ task[m] = "idle" /\ host[m] # "ordered"
<1>1. Spec => []OrderInv
  BY InitOrder, NextOrder, PTL DEF Spec
<1>2. OrderInv /\ [Next]_vars => [InTurn]_vars
  <2> SUFFICES ASSUME OrderInv, [Next]_vars,
                      NEW n \in Node, task[n] = "lists", task'[n] = "apt"
               PROVE  /\ at \in 1 .. GroupCount(plan)
                      /\ n \in Group(plan, at)
                      /\ \A m \in UNION {Group(plan, f) : f \in 1 .. at - 1} :
                           m \in updated /\ task[m] = "idle" /\ host[m] # "ordered"
    OBVIOUS
  <2>1. at \in 1 .. GroupCount(plan) /\ plan \in Plan /\ Planned(plan) /\ at \in Nat \ {0}
    BY DEF OrderInv, InPlan, QuorumInv, TypeOK
  <2>2. n \in Group(plan, at)
    BY DEF OrderInv, QuorumInv, WorkIsHere, Here
  <2>3. ASSUME NEW f \in 1 .. at - 1, NEW m \in Group(plan, f)
        PROVE  m \in updated /\ task[m] = "idle" /\ host[m] # "ordered"
    <3>1. m \in Node /\ m \in updated
      BY <2>1, GroupIsNodes DEF OrderInv, EarlierUpdated
    <3>2. f \in Nat \ {0} /\ f < at
      BY <2>1
    <3>3. m \notin Here
      BY <2>1, <3>2, GroupsApart DEF Here
    <3> QED
      BY <3>1, <3>3 DEF OrderInv, QuorumInv, WorkIsHere, OrderedIsHere
  <2> QED
    BY <2>1, <2>2, <2>3
<1> QED
  BY <1>1, <1>2, PTL DEF Spec, GroupsInOrder
-----------------------------------------------------------------------------
(* Guests: who is where, and what the job has written down of it *)

\* Only a rolling update moves guests, and only a single node's has a window of its own.
PhaseFits ==
  /\ phase \in {"evacuate", "moving", "validate", "return"} => Rolling
  /\ phase \in {"window", "verify"} => ~ Rolling
  /\ phase = "over" <=> outcome # "none"

\* A migration that nobody waits for is the only one, of a job that stopped before it worked
\* on the group.
DriftsAlone ==
  /\ \A g, h \in Guest : drifting[g] # Nowhere /\ drifting[h] # Nowhere => g = h
  /\ (\E g \in Guest : drifting[g] # Nowhere) =>
       /\ phase = "over" /\ outcome \in {"FAILED", "CANCELLED"}
       /\ \A n \in Node : task[n] = "idle" /\ host[n] # "ordered"

\* In a rolling update no guest runs on a node that is worked on, or about to go down; and
\* until a group is empty, the guests on it are to be seen to.
Vacated(n) == RunningOn({n}) = {}
Busy(n) ==
  \/ n \in Here /\ phase \in {"update", "reboot", "validate"}
  \/ task[n] \notin {"idle", "done"}
  \/ host[n] = "ordered"
Vacant == Rolling => \A n \in Node : Busy(n) => Vacated(n)
LeavingSeen == phase = "moving" => RunningOn(Here) \subseteq todo

EmptyInv == QuorumInv /\ PhaseFits /\ DriftsAlone /\ Vacant /\ LeavingSeen

LEMMA InitEmpty == Init => EmptyInv
<1> SUFFICES ASSUME Init PROVE EmptyInv
  OBVIOUS
<1>1. /\ phase = "preflight" /\ outcome = "none"
      /\ \A n \in Node : task[n] = "idle" /\ host[n] = "up"
      /\ \A g \in Guest : drifting[g] = Nowhere
  BY DEF Init
<1> QED
  BY <1>1, InitQuorum DEF EmptyInv, PhaseFits, DriftsAlone, Vacant, Busy, LeavingSeen

\* The kind of the job and the phase it is in go together.
LEMMA NextPhaseFits == PhaseFits /\ [Next]_vars => PhaseFits'
<1> SUFFICES ASSUME PhaseFits, [Next]_vars PROVE PhaseFits'
  OBVIOUS
<1> USE DEF evac, record, PhaseFits, Rolling
<1>1. CASE \/ UNCHANGED vars \/ \E n \in Node : GoDown(n) \/ ComeUp(n) \/ Outage(n)
           \/ \E g \in Guest : Land(g)
  BY <1>1 DEF vars, GoDown, ComeUp, Outage, Land
<1>2. ASSUME NEW error, Stop(error) PROVE PhaseFits'
  <2>1. outcome' \in {"PARTIALLY_SUCCEEDED", "FAILED", "CANCELLED"}
    BY <1>2 DEF Stop, StoppedBy
  <2> QED
    BY <1>2, <2>1 DEF Stop
<1>3. CASE \/ PreflightFails \/ WindowClosed \/ ValidateFails \/ Reject
           \/ \E error \in {"step", "other", "cancelled"} : EvacuationFails(error)
           \/ \E error \in {"other", "cancelled"} : Interrupted(error)
  BY <1>2, <1>3 DEF PreflightFails, WindowClosed, ValidateFails, Reject, EvacuationFails,
                    Interrupted
<1>4. CASE Preflight \/ Approve
  BY <1>4 DEF Preflight, Approve, Begin, StartUpdate
<1>5. CASE WindowOpen \/ Emptied \/ UpdateDone \/ RebootDone \/ Assess \/ Validate
           \/ NextGroup \/ Succeed
  BY <1>5 DEF WindowOpen, Emptied, StartUpdate, UpdateDone, RebootDone, Assess, Validate,
              NextGroup, Succeed
<1>6. CASE \/ \E g \in Guest : ShutDown(g) \/ \E to \in Node : MoveAway(g, to)
           \/ \E m \in moves : LeaveThere(m) \/ BringBack(m) \/ StartAgain(m)
  BY <1>6 DEF ShutDown, MoveAway, LeaveThere, BringBack, StartAgain
<1>7. ASSUME NEW n \in Node, Work(n) PROVE PhaseFits'
  <2>1. CASE BeginUpgrade(n) \/ FinishUpgrade(n) \/ NoReboot(n) \/ LookAtQuorum(n)
             \/ OrderReboot(n) \/ SeenBack(n)
    BY <2>1 DEF BeginUpgrade, FinishUpgrade, NoReboot, LookAtQuorum, OrderReboot, SeenBack
  <2>2. ASSUME NEW error, TaskFails(n, error) PROVE PhaseFits'
    BY <1>2, <2>2 DEF TaskFails
  <2> QED
    BY <1>7, <2>1, <2>2 DEF Work
<1> QED
  BY <1>1, <1>3, <1>4, <1>5, <1>6, <1>7 DEF Next, Playbook

\* Once a job is over, what it ended with stays, and a node that has no task gets none.
LEMMA OverStaysOver ==
  ASSUME QuorumInv, phase = "over", [Next]_vars
  PROVE  /\ phase' = "over" /\ outcome' = outcome
         /\ (\A n \in Node : task[n] = "idle" /\ host[n] # "ordered") =>
              \A n \in Node : task'[n] = "idle" /\ host'[n] # "ordered"
<1> USE DEF cluster, evac, record
<1>1. task \in [Node -> Tasks] /\ host \in [Node -> {"up", "ordered", "down"}]
  BY DEF QuorumInv, TypeOK
<1>2. CASE \/ UNCHANGED vars \/ \E n \in Node : GoDown(n) \/ ComeUp(n) \/ Outage(n)
           \/ \E g \in Guest : Land(g)
  BY <1>1, <1>2 DEF vars, GoDown, ComeUp, Outage, Land
<1>3. ASSUME NEW n \in Node, Work(n) PROVE /\ phase' = "over" /\ outcome' = outcome
                                            /\ task[n] # "idle"
  BY <1>3 DEF Work, BeginUpgrade, FinishUpgrade, NoReboot, LookAtQuorum, OrderReboot, SeenBack,
              TaskFails, TaskErrors
<1>4. CASE Playbook \/ Approve \/ Reject \/ \E error \in {"other", "cancelled"} : Interrupted(error)
  <2>1. phase # "over"
    BY <1>4 DEF Playbook, Preflight, PreflightFails, WindowOpen, WindowClosed, Assess, Emptied,
                UpdateDone, RebootDone, ShutDown, MoveAway, EvacuationFails, Validate,
                ValidateFails, NextGroup, Succeed, LeaveThere, BringBack, StartAgain, Approve,
                Reject, Interrupted
  <2> QED
    BY <2>1
<1> QED
  BY <1>2, <1>3, <1>4 DEF Next

\* Only an evacuation that breaks off leaves a migration behind.
LEMMA DriftBegins ==
  ASSUME TypeOK, [Next]_vars, NEW g \in Guest, drifting'[g] # Nowhere, drifting[g] = Nowhere
  PROVE  \E error \in {"other", "cancelled"} : EvacuationFails(error)
<1> USE DEF cluster, evac, record
<1>1. drifting \in [Guest -> Node \union {Nowhere}]
  BY DEF TypeOK
<1>2. CASE \/ UNCHANGED vars \/ Approve \/ Reject
           \/ \E error \in {"other", "cancelled"} : Interrupted(error)
           \/ \E n \in Node : Work(n) \/ GoDown(n) \/ ComeUp(n) \/ Outage(n)
  BY <1>2 DEF vars, Approve, Reject, Interrupted, GoDown, ComeUp, Outage, Work, BeginUpgrade,
              FinishUpgrade, NoReboot, LookAtQuorum, OrderReboot, SeenBack, TaskFails
<1>3. CASE \E h \in Guest : Land(h)
  BY <1>1, <1>3 DEF Land
<1>4. CASE \E error \in {"step", "other", "cancelled"} : EvacuationFails(error)
  BY <1>4 DEF EvacuationFails
<1>5. CASE \/ Preflight \/ PreflightFails \/ WindowOpen \/ WindowClosed
           \/ Assess \/ Emptied \/ UpdateDone \/ RebootDone
           \/ \E h \in Guest : ShutDown(h) \/ \E to \in Node : MoveAway(h, to)
           \/ Validate \/ ValidateFails \/ NextGroup \/ Succeed
           \/ \E m \in moves : LeaveThere(m) \/ BringBack(m) \/ StartAgain(m)
  BY <1>5 DEF Preflight, PreflightFails, WindowOpen, WindowClosed, Assess, Emptied, UpdateDone,
              RebootDone, ShutDown, MoveAway, Validate, ValidateFails, NextGroup, Succeed,
              LeaveThere, BringBack, StartAgain
<1> QED
  BY <1>2, <1>3, <1>4, <1>5 DEF Next, Playbook

LEMMA NextDriftsAlone ==
  ASSUME QuorumInv, PhaseFits, DriftsAlone, [Next]_vars PROVE DriftsAlone'
<1>1. TypeOK /\ drifting \in [Guest -> Node \union {Nowhere}]
  BY DEF QuorumInv, TypeOK
<1>2. CASE \E error \in {"other", "cancelled"} : EvacuationFails(error)
  <2>1. /\ phase = "moving" /\ phase' = "over" /\ outcome' \in {"FAILED", "CANCELLED"}
        /\ UNCHANGED <<host, task>>
    BY <1>2 DEF EvacuationFails, Stop, StoppedBy
  <2>2. \A n \in Node : task[n] = "idle" /\ host[n] # "ordered"
    BY <2>1, Untouched DEF Working
  <2>3. \A g \in Guest : drifting[g] = Nowhere
    BY <2>1 DEF DriftsAlone
  <2>4. \/ drifting' = drifting
        \/ \E g \in Guest, to \in Node : drifting' = [drifting EXCEPT ![g] = to]
    BY <1>1, <1>2 DEF EvacuationFails, Targets, TypeOK
  <2> QED
    BY <1>1, <2>1, <2>2, <2>3, <2>4 DEF DriftsAlone
<1>3. CASE ~ \E error \in {"other", "cancelled"} : EvacuationFails(error)
  <2>1. \A g \in Guest : drifting'[g] # Nowhere => drifting[g] # Nowhere
    BY <1>1, <1>3, DriftBegins
  <2>2. CASE \E g \in Guest : drifting[g] # Nowhere
    BY <2>1, <2>2, OverStaysOver DEF DriftsAlone
  <2>3. CASE \A g \in Guest : drifting[g] = Nowhere
    BY <2>1, <2>3 DEF DriftsAlone
  <2> QED
    BY <2>2, <2>3
<1> QED
  BY <1>2, <1>3

\* Nobody comes to a node by a step that starts no guest and moves none ...
LEMMA StillVacant ==
  ASSUME TypeOK, Vacant, UNCHANGED <<plan, place>>,
         \A g \in Guest : guest'[g] = "running" => guest[g] = "running",
         \A n \in Node : Busy(n)' => Busy(n) \/ Vacated(n)
  PROVE  Vacant'
<1> SUFFICES ASSUME Rolling', NEW n \in Node, Busy(n)' PROVE Vacated(n)'
  BY DEF Vacant
<1>1. Rolling
  BY DEF Rolling
<1>2. Vacated(n)
  BY <1>1 DEF Vacant
<1> QED
  BY <1>2 DEF Vacated, RunningOn

\* ... and when no node is worked on it may be anywhere.
LEMMA NoneBusy == (\A n \in Node : ~ Busy(n)') => Vacant'
BY DEF Vacant

LEMMA PlaybookVacant == EmptyInv /\ Playbook => Vacant'
<1> SUFFICES ASSUME EmptyInv, Playbook PROVE Vacant'
  OBVIOUS
<1> USE DEF cluster, evac, record, history
<1>0. TypeOK /\ QuorumInv /\ Vacant
  BY DEF EmptyInv, QuorumInv
<1>1. CASE Preflight \/ WindowOpen \/ Assess
  <2>1. /\ UNCHANGED <<plan, at, place, guest, host>>
        /\ phase \notin Working
    BY <1>1 DEF Preflight, WindowOpen, Assess, Working
  <2>2. Rolling => phase' \in {"approve", "evacuate", "moving"} /\ UNCHANGED task
    BY <1>1 DEF Preflight, WindowOpen, Assess, Begin, EmptyInv, PhaseFits
  <2>3. Rolling => \A n \in Node : ~ Busy(n)'
    BY <1>0, <2>1, <2>2, Untouched DEF Busy
  <2>4. Rolling' = Rolling
    BY <2>1 DEF Rolling
  <2> QED
    BY <2>3, <2>4 DEF Vacant
<1>2. CASE Emptied
  <2>1. /\ UNCHANGED <<plan, at, place, guest, host>> /\ phase = "moving" /\ todo = {}
        /\ phase' = "update"
        /\ task' = [n \in Node |-> IF n \in Here THEN "lists" ELSE "idle"]
    BY <1>2 DEF Emptied, StartUpdate
  <2>2. \A n \in Here : Vacated(n)
    BY <2>1 DEF EmptyInv, LeavingSeen, Vacated, RunningOn
  <2>3. \A n \in Node : Busy(n)' => n \in Here
    BY <1>0, <2>1, Untouched DEF Busy, Working, Here
  <2> QED
    BY <1>0, <2>1, <2>2, <2>3, StillVacant
<1>3. CASE UpdateDone \/ RebootDone
  <2>1. UNCHANGED <<plan, at, place, guest, host>> /\ Here' = Here
    BY <1>3 DEF UpdateDone, RebootDone, Here
  <2>2. /\ phase \in {"update", "reboot"}
        /\ \A n \in Node : n \in Here \/ task'[n] = task[n]
    BY <1>3 DEF UpdateDone, RebootDone
  <2>3. \A n \in Node : Busy(n)' => Busy(n)
    BY <2>1, <2>2 DEF Busy
  <2> QED
    BY <1>0, <2>1, <2>3, StillVacant
<1>4. CASE PreflightFails \/ WindowClosed \/ ValidateFails
           \/ \E error \in {"step", "other", "cancelled"} : EvacuationFails(error)
  <2>1. UNCHANGED <<plan, at, place, guest, host, task>> /\ phase' = "over"
    BY <1>4 DEF PreflightFails, WindowClosed, ValidateFails, EvacuationFails, Stop
  <2>2. \A n \in Node : Busy(n)' => Busy(n)
    BY <2>1 DEF Busy
  <2> QED
    BY <1>0, <2>1, <2>2, StillVacant
<1>5. CASE \E g \in Guest : ShutDown(g) \/ \E to \in Node : MoveAway(g, to)
  <2>1. UNCHANGED <<plan, at, host, task, phase>> /\ phase = "moving"
    BY <1>5 DEF ShutDown, MoveAway
  <2>2. \A n \in Node : ~ Busy(n)'
    BY <1>0, <2>1, Untouched DEF Busy, Working
  <2> QED
    BY <2>2, NoneBusy
<1>6. CASE \/ NextGroup \/ Succeed \/ Validate
           \/ \E m \in moves : LeaveThere(m) \/ BringBack(m) \/ StartAgain(m)
  <2>1. /\ UNCHANGED host /\ phase \in Settled /\ phase' \in {"evacuate", "over", "return"}
        /\ \A n \in Node : task'[n] \in {task[n], "idle"}
    BY <1>6 DEF NextGroup, Succeed, Validate, LeaveThere, BringBack, StartAgain, Settled
  <2>2. \A n \in Node : ~ Busy(n)'
    BY <1>0, <2>1, SettledNodes DEF Busy
  <2> QED
    BY <2>2, NoneBusy
<1> QED
  BY <1>1, <1>2, <1>3, <1>4, <1>5, <1>6 DEF Playbook

LEMMA NextVacant == EmptyInv /\ [Next]_vars => Vacant'
<1> SUFFICES ASSUME EmptyInv, [Next]_vars PROVE Vacant'
  OBVIOUS
<1> USE DEF cluster, evac, record, history
<1>0. /\ TypeOK /\ QuorumInv /\ Vacant
      /\ task \in [Node -> Tasks] /\ host \in [Node -> {"up", "ordered", "down"}]
      /\ guest \in [Guest -> {"running", "shut", "dead"}]
  BY DEF EmptyInv, QuorumInv, TypeOK
<1>1. CASE Playbook
  BY <1>1, PlaybookVacant
<1>2. CASE Approve
  <2>1. /\ UNCHANGED <<plan, at, place, guest, host>> /\ phase = "approve"
    BY <1>2 DEF Approve
  <2>2. Rolling => phase' = "evacuate" /\ UNCHANGED task
    BY <1>2 DEF Approve, Begin
  <2>3. Rolling => \A n \in Node : ~ Busy(n)'
    BY <1>0, <2>1, <2>2, Untouched DEF Busy, Working
  <2>4. Rolling' = Rolling
    BY <2>1 DEF Rolling
  <2> QED
    BY <2>3, <2>4 DEF Vacant
<1>3. CASE \/ UNCHANGED vars \/ Reject \/ \E error \in {"other", "cancelled"} : Interrupted(error)
  <2>1. UNCHANGED <<plan, at, place, guest, host, task>> /\ phase' \in {phase, "over"}
    BY <1>3 DEF vars, Reject, Interrupted, Stop
  <2>2. \A n \in Node : Busy(n)' => Busy(n)
    BY <2>1 DEF Busy, Here
  <2> QED
    BY <1>0, <2>1, <2>2, StillVacant
<1>4. CASE \E g \in Guest : Land(g)
  <2>1. UNCHANGED <<host, task, phase>> /\ \E g \in Guest : drifting[g] # Nowhere
    BY <1>4 DEF Land
  <2>2. \A n \in Node : ~ Busy(n)'
    BY <2>1 DEF EmptyInv, DriftsAlone, Busy
  <2> QED
    BY <2>2, NoneBusy
<1>5. ASSUME NEW n \in Node, GoDown(n) \/ ComeUp(n) \/ Outage(n) PROVE Vacant'
  <2>1. UNCHANGED <<plan, at, place, task, phase>>
    BY <1>5 DEF GoDown, ComeUp, Outage
  <2>2. \A m \in Node : host'[m] = "ordered" => host[m] = "ordered"
    BY <1>0, <1>5 DEF GoDown, ComeUp, Outage
  <2>3. \A g \in Guest : guest'[g] = "running" => guest[g] = "running"
    BY <1>5 DEF GoDown, ComeUp, Outage, FailWith
  <2>4. \A m \in Node : Busy(m)' => Busy(m)
    BY <2>1, <2>2 DEF Busy, Here
  <2> QED
    BY <1>0, <2>1, <2>3, <2>4, StillVacant
<1>6. ASSUME NEW n \in Node, Work(n) PROVE Vacant'
  <2>1. /\ UNCHANGED <<plan, at, place, guest>> /\ phase' \in {phase, "over"}
        /\ \A m \in Node : m # n => task'[m] = task[m] /\ host'[m] = host[m]
        /\ task'[n] \notin {"idle", "done"} \/ host'[n] = "ordered" =>
             task[n] \notin {"idle", "done"} \/ host[n] = "ordered"
    BY <1>0, <1>6 DEF Work, BeginUpgrade, FinishUpgrade, NoReboot, LookAtQuorum, OrderReboot,
                      SeenBack, TaskFails, Goes, Stop
  <2>2. \A m \in Node : Busy(m)' => Busy(m)
    BY <2>1 DEF Busy, Here
  <2> QED
    BY <1>0, <2>1, <2>2, StillVacant
<1> QED
  BY <1>1, <1>2, <1>3, <1>4, <1>5, <1>6 DEF Next

\* The evacuation goes on until it has seen to every guest it found.
LEMMA NextLeavingSeen ==
  ASSUME EmptyInv, [Next]_vars PROVE LeavingSeen'
<1> SUFFICES ASSUME phase' = "moving" PROVE (RunningOn(Here) \subseteq todo)'
  BY DEF LeavingSeen
<1> USE DEF cluster, evac, record, history
<1>0. /\ Nowhere \notin Node /\ place \in [Guest -> Node]
      /\ guest \in [Guest -> {"running", "shut", "dead"}]
  BY RollingAssumption DEF EmptyInv, QuorumInv, TypeOK
<1>1. CASE Assess
  BY <1>1 DEF Assess, RunningOn, Here
<1>2. CASE \E g \in Guest : ShutDown(g) \/ \E to \in Node : MoveAway(g, to)
  <2>1. UNCHANGED <<plan, at, phase>> /\ phase = "moving"
    BY <1>2 DEF ShutDown, MoveAway
  <2>2. \A g \in RunningOn(Here)' : g \in RunningOn(Here) /\ (g \in todo => g \in todo')
    BY <1>0, <1>2, <2>1 DEF ShutDown, MoveAway, Targets, RunningOn, Here
  <2> QED
    BY <2>1, <2>2 DEF EmptyInv, LeavingSeen
<1>3. CASE UNCHANGED <<plan, at, phase, place, todo>>
           /\ \A g \in Guest : guest'[g] = "running" => guest[g] = "running"
  BY <1>3 DEF EmptyInv, LeavingSeen, RunningOn, Here
<1>4. CASE \E n \in Node : Work(n) \/ GoDown(n) \/ ComeUp(n) \/ Outage(n)
  <2>1. UNCHANGED <<plan, at, place, todo>> /\ phase' \in {phase, "over"}
    BY <1>4 DEF GoDown, ComeUp, Outage, Work, BeginUpgrade, FinishUpgrade, NoReboot,
                LookAtQuorum, OrderReboot, SeenBack, TaskFails, Stop
  <2>2. \A g \in Guest : guest'[g] = "running" => guest[g] = "running"
    BY <1>4 DEF GoDown, ComeUp, Outage, FailWith, Work, BeginUpgrade, FinishUpgrade, NoReboot,
                LookAtQuorum, OrderReboot, SeenBack, TaskFails
  <2> QED
    BY <1>3, <2>1, <2>2
<1>5. CASE UNCHANGED vars
  BY <1>3, <1>5 DEF vars
<1>6. CASE \E g \in Guest : Land(g)
  BY <1>6 DEF Land, EmptyInv, DriftsAlone
<1>7. CASE Playbook \/ Approve \/ Reject \/ \E error \in {"other", "cancelled"} : Interrupted(error)
  <2>1. \/ Assess
        \/ \E g \in Guest : ShutDown(g) \/ \E to \in Node : MoveAway(g, to)
    BY <1>7 DEF Playbook, Preflight, PreflightFails, WindowOpen, WindowClosed, Emptied,
                UpdateDone, RebootDone, EvacuationFails, Validate, ValidateFails, NextGroup,
                Succeed, LeaveThere, BringBack, StartAgain, Approve, Reject, Interrupted, Begin,
                StartUpdate, Stop
  <2> QED
    BY <1>1, <1>2, <2>1
<1> QED
  BY <1>4, <1>5, <1>6, <1>7 DEF Next

LEMMA NextEmpty == EmptyInv /\ [Next]_vars => EmptyInv'
<1> SUFFICES ASSUME EmptyInv, [Next]_vars PROVE EmptyInv'
  OBVIOUS
<1>1. QuorumInv'
  BY NextQuorum DEF EmptyInv
<1>2. PhaseFits' /\ DriftsAlone'
  BY NextPhaseFits, NextDriftsAlone DEF EmptyInv
<1> QED
  BY <1>1, <1>2, NextVacant, NextLeavingSeen DEF EmptyInv

\* A rolling update takes down no guest that runs, by the reboots it ordered: also when
\* a task outlives the job that started it, or a migration was left to itself.
THEOREM GuestsLeaveFirst == Spec => RebootsEmpty
<1> DEFINE Empty == \A n \in Node :
             Rolling /\ host[n] = "ordered" /\ host'[n] = "down" /\ outages' = outages =>
               RunningOn({n}) = {}
<1>1. Spec => []EmptyInv
  BY InitEmpty, NextEmpty, PTL DEF Spec
<1>2. EmptyInv => Empty
  BY DEF EmptyInv, Vacant, Busy, Vacated
<1> QED
  BY <1>1, <1>2, PTL DEF Spec, RebootsEmpty
\* The moves of the group the job is at.
Current(m) == m \in moves /\ m.group = at

\* The record of the moves: each is of a group whose turn has come, there is none yet of
\* the group before it is being emptied, and one at most of each guest.
BeforeMoves == {"preflight", "approve", "window", "evacuate", "verify"}
MovesFit ==
  /\ ~ Rolling => moves = {}
  /\ \A m \in moves : m.group <= at
  /\ phase \in BeforeMoves => \A m \in moves : m.group < at
  /\ \A m, k \in moves : m.group = k.group /\ m.guest = k.guest => m = k
  /\ phase = "moving" => \A m \in moves : Current(m) => m.guest \notin todo
  /\ \A x \in returned : x[1] <= at
  /\ phase \notin {"return", "over"} => \A x \in returned : x[1] < at

\* While the job goes on: a guest away from home, or shut down, is named, or the group's
\* own move says so; that one began at home, unless the guest is named; and in a return,
\* the guests left to see to are all that is not settled.
AwayIsKnown ==
  phase # "over" => \A g \in Guest : g \notin said =>
    /\ place[g] # Home[g] =>
         \E m \in moves : Current(m) /\ m.guest = g /\ StillAway(m) /\ m.to # Nowhere
    /\ guest[g] = "shut" => \E m \in moves : Current(m) /\ m.guest = g /\ StillAway(m)
BeganAtHome == \A m \in moves : Current(m) /\ m.guest \notin said => m.from = Home[m.guest]
ReturnSees ==
  phase = "return" =>
    \A m \in moves : Current(m) /\ StillAway(m) => m.guest \in todo \union said

AccountInv == EmptyInv /\ MovesFit /\ AwayIsKnown /\ BeganAtHome /\ ReturnSees /\ AccountedFor

LEMMA InitAccount == Init => AccountInv
<1> SUFFICES ASSUME Init PROVE AccountInv
  OBVIOUS
<1>1. /\ phase = "preflight" /\ outcome = "none" /\ moves = {} /\ returned = {}
      /\ place = Home /\ guest = [g \in Guest |-> "running"]
  BY DEF Init
<1> QED
  BY <1>1, InitEmpty
  DEF AccountInv, MovesFit, Current, AwayIsKnown, BeganAtHome, ReturnSees, AccountedFor, Displaced

\* A step that writes no move and brings nobody back keeps the record as it should be, if
\* the job comes to where there is none yet only from there.
LEMMA SameMoves ==
  ASSUME TypeOK, MovesFit, UNCHANGED <<plan, at, moves, returned>>,
         phase' \in BeforeMoves => phase \in BeforeMoves \/ ~ Rolling,
         phase' = "moving" => phase = "evacuate" \/ (phase = "moving" /\ todo' \subseteq todo),
         phase' \notin {"return", "over"} => phase \notin {"return", "over"}
  PROVE  MovesFit'
<1>1. Rolling' = Rolling
  BY DEF Rolling
<1>2. at \in Nat
  BY DEF TypeOK
<1>3. phase = "evacuate" => \A m \in moves : m.group # at
  BY <1>2 DEF MovesFit, BeforeMoves
<1>4. phase' = "moving" => \A m \in moves : Current(m)' => m.guest \notin todo'
  BY <1>3 DEF MovesFit, Current
<1> QED
  BY <1>1, <1>4 DEF MovesFit

\* The job goes on, or is over already, and no guest is moved, shut down or started.
LEMMA NobodyMoved ==
  ASSUME AccountInv, EmptyInv', UNCHANGED <<plan, at, moves, returned, place>>,
         said \subseteq said',
         \A g \in Guest : guest'[g] = "shut" => guest[g] = "shut",
         phase' \in BeforeMoves => phase \in BeforeMoves \/ ~ Rolling,
         phase' = "moving" => phase = "evacuate" \/ (phase = "moving" /\ todo' \subseteq todo),
         phase' \notin {"return", "over"} => phase \notin {"return", "over"},
         phase' = "return" => \/ phase = "return" /\ todo' = todo
                              \/ todo' = {m.guest : m \in {x \in moves : x.group = at}},
         phase' = "over" => phase = "over" /\ outcome' = outcome,
         phase = "over" => phase' = "over"
  PROVE  AccountInv'
<1>1. MovesFit'
  BY SameMoves DEF AccountInv, EmptyInv, QuorumInv
<1>2. AwayIsKnown'
  <2>1. \A m \in moves : (Current(m)' <=> Current(m)) /\ (StillAway(m)' <=> StillAway(m))
    BY DEF Current, StillAway
  <2>2. phase' # "over" => phase # "over" /\ AwayIsKnown
    BY DEF AccountInv
  <2> HIDE DEF Current, StillAway
  <2> QED
    BY <2>1, <2>2 DEF AwayIsKnown
<1>3. BeganAtHome'
  BY DEF AccountInv, BeganAtHome, Current
<1>4. ReturnSees'
  BY DEF AccountInv, ReturnSees, Current, StillAway
<1>5. AccountedFor'
  <2>1. CASE phase' = "over"
    BY <2>1 DEF AccountInv, AccountedFor, Displaced
  <2>2. CASE phase' # "over"
    BY <2>2 DEF EmptyInv, PhaseFits, AccountedFor
  <2> QED
    BY <2>1, <2>2
<1> QED
  BY <1>1, <1>2, <1>3, <1>4, <1>5 DEF AccountInv

\* While the job goes on: whoever is displaced is named, or has a move that a failure names.
LEMMA DisplacedIsKnown ==
  ASSUME AccountInv, phase # "over", NEW g \in Guest, Displaced(g), g \notin said
  PROVE  g \in Unaccounted /\ \E m \in moves : Current(m) /\ m.guest = g /\ StillAway(m)
BY DEF AccountInv, AwayIsKnown, Displaced, Unaccounted, Current, MovesFit

\* The job stops: what it says is enough, when it is to say it.
LEMMA StopAccounts ==
  ASSUME AccountInv, EmptyInv', UNCHANGED <<place, guest>>, phase # "over",
         NEW error \in {"step", "window", "other", "cancelled"}, Stop(error),
         error = "window" => phase \in {"window", "evacuate"}
  PROVE  AccountInv'
<1>1. UNCHANGED <<plan, at, moves, returned, todo>> /\ phase' = "over" /\ said \subseteq said'
  BY DEF Stop, evac
<1>2. MovesFit'
  BY <1>1, SameMoves DEF AccountInv, EmptyInv, QuorumInv, BeforeMoves
<1>3. AwayIsKnown' /\ ReturnSees'
  BY <1>1 DEF AwayIsKnown, ReturnSees
<1>4. BeganAtHome'
  BY <1>1 DEF AccountInv, BeganAtHome, Current
<1>5. AccountedFor'
  <2> SUFFICES ASSUME outcome' = "PARTIALLY_SUCCEEDED", NEW g \in Guest, Displaced(g)
               PROVE  g \in said'
    BY DEF AccountedFor, Displaced, Stop, StoppedBy
  <2>1. CASE error = "step"
    BY <2>1, DisplacedIsKnown DEF Stop
  <2>2. CASE error = "window"
    <3>1. ~ \E m \in moves : Current(m)
      BY <2>2 DEF AccountInv, MovesFit, Current, BeforeMoves, EmptyInv, QuorumInv, TypeOK, Move
    <3> QED
      BY <1>1, <3>1, DisplacedIsKnown
  <2>3. CASE error \notin {"step", "window"}
    BY <2>3 DEF Stop, StoppedBy
  <2> QED
    BY <2>1, <2>2, <2>3
<1> QED
  BY <1>2, <1>3, <1>4, <1>5 DEF AccountInv

\* A guest is moved away or shut down, and its move written down: it was at home, or it
\* is named already.
LEMMA EvacuationAccounts ==
  ASSUME AccountInv, EmptyInv', NEW g \in Guest,
         ShutDown(g) \/ \E to \in Node : MoveAway(g, to)
  PROVE  AccountInv'
<1>0. /\ at \in Nat \ {0} /\ Nowhere \notin Node /\ place \in [Guest -> Node]
      /\ guest \in [Guest -> {"running", "shut", "dead"}] /\ moves \subseteq Move
  BY RollingAssumption DEF AccountInv, EmptyInv, QuorumInv, TypeOK
<1>1. PICK to \in Node \union {Nowhere} :
        /\ moves' = moves \union {Entry(g, to)}
        /\ \/ to = Nowhere /\ UNCHANGED place /\ guest' = [guest EXCEPT ![g] = "shut"]
           \/ to # Nowhere /\ UNCHANGED guest /\ place' = [place EXCEPT ![g] = to]
  BY <1>0 DEF ShutDown, MoveAway
<1>2. /\ phase = "moving" /\ g \in todo /\ todo' = todo \ {g} /\ guest[g] = "running"
      /\ UNCHANGED <<plan, at, phase, returned, said, outcome>>
  BY DEF ShutDown, MoveAway
<1>3. /\ \A m \in moves : Current(m) => m.guest # g
      /\ \A x \in returned : x[1] < at
      /\ Rolling /\ Rolling' = Rolling
  BY <1>2 DEF AccountInv, MovesFit, EmptyInv, PhaseFits, Rolling
<1>10. PICK e : e = Entry(g, to)
  OBVIOUS
<1>4. e.guest = g /\ e.group = at /\ e.to = to /\ e.from = place[g]
  BY <1>10 DEF Entry
<1>5. /\ e \in moves' /\ Current(e)' /\ StillAway(e)'
      /\ \A m \in moves : m \in moves' /\ (Current(m)' <=> Current(m))
                          /\ (StillAway(m)' <=> StillAway(m))
      /\ \A m \in moves' : m \in moves \/ m = e
  <2>1. <<at, g>> \notin returned
    BY <1>0, <1>3
  <2>2. e \in moves' /\ \A m \in moves' : m \in moves \/ m = e
    BY <1>1, <1>10
  <2>3. StillAway(e)' /\ \A m \in moves : StillAway(m)' <=> StillAway(m)
    BY <1>2, <1>4, <2>1 DEF StillAway
  <2>4. Current(e)' /\ \A m \in moves : Current(m)' <=> Current(m)
    BY <1>1, <1>2, <1>4, <2>2 DEF Current
  <2> QED
    BY <1>1, <2>2, <2>3, <2>4
<1>6. MovesFit'
  <2>1. \A m, k \in moves' : m.group = k.group /\ m.guest = k.guest => m = k
    BY <1>3, <1>4, <1>5 DEF AccountInv, MovesFit, Current
  <2>2. \A m \in moves' : m.group <= at
    BY <1>0, <1>4, <1>5 DEF AccountInv, MovesFit
  <2>3. \A m \in moves' : Current(m)' => m.guest \notin todo'
    BY <1>2, <1>4, <1>5 DEF AccountInv, MovesFit
  <2>4. (~ Rolling => moves = {})' /\ phase' \notin BeforeMoves \union {"return", "over"}
    BY <1>2, <1>3 DEF BeforeMoves
  <2>5. \A x \in returned : x[1] <= at /\ x[1] < at
    BY <1>3 DEF AccountInv, MovesFit
  <2> QED
    BY <1>2, <2>1, <2>2, <2>3, <2>4, <2>5 DEF MovesFit
<1>7. AwayIsKnown'
  <2> SUFFICES ASSUME NEW h \in Guest, h \notin said
               PROVE  /\ place'[h] # Home[h] =>
                           \E m \in moves' : Current(m)' /\ m.guest = h /\ StillAway(m)'
                                             /\ m.to # Nowhere
                      /\ guest'[h] = "shut" =>
                           \E m \in moves' : Current(m)' /\ m.guest = h /\ StillAway(m)'
    BY <1>2 DEF AwayIsKnown
  <2>1. CASE h = g
    <3>1. place[g] = Home[g]
      BY <1>2, <1>3, <2>1 DEF AccountInv, AwayIsKnown
    <3> QED
      BY <1>0, <1>1, <1>4, <1>5, <2>1, <3>1
  <2>2. CASE h # g
    <3>1. place'[h] = place[h] /\ guest'[h] = guest[h]
      BY <1>0, <1>1, <2>2
    <3> QED
      BY <1>2, <1>5, <3>1 DEF AccountInv, AwayIsKnown
  <2> QED
    BY <2>1, <2>2
<1>8. BeganAtHome'
  <2>1. g \notin said => place[g] = Home[g]
    BY <1>2, <1>3 DEF AccountInv, AwayIsKnown
  <2> QED
    BY <1>2, <1>4, <1>5, <2>1 DEF AccountInv, BeganAtHome
<1>9. ReturnSees' /\ AccountedFor'
  BY <1>2 DEF ReturnSees, AccountedFor, EmptyInv, PhaseFits
<1> QED
  BY <1>6, <1>7, <1>8, <1>9 DEF AccountInv

\* A guest is brought back, started again, or named and left where it is.
LEMMA ReturnAccounts ==
  ASSUME AccountInv, EmptyInv', NEW k \in moves,
         LeaveThere(k) \/ BringBack(k) \/ StartAgain(k)
  PROVE  AccountInv'
<1>0. /\ at \in Nat \ {0} /\ place \in [Guest -> Node] /\ moves \subseteq Move
      /\ k.guest \in Guest
      /\ guest \in [Guest -> {"running", "shut", "dead"}]
  BY DEF AccountInv, EmptyInv, QuorumInv, TypeOK, Move
<1>1. /\ phase = "return" /\ Current(k) /\ todo' = todo \ {k.guest}
      /\ UNCHANGED <<plan, at, phase, moves, outcome>>
      /\ said \subseteq said' /\ returned \subseteq returned'
  BY DEF LeaveThere, BringBack, StartAgain, Current
<1>2. k.guest \in said' \/ <<at, k.guest>> \in returned'
  BY DEF LeaveThere, BringBack, StartAgain
<1>3. /\ \A x \in returned' : x \in returned \/ x = <<at, k.guest>>
      /\ \A m \in moves : m.guest # k.guest => (StillAway(m)' <=> StillAway(m))
  BY <1>0 DEF LeaveThere, BringBack, StartAgain, StillAway
<1>4. \A m \in moves : Current(m)' <=> Current(m)
  BY <1>1 DEF Current
<1>5. MovesFit'
  <2>1. \A x \in returned' : x[1] <= at
    BY <1>0, <1>3 DEF AccountInv, MovesFit
  <2> QED
    BY <1>1, <2>1 DEF AccountInv, MovesFit, BeforeMoves, Rolling
<1>6. BeganAtHome'
  BY <1>1, <1>4 DEF AccountInv, BeganAtHome
<1>7. ReturnSees'
  <2> SUFFICES ASSUME NEW m \in moves, Current(m), StillAway(m)'
               PROVE  m.guest \in todo' \union said'
    BY <1>1, <1>4 DEF ReturnSees
  <2>1. CASE m.guest = k.guest
    BY <1>1, <1>2, <2>1 DEF StillAway, Current
  <2>2. CASE m.guest # k.guest
    BY <1>1, <1>3, <2>2 DEF AccountInv, ReturnSees
  <2> QED
    BY <2>1, <2>2
<1>8. AwayIsKnown'
  <2> SUFFICES ASSUME NEW h \in Guest, h \notin said'
               PROVE  /\ place'[h] # Home[h] =>
                           \E m \in moves : Current(m) /\ m.guest = h /\ StillAway(m)'
                                             /\ m.to # Nowhere
                      /\ guest'[h] = "shut" =>
                           \E m \in moves : Current(m) /\ m.guest = h /\ StillAway(m)'
    BY <1>1, <1>4 DEF AwayIsKnown
  <2>1. CASE h # k.guest
    <3>1. place'[h] = place[h] /\ guest'[h] = guest[h]
      BY <1>0, <2>1 DEF LeaveThere, BringBack, StartAgain, cluster
    <3> QED
      BY <1>1, <1>3, <2>1, <3>1 DEF AccountInv, AwayIsKnown
  <2>2. CASE h = k.guest
    <3>1. h \notin said /\ ~ LeaveThere(k)
      BY <1>1, <2>2 DEF LeaveThere
    <3>2. k.from = Home[h]
      BY <1>1, <2>2, <3>1 DEF AccountInv, BeganAtHome
    <3>3. CASE BringBack(k)
      <4>1. place'[h] = Home[h] /\ guest'[h] = "running"
        BY <1>0, <2>2, <3>2, <3>3 DEF BringBack, Stays
      <4> QED
        BY <4>1
    <3>4. CASE StartAgain(k)
      <4>1. place'[h] = place[h] /\ guest'[h] = "running" /\ k.to = Nowhere
        BY <1>0, <2>2, <3>4 DEF StartAgain
      <4>2. \A m \in moves : Current(m) /\ m.guest = h => m = k
        BY <1>1, <2>2 DEF AccountInv, MovesFit, Current
      <4>3. place[h] = Home[h]
        BY <1>1, <3>1, <4>1, <4>2 DEF AccountInv, AwayIsKnown
      <4> QED
        BY <4>1, <4>3
    <3> QED
      BY <3>1, <3>3, <3>4
  <2> QED
    BY <2>1, <2>2
<1>9. AccountedFor'
  BY <1>1 DEF AccountedFor, EmptyInv, PhaseFits
<1> QED
  BY <1>5, <1>6, <1>7, <1>8, <1>9 DEF AccountInv

\* A return that has seen to everybody leaves nobody away that is not named.
LEMMA ReturnedOrNamed ==
  ASSUME AccountInv, phase = "return", todo = {}, NEW g \in Guest, Displaced(g)
  PROVE  g \in said
BY DisplacedIsKnown DEF AccountInv, ReturnSees

LEMMA NextGroupAccounts == AccountInv /\ EmptyInv' /\ NextGroup => AccountInv'
<1> SUFFICES ASSUME AccountInv, EmptyInv', NextGroup PROVE AccountInv'
  OBVIOUS
<1>1. /\ phase = "return" /\ todo = {} /\ phase' = "evacuate" /\ at' = at + 1 /\ at \in Nat
      /\ moves \subseteq Move /\ returned \subseteq Nat \X Guest
      /\ UNCHANGED <<plan, place, guest, moves, returned, said>> /\ Rolling' = Rolling
  BY DEF NextGroup, cluster, evac, record, Rolling, AccountInv, EmptyInv, QuorumInv, TypeOK
<1>2. \A m \in moves : m.group < at' /\ ~ Current(m)'
  BY <1>1 DEF AccountInv, MovesFit, Current, Move
<1>3. MovesFit'
  <2>1. \A x \in returned : x[1] < at' /\ x[1] <= at'
    BY <1>1 DEF AccountInv, MovesFit
  <2>2. \A m \in moves : m.group < at' /\ m.group <= at'
    BY <1>1, <1>2 DEF Move
  <2>3. Rolling /\ \A m, n \in moves : m.group = n.group /\ m.guest = n.guest => m = n
    BY <1>1 DEF AccountInv, MovesFit, EmptyInv, PhaseFits
  <2> QED
    BY <1>1, <2>1, <2>2, <2>3 DEF MovesFit
<1>4. AwayIsKnown'
  BY <1>1, ReturnedOrNamed DEF AwayIsKnown, Displaced
<1>5. BeganAtHome' /\ ReturnSees' /\ AccountedFor'
  BY <1>1, <1>2 DEF BeganAtHome, ReturnSees, AccountedFor, EmptyInv, PhaseFits
<1> QED
  BY <1>3, <1>4, <1>5 DEF AccountInv

LEMMA SucceedAccounts == AccountInv /\ EmptyInv' /\ Succeed => AccountInv'
<1> SUFFICES ASSUME AccountInv, EmptyInv', Succeed PROVE AccountInv'
  OBVIOUS
<1>1. /\ phase' = "over" /\ UNCHANGED <<plan, at, place, guest, moves, returned, said>>
      /\ (phase = "return" /\ todo = {}) \/ phase = "verify"
  BY DEF Succeed, cluster, evac
<1>2. MovesFit'
  BY <1>1, SameMoves DEF AccountInv, EmptyInv, QuorumInv, BeforeMoves
<1>3. AwayIsKnown' /\ ReturnSees'
  BY <1>1 DEF AwayIsKnown, ReturnSees
<1>4. BeganAtHome'
  BY <1>1 DEF AccountInv, BeganAtHome, Current
<1>5. AccountedFor'
  <2> SUFFICES ASSUME NEW g \in Guest, Displaced(g) PROVE g \in said
    BY <1>1 DEF AccountedFor, Displaced
  <2>1. CASE phase = "return" /\ todo = {}
    BY <2>1, ReturnedOrNamed
  <2>2. CASE phase = "verify"
    <3>1. moves = {}
      BY <2>2 DEF AccountInv, MovesFit, EmptyInv, PhaseFits
    <3> QED
      BY <2>2, <3>1, DisplacedIsKnown
  <2> QED
    BY <1>1, <2>1, <2>2
<1> QED
  BY <1>2, <1>3, <1>4, <1>5 DEF AccountInv

LEMMA NextAccount == AccountInv /\ [Next]_vars => AccountInv'
<1> SUFFICES ASSUME AccountInv, [Next]_vars PROVE AccountInv'
  OBVIOUS
<1> USE DEF cluster, evac, record, history
<1>0. EmptyInv /\ EmptyInv' /\ PhaseFits /\ guest \in [Guest -> {"running", "shut", "dead"}]
  BY NextEmpty DEF AccountInv, EmptyInv, QuorumInv, TypeOK
<1>1. CASE Preflight \/ Approve \/ WindowOpen
  <2>1. /\ UNCHANGED <<plan, at, place, guest, moves, returned, said>>
        /\ phase \in BeforeMoves /\ phase' \in {"approve", "evacuate", "window", "update"}
    BY <1>1 DEF Preflight, Approve, WindowOpen, Begin, StartUpdate, BeforeMoves
  <2> QED
    BY <1>0, <2>1, NobodyMoved DEF BeforeMoves
<1>2. CASE Assess \/ Emptied \/ UpdateDone \/ RebootDone \/ Validate
  <2>1. /\ UNCHANGED <<plan, at, place, guest, moves, returned, said>>
        /\ phase \notin {"return", "over"} /\ phase' # "over"
        /\ phase' \in {"moving", "update", "reboot", "validate", "verify", "return"}
        /\ phase' = "moving" => phase = "evacuate"
        /\ phase' = "verify" => ~ Rolling
        /\ phase' = "return" => todo' = {m.guest : m \in {x \in moves : x.group = at}}
    BY <1>2 DEF Assess, Emptied, StartUpdate, UpdateDone, RebootDone, Validate
  <2> QED
    BY <1>0, <2>1, NobodyMoved DEF BeforeMoves
<1>3. CASE \/ PreflightFails \/ WindowClosed \/ ValidateFails \/ Reject
           \/ \E error \in {"step", "other", "cancelled"} : EvacuationFails(error)
           \/ \E error \in {"other", "cancelled"} : Interrupted(error)
  <2>1. UNCHANGED <<place, guest>> /\ phase # "over"
    BY <1>3 DEF PreflightFails, WindowClosed, ValidateFails, Reject, EvacuationFails, Interrupted
  <2>2. \E error \in {"step", "window", "other", "cancelled"} :
          Stop(error) /\ (error = "window" => phase \in {"window", "evacuate"})
    BY <1>3 DEF PreflightFails, WindowClosed, ValidateFails, Reject, EvacuationFails, Interrupted
  <2> QED
    BY <1>0, <2>1, <2>2, StopAccounts
<1>4. CASE \E g \in Guest : ShutDown(g) \/ \E to \in Node : MoveAway(g, to)
  BY <1>0, <1>4, EvacuationAccounts
<1>5. CASE \E m \in moves : LeaveThere(m) \/ BringBack(m) \/ StartAgain(m)
  BY <1>0, <1>5, ReturnAccounts
<1>6. CASE NextGroup \/ Succeed
  BY <1>0, <1>6, NextGroupAccounts, SucceedAccounts
<1>7. CASE UNCHANGED vars \/ \E n \in Node : GoDown(n) \/ ComeUp(n) \/ Outage(n)
  <2>1. UNCHANGED <<plan, phase, at, todo, place, moves, returned, said, outcome>>
    BY <1>7 DEF vars, GoDown, ComeUp, Outage
  <2>2. \A g \in Guest : guest'[g] = "shut" => guest[g] = "shut"
    BY <1>0, <1>7 DEF vars, GoDown, ComeUp, Outage, FailWith
  <2> QED
    BY <1>0, <2>1, <2>2, NobodyMoved
<1>8. ASSUME NEW n \in Node, Work(n) PROVE AccountInv'
  <2>1. UNCHANGED <<place, guest>>
    BY <1>8 DEF Work, BeginUpgrade, FinishUpgrade, NoReboot, LookAtQuorum, OrderReboot,
                SeenBack, TaskFails
  <2>2. \/ UNCHANGED <<plan, phase, at, todo, moves, returned, said, outcome>>
        \/ phase # "over" /\ \E error \in {"step", "other", "cancelled"} : Stop(error)
    BY <1>8 DEF Work, BeginUpgrade, FinishUpgrade, NoReboot, LookAtQuorum, OrderReboot,
                SeenBack, TaskFails
  <2> QED
    BY <1>0, <2>1, <2>2, NobodyMoved, StopAccounts
<1>9. ASSUME NEW g \in Guest, Land(g) PROVE AccountInv'
  <2>1. /\ phase = "over" /\ outcome \in {"FAILED", "CANCELLED"}
        /\ UNCHANGED <<plan, phase, at, todo, moves, returned, said, outcome>>
    BY <1>0, <1>9 DEF Land, EmptyInv, DriftsAlone
  <2>2. MovesFit'
    BY <2>1, SameMoves DEF AccountInv, EmptyInv, QuorumInv, BeforeMoves
  <2>3. AwayIsKnown' /\ ReturnSees' /\ AccountedFor' /\ BeganAtHome'
    BY <2>1 DEF AwayIsKnown, ReturnSees, AccountedFor, AccountInv, BeganAtHome, Current
  <2> QED
    BY <1>0, <2>2, <2>3 DEF AccountInv
<1> QED
  BY <1>1, <1>2, <1>3, <1>4, <1>5, <1>6, <1>7, <1>8, <1>9 DEF Next, Playbook

\* A job that succeeds, or stops on a failure of its own after the first group, has named
\* every guest it has not put back: for every plan, also when groups empty onto each
\* other and a guest is moved more than once.
THEOREM DisplacedAreNamed == Spec => []AccountedFor
<1>1. AccountInv => AccountedFor
  BY DEF AccountInv
<1> QED
  BY <1>1, InitAccount, NextAccount, PTL DEF Spec
\* Two guests that a rule keeps apart, and that were apart when the job began.
Rivals(g, h) ==
  /\ g # h /\ Home[g] # Home[h]
  /\ \E r \in Rules : r.kind = "KEEP_APART" /\ g \in r.guests /\ h \in r.guests
RivalsApart ==
  \A g, h \in Guest :
    Rivals(g, h) /\ guest[g] = "running" /\ guest[h] = "running" => place[g] # place[h]

\* The picture of an evacuation is right about all that are not still to be seen to, and
\* those are on the group's nodes.
PictureFits ==
  phase = "moving" =>
    \A g \in Guest : IF g \in todo THEN place[g] \in Here
                     ELSE guest[g] = "running" => view[g] = place[g]

\* The group's moves lead away from it, rivals left different nodes, and a guest that
\* was shut down is still where it was.
MovesApart ==
  /\ \A m \in moves : Current(m) => m.from \in Here /\ m.to \notin Here
  /\ \A m, k \in moves : Current(m) /\ Current(k) /\ Rivals(m.guest, k.guest) => m.from # k.from
  /\ phase = "moving" =>
       \A m \in moves : \A g \in todo :
         Current(m) /\ Rivals(m.guest, g) /\ guest[g] = "running" => m.from # place[g]
  /\ phase # "over" => \A m \in moves : Current(m) /\ m.to = Nowhere => place[m.guest] = m.from

\* In a return, whoever runs on a node of the group came back to it.
BackOnTheirs ==
  phase = "return" =>
    \A g \in Guest : guest[g] = "running" /\ place[g] \in Here =>
      \E m \in moves : Current(m) /\ m.guest = g /\ m.from = place[g]

\* Where a migration nobody waits for ends, there is no rival.
DriftsApart ==
  \A g, h \in Guest :
    drifting[g] # Nowhere /\ Rivals(g, h) /\ guest[h] = "running" => place[h] # drifting[g]

Apart == RivalsApart /\ PictureFits /\ MovesApart /\ BackOnTheirs /\ DriftsApart
ApartInv == AccountInv /\ Apart

LEMMA InitApart == Init => ApartInv
<1> SUFFICES ASSUME Init PROVE ApartInv
  OBVIOUS
<1>1. /\ phase = "preflight" /\ moves = {} /\ place = Home
      /\ \A g \in Guest : drifting[g] = Nowhere
  BY DEF Init
<1>2. RivalsApart
  BY <1>1 DEF RivalsApart, Rivals
<1> QED
  BY <1>1, <1>2, InitAccount
  DEF ApartInv, Apart, PictureFits, MovesApart, Current, BackOnTheirs, DriftsApart

\* What ApartInv says of types.
LEMMA ApartTypes ==
  ApartInv => /\ TypeOK /\ at \in Nat \ {0} /\ Nowhere \notin Node /\ moves \subseteq Move
              /\ place \in [Guest -> Node] /\ guest \in [Guest -> {"running", "shut", "dead"}]
              /\ drifting \in [Guest -> Node \union {Nowhere}]
              /\ view \in [Guest -> Node \union {Nowhere}]
BY RollingAssumption DEF ApartInv, AccountInv, EmptyInv, QuorumInv, TypeOK

\* Nobody is moved or started: only the phase may bring something new.
LEMMA NobodyNears ==
  ASSUME ApartInv, UNCHANGED <<plan, at, place, moves, drifting>>,
         \A g \in Guest : guest'[g] = "running" => guest[g] = "running",
         phase' = "moving" => phase = "moving" /\ UNCHANGED <<todo, view>>,
         phase' = "return" => phase \in {"validate", "return"},
         phase = "over" => phase' = "over"
  PROVE  Apart'
<1>1. Here' = Here /\ \A m \in moves : Current(m)' <=> Current(m)
  BY DEF Here, Current
<1> HIDE DEF Here, Current
<1>2. RivalsApart' /\ DriftsApart'
  BY DEF ApartInv, Apart, RivalsApart, DriftsApart
<1>3. PictureFits'
  BY <1>1 DEF ApartInv, Apart, PictureFits
<1>4. MovesApart'
  <2>1. phase' = "moving" =>
          \A m \in moves : \A g \in todo' :
            Current(m) /\ Rivals(m.guest, g) /\ guest'[g] = "running" => m.from # place[g]
    <3> SUFFICES ASSUME phase' = "moving", NEW m \in moves, NEW g \in todo', Current(m),
                        Rivals(m.guest, g), guest'[g] = "running"
                 PROVE  m.from # place[g]
      OBVIOUS
    <3>1. g \in todo /\ g \in Guest /\ phase = "moving"
      BY ApartTypes DEF TypeOK
    <3> QED
      BY <3>1 DEF ApartInv, Apart, MovesApart
  <2>2. phase' # "over" => phase # "over"
    OBVIOUS
  <2> QED
    BY <1>1, <2>1, <2>2 DEF ApartInv, Apart, MovesApart
<1>5. BackOnTheirs'
  <2>1. CASE phase = "validate"
    <3>1. Rolling /\ Here \subseteq Node /\ TypeOK
      BY <2>1, HereIsNodes, ApartTypes DEF ApartInv, AccountInv, EmptyInv, PhaseFits
    <3>2. \A n \in Here : RunningOn({n}) = {}
      BY <2>1, <3>1 DEF ApartInv, AccountInv, EmptyInv, Vacant, Busy, Vacated
    <3>3. \A g \in Guest : ~ (guest[g] = "running" /\ place[g] \in Here)
      BY <3>2 DEF RunningOn
    <3> QED
      BY <1>1, <3>3 DEF BackOnTheirs
  <2>2. CASE phase # "validate"
    BY <1>1, <2>2 DEF ApartInv, Apart, BackOnTheirs
  <2> QED
    BY <2>1, <2>2
<1> QED
  BY <1>2, <1>3, <1>4, <1>5 DEF Apart

\* The evacuation begins with a picture of who stays, and no moves yet.
LEMMA AssessApart == ApartInv /\ Assess => Apart'
<1> SUFFICES ASSUME ApartInv, Assess PROVE Apart'
  OBVIOUS
<1>0. at \in Nat
  BY ApartTypes
<1>1. /\ phase = "evacuate" /\ phase' = "moving"
      /\ UNCHANGED <<plan, at, place, guest, moves, drifting>> /\ Here' = Here
  BY DEF Assess, cluster, record, Here
<1>2. todo' = RunningOn(Here) /\ view' = Without(Positions, RunningOn(Here))
  BY DEF Assess
<1>3. \A m \in moves : ~ Current(m)'
  BY <1>0, <1>1 DEF ApartInv, AccountInv, MovesFit, BeforeMoves, Current
<1> HIDE DEF Here, Current
<1>4. PictureFits'
  <2> SUFFICES ASSUME NEW g \in Guest
               PROVE  IF g \in todo' THEN place[g] \in Here
                      ELSE guest[g] = "running" => view'[g] = place[g]
    BY <1>1 DEF PictureFits
  <2> QED
    BY <1>2 DEF RunningOn, Without, Positions
<1>5. RivalsApart' /\ DriftsApart'
  BY <1>1 DEF ApartInv, Apart, RivalsApart, DriftsApart
<1>6. MovesApart' /\ BackOnTheirs'
  BY <1>1, <1>3 DEF MovesApart, BackOnTheirs
<1> QED
  BY <1>4, <1>5, <1>6 DEF Apart

\* Where a guest may go in an evacuation there is no rival that runs: not among those
\* that stay, nor those that went before it, nor those still to leave.
LEMMA TargetIsClear ==
  ASSUME ApartInv, phase = "moving", NEW g \in Guest, NEW to \in Targets(g),
         NEW h \in Guest, Rivals(g, h), guest[h] = "running"
  PROVE  place[h] # to
<1>1. to \notin Here /\ ~ Forbids(view, g, to)
  BY DEF Targets
<1>2. CASE h \in todo
  BY <1>1, <1>2 DEF ApartInv, Apart, PictureFits
<1>3. CASE h \notin todo
  <2>1. view[h] = place[h] /\ place[h] # Nowhere
    BY <1>3, ApartTypes DEF ApartInv, Apart, PictureFits
  <2>2. PICK r \in Rules : r.kind = "KEEP_APART" /\ g \in r.guests /\ h \in r.guests
    BY DEF Rivals
  <2>3. h \in {o \in r.guests \ {g} : view[o] # Nowhere}
    BY <2>1, <2>2 DEF Rivals
  <2> QED
    BY <1>1, <2>1, <2>2, <2>3 DEF Forbids
<1> QED
  BY <1>2, <1>3

LEMMA EvacuationApart ==
  ASSUME ApartInv, NEW g \in Guest, ShutDown(g) \/ \E to \in Node : MoveAway(g, to)
  PROVE  Apart'
<1>0. /\ at \in Nat \ {0} /\ Nowhere \notin Node /\ moves \subseteq Move
      /\ place \in [Guest -> Node] /\ guest \in [Guest -> {"running", "shut", "dead"}]
      /\ view \in [Guest -> Node \union {Nowhere}]
  BY ApartTypes
<1>1. PICK to \in Node \union {Nowhere} :
        /\ moves' = moves \union {Entry(g, to)}
        /\ \/ /\ to = Nowhere /\ UNCHANGED <<place, view>>
              /\ guest' = [guest EXCEPT ![g] = "shut"]
           \/ /\ to # Nowhere /\ to \in Targets(g) /\ UNCHANGED guest
              /\ place' = [place EXCEPT ![g] = to] /\ view' = [view EXCEPT ![g] = to]
  BY <1>0 DEF ShutDown, MoveAway
<1>2. /\ phase = "moving" /\ g \in todo /\ todo' = todo \ {g} /\ guest[g] = "running"
      /\ UNCHANGED <<plan, at, phase, drifting>> /\ Here' = Here
  BY DEF ShutDown, MoveAway, Here
<1>3. PICK e : e = Entry(g, to)
  OBVIOUS
<1>4. e.guest = g /\ e.group = at /\ e.to = to /\ e.from = place[g]
  BY <1>3 DEF Entry
<1>5. \A m \in moves' : Current(m)' => (m \in moves /\ Current(m)) \/ m = e
  BY <1>1, <1>2, <1>3 DEF Current
<1>6. \A m \in moves : Current(m) => m.guest # g /\ m.guest \in Guest
  BY <1>0, <1>2 DEF ApartInv, AccountInv, MovesFit, Move
<1>7. Here \subseteq Node /\ to \notin Here /\ place[g] \in Here
  BY <1>0, <1>1, <1>2, HereIsNodes, ApartTypes DEF ApartInv, Apart, PictureFits, Targets
<1>8. /\ \A h \in Guest : h # g => /\ place'[h] = place[h] /\ guest'[h] = guest[h]
                                   /\ view'[h] = view[h]
      /\ guest'[g] = "running" => place'[g] = to /\ view'[g] = to /\ to \in Targets(g)
  BY <1>0, <1>1
<1> HIDE DEF Here, Current
<1>9. RivalsApart'
  <2> SUFFICES ASSUME NEW a \in Guest, NEW b \in Guest, Rivals(a, b),
                      guest'[a] = "running", guest'[b] = "running"
               PROVE  place'[a] # place'[b]
    BY DEF RivalsApart
  <2>1. CASE a # g /\ b # g
    BY <1>8, <2>1 DEF ApartInv, Apart, RivalsApart
  <2>2. CASE a = g
    <3>1. b # g /\ guest[b] = "running" /\ place'[b] = place[b]
      BY <1>8, <2>2 DEF Rivals
    <3> QED
      BY <1>2, <1>8, <2>2, <3>1, TargetIsClear
  <2>3. CASE b = g
    <3>1. a # g /\ guest[a] = "running" /\ place'[a] = place[a] /\ Rivals(b, a)
      BY <1>8, <2>3 DEF Rivals
    <3> QED
      BY <1>2, <1>8, <2>3, <3>1, TargetIsClear
  <2> QED
    BY <2>1, <2>2, <2>3
<1>10. PictureFits'
  <2> SUFFICES ASSUME NEW h \in Guest
               PROVE  IF h \in todo' THEN place'[h] \in Here
                      ELSE guest'[h] = "running" => view'[h] = place'[h]
    BY <1>2 DEF PictureFits
  <2>1. CASE h = g
    BY <1>2, <1>8, <2>1
  <2>2. CASE h # g
    BY <1>2, <1>8, <2>2 DEF ApartInv, Apart, PictureFits
  <2> QED
    BY <2>1, <2>2
<1>11. MovesApart'
  <2>1. \A m \in moves' : Current(m)' => m.from \in Here /\ m.to \notin Here
    BY <1>4, <1>5, <1>7 DEF ApartInv, Apart, MovesApart
  <2>2. \A m, k \in moves' :
          Current(m)' /\ Current(k)' /\ Rivals(m.guest, k.guest) => m.from # k.from
    <3> SUFFICES ASSUME NEW m \in moves', NEW k \in moves', Current(m)', Current(k)',
                        Rivals(m.guest, k.guest)
                 PROVE  m.from # k.from
      OBVIOUS
    <3>1. CASE m # e /\ k # e
      BY <1>5, <3>1 DEF ApartInv, Apart, MovesApart
    <3>2. CASE m = e /\ k # e
      <4>1. k \in moves /\ Current(k) /\ Rivals(k.guest, g)
        BY <1>4, <1>5, <3>2 DEF Rivals
      <4> QED
        BY <1>2, <1>4, <3>2, <4>1 DEF ApartInv, Apart, MovesApart
    <3>3. CASE m # e /\ k = e
      <4>1. m \in moves /\ Current(m) /\ Rivals(m.guest, g)
        BY <1>4, <1>5, <3>3
      <4> QED
        BY <1>2, <1>4, <3>3, <4>1 DEF ApartInv, Apart, MovesApart
    <3>4. CASE m = e /\ k = e
      BY <3>4 DEF Rivals
    <3> QED
      BY <3>1, <3>2, <3>3, <3>4
  <2>3. \A m \in moves' : \A h \in todo' :
          Current(m)' /\ Rivals(m.guest, h) /\ guest'[h] = "running" => m.from # place'[h]
    <3> SUFFICES ASSUME NEW m \in moves', NEW h \in todo', Current(m)', Rivals(m.guest, h),
                        guest'[h] = "running"
                 PROVE  m.from # place'[h]
      OBVIOUS
    <3>1. h \in todo /\ h # g /\ h \in Guest
      BY <1>2, ApartTypes DEF TypeOK
    <3>2. place'[h] = place[h] /\ guest[h] = "running"
      BY <1>8, <3>1
    <3>3. CASE m = e
      BY <1>2, <1>4, <3>1, <3>2, <3>3 DEF ApartInv, Apart, RivalsApart
    <3>4. CASE m # e
      BY <1>2, <1>5, <3>1, <3>2, <3>4 DEF ApartInv, Apart, MovesApart
    <3> QED
      BY <3>3, <3>4
  <2>4. \A m \in moves' : Current(m)' /\ m.to = Nowhere => place'[m.guest] = m.from
    <3> SUFFICES ASSUME NEW m \in moves', Current(m)', m.to = Nowhere
                 PROVE  place'[m.guest] = m.from
      OBVIOUS
    <3>1. CASE m = e
      BY <1>1, <1>4, <3>1
    <3>2. CASE m # e
      BY <1>2, <1>5, <1>6, <1>8, <3>2 DEF ApartInv, Apart, MovesApart
    <3> QED
      BY <3>1, <3>2
  <2> QED
    BY <1>2, <2>1, <2>2, <2>3, <2>4 DEF MovesApart
<1>12. BackOnTheirs' /\ DriftsApart'
  <2>1. \A h \in Guest : drifting[h] = Nowhere
    BY <1>2 DEF ApartInv, AccountInv, EmptyInv, DriftsAlone
  <2> QED
    BY <1>2, <2>1 DEF BackOnTheirs, DriftsApart
<1> QED
  BY <1>9, <1>10, <1>11, <1>12 DEF Apart

\* A migration is left to itself: it goes to where it was allowed to.
LEMMA DriftApart == \A error : ApartInv /\ EvacuationFails(error) => Apart'
<1> SUFFICES ASSUME NEW error, ApartInv, EvacuationFails(error) PROVE Apart'
  OBVIOUS
<1>1. /\ phase = "moving" /\ phase' = "over" /\ UNCHANGED <<plan, at, place, guest, moves>>
      /\ Here' = Here
  BY DEF EvacuationFails, Stop, Here
<1>2. \A m \in moves : Current(m)' <=> Current(m)
  BY <1>1 DEF Current
<1>3. \A g \in Guest : drifting[g] = Nowhere
  BY <1>1 DEF ApartInv, AccountInv, EmptyInv, DriftsAlone
<1> HIDE DEF Here, Current
<1>4. \A g \in Guest : drifting'[g] # Nowhere => drifting'[g] \in Targets(g)
  BY <1>3, ApartTypes DEF EvacuationFails, TypeOK
<1>5. DriftsApart'
  BY <1>1, <1>4, TargetIsClear DEF DriftsApart
<1>6. RivalsApart' /\ PictureFits' /\ BackOnTheirs'
  BY <1>1 DEF ApartInv, Apart, RivalsApart, PictureFits, BackOnTheirs
<1>7. MovesApart'
  BY <1>1, <1>2 DEF ApartInv, Apart, MovesApart
<1> QED
  BY <1>5, <1>6, <1>7 DEF Apart

\* ... and when it lands, it is the only one that could.
LEMMA LandApart == \A g \in Guest : ApartInv /\ Land(g) => Apart'
<1> SUFFICES ASSUME NEW g \in Guest, ApartInv, Land(g) PROVE Apart'
  OBVIOUS
<1>0. place \in [Guest -> Node] /\ drifting \in [Guest -> Node \union {Nowhere}]
  BY ApartTypes
<1>1. /\ drifting[g] # Nowhere /\ UNCHANGED <<plan, at, guest, moves, phase>> /\ Here' = Here
      /\ place' = [place EXCEPT ![g] = drifting[g]]
      /\ drifting' = [drifting EXCEPT ![g] = Nowhere]
  BY DEF Land, record, Here
<1>2. phase = "over" /\ \A h \in Guest : drifting'[h] = Nowhere
  BY <1>0, <1>1 DEF ApartInv, AccountInv, EmptyInv, DriftsAlone
<1>3. \A m \in moves : Current(m)' <=> Current(m)
  BY <1>1 DEF Current
<1> HIDE DEF Here, Current
<1>4. RivalsApart'
  <2> SUFFICES ASSUME NEW a \in Guest, NEW b \in Guest, Rivals(a, b),
                      guest[a] = "running", guest[b] = "running"
               PROVE  place'[a] # place'[b]
    BY <1>1 DEF RivalsApart
  <2>1. a # b /\ Rivals(b, a)
    BY DEF Rivals
  <2> QED
    BY <1>0, <1>1, <2>1 DEF ApartInv, Apart, RivalsApart, DriftsApart
<1>5. DriftsApart' /\ PictureFits' /\ BackOnTheirs'
  BY <1>1, <1>2 DEF DriftsApart, PictureFits, BackOnTheirs
<1>6. MovesApart'
  BY <1>1, <1>2, <1>3 DEF ApartInv, Apart, MovesApart
<1> QED
  BY <1>4, <1>5, <1>6 DEF Apart

\* A guest that is moved back goes where no rival runs; one that is started again is
\* where it was, and its rivals were, and are, elsewhere.
LEMMA ReturnApart ==
  ASSUME ApartInv, NEW k \in moves, BringBack(k) \/ StartAgain(k)
  PROVE  Apart'
<1>0. /\ Nowhere \notin Node /\ k.guest \in Guest /\ k.from \in Node
      /\ place \in [Guest -> Node] /\ guest \in [Guest -> {"running", "shut", "dead"}]
  BY ApartTypes DEF Move
<1>1. /\ phase = "return" /\ Current(k)
      /\ UNCHANGED <<plan, at, phase, moves, drifting>> /\ Here' = Here
      /\ \A m \in moves : Current(m)' <=> Current(m)
  BY DEF BringBack, StartAgain, Current, Here
<1>2. /\ \A h \in Guest : h # k.guest => place'[h] = place[h] /\ guest'[h] = guest[h]
      /\ guest'[k.guest] = "running"
  BY <1>0 DEF BringBack, StartAgain, Stays
<1>3. \A m \in moves : Current(m) /\ m.guest = k.guest => m = k
  BY <1>1 DEF ApartInv, AccountInv, MovesFit, Current
<1>4. \A g \in Guest : drifting[g] = Nowhere
  BY <1>1 DEF ApartInv, AccountInv, EmptyInv, DriftsAlone
<1>5. place'[k.guest] = k.from
  <2>1. CASE BringBack(k)
    BY <1>0, <2>1 DEF BringBack
  <2>2. CASE StartAgain(k)
    BY <1>1, <2>2 DEF StartAgain, ApartInv, Apart, MovesApart
  <2> QED
    BY <2>1, <2>2
<1>6. ASSUME NEW b \in Guest, Rivals(k.guest, b), guest[b] = "running" PROVE place[b] # k.from
  <2>1. CASE BringBack(k)
    <3> DEFINE v == Without(Positions, {k.guest})
    <3>1. ~ Forbids(v, k.guest, k.from)
      BY <2>1 DEF BringBack, Stays
    <3>2. v[b] = place[b] /\ place[b] # Nowhere
      BY <1>0, <1>6 DEF Without, Positions, Rivals
    <3>3. PICK r \in Rules : r.kind = "KEEP_APART" /\ k.guest \in r.guests /\ b \in r.guests
      BY <1>6 DEF Rivals
    <3> HIDE DEF v
    <3>4. b \in {o \in r.guests \ {k.guest} : v[o] # Nowhere}
      BY <1>6, <3>2, <3>3 DEF Rivals
    <3> QED
      BY <3>1, <3>2, <3>3, <3>4 DEF Forbids
  <2>2. CASE StartAgain(k)
    <3> SUFFICES ASSUME place[b] = k.from PROVE FALSE
      OBVIOUS
    <3>1. k.from \in Here
      BY <1>1 DEF ApartInv, Apart, MovesApart
    <3>2. PICK m \in moves : Current(m) /\ m.guest = b /\ m.from = place[b]
      BY <1>1, <1>6, <3>1 DEF ApartInv, Apart, BackOnTheirs
    <3> QED
      BY <1>1, <1>6, <3>2 DEF ApartInv, Apart, MovesApart
  <2> QED
    BY <2>1, <2>2
<1> HIDE DEF Here, Current
<1>7. RivalsApart'
  <2> SUFFICES ASSUME NEW a \in Guest, NEW b \in Guest, Rivals(a, b),
                      guest'[a] = "running", guest'[b] = "running"
               PROVE  place'[a] # place'[b]
    BY DEF RivalsApart
  <2>1. a # b /\ Rivals(b, a)
    BY DEF Rivals
  <2>2. CASE a # k.guest /\ b # k.guest
    BY <1>2, <2>2 DEF ApartInv, Apart, RivalsApart
  <2>3. CASE a = k.guest \/ b = k.guest
    BY <1>2, <1>5, <1>6, <2>1, <2>3
  <2> QED
    BY <2>2, <2>3
<1>8. MovesApart'
  <2>1. \A m \in moves : Current(m) /\ m.to = Nowhere => place'[m.guest] = m.from
    <3> SUFFICES ASSUME NEW m \in moves, Current(m), m.to = Nowhere
                 PROVE  place'[m.guest] = m.from
      OBVIOUS
    <3>1. CASE m.guest = k.guest
      BY <1>3, <1>5, <3>1
    <3>2. CASE m.guest # k.guest
      BY <1>1, <1>2, <3>2, ApartTypes DEF ApartInv, Apart, MovesApart, Move
    <3> QED
      BY <3>1, <3>2
  <2> QED
    BY <1>1, <2>1 DEF ApartInv, Apart, MovesApart
<1>9. BackOnTheirs'
  <2> SUFFICES ASSUME NEW g \in Guest, guest'[g] = "running", place'[g] \in Here
               PROVE  \E m \in moves : Current(m) /\ m.guest = g /\ m.from = place'[g]
    BY <1>1 DEF BackOnTheirs
  <2>1. CASE g = k.guest
    BY <1>1, <1>5, <2>1
  <2>2. CASE g # k.guest
    BY <1>1, <1>2, <2>2 DEF ApartInv, Apart, BackOnTheirs
  <2> QED
    BY <2>1, <2>2
<1>10. PictureFits' /\ DriftsApart'
  BY <1>1, <1>4 DEF PictureFits, DriftsApart
<1> QED
  BY <1>7, <1>8, <1>9, <1>10 DEF Apart

LEMMA NextGroupApart == ApartInv /\ NextGroup => Apart'
<1> SUFFICES ASSUME ApartInv, NextGroup PROVE Apart'
  OBVIOUS
<1>1. /\ at' = at + 1 /\ at \in Nat /\ phase' = "evacuate" /\ moves \subseteq Move
      /\ UNCHANGED <<place, guest, drifting, moves>>
  BY ApartTypes DEF NextGroup, cluster, record
<1>2. \A m \in moves : ~ Current(m)'
  BY <1>1 DEF ApartInv, AccountInv, MovesFit, Current, Move
<1> HIDE DEF Current
<1>3. RivalsApart' /\ DriftsApart'
  BY <1>1 DEF ApartInv, Apart, RivalsApart, DriftsApart
<1>4. PictureFits' /\ BackOnTheirs' /\ MovesApart'
  BY <1>1, <1>2 DEF PictureFits, BackOnTheirs, MovesApart
<1> QED
  BY <1>3, <1>4 DEF Apart

LEMMA NextApart == ApartInv /\ [Next]_vars => ApartInv'
<1> SUFFICES ASSUME ApartInv, [Next]_vars PROVE Apart'
  BY NextAccount DEF ApartInv
<1> USE DEF cluster, evac, record, history
<1>0. guest \in [Guest -> {"running", "shut", "dead"}]
  BY ApartTypes
<1>1. CASE Preflight \/ Approve \/ WindowOpen \/ Emptied \/ UpdateDone \/ RebootDone
           \/ Validate \/ Succeed
  <2>1. /\ UNCHANGED <<plan, at, place, guest, moves, drifting>>
        /\ phase # "over" /\ phase' # "moving" /\ (phase' = "return" => phase = "validate")
    BY <1>1 DEF Preflight, Approve, WindowOpen, Emptied, UpdateDone, RebootDone, Validate,
                Succeed, Begin, StartUpdate
  <2> QED
    BY <2>1, NobodyNears
<1>2. CASE \/ PreflightFails \/ WindowClosed \/ ValidateFails \/ Reject
           \/ \E error \in {"other", "cancelled"} : Interrupted(error)
  <2>1. UNCHANGED <<plan, at, place, guest, moves, drifting>> /\ phase' = "over"
    BY <1>2 DEF PreflightFails, WindowClosed, ValidateFails, Reject, Interrupted, Stop
  <2> QED
    BY <2>1, NobodyNears
<1>3. CASE \E error \in {"step", "other", "cancelled"} : EvacuationFails(error)
  BY <1>3, DriftApart
<1>4. CASE Assess
  BY <1>4, AssessApart
<1>5. CASE \E g \in Guest : ShutDown(g) \/ \E to \in Node : MoveAway(g, to)
  BY <1>5, EvacuationApart
<1>6. CASE \E m \in moves : LeaveThere(m) \/ BringBack(m) \/ StartAgain(m)
  <2>1. CASE \E m \in moves : LeaveThere(m)
    <3>1. UNCHANGED <<plan, at, place, guest, moves, drifting, phase>> /\ phase = "return"
      BY <2>1 DEF LeaveThere
    <3> QED
      BY <3>1, NobodyNears
  <2>2. CASE \E m \in moves : BringBack(m) \/ StartAgain(m)
    BY <2>2, ReturnApart
  <2> QED
    BY <1>6, <2>1, <2>2
<1>7. CASE NextGroup
  BY <1>7, NextGroupApart
<1>8. CASE \E g \in Guest : Land(g)
  BY <1>8, LandApart
<1>9. CASE UNCHANGED vars \/ \E n \in Node : GoDown(n) \/ ComeUp(n) \/ Outage(n)
  <2>1. UNCHANGED <<plan, at, place, moves, drifting, phase, todo, view>>
    BY <1>9 DEF vars, GoDown, ComeUp, Outage
  <2>2. \A g \in Guest : guest'[g] = "running" => guest[g] = "running"
    BY <1>9 DEF vars, GoDown, ComeUp, Outage, FailWith
  <2> QED
    BY <2>1, <2>2, NobodyNears
<1>10. ASSUME NEW n \in Node, Work(n) PROVE Apart'
  <2>1. /\ UNCHANGED <<plan, at, place, guest, moves, drifting, todo, view>>
        /\ phase' \in {phase, "over"}
    BY <1>10 DEF Work, BeginUpgrade, FinishUpgrade, NoReboot, LookAtQuorum, OrderReboot,
                 SeenBack, TaskFails, Stop
  <2> QED
    BY <2>1, NobodyNears
<1> QED
  BY <1>1, <1>2, <1>3, <1>4, <1>5, <1>6, <1>7, <1>8, <1>9, <1>10 DEF Next, Playbook

\* Two guests that a rule keeps apart, and that are apart when an update begins, never run
\* on one node by what it does: neither by a move, a return or a start, nor by a migration
\* that arrives after the job has stopped.
THEOREM RivalsStayApart == Spec => []RivalsApart
<1>1. ApartInv => RivalsApart
  BY DEF ApartInv, Apart
<1> QED
  BY <1>1, InitApart, NextApart, PTL DEF Spec

\* So where the rules are kept when the update begins, they are kept throughout.
THEOREM RulesAreKept ==
  ASSUME \A r \in Rules : r.kind = "KEEP_APART" =>
           \A g, h \in r.guests : g # h => Home[g] # Home[h]
  PROVE  Spec => []ApartStaysApart
<1>1. Rules \subseteq Rule
  BY RollingAssumption
<1>2. RivalsApart => ApartStaysApart
  BY <1>1 DEF RivalsApart, Rivals, ApartStaysApart, Rule
<1> QED
  BY <1>2, RivalsStayApart, PTL
=============================================================================
