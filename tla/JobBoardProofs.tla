---------------------------- MODULE JobBoardProofs ----------------------------
(***************************************************************************)
(* What the board guarantees for every set of rows and keys.               *)
(***************************************************************************)
EXTENDS JobBoard, TLAPS

\* Moves keep to the ten statuses, and no move starts from a terminal one or from a
\* row that does not exist.
LEMMA MovesAreActive ==
  ASSUME NEW from, NEW to, canTransition(from, to)
  PROVE  from \in ACTIVE_JOB_STATUSES /\ to \in JOB_STATUSES
BY DEF canTransition, TRANSITIONS, ACTIVE_JOB_STATUSES, TERMINAL_JOB_STATUSES, JOB_STATUSES

\* The board's type: jobs.status is one of the ten values once the row exists.
THEOREM BoardType == Spec => []TypeOK
<1>1. Init => TypeOK
  BY DEF Init, TypeOK
<1>2. TypeOK /\ [Next]_status => TypeOK'
  <2> SUFFICES ASSUME TypeOK, [Next]_status PROVE TypeOK'
    OBVIOUS
  <2>1. CASE UNCHANGED status
    BY <2>1 DEF TypeOK
  <2>2. ASSUME NEW j \in Job, Insert(j) PROVE TypeOK'
    BY <2>2 DEF Insert, TypeOK, JOB_STATUSES, ACTIVE_JOB_STATUSES
  <2>3. ASSUME NEW j \in Job, NEW to \in JOB_STATUSES, Move(j, to) PROVE TypeOK'
    BY <2>3 DEF Move, TypeOK
  <2> QED
    BY <2>1, <2>2, <2>3 DEF Next
<1> QED
  BY <1>1, <1>2, PTL DEF Spec

\* No step of the board moves a row out of a terminal status.
THEOREM BoardTerminalIsFinal == Spec => TerminalIsFinal
<1>1. ASSUME [Next]_status
      PROVE  [\A j \in Job : status[j] \in TERMINAL_JOB_STATUSES => status'[j] = status[j]]_status
  <2> SUFFICES ASSUME Next, NEW j \in Job, status[j] \in TERMINAL_JOB_STATUSES
               PROVE  status'[j] = status[j]
    BY <1>1
  <2>1. status[j] \notin ACTIVE_JOB_STATUSES /\ status[j] # "NONE"
    BY DEF TERMINAL_JOB_STATUSES, ACTIVE_JOB_STATUSES
  <2>2. ASSUME NEW i \in Job, Insert(i) PROVE status'[j] = status[j]
    BY <2>1, <2>2 DEF Insert
  <2>3. ASSUME NEW i \in Job, NEW to \in JOB_STATUSES, Move(i, to) PROVE status'[j] = status[j]
    BY <2>1, <2>3, MovesAreActive DEF Move
  <2> QED
    BY <2>2, <2>3 DEF Next
<1> QED
  BY <1>1, PTL DEF Spec, TerminalIsFinal

\* At most one active row per key.  Inductive with the type alone: an insert asks for
\* a free key, and a move starts from an active row, which already had the key.
THEOREM BoardOneActivePerKey == Spec => []OneActivePerKey
<1>1. Init => OneActivePerKey
  BY DEF Init, OneActivePerKey, ACTIVE_JOB_STATUSES, Rivals
<1>2. TypeOK /\ OneActivePerKey /\ [Next]_status => OneActivePerKey'
  <2> SUFFICES ASSUME TypeOK, OneActivePerKey, [Next]_status PROVE OneActivePerKey'
    OBVIOUS
  <2>1. CASE UNCHANGED status
    BY <2>1 DEF OneActivePerKey
  <2>2. ASSUME NEW j \in Job, Insert(j) PROVE OneActivePerKey'
    BY <2>2 DEF Insert, KeyFree, OneActivePerKey, Rivals, TypeOK
  <2>3. ASSUME NEW j \in Job, NEW to \in JOB_STATUSES, Move(j, to) PROVE OneActivePerKey'
    <3>1. status[j] \in ACTIVE_JOB_STATUSES
      BY <2>3, MovesAreActive DEF Move
    <3> QED
      BY <2>3, <3>1 DEF Move, OneActivePerKey, Rivals, TypeOK
  <2> QED
    BY <2>1, <2>2, <2>3 DEF Next
<1> QED
  BY <1>1, <1>2, BoardType, PTL DEF Spec
=============================================================================
