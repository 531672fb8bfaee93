------------------------------ MODULE EventLog ------------------------------
(***************************************************************************)
(* What a browser that watches a job is promised: the job's events, each   *)
(* at most once and in the order of their numbers, and an end that comes   *)
(* after the event that ended the job.  JobStream.tla is shown to          *)
(* implement this.                                                         *)
(***************************************************************************)
EXTENDS Naturals

VARIABLES
  count,   \* events written so far; they are numbered from 1
  final,   \* the number of the event that ended the job, 0 before
  shown,   \* the events the browser has shown
  closed   \* the browser was told that nothing more will come

view == <<count, final, shown, closed>>

Init == count = 0 /\ final = 0 /\ shown = {} /\ closed = FALSE

Append ==
  /\ count' = count + 1
  /\ final' \in {final} \union (IF final = 0 THEN {count'} ELSE {})
  /\ UNCHANGED <<shown, closed>>

\* Some events are shown, upwards, and the browser may be told that it has seen the end.
\* Events may have been passed over.
Show(S, end) ==
  /\ ~ closed
  /\ \A s \in S : s \in 1 .. count /\ \A t \in shown : t < s
  /\ shown' = shown \union S
  /\ closed' = end
  /\ end => final # 0 /\ \E s \in shown' : s >= final
  /\ UNCHANGED <<count, final>>

Next == Append \/ \E S \in SUBSET (1 .. count), end \in BOOLEAN : Show(S, end)

Spec == Init /\ [][Next]_view
=============================================================================
