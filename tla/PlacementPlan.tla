--------------------------- MODULE PlacementPlan ---------------------------
\* The decisions about placement (packages/shared/src/placement.ts): which rules the places of
\* the running guests do not meet, where a guest may go, and the moves that are planned.
\*
\* `at` maps each running guest to its node; a guest that does not run is in no place. Memory
\* is left out: which of the nodes a rule allows has the room and is chosen is left open, and
\* so is whether a guest can move at all.
EXTENDS Naturals, Sequences, FiniteSets, SequencesExt

CONSTANT Node

Members(r) == {r.guests[i] : i \in DOMAIN r.guests}

\* A preference that need not be met.
Soft(r) == r.kind = "PREFER_NODES" /\ ~r.strict

Violated(r, at) ==
  LET running == Members(r) \cap DOMAIN at IN
  /\ r.enabled
  /\ \/ r.kind = "KEEP_APART" /\ \E v, w \in running : v # w /\ at[v] = at[w]
     \/ r.kind = "KEEP_TOGETHER" /\ \E v, w \in running : at[v] # at[w]
     \/ r.kind = "PREFER_NODES" /\ \E v \in running : at[v] \notin r.nodes

\* Whether rule r forbids guest v on node n, wherever v is now.
Forbids(r, at, v, n) ==
  LET others == (Members(r) \cap DOMAIN at) \ {v} IN
  /\ r.enabled /\ v \in Members(r)
  /\ \/ r.kind = "KEEP_APART" /\ \E w \in others : at[w] = n
     \/ r.kind = "KEEP_TOGETHER" /\ others # {} /\ \A w \in others : at[w] # n
     \/ r.kind = "PREFER_NODES" /\ r.strict /\ n \notin r.nodes

AllowedAny(rules, at, v) == Node \ {at[v]}  \* mutant: the rules are not asked

Allowed(rules, at, v) == {n \in Node \ {at[v]} : \A r \in rules : ~Forbids(r, at, v, n)}

\* No node that some preference for v leaves out ranks as high as one they all name.
Rank(rules, v, n) ==
  IF \E r \in rules : /\ r.enabled /\ r.kind = "PREFER_NODES"
                      /\ v \in Members(r) /\ n \notin r.nodes
    THEN 1 ELSE 0

\* Two rules that cannot both hold.
Contradicts(r, s) ==
  /\ {r.kind, s.kind} = {"KEEP_APART", "KEEP_TOGETHER"} /\ s.enabled
  /\ Cardinality(Members(r) \cap Members(s)) >= 2

-----------------------------------------------------------------------------
\* A plan in the making: the places as planned, the moves, whether something cannot be met,
\* and whether a guest was planned for twice, which leaves one move with a new target.
Planned(o, v, n) ==
  LET again == \E i \in DOMAIN o.moves : o.moves[i].guest = v IN
  [o EXCEPT
    !.at[v] = n,
    !.moves = IF again THEN [i \in DOMAIN @ |-> IF @[i].guest = v THEN [@[i] EXCEPT !.to = n]
                                                                 ELSE @[i]]
                       ELSE Append(@, [guest |-> v, from |-> o.at[v], to |-> n]),
    !.twice = @ \/ again]

\* `move` within planCorrections.
Attempt(rules, o, v, only) ==
  {[o EXCEPT !.unresolved = TRUE]}
    \cup {Planned(o, v, n) : n \in only \cap Allowed(rules, o.at, v)}

Fetch(rules, o, v, only) == IF o.at[v] \in only THEN {o} ELSE Attempt(rules, o, v, only)

\* The plans that come of trying each guest of s in turn.
Through(Try(_, _), o, s) == FoldLeft(LAMBDA plans, v : UNION {Try(p, v) : p \in plans}, {o}, s)

\* The guests that share a node with one the rule names before them.
Extra(r, at) ==
  {r.guests[i] : i \in {i \in DOMAIN r.guests :
     /\ r.guests[i] \in DOMAIN at
     /\ \E k \in 1..(i - 1) :
          r.guests[k] \in DOMAIN at /\ at[r.guests[k]] = at[r.guests[i]]}}

\* The nodes most of the rule's running guests are on.
Gathering(r, at) ==
  LET on(n) == Cardinality({v \in Members(r) \cap DOMAIN at : at[v] = n})
  IN {n \in Node : \A m \in Node : on(m) <= on(n)}

AfterRule(rules, o, r) ==
  LET running == SelectSeq(r.guests, LAMBDA v : v \in DOMAIN o.at) IN
  CASE r.kind = "KEEP_APART" ->
         UNION {Through(LAMBDA p, v : Attempt(rules, p, v, Node), o, s) :
                  s \in SetToSeqs(Extra(r, o.at))}
    [] r.kind = "KEEP_TOGETHER" ->
         UNION {Through(LAMBDA p, v : Fetch(rules, p, v, {n}), o, running) :
                  n \in Gathering(r, o.at)}
    [] r.kind = "PREFER_NODES" -> Through(LAMBDA p, v : Fetch(rules, p, v, r.nodes), o, running)

Turn(r) == CASE r.kind = "KEEP_APART" -> 0
             [] r.kind = "KEEP_TOGETHER" -> 1
             [] r.kind = "PREFER_NODES" -> IF r.strict THEN 2 ELSE 3

InTurnOf(rules) == {s \in SetToSeqs(rules) :
                      \A i, k \in DOMAIN s : i < k => Turn(s[i]) <= Turn(s[k])}

\* Every outcome of planCorrections for the rules in force.
Corrections(rules, at) ==
  LET start == [at |-> at, moves |-> <<>>, unresolved |-> FALSE, twice |-> FALSE]
      plans(s) == FoldLeft(LAMBDA os, r : UNION {AfterRule(rules, o, r) : o \in os}, {start}, s)
  IN {[moves |-> SelectSeq(o.moves, LAMBDA m : m.from # m.to),
       unresolved |-> o.unresolved, twice |-> o.twice] :
        o \in UNION {plans(s) : s \in InTurnOf(rules)}}

\* Every outcome of planBalance: no move, or one that no rule forbids, to no node that the
\* preferences rank lower.
Balances(rules, at) ==
  LET plan(moves) == [moves |-> moves, unresolved |-> FALSE, twice |-> FALSE]
      better(v) == {n \in Allowed(rules, at, v) : Rank(rules, v, n) <= Rank(rules, v, at[v])}
  IN {plan(<<>>)} \cup
     UNION {{plan(<<[guest |-> v, from |-> at[v], to |-> n]>>) : n \in better(v)} :
              v \in DOMAIN at}
=============================================================================
