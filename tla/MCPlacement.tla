---------------------------- MODULE MCPlacement ----------------------------
\* Instances of Placement: the rules a cluster's person chooses from and the starts.
EXTENDS Placement

CONSTANTS a, b, c, n1, n2, n3, r1, r2, r3, r4

Apart(s) == [kind |-> "KEEP_APART", guests |-> s, nodes |-> {}, strict |-> TRUE, enabled |-> TRUE]
Together(s) == [Apart(s) EXCEPT !.kind = "KEEP_TOGETHER"]
Only(s, nodes) == [Apart(s) EXCEPT !.kind = "PREFER_NODES", !.nodes = nodes]
Prefer(s, nodes) == [Only(s, nodes) EXCEPT !.strict = FALSE]
Off(r) == [r EXCEPT !.enabled = FALSE]

MCChoice == (r1 :> {Apart(<<b, a>>), Off(Apart(<<b, a>>))})
              @@ (r2 :> {Together(<<b, c>>), Apart(<<a, c>>)})
              @@ (r3 :> {Only(<<a>>, {n2}), Prefer(<<a>>, {n2}), Only(<<c>>, {n1}),
                         Together(<<a, b>>)})
              @@ (r4 :> {Prefer(<<a>>, {n3})})

None == [r \in RuleId |-> NoRule]

\* A rule that ticks write on PVE 9, which is changed twice, once of it perhaps in Proxmox.
Written9(changes) ==
  [pve9 |-> TRUE, rules |-> [None EXCEPT ![r1] = Apart(<<b, a>>)], at |-> << >>, open |-> {r1},
   jobs |-> 0, edits |-> changes, byHand |-> 2 - changes, troubles |-> 1]

\* Rules that jobs keep on PVE 8, from every place of the guests up to the names of the nodes.
Kept(x, rs, jobs, changes) ==
  [pve9 |-> FALSE, rules |-> rs @@ None, at |-> x, open |-> {r3, r4},
   jobs |-> jobs, edits |-> changes, byHand |-> changes, troubles |-> 1]

Both == (r1 :> Apart(<<b, a>>)) @@ (r2 :> Together(<<b, c>>))

Start == {x \in [{a, b, c} -> {n1, n2, n3}] : x[a] = n1}

\* a makes way for c, and is wanted where c was: two moves of one guest.
Crossing == Kept((a :> n1) @@ (b :> n1) @@ (c :> n3),
                 (r1 :> Apart(<<b, a>>)) @@ (r2 :> Apart(<<a, c>>)) @@ (r3 :> Only(<<c>>, {n1}))
                   @@ (r4 :> Prefer(<<a>>, {n3})), 1, 0)

MCSituation ==
  {Written9(1), Written9(2), Crossing}
    \cup {Kept(x, Both, 2, 0) : x \in Start}
    \cup {Kept(x, Both @@ (r3 :> p), 1, 1) :
            x \in Start, p \in {Only(<<a>>, {n2}), Prefer(<<a>>, {n2})}}
=============================================================================
