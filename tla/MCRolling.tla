------------------------------ MODULE MCRolling ------------------------------
(***************************************************************************)
(* Instances of RollingUpdate for model checking: five voters, of which    *)
(* three are updated in groups of two, or one by itself.                   *)
(***************************************************************************)
EXTENDS RollingUpdate, TLC

CONSTANTS n1, n2, n3, n4, n5, g1, g2, g3

\* Two guests on the nodes of the first group, and one on the node of the second.
MCHome == g1 :> n1 @@ g2 :> n2 @@ g3 :> n3

\* Those of the first group may not share a node, and are bound to some of the nodes.
MCRules == {[kind |-> "KEEP_APART", guests |-> {g1, g2}, nodes |-> {}],
            [kind |-> "PREFER_NODES", guests |-> {g1}, nodes |-> {n1, n4}],
            [kind |-> "PREFER_NODES", guests |-> {g2}, nodes |-> {n2, n4, n5}]}

Rolled == [kind |-> "rolling", nodes |-> <<n1, n2, n3>>, concurrency |-> 2,
           reboot |-> "IF_REQUIRED", shutdown |-> TRUE, back |-> TRUE,
           approve |-> FALSE, window |-> TRUE]

MCPlans == {Rolled, [Rolled EXCEPT !.back = FALSE, !.approve = TRUE],
            [Rolled EXCEPT !.kind = "node", !.nodes = <<n1>>]}
=============================================================================
