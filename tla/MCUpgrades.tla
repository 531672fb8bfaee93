----------------------------- MODULE MCUpgrades -----------------------------
(***************************************************************************)
(* Instances of Upgrades for model checking: a Ceph plan of two daemons    *)
(* and a Proxmox VE plan of three nodes, one of which was left out.        *)
(***************************************************************************)
EXTENDS Upgrades, TLC

CONSTANTS c1, p1, j1, j2, j3, d1, d2, n1, n2, n4, cluster1, w1

MCKey == {cluster1}
MCKeyOf == [j \in Job |-> cluster1]
MCOrder == <<c1, p1>>
MCKind == c1 :> "ceph" @@ p1 :> "pve"
MCTargetsOf == c1 :> <<d1, d2>> @@ p1 :> <<n1, n2, n4>>
MCLeftOut == c1 :> {} @@ p1 :> {n4}
\* The inventory had n4 on 9.
Since == [t \in Target |-> IF t \in {n4} THEN "new" ELSE "old"]
MCReleases == {Since}
=============================================================================
