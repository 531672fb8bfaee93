--------------------------- MODULE MCProvisioning ---------------------------
(***************************************************************************)
(* Instances of Provisioning for model checking: two builds, of one name   *)
(* or of two, and rows for a retry of the first.                           *)
(***************************************************************************)
EXTENDS Provisioning, TLC

CONSTANTS b1, b2, h1, h2, j1, j2, j3

MCKeyOf == j1 :> h1 @@ j2 :> h1 @@ j3 :> h2
MCHosts == {b1 :> h1 @@ b2 :> h1, b1 :> h1 @@ b2 :> h2}
=============================================================================
