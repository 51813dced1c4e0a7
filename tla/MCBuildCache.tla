---------------------------- MODULE MCBuildCache ----------------------------
(* Instances of BuildCache.                                                *)
EXTENDS BuildCache

(* One process has other mounts than the others.                           *)
CONSTANT p1
TwoConfigs == [p \in Proc |-> IF p = p1 THEN <<1>> ELSE <<2>>]

Locks == 1..(2 * Cardinality(Proc))
=============================================================================
