------------------------------- MODULE MCPamu --------------------------------
(* The instance of Pamu that TLC checks.  The cores, the devices and the   *)
(* pages are only compared, and none of the properties is a liveness one.  *)
EXTENDS Pamu, TLC

Symmetry == Permutations(Cpu) \cup Permutations(Liodn) \cup Permutations(Page)
=============================================================================
