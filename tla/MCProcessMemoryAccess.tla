----------------------- MODULE MCProcessMemoryAccess -----------------------
(* Two threads issuing tools ioctls on one VA space with two GPUs, pages  *)
(* of two bytes, and accesses of up to three bytes at either page offset, *)
(* so an access spans one or two pages and the VA space's GPUs can change *)
(* between its iterations.                                                 *)
EXTENDS ProcessMemoryAccess, TLC

CONSTANTS t1, t2

MCAccessors == {t1, t2}

ThreadSymmetry == Permutations(MCAccessors)
=============================================================================
