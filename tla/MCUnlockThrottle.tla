--------------------------- MODULE MCUnlockThrottle ---------------------------
(***************************************************************************)
(* UnlockThrottle with a scaled clock: the same order of sizes as in the   *)
(* code (10 to 300 s of lockout, a window of 900 s), in fewer steps.       *)
(***************************************************************************)
EXTENDS UnlockThrottle, TLC

MCLockout == [l \in 1 .. MaxLevel |-> l]
Symmetry == Permutations(Caller)
=============================================================================
