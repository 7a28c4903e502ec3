-------------------------- MODULE MCInputCapture --------------------------
(* Instances of InputCapture for TLC. *)
EXTENDS InputCapture, TLC

(* The sessions are interchangeable: no definition orders them. *)
SessionSymmetry == Permutations(Sessions)
=============================================================================
