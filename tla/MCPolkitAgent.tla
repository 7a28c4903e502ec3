--------------------------- MODULE MCPolkitAgent ---------------------------
(* Instances of PolkitAgent for TLC. *)
EXTENDS PolkitAgent, TLC

(* The requests are interchangeable: no definition orders them. *)
RequestSymmetry == Permutations(Requests)
=============================================================================
