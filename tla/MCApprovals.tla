---------------------------- MODULE MCApprovals ----------------------------
(* Small instances of Approvals. *)
EXTENDS Approvals, TLC

\* Three levels.
Levels == <<1, 2, 3>>

Symmetry == Permutations(Handlers) \cup Permutations(Nonces)
=============================================================================
