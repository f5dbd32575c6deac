-------------------------- MODULE MCActionDispatch --------------------------
(* Small instances of ActionDispatch. *)
EXTENDS ActionDispatch, TLC

CONSTANTS k1, k2

\* As SerialKeys: k1 belongs to an execution that one thread at a time runs,
\* k2 to one that several resumes run at once.
FirstKey == {k1}

Symmetry == Permutations(Threads)
=============================================================================
