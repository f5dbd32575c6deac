--------------------------- MODULE MCJobRuntime ---------------------------
(* Small instances of JobRuntime. *)
EXTENDS JobRuntime, TLC

CONSTANTS n1, n2

\* n1 -> n2.
ChainEdges == {<<n1, n2>>}
\* n1 leads back to itself, until the cycle protection ends the run, or to a leaf.
LoopEdges == {<<n1, n1>>, <<n1, n2>>}
\* As Defaults: every edge of the graph carries a condition.
NoEdges == {}

\* execution_mode of the bundles that are started.
AllAuto == [e \in Execs |-> "AUTO"]
AllGated == [e \in Execs |-> "HUMAN_IN_LOOP"]
GatedAndAuto == [e \in Execs |-> IF e = 1 THEN "HUMAN_IN_LOOP" ELSE "AUTO"]
AutoAndManual == [e \in Execs |-> IF e = 1 THEN "AUTO" ELSE "MANUAL"]

Symmetry == Permutations(Clients) \cup Permutations(Workers)
=============================================================================
