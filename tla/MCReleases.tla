----------------------------- MODULE MCReleases -----------------------------
(* Small instances of Releases. *)
EXTENDS Releases, TLC

\* PRODUCTION matches two rules that contradict each other, STAGING one.
AllButProduction == {[env |-> None, allowed |-> TRUE], [env |-> "PRODUCTION", allowed |-> FALSE]}
AllowAll == {[env |-> None, allowed |-> TRUE]}
SomeDefinitions == {AllButProduction, AllowAll}
SomePriorities == {0}

Symmetry == Permutations(Threads) \cup Permutations(PolicyIds) \cup Permutations(Editors)
=============================================================================
