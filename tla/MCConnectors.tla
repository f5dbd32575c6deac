---------------------------- MODULE MCConnectors ----------------------------
(* Small instances of Connectors: a long-lived caller and a request thread. *)
EXTENDS Connectors, TLC

CONSTANTS notifier, request, longlived, perrequest

OneServiceEach == notifier :> longlived @@ request :> perrequest
Symmetry == Permutations(Admins)
=============================================================================
