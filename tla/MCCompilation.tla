--------------------------- MODULE MCCompilation ---------------------------
(* Small instances of Compilation. *)
EXTENDS Compilation, TLC

S(id, text, source, cond, effect) ==
  [id |-> id, text |-> text, source |-> source, cond |-> cond, effect |-> effect, sound |-> TRUE]

\* One step on the authentication logs.
Short == <<S(1, 1, "auth", FALSE, "none")>>
\* A branch and a merge on one source, described in the same words.
Branching == <<S(1, 1, "endpoint", FALSE, "restricted"), S(2, 1, "endpoint", TRUE, "none"),
               S(3, 1, "endpoint", FALSE, "none")>>
\* Two steps without a source that got the same id, one of them without a
\* valid action.
Repeated == <<S(1, 1, None, FALSE, "approval"),
              [S(1, 1, None, TRUE, "none") EXCEPT !.sound = FALSE]>>

ManyRunbooks == {Short, Branching, Repeated}
Symmetry == Permutations(Threads)
=============================================================================
