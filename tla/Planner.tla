------------------------------ MODULE Planner ------------------------------
(***************************************************************************)
(* The execution planner (app/planner) and the governance mode of a skill  *)
(* (app/agent/compiler.py): pure functions of a runbook. A runbook is a    *)
(* sequence of steps; parsers may give two steps the same id.              *)
(***************************************************************************)
EXTENDS Integers, Sequences

CONSTANTS
  Sources,       \* names of data sources
  None           \* a step without a data source

ASSUME PlannerAssumptions == None \notin Sources

\* text stands for the description. effect: what the words of the description and
\* the action ask for. sound: RunbookValidator has nothing to object to the step by
\* itself (its description, its confidence, its action).
Step == [id: Nat, text: Nat, source: Sources \cup {None}, cond: BOOLEAN,
         effect: {"approval", "restricted", "none"}, sound: BOOLEAN]
Runbook == Seq(Step) \ {<<>>}

UniqueIds(book) == \A i, j \in DOMAIN book : book[i].id = book[j].id => i = j

\* step_metadata is keyed by id: the last step of an id stands for all of them.
StandsFor(book, j, i) ==
  book[j].id = book[i].id /\ \A l \in j+1..Len(book) : book[l].id # book[i].id

\* A condition, or a description that begins with one.
Conditional(book, i) == \E j \in DOMAIN book : StandsFor(book, j, i) /\ book[j].cond

-----------------------------------------------------------------------------
(* generate_graph. Branches leave the last unconditional node (or the first*)
(* node); the next unconditional step merges the branches that are open.   *)

Checkpoint(book, i) == i = 1 \/ ~Conditional(book, i)

\* last_non_conditional_node when step k is linked: a set of one.
LastCheckpoint(book, k) ==
  {j \in 1..k-1 : Checkpoint(book, j) /\ \A l \in j+1..k-1 : ~Checkpoint(book, l)}

\* leaf_conditional_nodes when step k is linked.
OpenBranches(book, k) == {j \in 1..k-1 : \A l \in j..k-1 : ~Checkpoint(book, l)}

\* As if an unconditional step continued from the last unconditional one.
LinkedToCheckpoint(book, k) == LastCheckpoint(book, k)

Predecessors(book, k) ==
  IF Conditional(book, k) THEN LastCheckpoint(book, k)
  ELSE IF OpenBranches(book, k) = {} THEN {k - 1} ELSE OpenBranches(book, k)

Links(book) == {e \in (DOMAIN book) \X (2..Len(book)) : e[1] \in Predecessors(book, e[2])}

\* The graph of ids.
NodeIds(book) == {book[i].id : i \in DOMAIN book}
Edges(book) == {<<book[e[1]].id, book[e[2]].id>> : e \in Links(book)}

\* The nodes that the search from the entry visits: the least set that contains
\* the entry and what its members lead to.
AllReached(nodes, entry, edges) ==
  \A S \in SUBSET nodes :
    entry \in S /\ (\A e \in edges : e[1] \in S => e[2] \in S) => S = nodes

\* validate_graph: edges between nodes, no orphan, every node reached. A graph of
\* one node passes without a look at its edges.
ValidGraph(nodes, entry, edges) ==
  /\ entry \in nodes
  /\ nodes = {entry} \/ /\ edges \subseteq nodes \X nodes
                        /\ \A n \in nodes \ {entry} : \E e \in edges : e[2] = n
                        /\ AllReached(nodes, entry, edges)

-----------------------------------------------------------------------------
(* _infer_governance_policy: the most restrictive mode of any step.        *)

GovernanceMode(book) ==
  LET Asked(effect) == \E i \in DOMAIN book : book[i].effect = effect
  IN  IF Asked("approval") THEN "MANUAL"
      ELSE IF Asked("restricted") THEN "HUMAN_IN_LOOP" ELSE "AUTO"

-----------------------------------------------------------------------------
(* What a plan promises.                                                   *)

\* Links lead forward and no step is without a way to it.
IsConnected(book) ==
  /\ \A e \in Links(book) : e[1] < e[2]
  /\ \A k \in 2..Len(book) : \E j \in DOMAIN book : <<j, k>> \in Links(book)

\* No link leads around an unconditional step, and no branch ends before one: a
\* run that ends at a leaf has executed every unconditional step.
BypassesNothing(book) ==
  /\ \A e \in Links(book) : \A l \in e[1]+1..e[2]-1 : Conditional(book, l)
  /\ \A k \in DOMAIN book :
       (\A e \in Links(book) : e[1] # k) => \A l \in k+1..Len(book) : Conditional(book, l)

PlanIsSound(book) ==
  /\ IsConnected(book)
  /\ BypassesNothing(book)
  /\ ValidGraph(NodeIds(book), book[1].id, Edges(book))
=============================================================================
