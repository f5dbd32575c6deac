--------------------------- MODULE PlannerProofs ---------------------------
(***************************************************************************)
(* Proofs about Planner, for every runbook, of any length and with any     *)
(* conditions: what generate_graph promises, also with repeated ids        *)
(* (EveryPlanIsSound), and what that means for a run along the edges of    *)
(* the plan when the ids are unique (RunsAreComplete).                     *)
(*                                                                         *)
(* Induction over the steps is an argument about the least step (or the    *)
(* greatest one) with a property, which exists because < is well founded.  *)
(***************************************************************************)
EXTENDS Planner, WellFoundedInduction, TLAPS

\* A set of positions has a least and a greatest one.
LEMMA LeastExists ==
  ASSUME NEW S \in SUBSET Nat, S # {}
  PROVE  \E m \in S : \A n \in S : m <= n
<1>1. PICK m \in S : \A n \in S : ~(<<n, m>> \in OpToRel(<, Nat))
  BY NatLessThanWellFounded, WFMin, Zenon
<1>2. \A n \in S : ~(n < m)
  BY <1>1 DEF OpToRel
<1>. QED BY <1>2

LEMMA GreatestExists ==
  ASSUME NEW k \in Nat, NEW S \in SUBSET (0..k), S # {}
  PROVE  \E m \in S : \A n \in S : n <= m
<1> DEFINE R == {k - n : n \in S}
<1>1. R \in SUBSET Nat /\ R # {}
  <2>1. \A n \in S : k - n \in Nat /\ k - n \in R
    OBVIOUS
  <2>. QED BY <2>1
<1>2. PICK r \in R : \A s \in R : r <= s
  <2> HIDE DEF R
  <2>. QED BY <1>1, LeastExists
<1>3. PICK m \in S : r = k - m
  OBVIOUS
<1>4. \A n \in S : r <= k - n
  BY <1>2
<1>. QED BY <1>3, <1>4

-----------------------------------------------------------------------------

\* The first step is a checkpoint, so every later one has a last checkpoint.
LEMMA CheckpointBefore ==
  ASSUME NEW book \in Runbook, NEW k \in 2..Len(book)
  PROVE  LastCheckpoint(book, k) # {}
<1> DEFINE S == {j \in 1..k-1 : Checkpoint(book, j)}
<1>1. Len(book) \in Nat /\ k \in Nat /\ k - 1 \in Nat
  BY DEF Runbook
<1>2. 1 \in S /\ S \in SUBSET (0..k-1)
  BY <1>1 DEF Checkpoint
<1>3. PICK m \in S : \A n \in S : n <= m
  <2> HIDE DEF S
  <2>. QED BY <1>1, <1>2, GreatestExists
<1>4. ASSUME NEW l \in m+1..k-1 PROVE ~Checkpoint(book, l)
  BY <1>1, <1>3
<1>. QED BY <1>3, <1>4 DEF LastCheckpoint

\* Every step but the first has a predecessor, and predecessors are earlier steps.
LEMMA PredecessorsExist ==
  ASSUME NEW book \in Runbook, NEW k \in 2..Len(book)
  PROVE  Predecessors(book, k) # {} /\ Predecessors(book, k) \subseteq 1..k-1
<1>1. Len(book) \in Nat /\ k - 1 \in 1..k-1
  BY DEF Runbook
<1>. QED BY <1>1, CheckpointBefore DEF Predecessors, LastCheckpoint, OpenBranches

\* The links are the pairs of a step and a predecessor of it.
LEMMA LinksAre ==
  ASSUME NEW book \in Runbook
  PROVE  /\ \A e \in Links(book) : /\ e[2] \in 2..Len(book) /\ e[1] \in Predecessors(book, e[2])
                                   /\ e[1] \in DOMAIN book /\ e[1] < e[2]
         /\ \A k \in 2..Len(book) : \A j \in Predecessors(book, k) : <<j, k>> \in Links(book)
<1>1. DOMAIN book = 1..Len(book) /\ Len(book) \in Nat
  BY DEF Runbook
<1>2. ASSUME NEW e \in Links(book)
      PROVE  /\ e[2] \in 2..Len(book) /\ e[1] \in Predecessors(book, e[2])
             /\ e[1] \in DOMAIN book /\ e[1] < e[2]
  <2>1. e \in (DOMAIN book) \X (2..Len(book)) /\ e[1] \in Predecessors(book, e[2])
    BY DEF Links
  <2>2. e[2] \in 2..Len(book) /\ e[1] \in DOMAIN book
    BY <2>1
  <2>3. e[1] \in 1..e[2]-1
    BY <2>1, <2>2, PredecessorsExist
  <2>. QED BY <1>1, <2>1, <2>2, <2>3
<1>3. ASSUME NEW k \in 2..Len(book), NEW j \in Predecessors(book, k)
      PROVE  <<j, k>> \in Links(book)
  <2>1. j \in 1..k-1
    BY PredecessorsExist
  <2>2. j \in DOMAIN book
    BY <1>1, <2>1
  <2>3. <<j, k>> \in (DOMAIN book) \X (2..Len(book))
    BY <2>2
  <2>. QED BY <2>3 DEF Links
<1>. QED BY <1>2, <1>3

LEMMA PlansConnected ==
  ASSUME NEW book \in Runbook
  PROVE  IsConnected(book)
<1>1. ASSUME NEW k \in 2..Len(book) PROVE \E j \in DOMAIN book : <<j, k>> \in Links(book)
  <2>1. PICK j \in Predecessors(book, k) : TRUE
    BY PredecessorsExist
  <2>2. <<j, k>> \in Links(book)
    BY LinksAre
  <2>3. j \in DOMAIN book
    BY <2>2, LinksAre
  <2>. QED BY <2>2, <2>3
<1>. QED BY <1>1, LinksAre DEF IsConnected

\* No link leads around an unconditional step.
LEMMA LinksBypassNothing ==
  ASSUME NEW book \in Runbook, NEW k \in 2..Len(book), NEW j \in Predecessors(book, k),
         NEW l \in j+1..k-1
  PROVE  Conditional(book, l)
<1>1. j \in 1..k-1 /\ k \in Nat
  BY PredecessorsExist
<1>2. ~Checkpoint(book, l)
  BY <1>1 DEF Predecessors, LastCheckpoint, OpenBranches
<1>. QED BY <1>2 DEF Checkpoint

\* A step from which no link leads is followed by conditional steps only.
LEMMA LeavesComeLast ==
  ASSUME NEW book \in Runbook, NEW k \in DOMAIN book, \A e \in Links(book) : e[1] # k,
         NEW l \in k+1..Len(book)
  PROVE  Conditional(book, l)
<1> DEFINE S == {m \in k+1..Len(book) : ~Conditional(book, m)}
<1>1. DOMAIN book = 1..Len(book) /\ Len(book) \in Nat /\ k \in Nat
  BY DEF Runbook
<1>2. SUFFICES ASSUME S # {} PROVE FALSE
  OBVIOUS
<1>3. PICK m \in S : \A n \in S : m <= n
  <2>1. S \in SUBSET Nat
    BY <1>1
  <2> HIDE DEF S
  <2>. QED BY <1>2, <2>1, LeastExists
<1>4. m \in 2..Len(book) /\ k \in 1..m-1 /\ ~Conditional(book, m)
  BY <1>1, <1>3
<1>5. \A n \in k+1..m-1 : Conditional(book, n) /\ ~Checkpoint(book, n)
  BY <1>1, <1>3 DEF Checkpoint
<1>6. k \notin Predecessors(book, m)
  BY <1>4, LinksAre
<1>7. CASE OpenBranches(book, m) = {}
  <2>1. m - 1 # k
    BY <1>4, <1>6, <1>7 DEF Predecessors
  <2>2. m - 1 \in OpenBranches(book, m)
    BY <1>4, <1>5, <2>1 DEF OpenBranches
  <2>. QED BY <1>7, <2>2
<1>8. CASE OpenBranches(book, m) # {}
  <2>1. k \notin OpenBranches(book, m)
    BY <1>4, <1>6, <1>8 DEF Predecessors
  <2>2. Checkpoint(book, k)
    BY <1>4, <1>5, <2>1 DEF OpenBranches
  <2>3. PICK b \in OpenBranches(book, m) : TRUE
    BY <1>8
  <2>4. b \in k+1..m-1
    BY <1>4, <2>2, <2>3 DEF OpenBranches
  <2>5. k + 1 \in 2..Len(book) /\ Conditional(book, k + 1)
    BY <1>4, <1>5, <2>4
  <2>6. k \in LastCheckpoint(book, k + 1)
    BY <1>1, <1>4, <2>2 DEF LastCheckpoint
  <2>7. k \in Predecessors(book, k + 1)
    BY <2>5, <2>6 DEF Predecessors
  <2>. QED BY <2>5, <2>7, LinksAre
<1>. QED BY <1>7, <1>8

LEMMA PlansBypassNothing ==
  ASSUME NEW book \in Runbook
  PROVE  BypassesNothing(book)
<1>1. ASSUME NEW e \in Links(book), NEW l \in e[1]+1..e[2]-1 PROVE Conditional(book, l)
  BY LinksAre, LinksBypassNothing
<1>2. ASSUME NEW k \in DOMAIN book, \A e \in Links(book) : e[1] # k, NEW l \in k+1..Len(book)
      PROVE  Conditional(book, l)
  BY <1>2, LeavesComeLast
<1>. QED BY <1>1, <1>2 DEF BypassesNothing

\* The edges join nodes, and every link is an edge.
LEMMA EdgesJoinNodes ==
  ASSUME NEW book \in Runbook
  PROVE  /\ \A e \in Links(book) : <<book[e[1]].id, book[e[2]].id>> \in Edges(book)
         /\ Edges(book) \subseteq NodeIds(book) \X NodeIds(book)
<1>1. DOMAIN book = 1..Len(book) /\ Len(book) \in Nat
  BY DEF Runbook
<1>2. \A i \in DOMAIN book : book[i].id \in NodeIds(book)
  BY DEF NodeIds
<1>3. \A e \in Links(book) : /\ e[1] \in DOMAIN book /\ e[2] \in DOMAIN book
                             /\ <<book[e[1]].id, book[e[2]].id>> \in Edges(book)
  BY <1>1, LinksAre DEF Edges
<1>. QED BY <1>2, <1>3 DEF Edges

\* Every node is reached, also when steps share an id.
LEMMA PlansValid ==
  ASSUME NEW book \in Runbook
  PROVE  ValidGraph(NodeIds(book), book[1].id, Edges(book))
<1>1. DOMAIN book = 1..Len(book) /\ Len(book) \in Nat /\ 1 \in DOMAIN book
  BY DEF Runbook
<1>2. \A i \in DOMAIN book : book[i].id \in NodeIds(book)
  BY DEF NodeIds
<1>3. \A e \in Links(book) : <<book[e[1]].id, book[e[2]].id>> \in Edges(book)
  BY EdgesJoinNodes
<1>4. Edges(book) \subseteq NodeIds(book) \X NodeIds(book)
  BY EdgesJoinNodes
<1>5. ASSUME NEW i \in DOMAIN book, i # 1
      PROVE  \E j \in DOMAIN book : j < i /\ <<book[j].id, book[i].id>> \in Edges(book)
  <2>1. i \in 2..Len(book)
    BY <1>1, <1>5
  <2>2. PICK j \in Predecessors(book, i) : TRUE
    BY <2>1, PredecessorsExist
  <2>3. PICK e : e = <<j, i>>
    OBVIOUS
  <2>4. e \in Links(book) /\ e[1] = j /\ e[2] = i
    BY <2>1, <2>3, LinksAre
  <2>. QED BY <1>3, <2>4, LinksAre
<1>6. \A n \in NodeIds(book) \ {book[1].id} : \E e \in Edges(book) : e[2] = n
  <2> TAKE n \in NodeIds(book) \ {book[1].id}
  <2>1. PICK i \in DOMAIN book : n = book[i].id
    BY DEF NodeIds
  <2>2. PICK j \in DOMAIN book : <<book[j].id, book[i].id>> \in Edges(book)
    BY <1>5, <2>1
  <2>3. PICK e \in Edges(book) : e = <<book[j].id, book[i].id>>
    BY <2>2
  <2>. QED BY <2>1, <2>3
<1>7. ASSUME NEW S \in SUBSET NodeIds(book), book[1].id \in S,
             \A e \in Edges(book) : e[1] \in S => e[2] \in S
      PROVE  S = NodeIds(book)
  <2> DEFINE U == {i \in DOMAIN book : book[i].id \notin S}
  <2>1. SUFFICES ASSUME U # {} PROVE FALSE
    BY DEF NodeIds
  <2>2. PICK m \in U : \A n \in U : m <= n
    <3>1. U \in SUBSET Nat
      BY <1>1
    <3> HIDE DEF U
    <3>. QED BY <2>1, <3>1, LeastExists
  <2>3. PICK j \in DOMAIN book : j < m /\ <<book[j].id, book[m].id>> \in Edges(book)
    BY <1>5, <1>7, <2>2
  <2>4. book[j].id \in S
    BY <1>1, <2>2, <2>3
  <2>5. PICK e \in Edges(book) : e = <<book[j].id, book[m].id>>
    BY <2>3
  <2>. QED BY <1>7, <2>2, <2>4, <2>5
<1>. QED BY <1>1, <1>2, <1>4, <1>6, <1>7 DEF ValidGraph, AllReached

\* planner.py, generate_graph, and validate_graph: the plan of every runbook leads
\* forward, leaves no step without a way to it, leads around no unconditional step
\* and passes the validation. Also for runbooks the validator reports as invalid.
THEOREM EveryPlanIsSound == \A book \in Runbook : PlanIsSound(book)
BY PlansConnected, PlansBypassNothing, PlansValid DEF PlanIsSound

-----------------------------------------------------------------------------
(* Runs. A route is what the execution engine makes of a plan: it begins at*)
(* the first step and follows a link from each step to the next.           *)

IsRoute(book, n, p) ==
  /\ p \in [1..n -> DOMAIN book]
  /\ p[1] = 1
  /\ \A i \in 1..n-1 : <<p[i], p[i+1]>> \in Links(book)

\* A route only goes forward, so it is no longer than the runbook.
LEMMA RoutesGoForward ==
  ASSUME NEW book \in Runbook, NEW n \in Nat \ {0}, NEW p, IsRoute(book, n, p)
  PROVE  /\ \A i, j \in 1..n : i < j => p[i] < p[j]
         /\ n <= Len(book)
<1>1. /\ DOMAIN book = 1..Len(book) /\ Len(book) \in Nat
      /\ \A i \in 1..n : p[i] \in 1..Len(book)
  BY DEF Runbook, IsRoute
<1>2. ASSUME NEW i \in 1..n-1 PROVE p[i] < p[i+1]
  <2>1. <<p[i], p[i+1]>> \in Links(book)
    BY DEF IsRoute
  <2>2. PICK e \in Links(book) : e = <<p[i], p[i+1]>>
    BY <2>1
  <2>3. e[1] < e[2]
    BY LinksAre
  <2>. QED BY <2>2, <2>3
<1>3. ASSUME NEW i \in 1..n, NEW j \in 1..n, i < j PROVE p[i] < p[j]
  <2> DEFINE S == {m \in i+1..n : p[m] <= p[i]}
  <2>1. SUFFICES ASSUME S # {} PROVE FALSE
    BY <1>1, <1>3
  <2>2. PICK m \in S : \A l \in S : m <= l
    <3>1. S \in SUBSET Nat
      OBVIOUS
    <3> HIDE DEF S
    <3>. QED BY <2>1, <3>1, LeastExists
  <2>3. m - 1 \in 1..n-1 /\ m - 1 >= i /\ m - 1 \notin S /\ p[m] <= p[i]
    BY <2>2
  <2>4. p[m-1] >= p[i]
    BY <1>1, <2>3
  <2>5. p[m-1] < p[m]
    BY <1>2, <2>3
  <2>. QED BY <1>1, <2>2, <2>3, <2>4, <2>5
<1>4. ASSUME NEW i \in 1..n PROVE i <= p[i]
  <2> DEFINE S == {m \in 1..n : p[m] < m}
  <2>1. SUFFICES ASSUME S # {} PROVE FALSE
    BY <1>1
  <2>2. PICK m \in S : \A l \in S : m <= l
    <3>1. S \in SUBSET Nat
      OBVIOUS
    <3> HIDE DEF S
    <3>. QED BY <2>1, <3>1, LeastExists
  <2>3. m # 1
    BY <1>1, <2>2
  <2>4. m - 1 \in 1..n-1 /\ m - 1 <= p[m-1]
    BY <1>1, <2>2, <2>3
  <2>5. p[m-1] < p[m]
    BY <1>2, <2>4
  <2>. QED BY <1>1, <2>2, <2>4, <2>5
<1>5. n <= Len(book)
  BY <1>1, <1>4
<1>. QED BY <1>3, <1>5

\* A route that ends at a leaf passes every unconditional step.
LEMMA RoutesPassCheckpoints ==
  ASSUME NEW book \in Runbook, NEW n \in Nat \ {0}, NEW p, IsRoute(book, n, p),
         \A e \in Links(book) : e[1] # p[n],
         NEW k \in DOMAIN book, ~Conditional(book, k)
  PROVE  \E i \in 1..n : p[i] = k
<1> DEFINE S == {m \in 1..n : p[m] > k}
<1>1. /\ DOMAIN book = 1..Len(book) /\ Len(book) \in Nat
      /\ \A i \in 1..n : p[i] \in 1..Len(book)
  BY DEF Runbook, IsRoute
<1>2. SUFFICES ASSUME \A i \in 1..n : p[i] # k PROVE FALSE
  OBVIOUS
<1>3. CASE S = {}
  <2>1. p[n] < k
    BY <1>1, <1>2, <1>3
  <2>2. p[n] \in DOMAIN book /\ k \in p[n]+1..Len(book)
    BY <1>1, <2>1
  <2>3. Conditional(book, k)
    BY <2>2, LeavesComeLast
  <2>. QED BY <2>3
<1>4. CASE S # {}
  <2>1. PICK m \in S : \A l \in S : m <= l
    <3>1. S \in SUBSET Nat
      OBVIOUS
    <3> HIDE DEF S
    <3>. QED BY <1>4, <3>1, LeastExists
  <2>2. p[1] = 1
    BY DEF IsRoute
  <2>3. m - 1 \in 1..n-1 /\ p[m-1] < k /\ k < p[m]
    BY <1>1, <1>2, <2>1, <2>2
  <2>4. <<p[m-1], p[m]>> \in Links(book)
    BY <2>3 DEF IsRoute
  <2>5. PICK e \in Links(book) : e = <<p[m-1], p[m]>>
    BY <2>4
  <2>6. e[1] = p[m-1] /\ e[2] = p[m] /\ k \in e[1]+1..e[2]-1
    BY <1>1, <2>1, <2>3, <2>5
  <2>. QED BY <2>6, PlansBypassNothing DEF BypassesNothing
<1>. QED BY <1>3, <1>4

\* Nodes are named by the ids of the steps.
IsRun(book, n, r) ==
  /\ r \in [1..n -> NodeIds(book)]
  /\ r[1] = book[1].id
  /\ \A i \in 1..n-1 : <<r[i], r[i+1]>> \in Edges(book)

\* planner/service.py and engine.py together: when no two steps of a runbook have
\* the same id, a run that follows the edges of its plan never returns to a node
\* and is no longer than the runbook (so cycle protection cannot stop it if
\* max_nodes_executed is at least that), and when it ends at a leaf it has executed
\* every unconditional step, whatever branches it took.
THEOREM RunsAreComplete ==
  ASSUME NEW book \in Runbook, UniqueIds(book), NEW n \in Nat \ {0}, NEW r, IsRun(book, n, r)
  PROVE  /\ \A i, j \in 1..n : i < j => r[i] # r[j]
         /\ n <= Len(book)
         /\ (\A e \in Edges(book) : e[1] # r[n]) =>
              \A k \in DOMAIN book : ~Conditional(book, k) => \E i \in 1..n : r[i] = book[k].id
<1> DEFINE p == [i \in 1..n |-> CHOOSE k \in DOMAIN book : book[k].id = r[i]]
<1>1. /\ DOMAIN book = 1..Len(book) /\ Len(book) \in Nat /\ 1 \in DOMAIN book
      /\ \A i, j \in DOMAIN book : book[i].id = book[j].id => i = j
  BY DEF Runbook, UniqueIds
<1>2. ASSUME NEW i \in 1..n PROVE p[i] \in DOMAIN book /\ book[p[i]].id = r[i]
  <2>1. \E k \in DOMAIN book : book[k].id = r[i]
    BY DEF IsRun, NodeIds
  <2>. QED BY <2>1
<1>3. p \in [1..n -> DOMAIN book]
  BY <1>2
<1> HIDE DEF p
<1>4. ASSUME NEW i \in 1..n-1 PROVE <<p[i], p[i+1]>> \in Links(book)
  <2>1. i \in 1..n /\ i + 1 \in 1..n
    OBVIOUS
  <2>2. PICK e \in Links(book) : <<r[i], r[i+1]>> = <<book[e[1]].id, book[e[2]].id>>
    BY DEF IsRun, Edges
  <2>3. e \in (DOMAIN book) \X (2..Len(book))
    BY DEF Links
  <2>4. e[1] \in DOMAIN book /\ e[2] \in DOMAIN book /\ e = <<e[1], e[2]>>
    BY <1>1, <2>3
  <2>5. book[e[1]].id = r[i] /\ book[e[2]].id = r[i+1]
    BY <2>2
  <2>6. e[1] = p[i] /\ e[2] = p[i+1]
    BY <1>1, <1>2, <2>1, <2>4, <2>5
  <2>. QED BY <2>4, <2>6
<1>5. p[1] = 1
  BY <1>1, <1>2 DEF IsRun
<1>6. IsRoute(book, n, p)
  BY <1>3, <1>4, <1>5 DEF IsRoute
<1>7. ASSUME NEW i \in 1..n, NEW j \in 1..n, i < j PROVE r[i] # r[j]
  <2>1. p[i] < p[j] /\ p[i] \in Nat
    BY <1>1, <1>2, <1>6, <1>7, RoutesGoForward
  <2>2. p[i] # p[j]
    BY <1>1, <1>2, <2>1
  <2>. QED BY <1>1, <1>2, <2>2
<1>8. n <= Len(book)
  BY <1>6, RoutesGoForward
<1>9. ASSUME \A e \in Edges(book) : e[1] # r[n], NEW k \in DOMAIN book, ~Conditional(book, k)
      PROVE  \E i \in 1..n : r[i] = book[k].id
  <2>1. ASSUME NEW e \in Links(book) PROVE e[1] # p[n]
    <3>1. <<book[e[1]].id, book[e[2]].id>> \in Edges(book)
      BY DEF Edges
    <3>2. book[e[1]].id # r[n]
      BY <1>9, <3>1
    <3>3. n \in 1..n
      OBVIOUS
    <3>. QED BY <1>2, <3>2, <3>3
  <2>2. PICK i \in 1..n : p[i] = k
    BY <1>6, <1>9, <2>1, RoutesPassCheckpoints
  <2>. QED BY <1>2, <2>2
<1>. QED BY <1>7, <1>8, <1>9
=============================================================================
