------------------------ MODULE ActionDispatchProofs ------------------------
(***************************************************************************)
(* Proofs about ActionDispatch, for any number of keys, threads, visits    *)
(* and crashes.                                                            *)
(*                                                                         *)
(* The properties rest on how many threads may still act for a key.  A     *)
(* thread passes the look-up only while no success is recorded, so the     *)
(* recorded successes and the threads that passed it before (Busy) never   *)
(* exceed the number of threads (Bounded); for a key that one thread at a  *)
(* time serves they never exceed one (Fresh).  The books (EffectsAccounted)*)
(* turn both into bounds on the effects.                                   *)
(***************************************************************************)
EXTENDS ActionDispatch, FiniteSetTheorems, TLAPS

\* Threads past the look-up that have not recorded their success yet.
Busy(k) == {t \in Threads : key[t] = k /\ pc[t] = "call"} \cup Pending(k)

Bounded == \A k \in Keys : saved[k] + Cardinality(Busy(k)) <= Cardinality(Threads)

\* A success on its way back is recorded.
Confirmed ==
  \A t \in Threads : pc[t] \in {"audit", "done"} /\ outcome[t] = "success" => saved[key[t]] > 0

Alone == \A k \in SerialKeys : \A t, u \in Inside(k) : t = u

Fresh == \A k \in SerialKeys : saved[k] <= 1 /\ (Busy(k) # {} => saved[k] = 0)

IInv == TypeOK /\ EffectsAccounted /\ Bounded /\ Confirmed /\ Alone /\ Fresh

\* The step changes the local variables of no thread but t.
OnlyMoves(t) ==
  \A u \in Threads \ {t} : pc'[u] = pc[u] /\ key'[u] = key[u] /\ outcome'[u] = outcome[u]

One(b) == IF b THEN 1 ELSE 0

-----------------------------------------------------------------------------
\* Two sets of threads that differ in t only differ in size by t only.
LEMMA SizeOfSwap ==
  ASSUME NEW A \in SUBSET Threads, NEW B \in SUBSET Threads, NEW t, A \ {t} = B \ {t}
  PROVE  /\ Cardinality(A) \in Nat /\ Cardinality(B) \in Nat
         /\ Cardinality(A) + One(t \in B) = Cardinality(B) + One(t \in A)
<1>1. IsFiniteSet(A) /\ IsFiniteSet(B)
  BY FS_Subset, DispatchAssumptions
<1>2. Cardinality(A) \in Nat /\ Cardinality(B) \in Nat
  BY <1>1, FS_CardinalityType
<1>3. Cardinality(A \ {t}) = Cardinality(A) - One(t \in A)
  BY <1>1, <1>2, FS_RemoveElement DEF One
<1>4. Cardinality(B \ {t}) = Cardinality(B) - One(t \in B)
  BY <1>1, <1>2, FS_RemoveElement DEF One
<1> QED
  BY <1>2, <1>3, <1>4 DEF One

\* So do the pending and the busy threads of a key when only t moves.
LEMMA SizesMove ==
  ASSUME NEW t \in Threads, NEW k \in Keys, OnlyMoves(t)
  PROVE  /\ Cardinality(Pending(k)) \in Nat /\ Cardinality(Pending(k)') \in Nat
         /\ Cardinality(Busy(k)) \in Nat /\ Cardinality(Busy(k)') \in Nat
         /\ Cardinality(Pending(k)) + One(t \in Pending(k)')
              = Cardinality(Pending(k)') + One(t \in Pending(k))
         /\ Cardinality(Busy(k)) + One(t \in Busy(k)')
              = Cardinality(Busy(k)') + One(t \in Busy(k))
<1>1. Pending(k) \in SUBSET Threads /\ Pending(k)' \in SUBSET Threads
  BY DEF Pending
<1>2. Busy(k) \in SUBSET Threads /\ Busy(k)' \in SUBSET Threads
  BY DEF Pending, Busy
<1>3. Pending(k) \ {t} = Pending(k)' \ {t}
  BY DEF OnlyMoves, Pending
<1>4. Busy(k) \ {t} = Busy(k)' \ {t}
  BY DEF OnlyMoves, Pending, Busy
<1> QED
  BY <1>1, <1>2, <1>3, <1>4, SizeOfSwap

LEMMA StepMovesOne ==
  ASSUME TypeOK, NEW t \in Threads, Step(t)
  PROVE  OnlyMoves(t)
BY DEF TypeOK, Step, OnlyMoves, Moves, Visit, ReuseResult, Prepare, SecretMissing, CallSucceeds,
       CallFails, SaveRun, SaveRunRaises, AuditRun, AuditRaises, RecordFailure, Return, ThreadDies

-----------------------------------------------------------------------------
\* The initial state: nobody is inside, nothing has happened.
LEMMA Initially == Init => IInv
<1> SUFFICES ASSUME Init PROVE IInv
  OBVIOUS
<1>1. TypeOK
  BY DispatchAssumptions DEF Init, TypeOK, Locations, Outcomes
<1>2. \A k \in Keys : Pending(k) = {} /\ Busy(k) = {} /\ Inside(k) = {}
  BY DEF Init, Pending, Busy, Inside
<1>3. Cardinality({}) = 0 /\ Cardinality(Threads) \in Nat
  BY FS_EmptySet, FS_CardinalityType, DispatchAssumptions
<1>4. ASSUME NEW k \in Keys
      PROVE  /\ effects[k] = 0 /\ saved[k] = 0 /\ unrecorded[k] = 0
             /\ Cardinality(Pending(k)) = 0 /\ Cardinality(Busy(k)) = 0
  BY <1>2, <1>3 DEF Init
<1>7. EffectsAccounted /\ Bounded
  BY <1>3, <1>4 DEF EffectsAccounted, Bounded
<1>5. Confirmed
  BY DEF Init, Confirmed
<1>6. Alone /\ Fresh
  BY <1>2, DispatchAssumptions DEF Init, Alone, Fresh
<1> QED
  BY <1>1, <1>5, <1>6, <1>7 DEF IInv

\* Every step keeps the types.
LEMMA TypesStay == ASSUME TypeOK, [Next]_vars PROVE TypeOK'
<1> USE DEF TypeOK, Locations, Outcomes
<1>1. ASSUME NEW t \in Threads, Step(t) PROVE TypeOK'
  <2> USE <1>1 DEF Moves
  <2>1. ASSUME NEW k \in Keys, Visit(t, k) PROVE TypeOK'
    BY <2>1 DEF Visit, rowsOf, outside
  <2>2. CASE ReuseResult(t) \/ Prepare(t) \/ SecretMissing(t) \/ AuditRun(t) \/ AuditRaises(t)
    BY <2>2 DEF ReuseResult, Prepare, SecretMissing, AuditRun, AuditRaises, rowsOf, outside
  <2>3. CASE CallSucceeds(t)
    BY <2>3 DEF CallSucceeds, Bump, rowsOf
  <2>4. CASE CallFails(t)
    BY <2>4 DEF CallFails, Bump, rowsOf, outside
  <2>5. CASE SaveRun(t)
    BY <2>5 DEF SaveRun, Bump, outside
  <2>6. CASE SaveRunRaises(t)
    BY <2>6 DEF SaveRunRaises, Loses, Bump, rowsOf
  <2>7. CASE RecordFailure(t)
    BY <2>7 DEF RecordFailure, Bump, outside
  <2>8. CASE Return(t)
    BY <2>8 DEF Return, rowsOf, outside
  <2>9. CASE ThreadDies(t)
    BY <2>9 DEF ThreadDies, Loses, Bump, rowsOf
  <2> QED
    BY <2>1, <2>2, <2>3, <2>4, <2>5, <2>6, <2>7, <2>8, <2>9 DEF Step
<1>2. CASE UNCHANGED vars
  BY <1>2 DEF vars
<1> QED
  BY <1>1, <1>2 DEF Next

\* What a step of t does to the books of k.
LEMMA BooksMove ==
  ASSUME TypeOK, NEW t \in Threads, Step(t), NEW k \in Keys
  PROVE  effects'[k] + saved[k] + unrecorded[k] + One(t \in Pending(k))
           = effects[k] + saved'[k] + unrecorded'[k] + One(t \in Pending(k)')
<1> USE DEF TypeOK, Moves, Pending, One
<1>1. CASE \E j \in Keys : Visit(t, j)
  BY <1>1 DEF Visit, rowsOf, outside
<1>2. CASE ReuseResult(t) \/ Prepare(t) \/ SecretMissing(t) \/ AuditRun(t) \/ AuditRaises(t)
  BY <1>2 DEF ReuseResult, Prepare, SecretMissing, AuditRun, AuditRaises, rowsOf, outside
<1>3. CASE CallSucceeds(t)
  BY <1>3 DEF CallSucceeds, Bump, rowsOf
<1>4. CASE CallFails(t)
  BY <1>4 DEF CallFails, Bump, rowsOf, outside
<1>5. CASE SaveRun(t)
  BY <1>5 DEF SaveRun, Bump, outside
<1>6. CASE SaveRunRaises(t)
  BY <1>6 DEF SaveRunRaises, Loses, Bump, rowsOf
<1>7. CASE RecordFailure(t) \/ Return(t)
  BY <1>7 DEF RecordFailure, Return, Bump, outside, rowsOf
<1>8. CASE ThreadDies(t)
  BY <1>8 DEF ThreadDies, Loses, Bump, rowsOf
<1> QED
  BY <1>1, <1>2, <1>3, <1>4, <1>5, <1>6, <1>7, <1>8, Zenon DEF Step

LEMMA BooksBalance ==
  ASSUME TypeOK, TypeOK', EffectsAccounted, NEW t \in Threads, Step(t)
  PROVE  EffectsAccounted'
<1> SUFFICES ASSUME NEW k \in Keys
             PROVE  effects'[k] = saved'[k] + unrecorded'[k] + Cardinality(Pending(k)')
  BY DEF EffectsAccounted
<1>1. OnlyMoves(t)
  BY StepMovesOne
<1>2. /\ Cardinality(Pending(k)) \in Nat /\ Cardinality(Pending(k)') \in Nat
      /\ Cardinality(Pending(k)) + One(t \in Pending(k)')
           = Cardinality(Pending(k)') + One(t \in Pending(k))
  BY <1>1, SizesMove
<1>3. effects'[k] + saved[k] + unrecorded[k] + One(t \in Pending(k))
        = effects[k] + saved'[k] + unrecorded'[k] + One(t \in Pending(k)')
  BY BooksMove
<1>4. effects[k] = saved[k] + unrecorded[k] + Cardinality(Pending(k))
  BY DEF EffectsAccounted
<1>5. /\ effects[k] \in Nat /\ saved[k] \in Nat /\ unrecorded[k] \in Nat
      /\ effects'[k] \in Nat /\ saved'[k] \in Nat /\ unrecorded'[k] \in Nat
  BY DEF TypeOK
<1>6. One(t \in Pending(k)) \in Nat /\ One(t \in Pending(k)') \in Nat
  BY DEF One
<1> DEFINE e == effects[k]   e2 == effects'[k]   s == saved[k]   s2 == saved'[k]
           u == unrecorded[k]   u2 == unrecorded'[k]
           p == Cardinality(Pending(k))   p2 == Cardinality(Pending(k)')
           b == One(t \in Pending(k))     b2 == One(t \in Pending(k)')
<1>7. /\ e \in Nat /\ e2 \in Nat /\ s \in Nat /\ s2 \in Nat /\ u \in Nat /\ u2 \in Nat
      /\ p \in Nat /\ p2 \in Nat /\ b \in Nat /\ b2 \in Nat
      /\ p + b2 = p2 + b /\ e2 + s + u + b = e + s2 + u2 + b2 /\ e = s + u + p
  BY <1>2, <1>3, <1>4, <1>5, <1>6
<1> HIDE DEF e, e2, s, s2, u, u2, p, p2, b, b2
<1>8. e2 = s2 + u2 + p2
  BY <1>7
<1> QED
  BY <1>8 DEF e2, s2, u2, p2

-----------------------------------------------------------------------------
\* Only Prepare lets a thread become busy, and only while nothing is recorded;
\* a success is recorded by a busy thread, which then is busy no more.
LEMMA BusyMoves ==
  ASSUME TypeOK, NEW t \in Threads, Step(t), NEW k \in Keys
  PROVE  \/ saved[k] = 0 /\ saved'[k] = 0
         \/ saved'[k] = saved[k] /\ (t \in Busy(k)' => t \in Busy(k))
         \/ saved'[k] = saved[k] + 1 /\ t \in Busy(k) /\ t \notin Busy(k)'
<1> USE DEF TypeOK, Moves, Busy, Pending
<1>1. CASE \E j \in Keys : Visit(t, j)
  BY <1>1 DEF Visit, rowsOf
<1>2. CASE ReuseResult(t) \/ SecretMissing(t) \/ AuditRun(t) \/ AuditRaises(t)
  BY <1>2 DEF ReuseResult, SecretMissing, AuditRun, AuditRaises, rowsOf
<1>3. CASE Prepare(t)
  BY <1>3 DEF Prepare, rowsOf
<1>4. CASE CallSucceeds(t) \/ CallFails(t)
  BY <1>4 DEF CallSucceeds, CallFails, rowsOf
<1>5. CASE SaveRun(t)
  BY <1>5 DEF SaveRun, Bump
<1>6. CASE SaveRunRaises(t) \/ RecordFailure(t) \/ Return(t) \/ ThreadDies(t)
  BY <1>6 DEF SaveRunRaises, RecordFailure, Return, ThreadDies, rowsOf
<1> QED
  BY <1>1, <1>2, <1>3, <1>4, <1>5, <1>6, Zenon DEF Step

LEMMA BoundStays ==
  ASSUME TypeOK, TypeOK', Bounded, NEW t \in Threads, Step(t)
  PROVE  Bounded'
<1> SUFFICES ASSUME NEW k \in Keys
             PROVE  saved'[k] + Cardinality(Busy(k)') <= Cardinality(Threads)
  BY DEF Bounded
<1>1. OnlyMoves(t)
  BY StepMovesOne
<1>2. /\ Cardinality(Busy(k)) \in Nat /\ Cardinality(Busy(k)') \in Nat
      /\ Cardinality(Busy(k)) + One(t \in Busy(k)')
           = Cardinality(Busy(k)') + One(t \in Busy(k))
  BY <1>1, SizesMove
<1>3. saved[k] \in Nat /\ saved'[k] \in Nat /\ Cardinality(Threads) \in Nat
  BY FS_CardinalityType, DispatchAssumptions DEF TypeOK
<1>4. saved[k] + Cardinality(Busy(k)) <= Cardinality(Threads)
  BY DEF Bounded
<1>5. CASE saved'[k] = 0
  <2>1. Busy(k)' \subseteq Threads
    BY DEF Busy, Pending
  <2>2. Cardinality(Busy(k)') <= Cardinality(Threads)
    BY <2>1, FS_Subset, DispatchAssumptions
  <2> QED
    BY <1>2, <1>3, <1>5, <2>2
<1>6. CASE saved'[k] = saved[k] /\ (t \in Busy(k)' => t \in Busy(k))
  BY <1>2, <1>3, <1>4, <1>6 DEF One
<1>7. CASE saved'[k] = saved[k] + 1 /\ t \in Busy(k) /\ t \notin Busy(k)'
  BY <1>2, <1>3, <1>4, <1>7 DEF One
<1> QED
  BY <1>5, <1>6, <1>7, BusyMoves

-----------------------------------------------------------------------------
\* A success is only passed on from a row that was found or has just been saved.
LEMMA ConfirmedStays ==
  ASSUME TypeOK, TypeOK', Confirmed, NEW t \in Threads, Step(t)
  PROVE  Confirmed'
<1>1. \A k \in Keys : saved[k] \in Nat /\ saved'[k] \in Nat /\ saved'[k] >= saved[k]
  <2>1. \A k \in Keys : saved'[k] = saved[k] \/ saved'[k] = saved[k] + 1
    BY BusyMoves
  <2> QED
    BY <2>1 DEF TypeOK
<1>2. ASSUME NEW u \in Threads \ {t}, pc'[u] \in {"audit", "done"}, outcome'[u] = "success"
      PROVE  saved'[key'[u]] > 0
  <2>1. pc[u] = pc'[u] /\ key[u] = key'[u] /\ outcome[u] = outcome'[u]
    BY StepMovesOne DEF OnlyMoves
  <2>2. key[u] \in Keys /\ saved[key[u]] > 0
    BY <1>2, <2>1 DEF Confirmed, TypeOK
  <2> QED
    BY <1>1, <2>1, <2>2
<1>3. ASSUME pc'[t] \in {"audit", "done"}, outcome'[t] = "success"
      PROVE  saved'[key'[t]] > 0
  <2> USE <1>3 DEF TypeOK, Moves
  <2>1. CASE ReuseResult(t)
    BY <2>1 DEF ReuseResult, rowsOf
  <2>2. CASE SaveRun(t)
    BY <2>2 DEF SaveRun, Bump
  <2>3. CASE AuditRun(t)
    BY <2>3 DEF AuditRun, rowsOf, Confirmed
  <2>4. ~(\E k \in Keys : Visit(t, k))
    BY DEF Visit
  <2>5. ~(Prepare(t) \/ SecretMissing(t) \/ CallSucceeds(t) \/ CallFails(t))
    BY DEF Prepare, SecretMissing, CallSucceeds, CallFails
  <2>6. ~(SaveRunRaises(t) \/ AuditRaises(t) \/ RecordFailure(t) \/ Return(t) \/ ThreadDies(t))
    BY DEF SaveRunRaises, AuditRaises, RecordFailure, Return, ThreadDies
  <2> QED
    BY <2>1, <2>2, <2>3, <2>4, <2>5, <2>6 DEF Step
<1> QED
  BY <1>2, <1>3 DEF Confirmed

-----------------------------------------------------------------------------
\* A thread comes in for a serial key only when nobody is inside.
LEMMA AloneStays ==
  ASSUME TypeOK, Alone, NEW t \in Threads, Step(t)
  PROVE  Alone'
<1> SUFFICES ASSUME NEW k \in SerialKeys, NEW u \in Inside(k)', NEW v \in Inside(k)'
             PROVE  u = v
  BY DEF Alone
<1>1. Inside(k)' \ {t} \subseteq Inside(k)
  BY StepMovesOne DEF OnlyMoves, Inside
<1>2. CASE t \in Inside(k)' => t \in Inside(k)
  BY <1>1, <1>2 DEF Alone
<1>3. CASE t \in Inside(k)' /\ t \notin Inside(k)
  <2>1. PICK j \in Keys : Visit(t, j)
    <3> USE <1>3 DEF Inside, Moves, TypeOK
    <3>1. ~(ReuseResult(t) \/ Prepare(t) \/ SecretMissing(t) \/ CallSucceeds(t) \/ CallFails(t))
      BY DEF ReuseResult, Prepare, SecretMissing, CallSucceeds, CallFails
    <3>2. ~(SaveRun(t) \/ SaveRunRaises(t) \/ AuditRun(t) \/ AuditRaises(t) \/ RecordFailure(t))
      BY DEF SaveRun, SaveRunRaises, AuditRun, AuditRaises, RecordFailure
    <3>3. ~(Return(t) \/ ThreadDies(t))
      BY DEF Return, ThreadDies
    <3> QED
      BY <3>1, <3>2, <3>3 DEF Step
  <2>2. j = k
    BY <1>3, <2>1 DEF Visit, Inside, Moves, TypeOK
  <2>3. Inside(k) = {}
    BY <2>1, <2>2 DEF Visit
  <2> QED
    BY <1>1, <2>3
<1> QED
  BY <1>2, <1>3

\* For a serial key there is at most one success, and nobody is busy after it.
LEMMA FreshStays ==
  ASSUME TypeOK, TypeOK', Alone, Fresh, NEW t \in Threads, Step(t)
  PROVE  Fresh'
<1> SUFFICES ASSUME NEW k \in SerialKeys
             PROVE  saved'[k] <= 1 /\ (Busy(k)' # {} => saved'[k] = 0)
  BY DEF Fresh
<1>0. k \in Keys
  BY DispatchAssumptions
<1>1. Busy(k)' \ {t} \subseteq Busy(k)
  BY StepMovesOne DEF OnlyMoves, Busy, Pending
<1>2. Busy(k) \subseteq Inside(k)
  BY DEF Busy, Pending, Inside
<1>3. saved[k] <= 1 /\ (Busy(k) # {} => saved[k] = 0)
  BY DEF Fresh
<1>4. CASE saved'[k] = 0
  BY <1>4
<1>5. CASE saved'[k] = saved[k] /\ (t \in Busy(k)' => t \in Busy(k))
  BY <1>1, <1>3, <1>5
<1>6. CASE saved'[k] = saved[k] + 1 /\ t \in Busy(k) /\ t \notin Busy(k)'
  <2>1. Busy(k) = {t}
    BY <1>2, <1>6 DEF Alone
  <2>2. Busy(k)' = {}
    BY <1>1, <1>6, <2>1
  <2> QED
    BY <1>3, <1>6, <2>2
<1> QED
  BY <1>0, <1>4, <1>5, <1>6, BusyMoves

-----------------------------------------------------------------------------
LEMMA Inductive == IInv /\ [Next]_vars => IInv'
<1> SUFFICES ASSUME IInv, [Next]_vars PROVE IInv'
  OBVIOUS
<1>1. TypeOK'
  BY TypesStay DEF IInv
<1>2. ASSUME NEW t \in Threads, Step(t) PROVE IInv'
  BY <1>1, <1>2, BooksBalance, BoundStays, ConfirmedStays, AloneStays, FreshStays DEF IInv
<1>3. CASE UNCHANGED vars
  BY <1>3, <1>1 DEF vars, IInv, EffectsAccounted, Bounded, Confirmed, Alone, Fresh, Busy, Pending,
                    Inside
<1> QED
  BY <1>2, <1>3 DEF Next

\* What IInv says holds of every reachable state.
THEOREM DispatchInvariant == Spec => []IInv
<1> QED
  BY Initially, Inductive, PTL DEF Spec

\* Every side effect is recorded, about to be recorded, or was lost by a crash,
\* a failed write or a connector that could not tell.
THEOREM EffectsAreAccounted == Spec => []EffectsAccounted
<1>1. IInv => EffectsAccounted
  BY DEF IInv
<1> QED
  BY <1>1, DispatchInvariant, PTL

\* Retries and resumes by one thread at a time never repeat an action, except
\* for effects whose record was lost.
THEOREM SerialActionsRunOnce == Spec => []ActionRunsOnce
<1>1. ASSUME IInv, NEW k \in SerialKeys PROVE effects[k] <= 1 + unrecorded[k]
  <2>1. k \in Keys
    BY DispatchAssumptions
  <2>2. effects[k] = saved[k] + unrecorded[k] + Cardinality(Pending(k))
    BY <1>1, <2>1 DEF IInv, EffectsAccounted
  <2>3. saved[k] \in Nat /\ unrecorded[k] \in Nat
    BY <1>1, <2>1 DEF IInv, TypeOK
  <2>4. CASE Pending(k) = {}
    <3>1. Cardinality(Pending(k)) = 0
      BY <2>4, FS_EmptySet
    <3>2. saved[k] <= 1
      BY <1>1 DEF IInv, Fresh
    <3> QED
      BY <2>2, <2>3, <3>1, <3>2
  <2>5. CASE Pending(k) # {}
    <3>1. PICK t \in Pending(k) : TRUE
      BY <2>5
    <3>2. Pending(k) = {t}
      BY <1>1, <3>1 DEF IInv, Alone, Pending, Inside
    <3>3. Cardinality(Pending(k)) = 1
      BY <3>2, FS_Singleton
    <3>4. saved[k] = 0
      BY <1>1, <3>1 DEF IInv, Fresh, Busy
    <3> QED
      BY <2>2, <2>3, <3>3, <3>4
  <2> QED
    BY <2>4, <2>5
<1>2. IInv => ActionRunsOnce
  BY <1>1 DEF ActionRunsOnce
<1> QED
  BY <1>2, DispatchInvariant, PTL

\* The rows, the books and the threads of the engine are well formed: who is
\* inside has a key, and who is about to record has a result.
THEOREM TypeCorrect == Spec => []TypeOK
<1>1. IInv => TypeOK
  BY DEF IInv
<1> QED
  BY <1>1, DispatchInvariant, PTL

\* However many threads race, an action runs at most once per thread, lost
\* records apart.
THEOREM RepeatsBounded == Spec => []RepeatsAreBounded
<1>1. ASSUME IInv, NEW k \in Keys PROVE effects[k] <= Cardinality(Threads) + unrecorded[k]
  <2>1. effects[k] = saved[k] + unrecorded[k] + Cardinality(Pending(k))
    BY <1>1 DEF IInv, EffectsAccounted
  <2>2. saved[k] + Cardinality(Busy(k)) <= Cardinality(Threads)
    BY <1>1 DEF IInv, Bounded
  <2>3. Busy(k) \subseteq Threads /\ Pending(k) \subseteq Busy(k)
    BY DEF Busy, Pending
  <2>4. /\ Cardinality(Pending(k)) <= Cardinality(Busy(k))
        /\ Cardinality(Pending(k)) \in Nat /\ Cardinality(Busy(k)) \in Nat
    <3>1. IsFiniteSet(Busy(k))
      BY <2>3, FS_Subset, DispatchAssumptions
    <3>2. IsFiniteSet(Pending(k)) /\ Cardinality(Pending(k)) <= Cardinality(Busy(k))
      BY <2>3, <3>1, FS_Subset
    <3> QED
      BY <3>1, <3>2, FS_CardinalityType
  <2>5. saved[k] \in Nat /\ unrecorded[k] \in Nat /\ Cardinality(Threads) \in Nat
    BY <1>1, FS_CardinalityType, DispatchAssumptions DEF IInv, TypeOK
  <2> QED
    BY <2>1, <2>2, <2>4, <2>5
<1>2. IInv => RepeatsAreBounded
  BY <1>1 DEF RepeatsAreBounded
<1> QED
  BY <1>2, DispatchInvariant, PTL

\* A success reported to the execution engine has happened.
THEOREM SuccessesHappened == Spec => []ReportedSuccessHappened
<1>1. ASSUME IInv, NEW t \in Threads, pc[t] = "done", outcome[t] = "success"
      PROVE  effects[key[t]] > 0
  <2>1. key[t] \in Keys /\ saved[key[t]] > 0
    BY <1>1 DEF IInv, Confirmed, TypeOK
  <2>2. effects[key[t]] = saved[key[t]] + unrecorded[key[t]] + Cardinality(Pending(key[t]))
    BY <1>1, <2>1 DEF IInv, EffectsAccounted
  <2>3. Pending(key[t]) \subseteq Threads
    BY DEF Pending
  <2>4. Cardinality(Pending(key[t])) \in Nat
    BY <2>3, FS_Subset, FS_CardinalityType, DispatchAssumptions
  <2>5. saved[key[t]] \in Nat /\ unrecorded[key[t]] \in Nat
    BY <1>1, <2>1 DEF IInv, TypeOK
  <2> QED
    BY <2>1, <2>2, <2>4, <2>5
<1>2. IInv => ReportedSuccessHappened
  BY <1>1 DEF ReportedSuccessHappened
<1> QED
  BY <1>2, DispatchInvariant, PTL

\* Once a success is recorded, one thread per execution never acts again.
THEOREM RecordedIsNotRepeated == Spec => RecordedActionIsNotRepeated
<1>1. ASSUME IInv, [Next]_vars, NEW k \in SerialKeys, saved[k] > 0
      PROVE  effects'[k] = effects[k]
  <2>1. Busy(k) = {} /\ k \in Keys
    BY <1>1, DispatchAssumptions DEF IInv, Fresh
  <2>2. ASSUME NEW t \in Threads, Step(t) PROVE effects'[k] = effects[k]
    <3> USE <1>1, <2>1 DEF IInv, TypeOK, Busy, outside
    <3>1. CASE \E j \in Keys : Visit(t, j)
      BY <3>1 DEF Visit
    <3>2. CASE CallSucceeds(t)
      BY <3>2 DEF CallSucceeds, Bump
    <3>3. CASE CallFails(t)
      BY <3>3 DEF CallFails, Bump
    <3>4. CASE \/ ReuseResult(t) \/ Prepare(t) \/ SecretMissing(t) \/ SaveRun(t)
               \/ SaveRunRaises(t) \/ AuditRun(t) \/ AuditRaises(t) \/ RecordFailure(t)
               \/ Return(t) \/ ThreadDies(t)
      BY <3>4 DEF ReuseResult, Prepare, SecretMissing, SaveRun, SaveRunRaises, AuditRun,
                  AuditRaises, RecordFailure, Return, ThreadDies
    <3> QED
      BY <2>2, <3>1, <3>2, <3>3, <3>4 DEF Step
  <2>3. CASE UNCHANGED vars
    BY <2>3 DEF vars
  <2> QED
    BY <1>1, <2>2, <2>3 DEF Next
<1>2. IInv /\ [Next]_vars => [\A k \in SerialKeys : saved[k] > 0 => effects'[k] = effects[k]]_vars
  BY <1>1
<1> QED
  BY <1>2, DispatchInvariant, PTL DEF Spec, RecordedActionIsNotRepeated
=============================================================================
