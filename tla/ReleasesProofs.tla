--------------------------- MODULE ReleasesProofs ---------------------------
(***************************************************************************)
(* Proofs about Releases, for any number of request threads, bundles,      *)
(* policies and environments, and without a bound on the requests.         *)
(*                                                                         *)
(* The first part is about the policies, which no release changes; the     *)
(* second about bundles and deployments.                                   *)
(***************************************************************************)
EXTENDS Releases, WellFoundedInduction, TLAPS

-----------------------------------------------------------------------------
(* Policies: types.                                                        *)

PolicyStep == \E e \in Editors : BeginEdit(e) \/ EndEdit(e)

\* A step of Releases is an edit or leaves the policies alone.
LEMMA PolicySteps == [Next]_vars => PolicyStep \/ UNCHANGED policyVars
<1> SUFFICES ASSUME [Next]_vars PROVE PolicyStep \/ UNCHANGED policyVars
  OBVIOUS
<1>1. ASSUME NEW t \in Threads, CompileStep(t) PROVE UNCHANGED policyVars
  BY <1>1 DEF CompileStep, CompileRunbook, ParseFails, StoreBuild, ChooseVersion, InsertBundle,
              RecordCompilation, SaveTrace, AnswerCompile
<1>2. ASSUME NEW t \in Threads, PromotionStep(t) PROVE UNCHANGED policyVars
  BY <1>2 DEF PromotionStep, PromoteBundle, PromotionAllowed, PromotionBlocked, SaveApproval,
              SuspendDeployment, AskForApproval, SaveSnapshot, SaveDeployment, SavePromoted
<1>3. ASSUME NEW t \in Threads, RollbackStep(t) \/ DeletionStep(t) \/ RequestFails(t)
      PROVE  UNCHANGED policyVars
  BY <1>3 DEF RollbackStep, RollbackBundle, ReadLatest, SaveRestored, DeletionStep, ReadForDeletion,
              DeleteBundle, RequestFails
<1>4. ASSUME NEW e \in Editors, EditStep(e) PROVE PolicyStep
  BY <1>4 DEF EditStep, PolicyStep
<1>5. CASE UNCHANGED vars
  BY <1>5 DEF vars
<1> QED
  BY <1>1, <1>2, <1>3, <1>4, <1>5 DEF Next

\* What a save leaves in the table: the other rows, some of them no longer in
\* force, and the row that was saved, in force, under the name it was stored with.
LEMMA SavedRows ==
  ASSUME NEW row \in PolicyRow, row.current, policies \subseteq PolicyRow,
         \A r, s \in policies : SameKey(r, s) => r = s, SavePolicy(row)
  PROVE  \E saved \in PolicyRow :
           /\ SameKey(saved, row) /\ saved.current
           /\ saved.name = row.name \/ \E r \in policies : SameKey(r, row) /\ r.name = saved.name
           /\ saved \in policies'
           /\ \A r \in policies' \ {saved} :
                /\ ~SameKey(r, row)
                /\ \E q \in policies : r = [q EXCEPT !.current = IF q.name = row.name THEN FALSE ELSE @]
           /\ \A q \in policies : ~SameKey(q, row) =>
                [q EXCEPT !.current = IF q.name = row.name THEN FALSE ELSE @] \in policies'
<1> DEFINE Released(q) == [q EXCEPT !.current = IF q.name = row.name THEN FALSE ELSE @]
           released == {Released(q) : q \in policies}
           kept == {[row EXCEPT !.name = r.name] : r \in {s \in released : SameKey(s, row)}}
<1>1. policies' = {r \in released : ~SameKey(r, row)} \cup (IF kept = {} THEN {row} ELSE kept)
  BY DEF SavePolicy
<1>2. \A q \in policies : /\ Released(q) \in PolicyRow /\ Released(q).name = q.name
                          /\ SameKey(Released(q), row) <=> SameKey(q, row)
  BY DEF PolicyRow, SameKey
<1>3. \A r : r \in released <=> \E q \in policies : r = Released(q)
  OBVIOUS
<1>4. \A x : x \in kept <=> \E s \in released : SameKey(s, row) /\ x = [row EXCEPT !.name = s.name]
  BY Zenon
<1> HIDE DEF released, kept
<1>5. \A q \in policies : ~SameKey(q, row) => Released(q) \in policies'
  <2> SUFFICES ASSUME NEW q \in policies, ~SameKey(q, row) PROVE Released(q) \in policies'
    OBVIOUS
  <2>1. Released(q) \in released /\ ~SameKey(Released(q), row)
    BY <1>2, <1>3
  <2> HIDE DEF Released
  <2> QED
    BY <1>1, <2>1
<1>6. CASE kept = {}
  <2>1. policies' = {r \in released : ~SameKey(r, row)} \cup {row}
    BY <1>1, <1>6
  <2>2. SameKey(row, row)
    BY DEF SameKey
  <2> HIDE DEF Released
  <2>3. \A r \in policies' \ {row} : ~SameKey(r, row) /\ r \in released
    BY <2>1
  <2>4. \A r \in policies' \ {row} : ~SameKey(r, row) /\ \E q \in policies : r = Released(q)
    BY <1>3, <2>3
  <2> QED
    BY <1>5, <2>1, <2>2, <2>4 DEF Released
<1>7. CASE kept # {}
  <2>1. PICK s \in released : SameKey(s, row)
    BY <1>4, <1>7
  <2>2. PICK q \in policies : s = Released(q)
    BY <1>3
  <2> DEFINE saved == [row EXCEPT !.name = q.name]
  <2>3. SameKey(q, row) /\ s.name = q.name
    BY <1>2, <2>1, <2>2
  <2>4. saved \in PolicyRow /\ saved.name = q.name /\ saved.current /\ SameKey(saved, row)
    BY DEF PolicyRow, SameKey
  <2> HIDE DEF Released
  <2>5. saved \in kept
    BY <1>4, <2>1, <2>3
  <2>6. ASSUME NEW x \in kept PROVE x = saved
    <3>1. PICK z \in released : SameKey(z, row) /\ x = [row EXCEPT !.name = z.name]
      BY <1>4
    <3>2. PICK p \in policies : z = Released(p)
      BY <1>3
    <3>3. SameKey(p, row) /\ z.name = p.name
      BY <1>2, <3>1, <3>2
    <3>4. p = q
      BY <2>3, <3>3 DEF SameKey
    <3> QED
      BY <3>1, <3>3, <3>4
  <2> HIDE DEF saved
  <2>7. saved \in policies'
    BY <1>1, <1>7, <2>5
  <2>8. \A r \in policies' \ {saved} : ~SameKey(r, row) /\ r \in released
    BY <1>1, <1>7, <2>6
  <2>9. \A r \in policies' \ {saved} : ~SameKey(r, row) /\ \E p \in policies : r = Released(p)
    BY <1>3, <2>8
  <2> QED
    BY <1>5, <2>3, <2>4, <2>7, <2>9 DEF Released
<1> QED
  BY <1>6, <1>7

-----------------------------------------------------------------------------
(* Policies: one version in force under every name.                        *)

\* An id has one name.
OneNameEach(names) == \A x, y \in names : x[1] = y[1] => x[2] = y[2]

RowsNamed == \A r \in policies : <<r.id, r.name>> \in named
OneInForce == \A r, s \in policies : r.current /\ s.current /\ r.name = s.name => r = s
StillInForce ==
  \A r \in policies :
    \/ \E s \in policies : s.id = r.id /\ s.current
    \/ \E p \in PolicyIds \ {r.id} : <<p, r.name>> \in named

EditsInForce == \A e \in Editors : editor[e] # None => editor[e].current
NamesKept ==
  /\ OneNameEach(named)
  /\ \A x \in named : x[1] \in issued
  /\ \A e \in Editors : editor[e] # None => <<editor[e].id, editor[e].name>> \in named
  /\ RowsNamed /\ OneInForce /\ StillInForce

PolicyInv == PoliciesOK /\ EditsInForce /\ (~MayRename => NamesKept)

\* A save keeps the table typed.
LEMMA SaveTyped ==
  ASSUME NEW row \in PolicyRow, row.current, PoliciesOK, SavePolicy(row)
  PROVE  /\ policies' \subseteq PolicyRow
         /\ \A r, s \in policies' : SameKey(r, s) => r = s
         /\ named' \subseteq PolicyIds \X PolicyNames
<1> DEFINE Released(q) == [q EXCEPT !.current = IF q.name = row.name THEN FALSE ELSE @]
<1>1. PICK saved \in PolicyRow :
        /\ SameKey(saved, row) /\ saved.current
        /\ saved.name = row.name \/ \E r \in policies : SameKey(r, row) /\ r.name = saved.name
        /\ saved \in policies'
        /\ \A r \in policies' \ {saved} :
             ~SameKey(r, row) /\ \E q \in policies : r = Released(q)
        /\ \A q \in policies : ~SameKey(q, row) => Released(q) \in policies'
  BY SavedRows DEF PoliciesOK
<1>2. \A q \in policies : /\ Released(q) \in PolicyRow
                          /\ Released(q).id = q.id /\ Released(q).version = q.version
  BY DEF PoliciesOK, PolicyRow
<1>3. named' \subseteq PolicyIds \X PolicyNames
  BY DEF SavePolicy, PoliciesOK, PolicyRow
<1>4. \A q, p \in policies : SameKey(Released(q), Released(p)) => q = p
  BY <1>2 DEF PoliciesOK, SameKey
<1> HIDE DEF Released
<1>5. policies' \subseteq PolicyRow
  BY <1>1, <1>2
<1>6. ASSUME NEW r \in policies', NEW s \in policies', SameKey(r, s) PROVE r = s
  <2>1. CASE r = saved \/ s = saved
    BY <1>1, <1>6, <2>1 DEF SameKey
  <2>2. CASE r # saved /\ s # saved
    <3>1. PICK q \in policies, p \in policies : r = Released(q) /\ s = Released(p)
      BY <1>1, <2>2
    <3> QED
      BY <1>4, <1>6, <3>1
  <2> QED
    BY <2>1, <2>2
<1> QED
  BY <1>3, <1>5, <1>6

\* A save under the name the id always had leaves one row of that name in force.
LEMMA SaveKeepsNames ==
  ASSUME NEW row \in PolicyRow, row.current, PoliciesOK, SavePolicy(row),
         OneNameEach(named'), RowsNamed, OneInForce, StillInForce
  PROVE  RowsNamed' /\ OneInForce' /\ StillInForce'
<1> DEFINE Released(q) == [q EXCEPT !.current = IF q.name = row.name THEN FALSE ELSE @]
<1>1. PICK saved \in PolicyRow :
        /\ SameKey(saved, row) /\ saved.current
        /\ saved.name = row.name \/ \E r \in policies : SameKey(r, row) /\ r.name = saved.name
        /\ saved \in policies'
        /\ \A r \in policies' \ {saved} :
             ~SameKey(r, row) /\ \E q \in policies : r = Released(q)
        /\ \A q \in policies : ~SameKey(q, row) => Released(q) \in policies'
  BY SavedRows DEF PoliciesOK
<1>2. \A q \in policies :
        /\ Released(q).id = q.id /\ Released(q).name = q.name
        /\ q.name = row.name => ~Released(q).current
        /\ q.name # row.name => Released(q) = q
  BY DEF PoliciesOK, PolicyRow
<1>3. named \subseteq named' /\ <<row.id, row.name>> \in named'
  BY DEF SavePolicy
<1>4. \A q \in policies : q.id = row.id => q.name = row.name
  BY <1>3 DEF RowsNamed, OneNameEach
<1>5. saved.name = row.name /\ saved.id = row.id
  BY <1>1, <1>4 DEF SameKey
<1> HIDE DEF Released
<1>6. \A r \in policies' : r = saved \/ \E q \in policies :
        /\ r = Released(q) /\ r.id = q.id /\ r.name = q.name
        /\ q.name = row.name => ~r.current
        /\ q.name # row.name => r = q
  BY <1>1, <1>2
<1>7. RowsNamed'
  BY <1>3, <1>5, <1>6 DEF RowsNamed
<1>8. OneInForce'
  <2> SUFFICES ASSUME NEW r \in policies', NEW s \in policies',
                      r.current, s.current, r.name = s.name
               PROVE  r = s
    BY DEF OneInForce
  <2>1. CASE r.name = row.name
    BY <1>6, <2>1
  <2>2. CASE r.name # row.name
    BY <1>5, <1>6, <2>2 DEF OneInForce
  <2> QED
    BY <2>1, <2>2
<1>9. StillInForce'
  <2> SUFFICES ASSUME NEW r \in policies'
               PROVE  \/ \E s \in policies' : s.id = r.id /\ s.current
                      \/ \E p \in PolicyIds \ {r.id} : <<p, r.name>> \in named'
    BY DEF StillInForce
  <2>1. CASE r = saved
    BY <1>1, <2>1
  <2>2. CASE r # saved
    <3>1. PICK q \in policies : r = Released(q)
      BY <1>1, <2>2
    <3>2. CASE q.name = row.name
      <4>1. row.id \in PolicyIds
        BY DEF PolicyRow
      <4> QED
        BY <1>1, <1>2, <1>3, <1>5, <3>1, <3>2, <4>1
    <3>3. CASE q.name # row.name
      <4>1. r = q
        BY <1>2, <3>1, <3>3
      <4>2. CASE \E s \in policies : s.id = q.id /\ s.current
        <5>1. PICK s \in policies : s.id = q.id /\ s.current
          BY <4>2
        <5>2. s.name # row.name
          <6>1. <<s.id, s.name>> \in named' /\ <<q.id, q.name>> \in named'
            BY <1>3 DEF RowsNamed
          <6>2. s.name = q.name
            BY <5>1, <6>1 DEF OneNameEach
          <6> QED
            BY <3>3, <6>2
        <5>3. ~SameKey(s, row) /\ Released(s) = s
          BY <1>2, <1>4, <5>2 DEF SameKey
        <5> QED
          BY <1>1, <4>1, <5>1, <5>3
      <4>3. CASE \E p \in PolicyIds \ {q.id} : <<p, q.name>> \in named
        BY <1>3, <4>1, <4>3
      <4> QED
        BY <4>2, <4>3 DEF StillInForce
    <3> QED
      BY <3>2, <3>3
  <2> QED
    BY <2>1, <2>2
<1> QED
  BY <1>8, <1>9, <1>7

LEMMA PolicyInit0 == PolicyInit => PolicyInv
BY DEF PolicyInit, PolicyInv, PoliciesOK, EditsInForce, NamesKept, OneNameEach, RowsNamed,
       OneInForce, StillInForce

LEMMA PolicyInvStep ==
  ASSUME PolicyInv, PolicyStep PROVE PolicyInv'
<1> USE PolicyAssumptions
<1>1. ASSUME NEW e \in Editors, CreatePolicy(e) PROVE PolicyInv'
  <2>1. PICK p \in PolicyIds \ issued, n \in PolicyNames, d \in Definitions, k \in Priorities :
          /\ SavePolicy([id |-> p, version |-> 1, name |-> n, enabled |-> TRUE, priority |-> k,
                         definition |-> d, current |-> TRUE])
          /\ issued' = issued \cup {p}
    BY <1>1 DEF CreatePolicy
  <2> DEFINE row == [id |-> p, version |-> 1, name |-> n, enabled |-> TRUE, priority |-> k,
                     definition |-> d, current |-> TRUE]
  <2>2. row \in PolicyRow /\ row.current /\ row.id = p /\ row.name = n
    BY DEF PolicyRow
  <2>3. SavePolicy(row) /\ editor' = editor
    BY <1>1, <2>1 DEF CreatePolicy
  <2>4. named' = named \cup {<<p, n>>}
    BY <2>3 DEF SavePolicy
  <2> HIDE DEF row
  <2>5. PoliciesOK'
    BY <2>1, <2>2, <2>3, SaveTyped DEF PolicyInv, PoliciesOK
  <2>6. ASSUME ~MayRename PROVE NamesKept'
    <3>1. OneNameEach(named')
      BY <2>1, <2>4, <2>6 DEF PolicyInv, NamesKept, OneNameEach
    <3>2. RowsNamed' /\ OneInForce' /\ StillInForce'
      BY <2>2, <2>3, <2>6, <3>1, SaveKeepsNames DEF PolicyInv, NamesKept
    <3> QED
      BY <2>1, <2>3, <2>4, <2>6, <3>1, <3>2 DEF PolicyInv, NamesKept
  <2> QED
    BY <2>3, <2>5, <2>6 DEF PolicyInv, EditsInForce
<1>2. ASSUME NEW e \in Editors, NEW r \in policies, NEW x \in PolicyRow,
             editor' = [editor EXCEPT ![e] = x], UNCHANGED <<policies, issued, named>>,
             x.current, x.id = r.id, MayRename \/ x.name = r.name
      PROVE  PolicyInv'
  <2>1. PoliciesOK'
    BY <1>2 DEF PolicyInv, PoliciesOK
  <2>2. EditsInForce'
    BY <1>2 DEF PolicyInv, PoliciesOK, EditsInForce
  <2>3. ASSUME ~MayRename PROVE NamesKept'
    BY <1>2, <2>3 DEF PolicyInv, PoliciesOK, NamesKept, RowsNamed, OneInForce, StillInForce, OneNameEach
  <2> QED
    BY <2>1, <2>2, <2>3 DEF PolicyInv
<1>3. ASSUME NEW e \in Editors, ReadForUpdate(e) PROVE PolicyInv'
  <2>1. PICK p \in PolicyIds : \E r \in CurrentRows(p),
           n \in PolicyNames, b \in BOOLEAN, d \in Definitions, k \in Priorities :
          /\ MayRename \/ n = r.name
          /\ editor' = [editor EXCEPT
               ![e] = [r EXCEPT !.version = r.version + 1, !.name = n, !.enabled = b,
                                !.priority = k, !.definition = d, !.current = TRUE]]
    BY <1>3 DEF ReadForUpdate
  <2>2. PICK r \in CurrentRows(p),
           n \in PolicyNames, b \in BOOLEAN, d \in Definitions, k \in Priorities :
          /\ MayRename \/ n = r.name
          /\ editor' = [editor EXCEPT
               ![e] = [r EXCEPT !.version = r.version + 1, !.name = n, !.enabled = b,
                                !.priority = k, !.definition = d, !.current = TRUE]]
    BY <2>1
  <2> DEFINE x == [r EXCEPT !.version = r.version + 1, !.name = n, !.enabled = b,
                            !.priority = k, !.definition = d, !.current = TRUE]
  <2>3. r \in policies /\ r \in PolicyRow
    BY DEF CurrentRows, PolicyInv, PoliciesOK
  <2>4. x \in PolicyRow /\ x.current /\ x.id = r.id /\ x.name = n
    <3>1. PICK v \in Nat : v = r.version + 1
      BY <2>3 DEF PolicyRow
    <3>2. x = [r EXCEPT !.version = v, !.name = n, !.enabled = b, !.priority = k,
                        !.definition = d, !.current = TRUE]
      BY <3>1
    <3> HIDE DEF x
    <3> QED
      BY <2>3, <3>2 DEF PolicyRow
  <2>5. editor' = [editor EXCEPT ![e] = x] /\ UNCHANGED <<policies, issued, named>>
    BY <1>3, <2>2 DEF ReadForUpdate
  <2> HIDE DEF x
  <2> QED
    BY <1>2, <2>2, <2>3, <2>4, <2>5
<1>4. ASSUME NEW e \in Editors, ReadForRollback(e) PROVE PolicyInv'
  <2>1. PICK r \in policies : editor' = [editor EXCEPT ![e] = [r EXCEPT !.current = TRUE]]
    BY <1>4 DEF ReadForRollback
  <2> DEFINE x == [r EXCEPT !.current = TRUE]
  <2>2. x \in PolicyRow /\ x.current /\ x.id = r.id /\ x.name = r.name
    BY DEF PolicyRow, PolicyInv, PoliciesOK
  <2>3. editor' = [editor EXCEPT ![e] = x] /\ UNCHANGED <<policies, issued, named>>
    BY <1>4, <2>1 DEF ReadForRollback
  <2> HIDE DEF x
  <2> QED
    BY <1>2, <2>2, <2>3
<1>5. ASSUME NEW e \in Editors, FinishEdit(e) PROVE PolicyInv'
  <2> DEFINE row == editor[e]
  <2>1. row \in PolicyRow /\ row.current
    BY <1>5 DEF FinishEdit, PolicyInv, PoliciesOK, EditsInForce
  <2>2. SavePolicy(row) /\ editor' = [editor EXCEPT ![e] = None] /\ issued' = issued
    BY <1>5 DEF FinishEdit
  <2>3. named' = named \cup {<<row.id, row.name>>}
    BY <2>2 DEF SavePolicy
  <2>4. row # None
    BY <1>5 DEF FinishEdit
  <2>5. \A q \in Editors : editor'[q] # None => editor[q] # None /\ editor'[q] = editor[q]
    BY <2>2 DEF PolicyInv, PoliciesOK
  <2>6. editor' \in [Editors -> PolicyRow \cup {None}]
    BY <2>2 DEF PolicyInv, PoliciesOK
  <2>7. ~MayRename => named' = named
    BY <2>3, <2>4 DEF PolicyInv, NamesKept
  <2> HIDE DEF row
  <2>8. PoliciesOK'
    BY <2>1, <2>2, <2>6, SaveTyped DEF PolicyInv, PoliciesOK
  <2>9. ASSUME ~MayRename PROVE NamesKept'
    <3>1. OneNameEach(named')
      BY <2>7, <2>9 DEF PolicyInv, NamesKept
    <3>2. RowsNamed' /\ OneInForce' /\ StillInForce'
      BY <2>1, <2>2, <2>9, <3>1, SaveKeepsNames DEF PolicyInv, NamesKept
    <3> QED
      BY <2>2, <2>5, <2>7, <2>9, <3>1, <3>2 DEF PolicyInv, NamesKept
  <2> QED
    BY <2>5, <2>8, <2>9 DEF PolicyInv, EditsInForce
<1>6. ASSUME NEW e \in Editors, EditFails(e) PROVE PolicyInv'
  <2>1. \A q \in Editors : editor'[q] # None => editor[q] # None /\ editor'[q] = editor[q]
    BY <1>6 DEF EditFails, PolicyInv, PoliciesOK
  <2>2. PoliciesOK'
    BY <1>6 DEF EditFails, PolicyInv, PoliciesOK
  <2> QED
    BY <1>6, <2>1, <2>2 DEF EditFails, PolicyInv, EditsInForce, NamesKept, RowsNamed, OneInForce,
                            StillInForce, OneNameEach
<1>7. ASSUME NEW e \in Editors, DeletePolicy(e) PROVE PolicyInv'
  <2>1. PICK p : policies' = {r \in policies : r.id # p}
    BY <1>7 DEF DeletePolicy, RemovePolicy
  <2>2. PoliciesOK' /\ EditsInForce'
    BY <1>7, <2>1 DEF DeletePolicy, PolicyInv, PoliciesOK, EditsInForce
  <2>3. ASSUME ~MayRename PROVE NamesKept'
    <3>1. RowsNamed' /\ OneInForce' /\ StillInForce'
      BY <1>7, <2>1, <2>3 DEF DeletePolicy, PolicyInv, NamesKept, RowsNamed, OneInForce, StillInForce
    <3> QED
      BY <1>7, <2>3, <3>1 DEF DeletePolicy, PolicyInv, NamesKept, OneNameEach
  <2> QED
    BY <2>2, <2>3 DEF PolicyInv
<1> QED
  BY <1>1, <1>3, <1>4, <1>5, <1>6, <1>7 DEF PolicyStep, BeginEdit, EndEdit

LEMMA PolicyUnchanged == PolicyInv /\ UNCHANGED policyVars => PolicyInv'
BY DEF policyVars, PolicyInv, PoliciesOK, EditsInForce, NamesKept, OneNameEach, RowsNamed,
       OneInForce, StillInForce

LEMMA PoliciesInvariant == Spec => []PolicyInv
<1>1. Init => PolicyInv
  BY PolicyInit0 DEF Init
<1>2. PolicyInv /\ [Next]_vars => PolicyInv'
  BY PolicySteps, PolicyInvStep, PolicyUnchanged
<1> QED
  BY <1>1, <1>2, PTL DEF Spec

\* However updates, rollbacks and deletions of policies interleave, with any
\* number of administrators and policies: if policies keep their names, no name
\* has two versions in force, and none loses the one that is.
THEOREM OnePolicyInForce == Spec => []OneVersionInForce
<1>1. PolicyInv => OneVersionInForce
  BY DEF PolicyInv, NamesKept, OneVersionInForce, OneInForce, StillInForce, InForce, CurrentRows
<1> QED
  BY <1>1, PoliciesInvariant, PTL

-----------------------------------------------------------------------------
(* Versions of a bundle: a newest one exists.                              *)

LEMMA NewestExists ==
  ASSUME NEW rows \in SUBSET Bundle, rows # {}, NEW m \in Nat, \A r \in rows : r.version <= m
  PROVE  Newest(rows) # {}
<1> DEFINE Bounds == {k \in Nat : \A r \in rows : r.version <= k}
<1>1. Bounds \in SUBSET Nat /\ Bounds # {}
  OBVIOUS
<1>2. PICK k \in Bounds : \A y \in Bounds : ~(<<y, k>> \in OpToRel(<, Nat))
  BY <1>1, NatLessThanWellFounded, WFMin, Zenon
<1>3. \A y \in Bounds : ~(y < k)
  BY <1>2, Zenon DEF OpToRel
<1>4. \A r \in rows : r.version \in Nat /\ r.version <= k
  BY DEF Bundle
<1>5. PICK r \in rows : ~(r.version < k)
  <2>1. CASE k = 0
    BY <1>4, <2>1
  <2>2. CASE k # 0
    <3>1. k - 1 \in Nat /\ k - 1 < k
      BY <2>2
    <3>2. k - 1 \notin Bounds
      BY <1>3, <3>1
    <3>3. PICK r \in rows : ~(r.version <= k - 1)
      BY <3>1, <3>2
    <3> QED
      BY <1>4, <3>3
  <2> QED
    BY <2>1, <2>2
<1>6. r.version = k
  BY <1>4, <1>5
<1>7. r \in Newest(rows)
  BY <1>4, <1>6 DEF Newest
<1> QED
  BY <1>7

-----------------------------------------------------------------------------
(* What each request knows, and what the tables hold.                      *)

Promoting == {"evaluate", "approve", "suspend", "ask", "snapshot", "deploy", "promote"}
Deploying == Promoting \ {"evaluate"}

RequestTyped(x) ==
  /\ x \in Request
  /\ x.pc # "idle" => x.row \in Bundle
  /\ x.pc \in Promoting => x.env \in Environments

TablesTyped ==
  /\ bundles \subseteq Bundle /\ stored \subseteq Bundle
  /\ \A r, s \in bundles : SameKey(r, s) => r = s
  /\ compilations \subseteq Compilation
  /\ traces \subseteq Nat \X Nat
  /\ deployments \subseteq Deployment
  /\ approvals \subseteq DeploymentApproval
  /\ snapshots \subseteq Snapshot

\* Versions do not grow beyond all bounds, and what is in the store was stored.
VersionsBounded == \E m \in Nat : \A r \in bundles : r.version <= m
StoreIsHistory == bundles \subseteq stored

\* The ids given so far are below fresh.
IdsGiven ==
  /\ \A d \in deployments : d.id < fresh
  /\ \A s \in snapshots : s.deployment < fresh
  /\ \A a \in approvals : a.deployment < fresh

\* The rows of the bundle that the request saw, and the number it will save.
SeenOK(x) ==
  /\ x.pc \in {"insert", "restore"} => \A r \in x.seen : r.version < x.row.version
  /\ x.pc \in Promoting => \A r \in x.seen : r.version <= x.row.version

\* The row a request works on was stored, or comes from its own compilation.
RowOK(x) ==
  /\ x.pc \in {"versions", "insert", "record", "traces"} =>
       x.row.status \in CompileStatus /\ x.row.promotion = "DRAFT"
  /\ x.pc \in {"record", "traces", "latest"} \cup Promoting => x.row \in stored
  /\ x.pc = "traces" => \E c \in compilations : c.build = x.row.payload
  /\ x.pc = "restore" =>
       /\ x.row.promotion = "DRAFT"
       /\ \E s \in stored : s.id = x.row.id /\ s.payload = x.row.payload /\ s.status \in CompileStatus

Succeeded(x) ==
  [id |-> x.deployment, bundle |-> x.row.id, version |-> x.row.version, env |-> x.env, status |-> "SUCCESS"]

\* What a promotion has written so far.
DeploymentOK(x) ==
  /\ x.pc \in Deploying => x.deployment < fresh
  /\ x.pc \in {"approve", "suspend"} => \A s \in snapshots : s.deployment # x.deployment
  /\ x.pc \in {"approve", "suspend", "snapshot", "deploy"} => \A d \in deployments : d.id # x.deployment
  /\ x.pc = "suspend" => [deployment |-> x.deployment, decision |-> "APPROVED"] \notin approvals
  /\ x.pc \in {"snapshot", "deploy"} /\ x.env = "PRODUCTION" =>
       [deployment |-> x.deployment, decision |-> "APPROVED"] \in approvals
  /\ x.pc \in {"deploy", "promote"} => [deployment |-> x.deployment, payload |-> x.row.payload] \in snapshots
  /\ x.pc = "promote" => Succeeded(x) \in deployments

Sound(x) == SeenOK(x) /\ RowOK(x) /\ DeploymentOK(x)

DeploymentsDistinct ==
  \A t, u \in Threads : t # u /\ request[t].pc \in Deploying /\ request[u].pc \in Deploying
    => request[t].deployment # request[u].deployment

ReleaseInv ==
  /\ TablesTyped
  /\ fresh \in Nat
  /\ request \in [Threads -> Request]
  /\ \A t \in Threads : RequestTyped(request[t]) /\ Sound(request[t])
  /\ VersionsBounded /\ StoreIsHistory /\ IdsGiven /\ DeploymentsDistinct
  /\ DeploymentsAreBacked /\ PromotionsAreDeployed /\ ArtifactsAreTraceable

-----------------------------------------------------------------------------
(* One request moves: the others stay sound as long as tables only grow by *)
(* rows that bear the id of its own deployment.                            *)

Grown(t) ==
  /\ stored \subseteq stored' /\ compilations \subseteq compilations'
  /\ deployments \subseteq deployments' /\ snapshots \subseteq snapshots' /\ approvals \subseteq approvals'
  /\ \A d \in deployments' \ deployments :
       request[t].pc \in Deploying /\ d.id = request[t].deployment
  /\ \A s \in snapshots' \ snapshots :
       request[t].pc \in Deploying /\ s.deployment = request[t].deployment
  /\ \A a \in approvals' \ approvals :
       request[t].pc \in Deploying /\ a.deployment = request[t].deployment

\* A deployment id is the request's own or new.
OwnDeployment(t, x) ==
  x.pc \in Deploying =>
    \/ request[t].pc \in Deploying /\ x.deployment = request[t].deployment
    \/ x.deployment = fresh /\ fresh' = fresh + 1

LEMMA Became ==
  ASSUME NEW t \in Threads, NEW x \in Request, Become(t, x), request \in [Threads -> Request]
  PROVE  /\ request' \in [Threads -> Request]
         /\ request'[t] = x
         /\ \A u \in Threads \ {t} : request'[u] = request[u]
BY DEF Become

LEMMA OthersStaySound ==
  ASSUME ReleaseInv, NEW t \in Threads, NEW u \in Threads \ {t}, Grown(t),
         fresh' \in Nat, fresh <= fresh'
  PROVE  Sound(request[u])'  \/ request'[u] # request[u]
<1> SUFFICES ASSUME request'[u] = request[u] PROVE Sound(request[u])'
  OBVIOUS
<1> DEFINE x == request[u]
<1>1. Sound(x) /\ RequestTyped(x)
  BY DEF ReleaseInv
<1>2. request[t].pc \in Deploying /\ x.pc \in Deploying => request[t].deployment # x.deployment
  BY DEF ReleaseInv, DeploymentsDistinct
<1>3. SeenOK(request[u])'
  BY <1>1 DEF Sound, SeenOK
<1>4. RowOK(request[u])'
  BY <1>1 DEF Sound, RowOK, Grown
<1>5. DeploymentOK(request[u])'
  <2>1. x.deployment \in Nat
    BY <1>1 DEF RequestTyped, Request
  <2>2. x.pc \in Deploying =>
          /\ \A d \in deployments' : d \in deployments \/ d.id # x.deployment
          /\ \A s \in snapshots' : s \in snapshots \/ s.deployment # x.deployment
          /\ \A a \in approvals' : a \in approvals \/ a.deployment # x.deployment
    BY <1>2 DEF Grown
  <2>3. Succeeded(request[u])' = Succeeded(request[u])
    BY DEF Succeeded
  <2>4. x.pc \in Deploying => x.deployment < fresh'
    BY <1>1, <2>1 DEF Sound, DeploymentOK, ReleaseInv
  <2>5. x.pc \in {"approve", "suspend"} => \A s \in snapshots' : s.deployment # x.deployment
    BY <1>1, <2>2 DEF Sound, DeploymentOK, Deploying, Promoting
  <2>6. x.pc \in {"approve", "suspend", "snapshot", "deploy"} => \A d \in deployments' : d.id # x.deployment
    BY <1>1, <2>2 DEF Sound, DeploymentOK, Deploying, Promoting
  <2>7. x.pc = "suspend" => [deployment |-> x.deployment, decision |-> "APPROVED"] \notin approvals'
    BY <1>1, <2>2 DEF Sound, DeploymentOK, Deploying, Promoting
  <2>8. /\ x.pc \in {"snapshot", "deploy"} /\ x.env = "PRODUCTION" =>
             [deployment |-> x.deployment, decision |-> "APPROVED"] \in approvals'
        /\ x.pc \in {"deploy", "promote"} => [deployment |-> x.deployment, payload |-> x.row.payload] \in snapshots'
        /\ x.pc = "promote" => Succeeded(x) \in deployments'
    BY <1>1 DEF Sound, DeploymentOK, Grown
  <2> QED
    BY <2>3, <2>4, <2>5, <2>6, <2>7, <2>8 DEF DeploymentOK
<1> QED
  BY <1>3, <1>4, <1>5 DEF Sound

\* A step of one request keeps the invariant if it leaves the tables right and
\* its own request sound.
LEMMA RequestMoves ==
  ASSUME ReleaseInv, NEW t \in Threads, NEW x, Become(t, x), RequestTyped(x), Sound(x)',
         Grown(t), OwnDeployment(t, x), fresh' \in {fresh, fresh + 1},
         TablesTyped', VersionsBounded', StoreIsHistory',
         DeploymentsAreBacked', PromotionsAreDeployed', ArtifactsAreTraceable'
  PROVE  ReleaseInv'
<1>1. /\ request' \in [Threads -> Request]
      /\ request'[t] = x
      /\ \A u \in Threads \ {t} : request'[u] = request[u]
  BY Became DEF RequestTyped, ReleaseInv
<1>2. fresh' \in Nat /\ fresh <= fresh' /\ fresh \in Nat
  BY DEF ReleaseInv
<1>3. ASSUME NEW u \in Threads PROVE RequestTyped(request'[u]) /\ Sound(request[u])'
  <2>1. CASE u = t
    BY <1>1, <2>1 DEF Sound, SeenOK, RowOK, DeploymentOK, Succeeded
  <2>2. CASE u # t
    <3>1. Sound(request[u])'
      BY <1>1, <1>2, <2>2, OthersStaySound
    <3> QED
      BY <1>1, <2>2, <3>1 DEF ReleaseInv
  <2> QED
    BY <2>1, <2>2
<1>4. IdsGiven'
  <2>1. request[t].pc \in Deploying => request[t].deployment < fresh /\ request[t].deployment \in Nat
    BY DEF ReleaseInv, Sound, DeploymentOK, Request
  <2>2. /\ \A d \in deployments' : d.id \in Nat /\ d.id < fresh
        /\ \A s \in snapshots' : s.deployment \in Nat /\ s.deployment < fresh
        /\ \A a \in approvals' : a.deployment \in Nat /\ a.deployment < fresh
    BY <2>1 DEF Grown, ReleaseInv, IdsGiven, TablesTyped, Deployment, Snapshot, DeploymentApproval
  <2> QED
    BY <1>2, <2>2 DEF IdsGiven
<1>5. DeploymentsDistinct'
  <2> SUFFICES ASSUME NEW v \in Threads, NEW u \in Threads, v # u, request'[v].pc \in Deploying,
                      request'[u].pc \in Deploying
               PROVE  request'[v].deployment # request'[u].deployment
    BY DEF DeploymentsDistinct
  <2>1. \A w \in Threads : request[w].pc \in Deploying =>
          request[w].deployment < fresh /\ request[w].deployment \in Nat
    BY DEF ReleaseInv, Sound, DeploymentOK, Request
  <2>2. CASE v # t /\ u # t
    BY <1>1, <2>2 DEF ReleaseInv, DeploymentsDistinct
  <2>3. CASE v = t
    BY <1>1, <1>2, <2>1, <2>3 DEF ReleaseInv, DeploymentsDistinct, OwnDeployment
  <2>4. CASE u = t
    BY <1>1, <1>2, <2>1, <2>4 DEF ReleaseInv, DeploymentsDistinct, OwnDeployment
  <2> QED
    BY <2>2, <2>3, <2>4
<1> QED
  BY <1>1, <1>2, <1>3, <1>4, <1>5 DEF ReleaseInv

\* The same for a step that touches no table.
LEMMA QuietMove ==
  ASSUME ReleaseInv, NEW t \in Threads, NEW x, Become(t, x), RequestTyped(x), Sound(x)',
         UNCHANGED tables, OwnDeployment(t, x), fresh' \in {fresh, fresh + 1}
  PROVE  ReleaseInv'
<1>1. Grown(t)
  BY DEF Grown, tables
<1>2. TablesTyped' /\ VersionsBounded' /\ StoreIsHistory'
  BY DEF ReleaseInv, TablesTyped, VersionsBounded, StoreIsHistory, tables
<1>3. DeploymentsAreBacked' /\ PromotionsAreDeployed' /\ ArtifactsAreTraceable'
  BY DEF ReleaseInv, DeploymentsAreBacked, PromotionsAreDeployed, ArtifactsAreTraceable, tables
<1> QED
  BY <1>1, <1>2, <1>3, RequestMoves

-----------------------------------------------------------------------------
(* Requests that read or answer.                                           *)

LEMMA LatestRows == \A r \in LatestBundles : r \in bundles /\ \A s \in Versions(r.id) : s.version <= r.version
BY DEF LatestBundles, Newest, Versions

LEMMA IdleSound ==
  RequestTyped(NoRequest) /\ Sound(NoRequest)' /\ NoRequest.pc \notin Deploying
BY DEF RequestTyped, NoRequest, Request, Sound, SeenOK, RowOK, DeploymentOK, Promoting, Deploying

LEMMA Answers ==
  ASSUME ReleaseInv, NEW t \in Threads, Answer(t), UNCHANGED tables, fresh' = fresh
  PROVE  ReleaseInv'
BY IdleSound, QuietMove DEF Answer, OwnDeployment

LEMMA StoreBuildStep ==
  ASSUME ReleaseInv, NEW t \in Threads, NEW n \in BundleNames, NEW status \in CompileStatus,
         NEW count \in Nat, StoreBuild(t, n, status, count)
  PROVE  ReleaseInv'
<1>1. PICK id \in BundleIdFor(n) :
        Become(t, [NoRequest EXCEPT
          !.pc = "versions", !.traces = count,
          !.row = [id |-> id, version |-> 1, name |-> n, payload |-> fresh,
                   status |-> status, env |-> "DEV", promotion |-> "DRAFT"]])
  BY DEF StoreBuild
<1> DEFINE row == [id |-> id, version |-> 1, name |-> n, payload |-> fresh,
                   status |-> status, env |-> "DEV", promotion |-> "DRAFT"]
<1>2. PICK x : x = [NoRequest EXCEPT !.pc = "versions", !.traces = count, !.row = row]
  OBVIOUS
<1>3. id \in Nat
  BY LatestRows DEF BundleIdFor, ReleaseInv, TablesTyped, Bundle
<1>4. row \in Bundle /\ row.status \in CompileStatus /\ row.promotion = "DRAFT"
  BY <1>3 DEF Bundle, PromotionStatus, ReleaseInv
<1>5. PICK b \in Bundle : b = row
  BY <1>4
<1>6. Become(t, x) /\ UNCHANGED tables /\ fresh' = fresh + 1
  BY <1>1, <1>2 DEF StoreBuild
<1>7. b.status \in CompileStatus /\ b.promotion = "DRAFT"
  BY <1>4, <1>5
<1>8. x = [NoRequest EXCEPT !.pc = "versions", !.traces = count, !.row = b]
  BY <1>2, <1>5
<1> HIDE DEF row
<1>9. x.pc = "versions" /\ x.row = b
  BY <1>8 DEF NoRequest
<1>10. RequestTyped(x)
  <2>1. x \in Request
    BY <1>8 DEF NoRequest, Request
  <2> QED
    BY <1>9, <2>1 DEF RequestTyped, Promoting
<1>11. Sound(x)'
  BY <1>9, <1>7 DEF Sound, SeenOK, RowOK, DeploymentOK, Promoting, Deploying
<1>12. OwnDeployment(t, x)
  BY <1>9 DEF OwnDeployment, Deploying, Promoting
<1> QED
  BY <1>10, <1>11, <1>12, <1>6, QuietMove

\* The version after the newest one, when there is one.
LEMMA AfterNewest ==
  ASSUME ReleaseInv, NEW id, Versions(id) # {},
         NEW n, n = (CHOOSE r \in Newest(Versions(id)) : TRUE).version + 1
  PROVE  n \in Nat /\ \A r \in Versions(id) : r.version < n
<1>1. PICK m \in Nat : \A r \in Versions(id) : r.version <= m
  BY DEF ReleaseInv, VersionsBounded, Versions
<1>2. Versions(id) \in SUBSET Bundle
  BY DEF Versions, ReleaseInv, TablesTyped
<1>3. Newest(Versions(id)) # {}
  BY <1>1, <1>2, NewestExists
<1>4. PICK b \in Newest(Versions(id)) : b = CHOOSE r \in Newest(Versions(id)) : TRUE
  BY <1>3
<1>5. b \in Versions(id) /\ \A r \in Versions(id) : r.version <= b.version
  BY DEF Newest
<1>6. \A r \in Versions(id) : r.version \in Nat
  BY <1>2 DEF Bundle
<1>7. n = b.version + 1
  BY <1>4
<1>8. b.version \in Nat
  BY <1>5, <1>6
<1>9. PICK top \in Nat : top = b.version
  BY <1>8
<1>10. \A r \in Versions(id) : r.version < top + 1
  BY <1>5, <1>6, <1>9
<1>11. top + 1 = n /\ top + 1 \in Nat
  BY <1>7, <1>9
<1> QED
  BY <1>10, <1>11, Zenon

LEMMA ChooseVersionStep ==
  ASSUME ReleaseInv, NEW t \in Threads, ChooseVersion(t) PROVE ReleaseInv'
<1> DEFINE q == request[t]
           rows == Versions(q.row.id)
           next == IF rows = {} THEN 1 ELSE (CHOOSE r \in Newest(rows) : TRUE).version + 1
<1>1. next \in Nat /\ \A r \in rows : r.version < next
  <2>1. CASE rows = {}
    BY <2>1
  <2>2. CASE rows # {}
    BY <2>2, AfterNewest
  <2> QED
    BY <2>1, <2>2
<1>2. rows \subseteq Bundle
  BY DEF Versions, ReleaseInv, TablesTyped
<1>3. q \in Request /\ q.row \in Bundle /\ q.pc = "versions" /\ RowOK(q)
  BY DEF ReleaseInv, RequestTyped, ChooseVersion, At, Sound
<1>4. Become(t, [q EXCEPT !.pc = "insert", !.row.version = next, !.seen = rows])
  BY DEF ChooseVersion
<1> HIDE DEF rows, next
<1>5. PICK n \in Nat : n = next
  BY <1>1
<1>6. PICK seen \in SUBSET Bundle : seen = rows
  BY <1>2
<1>7. PICK x : x = [q EXCEPT !.pc = "insert", !.row.version = n, !.seen = seen]
  OBVIOUS
<1>8. Become(t, x) /\ UNCHANGED tables /\ fresh' = fresh
  BY <1>5, <1>6, <1>4, <1>7 DEF ChooseVersion
<1>9. \A r \in seen : r.version < n
  BY <1>1, <1>5, <1>6
<1>10. PICK row : row = [q.row EXCEPT !.version = n]
  OBVIOUS
<1>11. /\ row \in Bundle /\ row.version = n
      /\ row.status \in CompileStatus /\ row.promotion = "DRAFT"
  <2>1. /\ row \in Bundle /\ row.version = n
        /\ row.status = q.row.status /\ row.promotion = q.row.promotion
    BY <1>3, <1>10 DEF Bundle
  <2> QED
    BY <1>3, <2>1 DEF RowOK
<1>12. x = [q EXCEPT !.pc = "insert", !.row = row, !.seen = seen]
  BY <1>3, <1>7, <1>10 DEF Request
<1>13. x \in Request /\ x.pc = "insert" /\ x.row = row /\ x.seen = seen
  BY <1>3, <1>11, <1>12 DEF Request
<1>14. RequestTyped(x)
  BY <1>11, <1>13 DEF RequestTyped, Promoting
<1>15. Sound(x)'
  BY <1>9, <1>11, <1>13 DEF Sound, SeenOK, RowOK, DeploymentOK, Promoting, Deploying
<1>16. OwnDeployment(t, x)
  BY <1>13 DEF OwnDeployment, Deploying, Promoting
<1> QED
  BY <1>8, <1>14, <1>15, <1>16, QuietMove

LEMMA PromoteBundleStep ==
  ASSUME ReleaseInv, NEW t \in Threads, PromoteBundle(t) PROVE ReleaseInv'
<1>1. PICK env \in Environments, approved \in BOOLEAN, r \in LatestBundles :
        Become(t, [NoRequest EXCEPT !.pc = "evaluate", !.row = r, !.seen = Versions(r.id),
                                    !.env = env, !.approved = approved])
  BY DEF PromoteBundle, ReadForPromotion
<1>2. r \in Bundle /\ r \in stored /\ \A s \in Versions(r.id) : s.version <= r.version
  BY LatestRows DEF ReleaseInv, TablesTyped, StoreIsHistory
<1>3. PICK seen \in SUBSET Bundle : seen = Versions(r.id)
  BY DEF Versions, ReleaseInv, TablesTyped
<1> DEFINE x == [NoRequest EXCEPT !.pc = "evaluate", !.row = r, !.seen = seen,
                                  !.env = env, !.approved = approved]
<1>4. x \in Request /\ x.pc = "evaluate" /\ x.row = r /\ x.seen = seen /\ x.env = env
  BY <1>2 DEF NoRequest, Request
<1>5. Become(t, x) /\ UNCHANGED tables /\ fresh' = fresh
  BY <1>1, <1>3 DEF PromoteBundle
<1> HIDE DEF x
<1>6. RequestTyped(x)
  BY <1>2, <1>4 DEF RequestTyped, Promoting
<1>7. Sound(x)'
  BY <1>2, <1>3, <1>4, <1>5 DEF Sound, SeenOK, RowOK, DeploymentOK, Promoting, Deploying, tables
<1>8. OwnDeployment(t, x)
  BY <1>4 DEF OwnDeployment, Deploying, Promoting
<1> QED
  BY <1>5, <1>6, <1>7, <1>8, QuietMove

LEMMA PromotionAllowedStep ==
  ASSUME ReleaseInv, NEW t \in Threads, PromotionAllowed(t) PROVE ReleaseInv'
<1> DEFINE q == request[t]
           pc == IF q.env # "PRODUCTION" THEN "snapshot" ELSE IF q.approved THEN "approve" ELSE "suspend"
<1>1. PICK k : k = fresh
  OBVIOUS
<1>2. PICK y : y = q
  OBVIOUS
<1>3. PICK x : x = [y EXCEPT !.pc = pc, !.deployment = k]
  OBVIOUS
<1>4. q \in Request /\ q.pc = "evaluate" /\ RequestTyped(q) /\ Sound(q) /\ fresh \in Nat
  BY DEF ReleaseInv, RequestTyped, PromotionAllowed, At
<1>5. Become(t, x) /\ UNCHANGED tables /\ fresh' = fresh + 1
  BY <1>1, <1>2, <1>3 DEF PromotionAllowed
<1>6. pc \in {"snapshot", "approve", "suspend"} /\ (pc = "snapshot" => q.env # "PRODUCTION")
  OBVIOUS
<1> HIDE DEF pc
<1>7. /\ x \in Request /\ x.pc = pc /\ x.row = y.row /\ x.seen = y.seen /\ x.env = y.env
      /\ x.deployment = k
  BY <1>4, <1>6, <1>1, <1>2, <1>3 DEF Request
<1>8. x.pc \in {"snapshot", "approve", "suspend"} /\ (x.pc = "snapshot" => x.env # "PRODUCTION")
  BY <1>6, <1>7, <1>2
<1>9. /\ y.row \in Bundle /\ y.env \in Environments /\ y.row \in stored
       /\ \A r \in y.seen : r.version <= y.row.version
  BY <1>4, <1>2 DEF RequestTyped, Promoting, Sound, RowOK, SeenOK
<1>10. RequestTyped(x)
  BY <1>7, <1>9 DEF RequestTyped, Promoting
<1>11. /\ \A s \in snapshots : s.deployment # k
       /\ \A d \in deployments : d.id # k
       /\ \A a \in approvals : a.deployment # k
  <2>1. /\ \A s \in snapshots : s.deployment \in Nat /\ s.deployment < fresh
        /\ \A d \in deployments : d.id \in Nat /\ d.id < fresh
        /\ \A a \in approvals : a.deployment \in Nat /\ a.deployment < fresh
    BY DEF ReleaseInv, IdsGiven, TablesTyped, Snapshot, Deployment, DeploymentApproval
  <2> QED
    BY <1>1, <1>4, <2>1
<1>12. SeenOK(x)' /\ RowOK(x)'
  BY <1>5, <1>7, <1>8, <1>9 DEF SeenOK, RowOK, Promoting, tables
<1>13. DeploymentOK(x)'
  <2>1. x.deployment < fresh'
    BY <1>4, <1>5, <1>7, <1>1
  <2>2. /\ \A s \in snapshots' : s.deployment # x.deployment
        /\ \A d \in deployments' : d.id # x.deployment
        /\ [deployment |-> x.deployment, decision |-> "APPROVED"] \notin approvals'
    <3>1. snapshots' = snapshots /\ deployments' = deployments /\ approvals' = approvals
      BY <1>5 DEF tables
    <3>2. x.deployment = k
      BY <1>7
    <3>3. [deployment |-> k, decision |-> "APPROVED"] \notin approvals
      BY <1>11
    <3> QED
      BY <1>11, <3>1, <3>2, <3>3
  <2>3. x.pc \notin {"deploy", "promote"} /\ ~(x.pc \in {"snapshot", "deploy"} /\ x.env = "PRODUCTION")
    BY <1>8
  <2>4. x.pc # "promote"
    BY <2>3
  <2> QED
    BY <2>1, <2>2, <2>3, <2>4, Zenon DEF DeploymentOK
<1>14. OwnDeployment(t, x)
  BY <1>5, <1>7, <1>1 DEF OwnDeployment
<1> QED
  BY <1>5, <1>10, <1>12, <1>13, <1>14, QuietMove DEF Sound

LEMMA RollbackStepLemma ==
  ASSUME ReleaseInv, NEW t \in Threads, NEW r \in bundles, NEW l \in {"latest", "erase"},
         Become(t, [NoRequest EXCEPT !.pc = l, !.row = r]), UNCHANGED tables, fresh' = fresh
  PROVE  ReleaseInv'
<1> DEFINE x == [NoRequest EXCEPT !.pc = l, !.row = r]
<1>1. r \in Bundle /\ r \in stored
  BY DEF ReleaseInv, TablesTyped, StoreIsHistory
<1>2. x \in Request /\ x.pc = l /\ x.row = r
  BY <1>1 DEF NoRequest, Request
<1>3. Become(t, x)
  OBVIOUS
<1> HIDE DEF x
<1>4. RequestTyped(x)
  BY <1>1, <1>2 DEF RequestTyped, Promoting
<1>5. Sound(x)'
  BY <1>1, <1>2 DEF Sound, SeenOK, RowOK, DeploymentOK, Promoting, Deploying, tables
<1>6. OwnDeployment(t, x)
  BY <1>2 DEF OwnDeployment, Deploying, Promoting
<1> QED
  BY <1>3, <1>4, <1>5, <1>6, QuietMove

LEMMA ReadLatestStep ==
  ASSUME ReleaseInv, NEW t \in Threads, ReadLatest(t) PROVE ReleaseInv'
<1> DEFINE q == request[t]
           rows == Versions(q.row.id)
<1>1. q \in Request /\ q.row \in Bundle /\ q.pc = "latest" /\ q.row \in stored
  BY DEF ReleaseInv, RequestTyped, ReadLatest, At, Sound, RowOK
<1>2. NextVersion(q.row) \in Nat /\ \A r \in rows : r.version < NextVersion(q.row)
  <2>1. CASE rows = {}
    BY <1>1, <2>1 DEF NextVersion, Bundle
  <2>2. CASE rows # {}
    BY <2>2, AfterNewest DEF NextVersion
  <2> QED
    BY <2>1, <2>2
<1>3. PICK n \in Nat : n = NextVersion(q.row)
  BY <1>2
<1>4. PICK seen \in SUBSET Bundle : seen = rows
  BY DEF Versions, ReleaseInv, TablesTyped
<1>5. PICK target : target = q.row
  OBVIOUS
<1>6. PICK row : row = [target EXCEPT !.version = n, !.status = "COMPILED", !.promotion = "DRAFT"]
  OBVIOUS
<1>7. PICK x : x = [q EXCEPT !.pc = "restore", !.seen = seen, !.row = row]
  OBVIOUS
<1>8. Become(t, x) /\ UNCHANGED tables /\ fresh' = fresh
  BY <1>3, <1>4, <1>5, <1>6, <1>7 DEF ReadLatest
<1>9. /\ row \in Bundle /\ row.version = n /\ row.promotion = "DRAFT"
      /\ row.id = target.id /\ row.payload = target.payload
  BY <1>1, <1>5, <1>6 DEF Bundle, PromotionStatus
<1>10. x \in Request /\ x.pc = "restore" /\ x.row = row /\ x.seen = seen
  BY <1>1, <1>9, <1>7 DEF Request
<1>11. RequestTyped(x)
  BY <1>9, <1>10 DEF RequestTyped, Promoting
<1>12. \E s \in stored : s.id = target.id /\ s.payload = target.payload /\ s.status \in CompileStatus
  BY <1>1, <1>5 DEF ReleaseInv, ArtifactsAreTraceable
<1>13. \A r \in seen : r.version < n
  BY <1>2, <1>3, <1>4
<1>14. Sound(x)'
  BY <1>8, <1>9, <1>10, <1>12, <1>13 DEF Sound, SeenOK, RowOK, DeploymentOK, Promoting, Deploying, tables
<1>15. OwnDeployment(t, x)
  BY <1>10 DEF OwnDeployment, Deploying, Promoting
<1> QED
  BY <1>8, <1>11, <1>14, <1>15, QuietMove

-----------------------------------------------------------------------------
(* Requests that write.  Saving a row in bundles keeps what the tables     *)
(* promise if the row is a draft with a known origin or a deployed one.    *)

RowMayBeStored(row) ==
  /\ \/ row.status \in CompileStatus
     \/ \E s \in stored : s.id = row.id /\ s.payload = row.payload /\ s.status \in CompileStatus
  /\ row.promotion # "DRAFT" =>
       \E d \in deployments :
         /\ d.bundle = row.id /\ d.version + 1 = row.version /\ d.env = row.env /\ d.status = "SUCCESS"
         /\ [deployment |-> d.id, payload |-> row.payload] \in snapshots

LEMMA RowStored ==
  ASSUME ReleaseInv, NEW row \in Bundle, SaveBundle(row), UNCHANGED others, RowMayBeStored(row),
         NEW t \in Threads, NEW x, Become(t, x), RequestTyped(x), Sound(x)',
         x.pc \notin Deploying, fresh' = fresh
  PROVE  ReleaseInv'
<1>1. bundles' = {r \in bundles : ~SameKey(r, row)} \cup {row} /\ stored' = stored \cup {row}
  BY DEF SaveBundle
<1>2. TablesTyped'
  <2>1. bundles' \subseteq Bundle /\ stored' \subseteq Bundle
    BY <1>1 DEF ReleaseInv, TablesTyped
  <2>2. ASSUME NEW r \in bundles', NEW s \in bundles', SameKey(r, s) PROVE r = s
    BY <1>1, <2>2 DEF ReleaseInv, TablesTyped, SameKey
  <2> QED
    BY <2>1, <2>2 DEF ReleaseInv, TablesTyped, others
<1>3. VersionsBounded'
  <2>1. PICK m \in Nat : \A r \in bundles : r.version <= m
    BY DEF ReleaseInv, VersionsBounded
  <2>2. row.version \in Nat /\ \A r \in bundles : r.version \in Nat
    BY DEF Bundle, ReleaseInv, TablesTyped
  <2>3. m + row.version \in Nat /\ \A r \in bundles' : r.version <= m + row.version
    BY <1>1, <2>1, <2>2
  <2> QED
    BY <2>3 DEF VersionsBounded
<1>4. StoreIsHistory'
  BY <1>1 DEF ReleaseInv, StoreIsHistory
<1>5. Grown(t) /\ OwnDeployment(t, x)
  BY <1>1 DEF Grown, others, OwnDeployment
<1>6. DeploymentsAreBacked'
  <2>1. DeploymentsAreBacked
    BY DEF ReleaseInv
  <2> QED
    BY <1>1, <2>1 DEF DeploymentsAreBacked, others
<1>7. PromotionsAreDeployed'
  <2>1. PromotionsAreDeployed
    BY DEF ReleaseInv
  <2> QED
    BY <1>1, <2>1 DEF PromotionsAreDeployed, RowMayBeStored, others
<1>8. ArtifactsAreTraceable'
  <2>1. ArtifactsAreTraceable
    BY DEF ReleaseInv
  <2>2. \A r \in stored' : \E s \in stored' : s.id = r.id /\ s.payload = r.payload /\ s.status \in CompileStatus
    BY <1>1, <2>1 DEF ArtifactsAreTraceable, RowMayBeStored
  <2> QED
    BY <1>1, <2>1, <2>2 DEF ArtifactsAreTraceable, others
<1> QED
  BY <1>2, <1>3, <1>4, <1>5, <1>6, <1>7, <1>8, RequestMoves

LEMMA InsertBundleStep ==
  ASSUME ReleaseInv, NEW t \in Threads, InsertBundle(t) PROVE ReleaseInv'
<1>1. PICK q \in Request : q = request[t]
  BY DEF ReleaseInv
<1>2. q.row \in Bundle /\ q.pc = "insert" /\ RowOK(q)
  BY <1>1 DEF ReleaseInv, RequestTyped, InsertBundle, At, Sound
<1>3. PICK x : x = [q EXCEPT !.pc = "record"]
  OBVIOUS
<1>4. x \in Request /\ x.pc = "record" /\ x.row = q.row
  BY <1>3 DEF Request
<1>5. SaveBundle(q.row) /\ Become(t, x) /\ UNCHANGED others /\ fresh' = fresh
  BY <1>1, <1>3 DEF InsertBundle, Goto
<1>6. RequestTyped(x) /\ x.pc \notin Deploying
  BY <1>2, <1>4 DEF RequestTyped, Promoting, Deploying
<1>7. q.row \in stored'
  BY <1>5 DEF SaveBundle
<1>8. Sound(x)'
  BY <1>2, <1>4, <1>7 DEF Sound, SeenOK, RowOK, DeploymentOK, Promoting, Deploying
<1>9. RowMayBeStored(q.row)
  BY <1>2 DEF RowMayBeStored, RowOK
<1> QED
  BY <1>2, <1>5, <1>6, <1>8, <1>9, RowStored

LEMMA SaveRestoredStep ==
  ASSUME ReleaseInv, NEW t \in Threads, SaveRestored(t) PROVE ReleaseInv'
<1>1. PICK q \in Request : q = request[t]
  BY DEF ReleaseInv
<1>2. q.row \in Bundle /\ q.pc = "restore" /\ RowOK(q)
  BY <1>1 DEF ReleaseInv, RequestTyped, SaveRestored, At, Sound
<1>3. SaveBundle(q.row) /\ Become(t, NoRequest) /\ UNCHANGED others /\ fresh' = fresh
  BY <1>1 DEF SaveRestored, Answer
<1>4. RowMayBeStored(q.row)
  BY <1>2 DEF RowMayBeStored, RowOK
<1> QED
  BY <1>2, <1>3, <1>4, IdleSound, RowStored

LEMMA SavePromotedStep ==
  ASSUME ReleaseInv, NEW t \in Threads, SavePromoted(t) PROVE ReleaseInv'
<1>1. PICK q \in Request : q = request[t]
  BY DEF ReleaseInv
<1>2. /\ q.row \in Bundle /\ q.pc = "promote" /\ q.env \in Environments /\ q.row \in stored
      /\ [deployment |-> q.deployment, payload |-> q.row.payload] \in snapshots
      /\ Succeeded(q) \in deployments
  BY <1>1 DEF ReleaseInv, RequestTyped, SavePromoted, At, Sound, Promoting, RowOK, DeploymentOK
<1>3. PICK b \in Bundle : b = q.row
  BY <1>2
<1>4. PICK status \in {"APPROVED", "PROMOTED"} :
        status = IF q.env = "PRODUCTION" THEN "APPROVED" ELSE "PROMOTED"
  OBVIOUS
<1>5. PICK v \in Nat : v = b.version + 1
  BY DEF Bundle
<1>6. PICK row : row = [b EXCEPT !.version = v, !.status = "COMPILED", !.env = q.env, !.promotion = status]
  OBVIOUS
<1>7. /\ row \in Bundle /\ row.version = v /\ row.env = q.env
      /\ row.id = b.id /\ row.payload = b.payload
  BY <1>2, <1>6 DEF Bundle, PromotionStatus
<1>8. row = PromotedRow(t)
  BY <1>1, <1>3, <1>4, <1>5, <1>6 DEF PromotedRow
<1>9. SaveBundle(row) /\ Become(t, NoRequest) /\ UNCHANGED others /\ fresh' = fresh
  BY <1>8 DEF SavePromoted, Answer
<1>10. \E s \in stored : s.id = row.id /\ s.payload = row.payload /\ s.status \in CompileStatus
  BY <1>2, <1>3, <1>7 DEF ReleaseInv, ArtifactsAreTraceable
<1>11. \E d \in deployments :
         /\ d.bundle = row.id /\ d.version + 1 = row.version /\ d.env = row.env /\ d.status = "SUCCESS"
         /\ [deployment |-> d.id, payload |-> row.payload] \in snapshots
  BY <1>2, <1>3, <1>5, <1>7 DEF Succeeded
<1> QED
  BY <1>7, <1>9, <1>10, <1>11, IdleSound, RowStored DEF RowMayBeStored

LEMMA RecordCompilationStep ==
  ASSUME ReleaseInv, NEW t \in Threads, RecordCompilation(t) PROVE ReleaseInv'
<1>1. PICK q \in Request : q = request[t]
  BY DEF ReleaseInv
<1>2. q.row \in Bundle /\ q.pc = "record" /\ RowOK(q)
  BY <1>1 DEF ReleaseInv, RequestTyped, RecordCompilation, At, Sound
<1>3. PICK x : x = [q EXCEPT !.pc = "traces"]
  OBVIOUS
<1>4. x \in Request /\ x.pc = "traces" /\ x.row = q.row
  BY <1>3 DEF Request
<1>5. PICK c \in Compilation : c = [build |-> q.row.payload, bundle |-> q.row.id, status |-> q.row.status]
  BY <1>2 DEF Bundle, Compilation, RowOK
<1>6. c.build = q.row.payload /\ c.bundle = q.row.id /\ c.status = q.row.status
  BY <1>5
<1>7. /\ compilations' = compilations \cup {c} /\ Become(t, x) /\ fresh' = fresh
      /\ UNCHANGED <<bundles, traces, deployments, approvals, snapshots, stored>>
  BY <1>1, <1>3, <1>5 DEF RecordCompilation, SaveCompilation, Goto
<1>8. RequestTyped(x) /\ x.pc \notin Deploying
  BY <1>2, <1>4 DEF RequestTyped, Promoting, Deploying
<1>9. Sound(x)'
  BY <1>2, <1>4, <1>6, <1>7 DEF Sound, SeenOK, RowOK, DeploymentOK, Promoting, Deploying
<1>10. TablesTyped' /\ VersionsBounded' /\ StoreIsHistory'
  BY <1>7 DEF ReleaseInv, TablesTyped, VersionsBounded, StoreIsHistory
<1>11. DeploymentsAreBacked' /\ PromotionsAreDeployed'
  BY <1>7 DEF ReleaseInv, DeploymentsAreBacked, PromotionsAreDeployed
<1>12. ArtifactsAreTraceable'
  BY <1>2, <1>6, <1>7 DEF ReleaseInv, ArtifactsAreTraceable, RowOK
<1>13. Grown(t) /\ OwnDeployment(t, x)
  BY <1>7, <1>8 DEF Grown, OwnDeployment
<1> QED
  BY <1>7, <1>8, <1>9, <1>10, <1>11, <1>12, <1>13, RequestMoves

LEMMA SaveTraceStep ==
  ASSUME ReleaseInv, NEW t \in Threads, SaveTrace(t) PROVE ReleaseInv'
<1>1. PICK q \in Request : q = request[t]
  BY DEF ReleaseInv
<1>2. q.row \in Bundle /\ q.pc = "traces" /\ RowOK(q) /\ q.traces \in Nat \ {0}
  BY <1>1 DEF ReleaseInv, RequestTyped, SaveTrace, At, Sound, Request
<1>3. PICK n \in Nat : n = q.traces - 1
  BY <1>2
<1>4. PICK x : x = [q EXCEPT !.traces = n]
  OBVIOUS
<1>5. x \in Request /\ x.pc = "traces" /\ x.row = q.row
  BY <1>2, <1>4 DEF Request
<1>6. /\ traces' = traces \cup {<<q.row.payload, q.traces>>} /\ Become(t, x) /\ fresh' = fresh
      /\ UNCHANGED <<bundles, compilations, deployments, approvals, snapshots, stored>>
  BY <1>1, <1>3, <1>4 DEF SaveTrace, SaveTraceRow
<1>7. RequestTyped(x) /\ x.pc \notin Deploying
  BY <1>2, <1>5 DEF RequestTyped, Promoting, Deploying
<1>8. Sound(x)'
  BY <1>2, <1>5, <1>6 DEF Sound, SeenOK, RowOK, DeploymentOK, Promoting, Deploying
<1>9. TablesTyped' /\ VersionsBounded' /\ StoreIsHistory'
  <2>1. q.row.payload \in Nat
    BY <1>2 DEF Bundle
  <2> QED
    BY <1>2, <1>6, <2>1 DEF ReleaseInv, TablesTyped, VersionsBounded, StoreIsHistory
<1>10. DeploymentsAreBacked' /\ PromotionsAreDeployed'
  BY <1>6 DEF ReleaseInv, DeploymentsAreBacked, PromotionsAreDeployed
<1>11. ArtifactsAreTraceable'
  BY <1>2, <1>6 DEF ReleaseInv, ArtifactsAreTraceable, RowOK
<1>12. Grown(t) /\ OwnDeployment(t, x)
  BY <1>6, <1>7 DEF Grown, OwnDeployment
<1> QED
  BY <1>6, <1>7, <1>8, <1>9, <1>10, <1>11, <1>12, RequestMoves

LEMMA DeleteBundleStep ==
  ASSUME ReleaseInv, NEW t \in Threads, DeleteBundle(t) PROVE ReleaseInv'
<1>1. bundles' \subseteq bundles /\ UNCHANGED others /\ stored' = stored
  BY DEF DeleteBundle, RemoveVersions
<1>2. Become(t, NoRequest) /\ fresh' = fresh
  BY DEF DeleteBundle, Answer
<1>3. TablesTyped' /\ VersionsBounded' /\ StoreIsHistory'
  BY <1>1 DEF ReleaseInv, TablesTyped, VersionsBounded, StoreIsHistory, others
<1>4. DeploymentsAreBacked' /\ PromotionsAreDeployed' /\ ArtifactsAreTraceable'
  BY <1>1 DEF ReleaseInv, DeploymentsAreBacked, PromotionsAreDeployed, ArtifactsAreTraceable, others
<1>5. Grown(t) /\ OwnDeployment(t, NoRequest)
  BY <1>1, IdleSound DEF Grown, others, OwnDeployment
<1> QED
  BY <1>2, <1>3, <1>4, <1>5, IdleSound, RequestMoves

-----------------------------------------------------------------------------
(* A promotion writes its approval, snapshot and deployment.               *)

\* What a promoting request knows while it does not change its row.
LEMMA PromotingOn ==
  ASSUME NEW q \in Request, RequestTyped(q), SeenOK(q), RowOK(q), q.pc \in Deploying,
         NEW l \in Deploying, NEW x, x = [q EXCEPT !.pc = l]
  PROVE  /\ RequestTyped(x) /\ SeenOK(x) /\ RowOK(x)
         /\ x.pc = l /\ x.row = q.row /\ x.env = q.env /\ x.deployment = q.deployment
<1>1. x \in Request /\ x.pc = l /\ x.row = q.row /\ x.env = q.env /\ x.deployment = q.deployment /\ x.seen = q.seen
  BY DEF Request, Deploying, Promoting
<1> QED
  BY <1>1 DEF RequestTyped, SeenOK, RowOK, Deploying, Promoting

LEMMA SaveApprovalStep ==
  ASSUME ReleaseInv, NEW t \in Threads, SaveApproval(t) PROVE ReleaseInv'
<1>1. PICK q \in Request : q = request[t]
  BY DEF ReleaseInv
<1>2. RequestTyped(q) /\ SeenOK(q) /\ RowOK(q) /\ DeploymentOK(q) /\ q.pc = "approve"
  BY <1>1 DEF ReleaseInv, SaveApproval, At, Sound
<1>3. PICK x : x = [q EXCEPT !.pc = "snapshot"]
  OBVIOUS
<1>4. /\ RequestTyped(x) /\ SeenOK(x) /\ RowOK(x)
      /\ x.pc = "snapshot" /\ x.row = q.row /\ x.env = q.env /\ x.deployment = q.deployment
  BY <1>2, <1>3, PromotingOn DEF Deploying, Promoting
<1>5. PICK a \in DeploymentApproval : a = [deployment |-> q.deployment, decision |-> "APPROVED"]
  BY DEF Request, DeploymentApproval
<1>6. /\ approvals' = approvals \cup {a} /\ Become(t, x) /\ fresh' = fresh
      /\ UNCHANGED <<bundles, compilations, traces, deployments, snapshots, stored>>
  BY <1>1, <1>3, <1>5 DEF SaveApproval, SaveDeploymentApproval, Goto
<1>7. Sound(x)'
  <2>1. SeenOK(x)' /\ RowOK(x)'
    BY <1>4, <1>6 DEF SeenOK, RowOK
  <2>2. DeploymentOK(x)'
    BY <1>2, <1>4, <1>5, <1>6 DEF DeploymentOK, Deploying, Promoting
  <2> QED
    BY <2>1, <2>2 DEF Sound
<1>8. TablesTyped' /\ VersionsBounded' /\ StoreIsHistory'
  BY <1>6 DEF ReleaseInv, TablesTyped, VersionsBounded, StoreIsHistory
<1>9. DeploymentsAreBacked'
  <2>1. \A d \in deployments : d.id # q.deployment
    BY <1>2 DEF DeploymentOK
  <2>2. \A d \in deployments : [deployment |-> d.id, decision |-> "APPROVED"] # a
    BY <1>5, <2>1
  <2> QED
    BY <1>6, <2>2 DEF ReleaseInv, DeploymentsAreBacked
<1>10. PromotionsAreDeployed' /\ ArtifactsAreTraceable'
  BY <1>6 DEF ReleaseInv, PromotionsAreDeployed, ArtifactsAreTraceable
<1>11. Grown(t) /\ OwnDeployment(t, x)
  BY <1>1, <1>2, <1>4, <1>5, <1>6 DEF Grown, OwnDeployment, Deploying, Promoting
<1> QED
  BY <1>4, <1>6, <1>7, <1>8, <1>9, <1>10, <1>11, RequestMoves

LEMMA AskForApprovalStep ==
  ASSUME ReleaseInv, NEW t \in Threads, AskForApproval(t) PROVE ReleaseInv'
<1>1. PICK q \in Request : q = request[t]
  BY DEF ReleaseInv
<1>2. q.pc = "ask"
  BY <1>1 DEF AskForApproval, At
<1>3. PICK a \in DeploymentApproval : a = [deployment |-> q.deployment, decision |-> "PENDING"]
  BY DEF Request, DeploymentApproval
<1>4. /\ approvals' = approvals \cup {a} /\ Become(t, NoRequest) /\ fresh' = fresh
      /\ UNCHANGED <<bundles, compilations, traces, deployments, snapshots, stored>>
  BY <1>1, <1>3 DEF AskForApproval, SaveDeploymentApproval, Answer
<1>5. TablesTyped' /\ VersionsBounded' /\ StoreIsHistory'
  BY <1>4 DEF ReleaseInv, TablesTyped, VersionsBounded, StoreIsHistory
<1>6. DeploymentsAreBacked'
  <2>1. \A d \in deployments : [deployment |-> d.id, decision |-> "APPROVED"] # a
    BY <1>3
  <2> QED
    BY <1>4, <2>1 DEF ReleaseInv, DeploymentsAreBacked
<1>7. PromotionsAreDeployed' /\ ArtifactsAreTraceable'
  BY <1>4 DEF ReleaseInv, PromotionsAreDeployed, ArtifactsAreTraceable
<1>8. Grown(t) /\ OwnDeployment(t, NoRequest)
  BY <1>1, <1>2, <1>3, <1>4, IdleSound DEF Grown, OwnDeployment, Deploying, Promoting
<1> QED
  BY <1>4, <1>5, <1>6, <1>7, <1>8, IdleSound, RequestMoves

LEMMA SaveSnapshotStep ==
  ASSUME ReleaseInv, NEW t \in Threads, SaveSnapshot(t) PROVE ReleaseInv'
<1>1. PICK q \in Request : q = request[t]
  BY DEF ReleaseInv
<1>2. RequestTyped(q) /\ SeenOK(q) /\ RowOK(q) /\ DeploymentOK(q) /\ q.pc = "snapshot"
  BY <1>1 DEF ReleaseInv, SaveSnapshot, At, Sound
<1>3. PICK x : x = [q EXCEPT !.pc = "deploy"]
  OBVIOUS
<1>4. /\ RequestTyped(x) /\ SeenOK(x) /\ RowOK(x)
      /\ x.pc = "deploy" /\ x.row = q.row /\ x.env = q.env /\ x.deployment = q.deployment
  BY <1>2, <1>3, PromotingOn DEF Deploying, Promoting
<1>5. PICK s \in Snapshot : s = [deployment |-> q.deployment, payload |-> q.row.payload]
  BY <1>2 DEF Request, RequestTyped, Bundle, Snapshot
<1>6. /\ snapshots' = snapshots \cup {s} /\ Become(t, x) /\ fresh' = fresh
      /\ UNCHANGED <<bundles, compilations, traces, deployments, approvals, stored>>
  BY <1>1, <1>3, <1>5 DEF SaveSnapshot, SaveDeploymentSnapshot, Goto
<1>7. Sound(x)'
  <2>1. SeenOK(x)' /\ RowOK(x)'
    BY <1>4, <1>6 DEF SeenOK, RowOK
  <2>2. DeploymentOK(x)'
    BY <1>2, <1>4, <1>5, <1>6 DEF DeploymentOK, Deploying, Promoting
  <2> QED
    BY <2>1, <2>2 DEF Sound
<1>8. TablesTyped' /\ VersionsBounded' /\ StoreIsHistory'
  BY <1>6 DEF ReleaseInv, TablesTyped, VersionsBounded, StoreIsHistory
<1>9. DeploymentsAreBacked'
  <2>1. \A d \in deployments : d.id # s.deployment
    BY <1>2, <1>5 DEF DeploymentOK
  <2> QED
    BY <1>6, <2>1 DEF ReleaseInv, DeploymentsAreBacked
<1>10. PromotionsAreDeployed' /\ ArtifactsAreTraceable'
  BY <1>6 DEF ReleaseInv, PromotionsAreDeployed, ArtifactsAreTraceable
<1>11. Grown(t) /\ OwnDeployment(t, x)
  BY <1>1, <1>2, <1>4, <1>5, <1>6 DEF Grown, OwnDeployment, Deploying, Promoting
<1> QED
  BY <1>4, <1>6, <1>7, <1>8, <1>9, <1>10, <1>11, RequestMoves

\* A deployment whose id is new to the table.
LEMMA DeploymentPut ==
  ASSUME ReleaseInv, NEW d \in Deployment, PutDeployment(d), \A e \in deployments : e.id # d.id,
         UNCHANGED <<bundles, compilations, traces, approvals, snapshots, stored>>,
         IF d.status = "SUCCESS"
         THEN /\ \E r \in stored : /\ r.id = d.bundle /\ r.version = d.version
                                   /\ [deployment |-> d.id, payload |-> r.payload] \in snapshots
              /\ d.env = "PRODUCTION" => [deployment |-> d.id, decision |-> "APPROVED"] \in approvals
         ELSE /\ \A s \in snapshots : s.deployment # d.id
              /\ [deployment |-> d.id, decision |-> "APPROVED"] \notin approvals
  PROVE  /\ deployments' = deployments \cup {d}
         /\ TablesTyped' /\ VersionsBounded' /\ StoreIsHistory'
         /\ DeploymentsAreBacked' /\ PromotionsAreDeployed' /\ ArtifactsAreTraceable'
<1>1. deployments' = deployments \cup {d}
  BY DEF PutDeployment
<1>2. TablesTyped' /\ VersionsBounded' /\ StoreIsHistory'
  BY <1>1 DEF ReleaseInv, TablesTyped, VersionsBounded, StoreIsHistory
<1>3. DeploymentsAreBacked'
  BY <1>1 DEF ReleaseInv, DeploymentsAreBacked
<1>4. PromotionsAreDeployed' /\ ArtifactsAreTraceable'
  BY <1>1 DEF ReleaseInv, PromotionsAreDeployed, ArtifactsAreTraceable
<1> QED
  BY <1>1, <1>2, <1>3, <1>4

LEMMA DeploymentTyped ==
  ASSUME ReleaseInv, NEW t \in Threads, NEW q \in Request, q = request[t], q.pc \in Deploying,
         NEW status \in {"PENDING", "SUCCESS"}
  PROVE  \E d \in Deployment :
           /\ d = DeploymentOf(t, status)
           /\ d.id = q.deployment /\ d.bundle = q.row.id /\ d.version = q.row.version
           /\ d.env = q.env /\ d.status = status
<1>1. q.row \in Bundle /\ q.env \in Environments /\ q.deployment \in Nat
  BY DEF ReleaseInv, RequestTyped, Request, Deploying, Promoting
<1>2. q.row.id \in Nat /\ q.row.version \in Nat
  BY <1>1 DEF Bundle
<1>3. PICK d : d = DeploymentOf(t, status)
  OBVIOUS
<1>4. d = [id |-> q.deployment, bundle |-> q.row.id, version |-> q.row.version, env |-> q.env, status |-> status]
  BY <1>3 DEF DeploymentOf
<1>5. d \in Deployment
  BY <1>1, <1>2, <1>4 DEF Deployment
<1> QED
  BY <1>3, <1>4, <1>5

LEMMA SuspendDeploymentStep ==
  ASSUME ReleaseInv, NEW t \in Threads, SuspendDeployment(t) PROVE ReleaseInv'
<1>1. PICK q \in Request : q = request[t]
  BY DEF ReleaseInv
<1>2. RequestTyped(q) /\ SeenOK(q) /\ RowOK(q) /\ DeploymentOK(q) /\ q.pc = "suspend"
  BY <1>1 DEF ReleaseInv, SuspendDeployment, At, Sound
<1>3. PICK x : x = [q EXCEPT !.pc = "ask"]
  OBVIOUS
<1>4. /\ RequestTyped(x) /\ SeenOK(x) /\ RowOK(x)
      /\ x.pc = "ask" /\ x.row = q.row /\ x.env = q.env /\ x.deployment = q.deployment
  BY <1>2, <1>3, PromotingOn DEF Deploying, Promoting
<1>5. PICK d \in Deployment :
        /\ d = DeploymentOf(t, "PENDING")
        /\ d.id = q.deployment /\ d.bundle = q.row.id /\ d.version = q.row.version
        /\ d.env = q.env /\ d.status = "PENDING"
  BY <1>1, <1>2, DeploymentTyped DEF Deploying, Promoting
<1>6. /\ PutDeployment(d) /\ Become(t, x) /\ fresh' = fresh
      /\ UNCHANGED <<bundles, compilations, traces, approvals, snapshots, stored>>
  BY <1>1, <1>3, <1>5 DEF SuspendDeployment, Goto
<1>7. /\ \A e \in deployments : e.id # d.id
      /\ \A s \in snapshots : s.deployment # d.id
      /\ [deployment |-> d.id, decision |-> "APPROVED"] \notin approvals
  BY <1>2, <1>5 DEF DeploymentOK
<1>8. /\ deployments' = deployments \cup {d}
      /\ TablesTyped' /\ VersionsBounded' /\ StoreIsHistory'
      /\ DeploymentsAreBacked' /\ PromotionsAreDeployed' /\ ArtifactsAreTraceable'
  BY <1>5, <1>6, <1>7, DeploymentPut
<1>9. Sound(x)'
  <2>1. SeenOK(x)' /\ RowOK(x)'
    BY <1>4, <1>6 DEF SeenOK, RowOK
  <2>2. DeploymentOK(x)'
    BY <1>2, <1>4, <1>6 DEF DeploymentOK, Deploying, Promoting
  <2> QED
    BY <2>1, <2>2 DEF Sound
<1>10. Grown(t) /\ OwnDeployment(t, x)
  BY <1>1, <1>2, <1>4, <1>5, <1>6, <1>8 DEF Grown, OwnDeployment, Deploying, Promoting
<1> QED
  BY <1>4, <1>6, <1>8, <1>9, <1>10, RequestMoves

LEMMA SaveDeploymentStep ==
  ASSUME ReleaseInv, NEW t \in Threads, SaveDeployment(t) PROVE ReleaseInv'
<1>1. PICK q \in Request : q = request[t]
  BY DEF ReleaseInv
<1>2. RequestTyped(q) /\ SeenOK(q) /\ RowOK(q) /\ DeploymentOK(q) /\ q.pc = "deploy"
  BY <1>1 DEF ReleaseInv, SaveDeployment, At, Sound
<1>3. PICK x : x = [q EXCEPT !.pc = "promote"]
  OBVIOUS
<1>4. /\ RequestTyped(x) /\ SeenOK(x) /\ RowOK(x)
      /\ x.pc = "promote" /\ x.row = q.row /\ x.env = q.env /\ x.deployment = q.deployment
  BY <1>2, <1>3, PromotingOn DEF Deploying, Promoting
<1>5. PICK d \in Deployment :
        /\ d = DeploymentOf(t, "SUCCESS")
        /\ d.id = q.deployment /\ d.bundle = q.row.id /\ d.version = q.row.version
        /\ d.env = q.env /\ d.status = "SUCCESS"
  BY <1>1, <1>2, DeploymentTyped DEF Deploying, Promoting
<1>6. /\ PutDeployment(d) /\ Become(t, x) /\ fresh' = fresh
      /\ UNCHANGED <<bundles, compilations, traces, approvals, snapshots, stored>>
  BY <1>1, <1>3, <1>5 DEF SaveDeployment, Goto
<1>7. /\ \A e \in deployments : e.id # d.id
      /\ q.row \in stored /\ [deployment |-> d.id, payload |-> q.row.payload] \in snapshots
      /\ d.env = "PRODUCTION" => [deployment |-> d.id, decision |-> "APPROVED"] \in approvals
  BY <1>2, <1>5 DEF DeploymentOK, RowOK, Promoting
<1>8. /\ deployments' = deployments \cup {d}
      /\ TablesTyped' /\ VersionsBounded' /\ StoreIsHistory'
      /\ DeploymentsAreBacked' /\ PromotionsAreDeployed' /\ ArtifactsAreTraceable'
  BY <1>5, <1>6, <1>7, DeploymentPut
<1>9. Sound(x)'
  <2>1. SeenOK(x)' /\ RowOK(x)'
    BY <1>4, <1>6 DEF SeenOK, RowOK
  <2>2. Succeeded(x) = d
    BY <1>1, <1>4, <1>5 DEF Succeeded, DeploymentOf
  <2>3. DeploymentOK(x)'
    <3>1. Succeeded(x)' = Succeeded(x)
      BY DEF Succeeded
    <3> QED
      BY <1>2, <1>4, <1>6, <1>8, <2>2, <3>1 DEF DeploymentOK, Deploying, Promoting
  <2> QED
    BY <2>1, <2>3 DEF Sound
<1>10. Grown(t) /\ OwnDeployment(t, x)
  BY <1>1, <1>2, <1>4, <1>5, <1>6, <1>8 DEF Grown, OwnDeployment, Deploying, Promoting
<1> QED
  BY <1>4, <1>6, <1>8, <1>9, <1>10, RequestMoves

-----------------------------------------------------------------------------
(* The invariant of the specification.                                     *)

LEMMA ReleaseInit == Init => ReleaseInv
<1> SUFFICES ASSUME Init PROVE ReleaseInv
  OBVIOUS
<1>1. RequestTyped(NoRequest) /\ Sound(NoRequest)
  BY DEF RequestTyped, NoRequest, Request, Sound, SeenOK, RowOK, DeploymentOK, Promoting, Deploying
<1>2. NoRequest \in Request /\ NoRequest.pc \notin Deploying
  BY <1>1, IdleSound DEF RequestTyped
<1>3. \A t \in Threads : request[t] = NoRequest
  BY DEF Init
<1>4. request \in [Threads -> Request] /\ \A t \in Threads : RequestTyped(request[t]) /\ Sound(request[t])
  BY <1>1, <1>2, <1>3 DEF Init
<1>5. DeploymentsDistinct
  BY <1>2, <1>3 DEF DeploymentsDistinct
<1>6. TablesTyped /\ fresh \in Nat /\ VersionsBounded /\ StoreIsHistory /\ IdsGiven
  BY DEF Init, TablesTyped, VersionsBounded, StoreIsHistory, IdsGiven
<1>7. DeploymentsAreBacked /\ PromotionsAreDeployed /\ ArtifactsAreTraceable
  BY DEF Init, DeploymentsAreBacked, PromotionsAreDeployed, ArtifactsAreTraceable
<1> QED
  BY <1>4, <1>5, <1>6, <1>7 DEF ReleaseInv

LEMMA ReleaseUnchanged == ASSUME ReleaseInv, UNCHANGED releaseVars PROVE ReleaseInv'
<1>1. \A t \in Threads : Sound(request[t])'
  BY DEF ReleaseInv, releaseVars, Sound, SeenOK, RowOK, DeploymentOK, Succeeded
<1> QED
  BY <1>1 DEF ReleaseInv, releaseVars, RequestTyped, TablesTyped, VersionsBounded, StoreIsHistory, IdsGiven,
              DeploymentsDistinct, DeploymentsAreBacked, PromotionsAreDeployed, ArtifactsAreTraceable

LEMMA ReleaseStep == ReleaseInv /\ [Next]_vars => ReleaseInv'
<1> SUFFICES ASSUME ReleaseInv, [Next]_vars PROVE ReleaseInv'
  OBVIOUS
<1>1. ASSUME NEW t \in Threads, CompileStep(t) PROVE ReleaseInv'
  <2>1. CASE CompileRunbook(t)
    BY <2>1, StoreBuildStep, ReleaseAssumptions DEF CompileRunbook
  <2>2. CASE ParseFails(t)
    BY <2>2, StoreBuildStep DEF ParseFails, CompileStatus
  <2>3. CASE AnswerCompile(t)
    BY <2>3, Answers DEF AnswerCompile
  <2> QED
    BY <1>1, <2>1, <2>2, <2>3, ChooseVersionStep, InsertBundleStep, RecordCompilationStep, SaveTraceStep
       DEF CompileStep
<1>2. ASSUME NEW t \in Threads, PromotionStep(t) PROVE ReleaseInv'
  <2>1. CASE PromotionBlocked(t)
    BY <2>1, Answers DEF PromotionBlocked
  <2> QED
    BY <1>2, <2>1, PromoteBundleStep, PromotionAllowedStep, SaveApprovalStep, SuspendDeploymentStep,
       AskForApprovalStep, SaveSnapshotStep, SaveDeploymentStep, SavePromotedStep DEF PromotionStep
<1>3. ASSUME NEW t \in Threads, RollbackStep(t) PROVE ReleaseInv'
  <2>1. CASE RollbackBundle(t)
    BY <2>1, RollbackStepLemma DEF RollbackBundle, ReadTarget
  <2> QED
    BY <1>3, <2>1, ReadLatestStep, SaveRestoredStep DEF RollbackStep
<1>4. ASSUME NEW t \in Threads, DeletionStep(t) PROVE ReleaseInv'
  <2>1. CASE ReadForDeletion(t)
    BY <2>1, LatestRows, RollbackStepLemma DEF ReadForDeletion
  <2> QED
    BY <1>4, <2>1, DeleteBundleStep DEF DeletionStep
<1>5. ASSUME NEW t \in Threads, RequestFails(t) PROVE ReleaseInv'
  BY <1>5, Answers DEF RequestFails
<1>6. CASE \E e \in Editors : EditStep(e)
  BY <1>6, ReleaseUnchanged DEF EditStep
<1>7. CASE UNCHANGED vars
  BY <1>7, ReleaseUnchanged DEF vars
<1> QED
  BY <1>1, <1>2, <1>3, <1>4, <1>5, <1>6, <1>7 DEF Next

LEMMA ReleasesInvariant == Spec => []ReleaseInv
BY ReleaseInit, ReleaseStep, PTL DEF Spec

BudgetOK == budget \in 0..MaxRequests

LEMMA BudgetBounded == Spec => []BudgetOK
<1>1. Init => BudgetOK
  BY ReleaseAssumptions DEF Init, BudgetOK
<1>2. BudgetOK /\ [Next]_vars => BudgetOK'
  <2> SUFFICES ASSUME BudgetOK, [Next]_vars PROVE budget' = budget \/ Spend
    BY ReleaseAssumptions DEF Spend, BudgetOK
  <2> QED
    BY DEF Next, vars, CompileStep, CompileRunbook, ParseFails, ChooseVersion, InsertBundle,
           RecordCompilation, SaveTrace, AnswerCompile, PromotionStep, PromoteBundle, PromotionAllowed,
           PromotionBlocked, SaveApproval, SuspendDeployment, AskForApproval, SaveSnapshot, SaveDeployment,
           SavePromoted, RollbackStep, RollbackBundle, ReadLatest, SaveRestored, DeletionStep,
           ReadForDeletion, DeleteBundle, RequestFails, EditStep
<1> QED
  BY <1>1, <1>2, PTL DEF Spec

\* Type correctness, the keys of the tables included.
THEOREM TypeCorrect == Spec => []TypeOK
<1>1. PolicyInv /\ ReleaseInv /\ BudgetOK => TypeOK
  BY DEF BudgetOK, TypeOK, PolicyInv, ReleaseInv, TablesTyped, RequestTyped, Promoting
<1> QED
  BY <1>1, PoliciesInvariant, ReleasesInvariant, BudgetBounded, PTL

\* Every successful deployment has the snapshot of a version that was stored, and
\* in PRODUCTION an approval; a pending one has neither.
THEOREM DeploymentsBacked == Spec => []DeploymentsAreBacked
BY ReleasesInvariant, PTL DEF ReleaseInv

\* No version is marked promoted without the successful deployment of it.
THEOREM PromotionsDeployed == Spec => []PromotionsAreDeployed
BY ReleasesInvariant, PTL DEF ReleaseInv

\* Payloads, compilations and traces can be traced back to a compilation.
THEOREM ArtifactsTraceable == Spec => []ArtifactsAreTraceable
BY ReleasesInvariant, PTL DEF ReleaseInv

-----------------------------------------------------------------------------
(* Overwriting.                                                            *)

Overwritten(r) == \E s \in bundles' : SameKey(r, s) /\ r # s
Raced(r) == \E t \in Threads : request'[t] # request[t] /\ r \notin request[t].seen

\* Only the three steps that save a bundle can replace a row.
LEMMA OnlySavesAddRows ==
  ASSUME ReleaseInv, [Next]_vars
  PROVE  \/ bundles' \subseteq bundles
         \/ \E t \in Threads : InsertBundle(t) \/ SavePromoted(t) \/ SaveRestored(t)
<1>1. ASSUME NEW t \in Threads, CompileStep(t) PROVE bundles' = bundles \/ InsertBundle(t)
  BY <1>1 DEF CompileStep, CompileRunbook, ParseFails, StoreBuild, ChooseVersion,
              RecordCompilation, SaveTrace, AnswerCompile, tables
<1>2. ASSUME NEW t \in Threads, PromotionStep(t) PROVE bundles' = bundles \/ SavePromoted(t)
  BY <1>2 DEF PromotionStep, PromoteBundle, PromotionAllowed, PromotionBlocked, SaveApproval,
              SuspendDeployment, AskForApproval, SaveSnapshot, SaveDeployment, tables
<1>3. ASSUME NEW t \in Threads, RollbackStep(t) \/ DeletionStep(t) \/ RequestFails(t)
      PROVE  bundles' \subseteq bundles \/ SaveRestored(t)
  BY <1>3 DEF RollbackStep, RollbackBundle, ReadLatest, DeletionStep, ReadForDeletion,
              DeleteBundle, RemoveVersions, RequestFails, tables
<1>4. ASSUME NEW e \in Editors, EditStep(e) PROVE bundles' = bundles
  BY <1>4 DEF EditStep, releaseVars
<1>5. CASE UNCHANGED vars
  BY <1>5 DEF vars, releaseVars
<1> QED
  BY <1>1, <1>2, <1>3, <1>4, <1>5 DEF Next

\* A save whose row is newer than all the request saw only replaces a row it did not see.
LEMMA SaveOverwritesUnseen ==
  ASSUME ReleaseInv, NEW t \in Threads, NEW row, SaveBundle(row), NEW x \in Request, Become(t, x),
         x # request[t], \A r \in request[t].seen : r.version < row.version,
         NEW r \in bundles, Overwritten(r)
  PROVE  Raced(r)
<1>1. PICK s \in bundles' : SameKey(r, s) /\ r # s
  BY DEF Overwritten
<1>2. s = row
  BY <1>1 DEF SaveBundle, ReleaseInv, TablesTyped
<1>3. r.version = row.version /\ r.version \in Nat
  BY <1>1, <1>2 DEF SameKey, ReleaseInv, TablesTyped, Bundle
<1>4. r \notin request[t].seen
  BY <1>3
<1>5. request'[t] = x
  BY Became DEF ReleaseInv
<1> QED
  BY <1>4, <1>5 DEF Raced

LEMMA OverwriteStep ==
  ReleaseInv /\ [Next]_vars => \A r \in bundles : Overwritten(r) => Raced(r)
<1> SUFFICES ASSUME ReleaseInv, [Next]_vars, NEW r \in bundles, Overwritten(r) PROVE Raced(r)
  OBVIOUS
<1>1. CASE bundles' \subseteq bundles
  BY <1>1 DEF Overwritten, ReleaseInv, TablesTyped
<1>2. ASSUME NEW t \in Threads, InsertBundle(t) PROVE Raced(r)
  <2>1. PICK q \in Request : q = request[t]
    BY DEF ReleaseInv
  <2>2. PICK x : x = [q EXCEPT !.pc = "record"]
    OBVIOUS
  <2>3. q.pc = "insert" /\ \A b \in q.seen : b.version < q.row.version
    BY <1>2, <2>1 DEF InsertBundle, At, ReleaseInv, Sound, SeenOK
  <2>4. x \in Request /\ x # q
    BY <2>2, <2>3 DEF Request
  <2>5. SaveBundle(q.row) /\ Become(t, x)
    BY <1>2, <2>1, <2>2 DEF InsertBundle, Goto
  <2> QED
    BY <2>1, <2>3, <2>4, <2>5, SaveOverwritesUnseen
<1>3. NoRequest \in Request /\ NoRequest.pc = "idle"
  BY IdleSound DEF RequestTyped, NoRequest
<1>4. ASSUME NEW t \in Threads, SaveRestored(t) PROVE Raced(r)
  <2>1. PICK q \in Request : q = request[t]
    BY DEF ReleaseInv
  <2>2. q.pc = "restore" /\ \A b \in q.seen : b.version < q.row.version
    BY <1>4, <2>1 DEF SaveRestored, At, ReleaseInv, Sound, SeenOK
  <2>3. SaveBundle(q.row) /\ Become(t, NoRequest) /\ NoRequest # q
    BY <1>3, <1>4, <2>1, <2>2 DEF SaveRestored, Answer
  <2> QED
    BY <1>3, <2>1, <2>2, <2>3, SaveOverwritesUnseen
<1>5. ASSUME NEW t \in Threads, SavePromoted(t) PROVE Raced(r)
  <2>1. PICK q \in Request : q = request[t]
    BY DEF ReleaseInv
  <2>2. q.pc = "promote" /\ q.row \in Bundle /\ \A b \in q.seen : b.version <= q.row.version
    BY <1>5, <2>1 DEF SavePromoted, At, ReleaseInv, RequestTyped, Sound, SeenOK, Promoting
  <2>3. PICK row : row = PromotedRow(t)
    OBVIOUS
  <2>4. row.version = q.row.version + 1
    BY <2>1, <2>2, <2>3 DEF PromotedRow, Bundle
  <2>5. \A b \in q.seen : b.version < row.version
    <3>1. q.seen \subseteq Bundle
      BY DEF Request
    <3> QED
      BY <2>2, <2>4, <3>1 DEF Bundle
  <2>6. SaveBundle(row) /\ Become(t, NoRequest) /\ NoRequest # q
    BY <1>3, <1>5, <2>1, <2>2, <2>3 DEF SavePromoted, Answer
  <2> QED
    BY <1>3, <2>1, <2>5, <2>6, SaveOverwritesUnseen
<1> QED
  BY <1>1, <1>2, <1>4, <1>5, OnlySavesAddRows

\* A version in the store is only replaced by a request that had not seen it when
\* it chose its number: without races no version is ever overwritten.
THEOREM OverwritesRace == Spec => OverwritesAreRaces
<1>1. ReleaseInv /\ [Next]_vars =>
        [\A r \in bundles :
           (\E s \in bundles' : SameKey(r, s) /\ r # s) =>
             \E t \in Threads : request'[t] # request[t] /\ r \notin request[t].seen]_vars
  BY OverwriteStep DEF Overwritten, Raced
<1> QED
  BY <1>1, ReleasesInvariant, PTL DEF Spec, OverwritesAreRaces
=============================================================================
