-------------------------- MODULE ConnectorsProofs --------------------------
(***************************************************************************)
(* Proofs about connectors and the vault, for any number of connectors,    *)
(* callers, services, administrators and secrets:                          *)
(*                                                                         *)
(*   TypeCorrect             every variable has its type                   *)
(*   CircuitsOpenOnFailures  a circuit counts and opens on real failures   *)
(*   RetiredSecretsExpire    a replaced value is not used longer than TTL  *)
(*   ConfigurationsTraced    where the stored configurations come from     *)
(*   DeletionsHold           only a copy read before undoes a deletion     *)
(*                                                                         *)
(* The invariant Inv has two halves. VaultInv says of every cache entry    *)
(* that its value is of a row of its name and that it expires at most TTL  *)
(* after that row was replaced; ids that administrators are about to save  *)
(* are in no row. ConnInv says of every copy a caller holds what is said   *)
(* of the rows (RowOK), and of a caller what it knows at each place        *)
(* (CallOK): a step of any caller saves its copy over any row.             *)
(***************************************************************************)
EXTENDS Connectors, TLAPS

-----------------------------------------------------------------------------
(* The vault: ids are given once, a retired row is never current again, and *)
(* a cached value is that of a row, for no longer than TTL after it retired.*)

Named(i, n) == \E r \in secrets : r.id = i /\ r.name = n

AdminsOK ==
  \A a \in Admins : admin[a] # None =>
    /\ admin[a].current /\ admin[a].id \in 1..MaxSecrets
    /\ \A r \in secrets : r.id # admin[a].id
    /\ \A b \in Admins : admin[b] # None /\ admin[b].id = admin[a].id => a = b

RetiredOK ==
  \A p \in retired :
    /\ p[2] <= now
    /\ \E r \in secrets : r.id = p[1]
    /\ \A r \in secrets : r.id = p[1] => ~r.current

EntryOK(n, e) ==
  /\ e.expires <= now + TTL
  /\ Named(e.value, n)
  /\ \A p \in retired : p[1] = e.value => e.expires <= p[2] + TTL

CachesOK ==
  \A s \in Services, n \in SecretNames : cache[s][n] # None => EntryOK(n, cache[s][n])

VaultInv ==
  /\ VaultOK /\ AdminsOK /\ RetiredOK /\ CachesOK
  /\ \A r \in secrets : r.id \in 1..MaxSecrets

\* What every step leaves true of the rows and of the retired ones.
SecretsGrow ==
  /\ \A r \in secrets : \E q \in secrets' : q.id = r.id /\ q.name = r.name
  /\ \A p \in retired' : p \in retired \/ p[2] = now

\* The parts of VaultOK about the rows.
RowsOK ==
  /\ secrets \subseteq SecretRow
  /\ \A r, s \in secrets : r.id = s.id \/ (r.name = s.name /\ r.version = s.version) => r = s
  /\ \A r \in secrets : \E s \in secrets :
       s.name = r.name /\ \A q \in secrets : q.name = r.name /\ q.current <=> q = s

\* Entries that were correct stay so when the rows grow and no time passes.
LEMMA EntriesKept ==
  ASSUME VaultAssumptions, VaultOK, SecretsGrow, now' = now,
         NEW n \in SecretNames, NEW e \in CacheEntry, EntryOK(n, e)
  PROVE  EntryOK(n, e)'
<1>1. Named(e.value, n)'
  BY DEF EntryOK, Named, SecretsGrow
<1>2. ASSUME NEW p \in retired', p[1] = e.value PROVE e.expires <= p[2] + TTL
  BY <1>2 DEF EntryOK, SecretsGrow
<1>3. e.expires <= now' + TTL
  BY DEF EntryOK
<1>. QED BY <1>1, <1>2, <1>3 DEF EntryOK

\* save_secret of a fresh row with a version of its own: the rows of the name are
\* demoted, and the new one is current.
LEMMA SaveKeepsRows ==
  ASSUME VaultInv, NEW row \in SecretRow, SaveSecret(row), ~VersionTaken(row), row.current,
         row.id \in 1..MaxSecrets, \A r \in secrets : r.id # row.id, now' = now,
         \A p \in retired : p \in Nat \X Time
  PROVE  /\ RowsOK' /\ RetiredOK' /\ SecretsGrow /\ retired' \subseteq Nat \X Time
         /\ \A q \in secrets' : q.id \in 1..MaxSecrets
         /\ \A q \in secrets' : q.id = row.id \/ \E r \in secrets : r.id = q.id
<1> DEFINE D(r) == [r EXCEPT !.current = IF r.name = row.name THEN FALSE ELSE @]
<1>1. ASSUME NEW r \in secrets
      PROVE  /\ D(r) \in SecretRow /\ D(r).id = r.id /\ D(r).name = r.name
             /\ D(r).version = r.version
             /\ r.name = row.name => ~D(r).current
             /\ r.name # row.name => D(r).current = r.current
             /\ r.id # row.id /\ r.id \in 1..MaxSecrets /\ r \in SecretRow
             /\ r.name = row.name => r.version # row.version
  <2>1. r \in SecretRow /\ r.id # row.id /\ r.id \in 1..MaxSecrets
    BY DEF VaultInv, VaultOK
  <2>2. r.name = row.name => r.version # row.version
    BY DEF VersionTaken, VersionNumbers
  <2>3. CASE r.name = row.name
    <3>1. D(r) = [r EXCEPT !.current = FALSE]
      BY <2>3
    <3> HIDE DEF D
    <3>. QED BY <2>1, <2>2, <2>3, <3>1 DEF SecretRow
  <2>4. CASE r.name # row.name
    <3>1. D(r) = r
      BY <2>1, <2>4 DEF SecretRow
    <3> HIDE DEF D
    <3>. QED BY <2>1, <2>2, <2>4, <3>1
  <2>. QED BY <2>3, <2>4
<1>2. secrets' = {D(r) : r \in secrets} \cup {row}
      /\ retired' = retired \cup {<<r.id, now>> : r \in CurrentSecret(row.name)}
  BY DEF SaveSecret
<1>3. ASSUME NEW q \in secrets' PROVE q = row \/ \E r \in secrets : q = D(r)
  BY <1>2
<1>4. row \in secrets' /\ \A r \in secrets : D(r) \in secrets'
  BY <1>2
<1> HIDE DEF D
<1>5. \A r, s \in secrets : r.id = s.id \/ (r.name = s.name /\ r.version = s.version) => r = s
  BY DEF VaultInv, VaultOK
<1>6. ASSUME NEW q \in secrets', NEW s \in secrets',
             q.id = s.id \/ (q.name = s.name /\ q.version = s.version)
      PROVE  q = s
  BY <1>1, <1>3, <1>5, <1>6
<1>7. ASSUME NEW q \in secrets'
      PROVE  \E s \in secrets' : s.name = q.name /\
               \A x \in secrets' : x.name = q.name /\ x.current <=> x = s
  <2>1. CASE q.name = row.name
    <3>1. ASSUME NEW x \in secrets' PROVE x.name = q.name /\ x.current <=> x = row
      BY <1>1, <1>3, <2>1, <3>1
    <3>. QED BY <1>4, <2>1, <3>1
  <2>2. CASE q.name # row.name
    <3>1. PICK r \in secrets : q = D(r)
      BY <1>3, <2>2
    <3>2. PICK s \in secrets : s.name = r.name /\
            \A t \in secrets : t.name = r.name /\ t.current <=> t = s
      BY DEF VaultInv, VaultOK
    <3>3. ASSUME NEW x \in secrets' PROVE x.name = q.name /\ x.current <=> x = D(s)
      <4>1. CASE x = row
        BY <1>1, <2>2, <3>1, <3>2, <4>1
      <4>2. ASSUME NEW t \in secrets, x = D(t) PROVE x.name = q.name /\ x.current <=> x = D(s)
        <5>1. t.name = r.name => D(t).current = t.current
          BY <1>1, <2>2, <3>1
        <5>2. D(t) = D(s) => t = s
          BY <1>1, <1>5
        <5>. QED BY <1>1, <3>1, <3>2, <4>2, <5>1, <5>2
      <4>. QED BY <1>3, <4>1, <4>2
    <3>. QED BY <1>1, <1>4, <3>1, <3>2, <3>3
  <2>. QED BY <2>1, <2>2
<1>8. secrets' \subseteq SecretRow
  BY <1>1, <1>3
<1>9. RowsOK'
  BY <1>6, <1>7, <1>8 DEF RowsOK
<1>10. ASSUME NEW p \in retired'
       PROVE  /\ p \in retired \/ p[2] = now
              /\ p \in Nat \X Time /\ p[2] <= now
              /\ \E q \in secrets' : q.id = p[1]
              /\ \A q \in secrets' : q.id = p[1] => ~q.current
  <2>0. now \in Time /\ now \in Nat
    BY DEF VaultInv, VaultOK, Time
  <2>1. CASE p \in retired
    <3>1. /\ p \in Nat \X Time /\ p[2] <= now
          /\ \E r \in secrets : r.id = p[1]
          /\ \A r \in secrets : r.id = p[1] => ~r.current
      BY <2>1 DEF VaultInv, RetiredOK
    <3>2. ASSUME NEW q \in secrets', q.id = p[1] PROVE ~q.current
      BY <1>1, <1>3, <3>1, <3>2
    <3>. QED BY <1>1, <1>4, <2>1, <3>1, <3>2
  <2>2. CASE p \notin retired
    <3>1. PICK r \in CurrentSecret(row.name) : p = <<r.id, now>>
      BY <1>2, <2>2
    <3>2. r \in secrets /\ r.name = row.name /\ r.id \in Nat
      BY <1>1, <3>1 DEF CurrentSecret, SecretRow
    <3>3. p[1] = r.id /\ p[2] = now /\ p \in Nat \X Time
      BY <2>0, <3>1, <3>2
    <3>4. ASSUME NEW q \in secrets', q.id = r.id PROVE ~q.current
      BY <1>1, <1>3, <1>5, <3>2, <3>4
    <3>. QED BY <1>1, <1>4, <2>0, <3>2, <3>3, <3>4
  <2>. QED BY <2>1, <2>2
<1>11. RetiredOK'
  BY <1>10 DEF RetiredOK
<1>12. SecretsGrow
  BY <1>1, <1>4, <1>10 DEF SecretsGrow
<1>. QED BY <1>1, <1>3, <1>9, <1>10, <1>11, <1>12

\* disable_secret changes nothing but the flag.
LEMMA DisableKeepsRows ==
  ASSUME VaultInv, NEW x \in secrets, DisableRow(x), retired' = retired, now' = now
  PROVE  /\ RowsOK' /\ RetiredOK' /\ SecretsGrow
         /\ \A q \in secrets' : q.id \in 1..MaxSecrets
         /\ \A q \in secrets' : \E r \in secrets : r.id = q.id
<1>1. PICK y : y = [x EXCEPT !.enabled = FALSE]
  OBVIOUS
<1>2. /\ y \in SecretRow /\ y.id = x.id /\ y.name = x.name /\ y.version = x.version
      /\ y.current = x.current /\ secrets' = (secrets \ {x}) \cup {y}
  <2>1. x \in SecretRow
    BY DEF VaultInv, VaultOK
  <2>2. secrets' = (secrets \ {x}) \cup {y}
    BY <1>1 DEF DisableRow
  <2>. QED BY <1>1, <2>1, <2>2 DEF SecretRow
<1>3. \A r, s \in secrets : r.id = s.id \/ (r.name = s.name /\ r.version = s.version) => r = s
  BY DEF VaultInv, VaultOK
<1>4. secrets' \subseteq SecretRow
  BY <1>2 DEF VaultInv, VaultOK
<1>5. ASSUME NEW q \in secrets', NEW s \in secrets',
             q.id = s.id \/ (q.name = s.name /\ q.version = s.version)
      PROVE  q = s
  BY <1>2, <1>3, <1>5
<1>6. ASSUME NEW q \in secrets'
      PROVE  \E s \in secrets' : s.name = q.name /\
               \A t \in secrets' : t.name = q.name /\ t.current <=> t = s
  <2>1. PICK r \in secrets : q.name = r.name
    BY <1>2
  <2>2. PICK s \in secrets : s.name = r.name /\
          \A t \in secrets : t.name = r.name /\ t.current <=> t = s
    BY DEF VaultInv, VaultOK
  <2>3. CASE s = x
    <3>1. ASSUME NEW t \in secrets' PROVE t.name = q.name /\ t.current <=> t = y
      BY <1>2, <2>1, <2>2, <2>3, <3>1
    <3>. QED BY <1>2, <2>1, <2>2, <2>3, <3>1
  <2>4. CASE s # x
    <3>1. ~(x.name = r.name /\ x.current)
      BY <2>2, <2>4
    <3>2. ASSUME NEW t \in secrets' PROVE t.name = q.name /\ t.current <=> t = s
      <4>1. CASE t = y
        <5>1. y # s
          BY <1>2, <1>3, <2>4
        <5>. QED BY <1>2, <2>1, <3>1, <4>1, <5>1
      <4>2. CASE t # y
        BY <1>2, <2>1, <2>2, <4>2
      <4>. QED BY <4>1, <4>2
    <3>. QED BY <1>2, <2>1, <2>2, <2>4, <3>2
  <2>. QED BY <2>3, <2>4
<1>7. RowsOK'
  BY <1>4, <1>5, <1>6 DEF RowsOK
<1>8. RetiredOK'
  <2>1. \A p \in retired : /\ p[2] <= now
                           /\ \E r \in secrets : r.id = p[1]
                           /\ \A r \in secrets : r.id = p[1] => ~r.current
    BY DEF VaultInv, RetiredOK
  <2>2. ASSUME NEW p \in retired
        PROVE  (\E q \in secrets' : q.id = p[1]) /\ \A q \in secrets' : q.id = p[1] => ~q.current
    BY <1>2, <2>1
  <2>. QED BY <2>1, <2>2 DEF RetiredOK
<1>9. SecretsGrow
  BY <1>2 DEF SecretsGrow
<1>. QED BY <1>2, <1>7, <1>8, <1>9 DEF VaultInv

\* Putting VaultInv together after a step in which no time passes and no service
\* touches its memory.
LEMMA RowsChange ==
  ASSUME VaultAssumptions, VaultInv, RowsOK', RetiredOK', SecretsGrow, AdminsOK',
         \A q \in secrets' : q.id \in 1..MaxSecrets,
         admin' \in [Admins -> SecretRow \cup {None}], permitted' \in [SecretNames -> BOOLEAN],
         retired' \subseteq Nat \X Time,
         UNCHANGED <<cache, verdicts, resolutions, now>>
  PROVE  VaultInv'
<1>1. VaultOK'
  BY DEF VaultInv, VaultOK, RowsOK
<1>2. CachesOK'
  <2>1. ASSUME NEW s \in Services, NEW n \in SecretNames, cache[s][n] # None
        PROVE  EntryOK(n, cache[s][n])'
    <3>1. PICK e \in CacheEntry : e = cache[s][n]
      BY <2>1 DEF VaultInv, VaultOK
    <3>2. EntryOK(n, e)
      BY <2>1, <3>1 DEF VaultInv, CachesOK
    <3>3. EntryOK(n, e)'
      BY <3>2, EntriesKept DEF VaultInv
    <3>4. cache'[s][n] = e
      BY <3>1
    <3>. QED BY <3>3, <3>4 DEF EntryOK
  <2>. QED BY <2>1 DEF CachesOK
<1>. QED BY <1>1, <1>2 DEF VaultInv

LEMMA SameRows ==
  ASSUME VaultInv, UNCHANGED <<secrets, retired, now>>
  PROVE  /\ RowsOK' /\ RetiredOK' /\ SecretsGrow /\ retired' \subseteq Nat \X Time
         /\ \A q \in secrets' : q.id \in 1..MaxSecrets
<1>1. RowsOK'
  BY DEF VaultInv, VaultOK, RowsOK
<1>2. RetiredOK'
  BY DEF VaultInv, RetiredOK
<1>3. SecretsGrow
  BY DEF SecretsGrow
<1>. QED BY <1>1, <1>2, <1>3 DEF VaultInv, VaultOK

\* A new id belongs to no row and to no other administrator.
LEMMA NewIdIsFree ==
  ASSUME VaultAssumptions, VaultInv, UsedIds # 1..MaxSecrets
  PROVE  NewId \in 1..MaxSecrets /\ NewId \notin UsedIds
<1>1. UsedIds \subseteq 1..MaxSecrets
  BY DEF UsedIds, VaultInv, AdminsOK
<1>2. \E i \in 1..MaxSecrets : i \notin UsedIds
  BY <1>1
<1>. QED BY <1>2 DEF NewId

LEMMA PrepareKeeps ==
  ASSUME VaultAssumptions, VaultInv, NEW a \in Admins, UsedIds # 1..MaxSecrets,
         NEW n \in SecretNames, NEW v \in Nat, Prepare(a, NewRow(n, v))
  PROVE  VaultInv'
<1>1. NewId \in 1..MaxSecrets /\ NewId \notin UsedIds
  BY NewIdIsFree
<1>2. PICK row : row = NewRow(n, v)
  OBVIOUS
<1>3. row \in SecretRow /\ row.current /\ row.id = NewId
  BY <1>1, <1>2, VaultAssumptions DEF NewRow, SecretRow, VaultAssumptions
<1>4. /\ admin' = [admin EXCEPT ![a] = row]
      /\ UNCHANGED <<secrets, cache, verdicts, resolutions, permitted, now, retired>>
  BY <1>2 DEF Prepare
<1>5. admin \in [Admins -> SecretRow \cup {None}] /\ permitted \in [SecretNames -> BOOLEAN]
  BY DEF VaultInv, VaultOK
<1>6. admin'[a] = row /\ \A b \in Admins \ {a} : admin'[b] = admin[b]
  BY <1>4, <1>5
<1>7. /\ \A r \in secrets : r.id # row.id
      /\ \A b \in Admins : admin[b] # None => admin[b].id # row.id
  BY <1>1, <1>3 DEF UsedIds
<1>8. ASSUME NEW c \in Admins, admin'[c] # None
      PROVE  /\ admin'[c].current /\ admin'[c].id \in 1..MaxSecrets
             /\ \A r \in secrets' : r.id # admin'[c].id
             /\ \A b \in Admins : admin'[b] # None /\ admin'[b].id = admin'[c].id => c = b
  <2>1. CASE c = a
    BY <1>1, <1>3, <1>4, <1>6, <1>7, <2>1
  <2>2. CASE c # a
    BY <1>4, <1>6, <1>7, <1>8, <2>2 DEF VaultInv, AdminsOK
  <2>. QED BY <2>1, <2>2
<1>9. AdminsOK'
  BY <1>8 DEF AdminsOK
<1>10. admin' \in [Admins -> SecretRow \cup {None}]
  BY <1>3, <1>4, <1>5
<1>. QED BY <1>4, <1>5, <1>9, <1>10, SameRows, RowsChange

\* The requests of the administrators.
LEMMA AdminsKeepVault ==
  ASSUME VaultAssumptions, VaultInv, AdminStep
  PROVE  VaultInv' /\ SecretsGrow /\ now' = now
<1>1. CASE ChangePolicy
  <2>1. /\ UNCHANGED <<secrets, admin, cache, verdicts, resolutions, now, retired>>
        /\ permitted' \in [SecretNames -> BOOLEAN]
    <3>1. permitted \in [SecretNames -> BOOLEAN]
      BY DEF VaultInv, VaultOK
    <3>. QED BY <1>1, <3>1 DEF ChangePolicy
  <2>2. AdminsOK' /\ admin' \in [Admins -> SecretRow \cup {None}]
    BY <2>1 DEF VaultInv, AdminsOK, VaultOK
  <2>. QED BY <2>1, <2>2, SameRows, RowsChange
<1>2. ASSUME NEW a \in Admins, CreateSecret(a) PROVE VaultInv' /\ SecretsGrow /\ now' = now
  <2>1. PICK n \in SecretNames : Prepare(a, NewRow(n, 1)) /\ UsedIds # 1..MaxSecrets
    BY <1>2 DEF CreateSecret, FirstVersion
  <2>2. SecretsGrow /\ now' = now
    BY <2>1 DEF Prepare, SecretsGrow
  <2>. QED BY <2>1, <2>2, PrepareKeeps
<1>3. ASSUME NEW a \in Admins, RotateSecret(a) PROVE VaultInv' /\ SecretsGrow /\ now' = now
  <2>1. PICK r \in secrets : UsedIds # 1..MaxSecrets /\ \E row \in NextSecretVersion(r) : Prepare(a, row)
    BY <1>3 DEF RotateSecret
  <2>2. PICK v \in VersionNumbers(r.name) : Prepare(a, NewRow(r.name, v + 1))
    BY <2>1 DEF NextSecretVersion
  <2>3. r.name \in SecretNames /\ v + 1 \in Nat
    BY DEF VaultInv, VaultOK, SecretRow, VersionNumbers
  <2>4. SecretsGrow /\ now' = now
    BY <2>2 DEF Prepare, SecretsGrow
  <2>. QED BY <2>1, <2>2, <2>3, <2>4, PrepareKeeps
<1>4. ASSUME NEW a \in Admins, DisableSecret(a) PROVE VaultInv' /\ SecretsGrow /\ now' = now
  <2>1. PICK r \in secrets : DisableRow(r)
    BY <1>4 DEF DisableSecret
  <2>2. UNCHANGED <<admin, cache, verdicts, resolutions, permitted, now, retired>>
    BY <1>4 DEF DisableSecret
  <2>3. /\ RowsOK' /\ RetiredOK' /\ SecretsGrow
        /\ \A q \in secrets' : q.id \in 1..MaxSecrets
        /\ \A q \in secrets' : \E s \in secrets : s.id = q.id
    BY <2>1, <2>2, DisableKeepsRows
  <2>4. AdminsOK'
    BY <2>2, <2>3 DEF VaultInv, AdminsOK
  <2>. QED BY <2>2, <2>3, <2>4, RowsChange DEF VaultInv, VaultOK
<1>5. ASSUME NEW a \in Admins, FinishSecret(a) PROVE VaultInv' /\ SecretsGrow /\ now' = now
  <2>1. /\ admin[a] # None /\ admin' = [admin EXCEPT ![a] = None]
        /\ UNCHANGED <<cache, verdicts, resolutions, permitted, now>>
    BY <1>5 DEF FinishSecret
  <2>2. PICK row \in SecretRow : row = admin[a]
    BY <2>1 DEF VaultInv, VaultOK
  <2>3. admin' \in [Admins -> SecretRow \cup {None}]
    BY <2>1 DEF VaultInv, VaultOK
  <2>4. \A b \in Admins : admin'[b] # None => b # a /\ admin'[b] = admin[b]
    BY <2>1 DEF VaultInv, VaultOK
  <2>5. CASE VersionTaken(row)
    <3>1. UNCHANGED <<secrets, retired>>
      BY <1>5, <2>2, <2>5 DEF FinishSecret
    <3>2. AdminsOK'
      BY <2>4, <3>1 DEF VaultInv, AdminsOK
    <3>. QED BY <2>1, <2>3, <3>1, <3>2, SameRows, RowsChange DEF VaultInv, VaultOK
  <2>6. CASE ~VersionTaken(row)
    <3>1. SaveSecret(row)
      BY <1>5, <2>2, <2>6 DEF FinishSecret
    <3>2. row.current /\ row.id \in 1..MaxSecrets /\ \A r \in secrets : r.id # row.id
      BY <2>1, <2>2 DEF VaultInv, AdminsOK
    <3>3. \A p \in retired : p \in Nat \X Time
      BY DEF VaultInv, VaultOK
    <3>4. /\ RowsOK' /\ RetiredOK' /\ SecretsGrow /\ retired' \subseteq Nat \X Time
          /\ \A q \in secrets' : q.id \in 1..MaxSecrets
          /\ \A q \in secrets' : q.id = row.id \/ \E r \in secrets : r.id = q.id
      BY <2>1, <2>6, <3>1, <3>2, <3>3, SaveKeepsRows
    <3>5. AdminsOK'
      <4>1. ASSUME NEW b \in Admins, admin'[b] # None
            PROVE  /\ admin'[b].current /\ admin'[b].id \in 1..MaxSecrets
                   /\ \A q \in secrets' : q.id # admin'[b].id
                   /\ \A c \in Admins : admin'[c] # None /\ admin'[c].id = admin'[b].id => b = c
        BY <2>1, <2>2, <2>4, <3>4, <4>1 DEF VaultInv, AdminsOK
      <4>. QED BY <4>1 DEF AdminsOK
    <3>. QED BY <2>1, <2>3, <3>4, <3>5, RowsChange DEF VaultInv, VaultOK
  <2>. QED BY <2>5, <2>6
<1>. QED BY <1>1, <1>2, <1>3, <1>4, <1>5 DEF AdminStep

-----------------------------------------------------------------------------
(* What the services do to their memory.                                   *)

LEMMA MemoryChange ==
  ASSUME VaultInv, UNCHANGED secretRows,
         cache' \in [Services -> [SecretNames -> CacheEntry \cup {None}]],
         verdicts' \in [Services -> [SecretNames -> Verdict \cup {None}]],
         resolutions' \in [Services -> [Time -> Nat]],
         \A s \in Services, n \in SecretNames :
           cache'[s][n] # None => cache'[s][n] = cache[s][n] \/ EntryOK(n, cache'[s][n])
  PROVE  VaultInv' /\ SecretsGrow
<1>1. UNCHANGED <<secrets, admin, permitted, now, retired>>
  BY DEF secretRows
<1>2. /\ VaultOK' /\ AdminsOK' /\ RetiredOK' /\ SecretsGrow
      /\ \A r \in secrets' : r.id \in 1..MaxSecrets
  <2>1. VaultOK'
    BY <1>1 DEF VaultInv, VaultOK
  <2>2. AdminsOK' /\ RetiredOK'
    BY <1>1 DEF VaultInv, AdminsOK, RetiredOK
  <2>3. SecretsGrow
    BY <1>1 DEF SecretsGrow
  <2>. QED BY <1>1, <2>1, <2>2, <2>3 DEF VaultInv
<1>3. CachesOK'
  <2>1. ASSUME NEW s \in Services, NEW n \in SecretNames, cache'[s][n] # None
        PROVE  EntryOK(n, cache[s][n])'
    <3>1. PICK e : e = cache'[s][n]
      OBVIOUS
    <3>2. EntryOK(n, e)
      BY <2>1, <3>1 DEF VaultInv, CachesOK
    <3>3. EntryOK(n, e)'
      BY <1>1, <3>2 DEF EntryOK, Named
    <3>. QED BY <3>1, <3>3 DEF EntryOK
  <2>. QED BY <2>1 DEF CachesOK
<1>. QED BY <1>2, <1>3 DEF VaultInv

LEMMA MemoryTypes ==
  ASSUME VaultInv
  PROVE  /\ cache \in [Services -> [SecretNames -> CacheEntry \cup {None}]]
         /\ verdicts \in [Services -> [SecretNames -> Verdict \cup {None}]]
         /\ resolutions \in [Services -> [Time -> Nat]]
         /\ now \in Time /\ now \in Nat
BY DEF VaultInv, VaultOK, Time

LEMMA MemoryUntouched ==
  ASSUME VaultInv, UNCHANGED <<secretRows, memory>>
  PROVE  VaultInv' /\ SecretsGrow
<1>1. UNCHANGED <<cache, verdicts, resolutions>>
  BY DEF memory
<1>. QED BY <1>1, MemoryTypes, MemoryChange

LEMMA RenewKeeps ==
  ASSUME VaultInv, UNCHANGED secretRows, NEW s \in Services, Renew(s)
  PROVE  VaultInv' /\ SecretsGrow
<1>1. NoTimes \in [Time -> Nat]
  BY DEF NoTimes
<1>2. /\ Forgetful \in [SecretNames -> CacheEntry \cup {None}]
      /\ Forgetful \in [SecretNames -> Verdict \cup {None}]
      /\ \A n \in SecretNames : Forgetful[n] = None
  BY DEF Forgetful
<1>3. /\ cache' = [cache EXCEPT ![s] = Forgetful]
      /\ verdicts' = [verdicts EXCEPT ![s] = Forgetful]
      /\ resolutions' = [resolutions EXCEPT ![s] = NoTimes]
  BY DEF Renew
<1>. QED BY <1>1, <1>2, <1>3, MemoryTypes, MemoryChange

LEMMA CountType ==
  ASSUME VaultAssumptions, now \in Time, NEW times \in [Time -> Nat]
  PROVE  Count(times, Window) \in [Time -> Nat]
<1>1. Recent(times, Window) \in [Time -> Nat]
  BY DEF Recent, Time, VaultAssumptions
<1>. QED BY <1>1 DEF Count

LEMMA CountKeeps ==
  ASSUME VaultAssumptions, VaultInv, UNCHANGED <<secretRows, cache, verdicts>>,
         NEW s \in Services, CountResolution(s)
  PROVE  VaultInv' /\ SecretsGrow
<1>1. Count(resolutions[s], Window) \in [Time -> Nat]
  BY MemoryTypes, CountType
<1>2. resolutions' = [resolutions EXCEPT ![s] = Count(resolutions[s], Window)]
  BY DEF CountResolution
<1>3. resolutions' \in [Services -> [Time -> Nat]]
  BY <1>1, <1>2, MemoryTypes
<1>. QED BY <1>3, MemoryTypes, MemoryChange

LEMMA SetEntry ==
  ASSUME NEW A, NEW B, NEW X, NEW f \in [A -> [B -> X]], NEW a \in A, NEW b \in B, NEW x \in X,
         NEW g, g = [f EXCEPT ![a][b] = x]
  PROVE  /\ g \in [A -> [B -> X]]
         /\ \A c \in A, d \in B : g[c][d] = IF c = a /\ d = b THEN x ELSE f[c][d]
<1>1. PICK h : h = [f[a] EXCEPT ![b] = x]
  OBVIOUS
<1>2. h \in [B -> X] /\ \A d \in B : h[d] = IF d = b THEN x ELSE f[a][d]
  BY <1>1
<1>3. g = [f EXCEPT ![a] = h]
  BY <1>1
<1>4. \A c \in A : g[c] = IF c = a THEN h ELSE f[c]
  BY <1>3
<1>. QED BY <1>2, <1>3, <1>4

LEMMA VerdictKeeps ==
  ASSUME VaultAssumptions, VaultInv, UNCHANGED <<secretRows, cache, resolutions>>,
         NEW s \in Services, NEW n \in SecretNames, RememberVerdict(s, n)
  PROVE  VaultInv' /\ SecretsGrow
<1>1. PICK v : v = [at |-> now, allowed |-> permitted[n]]
  OBVIOUS
<1>2. v \in Verdict
  BY <1>1 DEF Verdict, VaultInv, VaultOK
<1>3. verdicts' = verdicts \/ verdicts' = [verdicts EXCEPT ![s][n] = v]
  BY <1>1 DEF RememberVerdict
<1>4. verdicts' \in [Services -> [SecretNames -> Verdict \cup {None}]]
  <2>1. CASE verdicts' = [verdicts EXCEPT ![s][n] = v]
    BY <1>2, <2>1, MemoryTypes, SetEntry
  <2>. QED BY <1>3, <2>1, MemoryTypes
<1>. QED BY <1>4, MemoryTypes, MemoryChange

LEMMA ValueKeeps ==
  ASSUME VaultAssumptions, VaultInv, UNCHANGED <<secretRows, verdicts, resolutions>>,
         NEW s \in Services, NEW r \in SecretRow, RememberValue(s, r), Named(r.id, r.name),
         \A p \in retired : p[1] = r.id => p[2] >= now
  PROVE  VaultInv' /\ SecretsGrow
<1>1. PICK e : e = [value |-> r.id, expires |-> now + TTL]
  OBVIOUS
<1>2. TTL \in Nat /\ now \in Nat /\ r.id \in Nat /\ r.name \in SecretNames
  BY MemoryTypes DEF VaultAssumptions, SecretRow
<1>3. e \in CacheEntry /\ e.value = r.id /\ e.expires = now + TTL
  BY <1>1, <1>2 DEF CacheEntry
<1>4. \A p \in retired : p[2] \in Nat
  BY DEF VaultInv, VaultOK, Time
<1>5. EntryOK(r.name, e)
  BY <1>2, <1>3, <1>4 DEF EntryOK
<1>6. cache' = cache \/ cache' = [cache EXCEPT ![s][r.name] = e]
  BY <1>1 DEF RememberValue
<1>7. /\ cache' \in [Services -> [SecretNames -> CacheEntry \cup {None}]]
      /\ \A t \in Services, n \in SecretNames :
           cache'[t][n] = cache[t][n] \/ (n = r.name /\ cache'[t][n] = e)
  <2>1. CASE cache' = [cache EXCEPT ![s][r.name] = e]
    <3>1. r.name \in SecretNames /\ e \in CacheEntry \cup {None}
      BY <1>2, <1>3
    <3>2. /\ cache' \in [Services -> [SecretNames -> CacheEntry \cup {None}]]
          /\ \A t \in Services, n \in SecretNames :
               cache'[t][n] = IF t = s /\ n = r.name THEN e ELSE cache[t][n]
      BY <2>1, <3>1, MemoryTypes, SetEntry
    <3>. QED BY <3>2
  <2>. QED BY <1>6, <2>1, MemoryTypes
<1>9. ASSUME NEW t \in Services, NEW n \in SecretNames, cache'[t][n] # None
      PROVE  cache'[t][n] = cache[t][n] \/ EntryOK(n, cache'[t][n])
  BY <1>5, <1>7
<1>. QED BY <1>7, <1>9, MemoryTypes, MemoryChange

\* Time passes.
LEMMA TickKeepsVault ==
  ASSUME VaultAssumptions, VaultInv, Tick
  PROVE  VaultInv'
<1>1. /\ now' = now + 1 /\ now \in Nat /\ now' \in Time /\ TTL \in Nat
      /\ UNCHANGED <<secrets, admin, cache, verdicts, resolutions, permitted, retired>>
  BY MemoryTypes DEF Tick, Time, VaultAssumptions
<1>2. VaultOK'
  BY <1>1 DEF VaultInv, VaultOK
<1>3. AdminsOK'
  BY <1>1 DEF VaultInv, AdminsOK
<1>4. RetiredOK'
  <2>1. \A p \in retired : p[2] <= now /\ p[2] \in Nat
    BY DEF VaultInv, VaultOK, RetiredOK, Time
  <2>2. \A p \in retired : p[2] <= now'
    BY <1>1, <2>1
  <2>. QED BY <1>1, <2>2 DEF VaultInv, RetiredOK
<1>5. CachesOK'
  <2>1. ASSUME NEW s \in Services, NEW n \in SecretNames, cache[s][n] # None
        PROVE  EntryOK(n, cache[s][n])'
    <3>1. PICK e \in CacheEntry : e = cache[s][n]
      BY <2>1 DEF VaultInv, VaultOK
    <3>2. EntryOK(n, e)
      BY <2>1, <3>1 DEF VaultInv, CachesOK
    <3>3. e.expires <= now' + TTL
      BY <1>1, <3>2 DEF EntryOK, CacheEntry
    <3>4. EntryOK(n, e)'
      BY <1>1, <3>2, <3>3 DEF EntryOK, Named
    <3>. QED BY <1>1, <3>1, <3>4 DEF EntryOK
  <2>. QED BY <1>1, <2>1 DEF CachesOK
<1>6. \A r \in secrets' : r.id \in 1..MaxSecrets
  BY <1>1 DEF VaultInv
<1>. QED BY <1>2, <1>3, <1>4, <1>5, <1>6 DEF VaultInv
-----------------------------------------------------------------------------
(* The rows of the table and the copies of the callers.                    *)

Known(r, config) ==
  \E w \in written :
    /\ w[1] = r.id /\ w[2] = r.version
    /\ w[3] = config \/ Named(config, w[3])

RowOK(r) ==
  /\ Known(r, r.config)
  /\ r.failures <= failed[r.id]
  /\ r.state # "CLOSED" => failed[r.id] >= Threshold
  /\ r.state = "OPEN" => r.opened \in Time

SecretOK(s, n) ==
  /\ s \in SecretRow /\ s.name = n /\ Named(s.id, n)
  /\ \A p \in retired : p[1] = s.id => p[2] >= now

\* What a caller knows at each place.
CallOK(x) ==
  /\ x.pc # "idle" => x.row \in ConnectorRow /\ RowOK(x.row)
  /\ x.pc \in {"fetch", "policy", "take"} => x.config \in SecretNames /\ x.config = x.row.config
  /\ x.pc \in {"policy", "take"} => SecretOK(x.secret, x.config)
  /\ x.pc \in {"admit", "send", "success", "failure"} => x.config \in Nat /\ Known(x.row, x.config)
  /\ x.pc \in {"send", "success"} => x.row.state # "OPEN"
  /\ x.pc = "failure" => x.row.failures < failed[x.row.id]

LateOK(c, x) ==
  x.pc # "idle" /\ x.row.id \in gone /\ VersionsOf(x.row.id) = {} => c \in late

TakenOK(t) ==
  t # None => /\ t.at <= now
              /\ \A p \in retired : p[1] = t.value => t.at <= p[2] + TTL

Taken == [value: Nat, at: Time]

ConnInv ==
  /\ connectors \subseteq ConnectorRow
  /\ \A r, s \in connectors : SameKey(r, s) => r = s
  /\ \A r \in connectors : RowOK(r)
  /\ call \in [Callers -> Caller]
  /\ \A c \in Callers : CallOK(call[c]) /\ LateOK(c, call[c]) /\ TakenOK(taken[c])
  /\ calls \in [ConnectorIds -> [Time -> Nat]]
  /\ budget \in 0..MaxRequests
  /\ failed \in [ConnectorIds -> Nat]
  /\ taken \in [Callers -> Taken \cup {None}]
  /\ \A i \in gone : \E w \in written : w[1] = i

Inv == VaultInv /\ ConnInv

\* Histories only grow; the failures of a connector start again in RestartKeeps only.
Grown ==
  /\ SecretsGrow /\ written \subseteq written'
  /\ failed' \in [ConnectorIds -> Nat]
  /\ \A i \in ConnectorIds : failed'[i] >= failed[i]

LEMMA KnownKept ==
  ASSUME SecretsGrow, written \subseteq written', NEW r, NEW config, Known(r, config)
  PROVE  Known(r, config)'
<1>1. PICK w \in written :
        /\ w[1] = r.id /\ w[2] = r.version
        /\ w[3] = config \/ Named(config, w[3])
  BY DEF Known
<1>2. Named(config, w[3]) => Named(config, w[3])'
  BY DEF Named, SecretsGrow
<1>3. w \in written'
  BY <1>1
<1>. QED BY <1>1, <1>2, <1>3 DEF Known

\* A row stays in order when the failures of its own connector only grow.
LEMMA RowOfKept ==
  ASSUME ConnectorAssumptions, ConnInv, SecretsGrow, written \subseteq written',
         failed' \in [ConnectorIds -> Nat], NEW r \in ConnectorRow, RowOK(r),
         failed'[r.id] >= failed[r.id]
  PROVE  RowOK(r)'
<1>1. Known(r, r.config)'
  BY KnownKept DEF RowOK
<1>2. /\ r.id \in ConnectorIds /\ r.failures \in Nat /\ failed[r.id] \in Nat
      /\ failed'[r.id] \in Nat /\ failed'[r.id] >= failed[r.id] /\ Threshold \in Nat
  BY DEF ConnectorRow, ConnInv, ConnectorAssumptions
<1>. QED BY <1>1, <1>2 DEF RowOK

LEMMA RowKept ==
  ASSUME ConnectorAssumptions, ConnInv, Grown, NEW r \in ConnectorRow, RowOK(r)
  PROVE  RowOK(r)'
BY RowOfKept DEF Grown, ConnectorRow

\* And what is known of a caller stays known.
LEMMA CallOfKept ==
  ASSUME ConnectorAssumptions, VaultInv, ConnInv, SecretsGrow, written \subseteq written',
         failed' \in [ConnectorIds -> Nat], now' = now, NEW x \in Caller, CallOK(x),
         x.pc # "idle" => failed'[x.row.id] >= failed[x.row.id]
  PROVE  CallOK(x)'
<1>1. x.pc # "idle" => x.row \in ConnectorRow /\ RowOK(x.row)'
  BY RowOfKept DEF CallOK
<1>2. x.pc \in {"policy", "take"} => SecretOK(x.secret, x.config)'
  <2> SUFFICES ASSUME SecretOK(x.secret, x.config) PROVE SecretOK(x.secret, x.config)'
    BY DEF CallOK
  <2>1. Named(x.secret.id, x.config)'
    BY DEF SecretOK, Named, SecretsGrow
  <2>2. ASSUME NEW p \in retired', p[1] = x.secret.id PROVE p[2] >= now
    BY <2>2, MemoryTypes DEF SecretOK, SecretsGrow
  <2>. QED BY <2>1, <2>2 DEF SecretOK
<1>3. x.pc \in {"admit", "send", "success", "failure"} => x.config \in Nat /\ Known(x.row, x.config)'
  BY KnownKept DEF CallOK
<1>4. x.pc = "failure" => x.row.failures < failed'[x.row.id]
  <2> SUFFICES ASSUME x.pc = "failure" PROVE x.row.failures < failed'[x.row.id]
    OBVIOUS
  <2>1. /\ x.row.id \in ConnectorIds /\ x.row.failures \in Nat
        /\ x.row.failures < failed[x.row.id]
    BY DEF CallOK, ConnectorRow
  <2>. QED BY <2>1 DEF ConnInv
<1>5. x.pc \in {"fetch", "policy", "take"} => x.config \in SecretNames /\ x.config = x.row.config
  BY DEF CallOK
<1>6. x.pc \in {"send", "success"} => x.row.state # "OPEN"
  BY DEF CallOK
<1>. QED BY <1>1, <1>2, <1>3, <1>4, <1>5, <1>6 DEF CallOK

LEMMA CallKept ==
  ASSUME ConnectorAssumptions, VaultInv, ConnInv, Grown, now' = now, NEW x \in Caller, CallOK(x)
  PROVE  CallOK(x)'
<1>1. x.pc # "idle" => failed'[x.row.id] >= failed[x.row.id]
  BY DEF Grown, CallOK, ConnectorRow
<1>. QED BY <1>1, CallOfKept DEF Grown

LEMMA TakenKept ==
  ASSUME VaultAssumptions, VaultInv, SecretsGrow, now' = now,
         NEW t \in Taken \cup {None}, TakenOK(t)
  PROVE  TakenOK(t)'
<1> SUFFICES ASSUME t # None PROVE TakenOK(t)'
  BY DEF TakenOK
<1>1. t.at \in Nat /\ t.at <= now /\ TTL \in Nat /\ now \in Nat
  BY MemoryTypes DEF TakenOK, Taken, Time, VaultAssumptions
<1>2. ASSUME NEW p \in retired', p[1] = t.value PROVE t.at <= p[2] + TTL
  <2>1. CASE p \in retired
    BY <1>2, <2>1 DEF TakenOK
  <2>2. CASE p[2] = now
    BY <1>1, <2>2
  <2>. QED BY <1>2, <2>1, <2>2 DEF SecretsGrow
<1>. QED BY <1>1, <1>2 DEF TakenOK

\* save_connector of a copy that is in order.
LEMMA SaveKeeps ==
  ASSUME ConnectorAssumptions, ConnInv, Grown, NEW row \in ConnectorRow, SaveConnector(row), RowOK(row)'
  PROVE  /\ connectors' \subseteq ConnectorRow
         /\ \A r, s \in connectors' : SameKey(r, s) => r = s
         /\ \A r \in connectors' : RowOK(r)'
         /\ \A i : VersionsOf(i) # {} => VersionsOf(i)' # {}
         /\ VersionsOf(row.id)' # {}
         /\ \A i : i # row.id /\ VersionsOf(i)' # {} => VersionsOf(i) # {}
<1>1. connectors' = {r \in connectors : ~SameKey(r, row)} \cup {row}
  BY DEF SaveConnector
<1>2. connectors' \subseteq ConnectorRow
  BY <1>1 DEF ConnInv
<1>3. \A r, s \in connectors' : SameKey(r, s) => r = s
  BY <1>1 DEF ConnInv, SameKey
<1>4. ASSUME NEW r \in connectors' PROVE RowOK(r)'
  <2>1. CASE r = row
    BY <2>1
  <2>2. CASE r \in connectors
    BY <2>2, RowKept DEF ConnInv
  <2>. QED BY <1>1, <2>1, <2>2
<1>5. row \in connectors' /\ VersionsOf(row.id)' # {}
  BY <1>1 DEF VersionsOf
<1>6. ASSUME NEW i, VersionsOf(i) # {} PROVE VersionsOf(i)' # {}
  <2>1. PICK r \in connectors : r.id = i
    BY <1>6 DEF VersionsOf
  <2>2. \E q \in connectors' : q.id = i
    BY <1>1, <2>1 DEF SameKey
  <2>. QED BY <2>2 DEF VersionsOf
<1>7. ASSUME NEW i, i # row.id, VersionsOf(i)' # {} PROVE VersionsOf(i) # {}
  <2>1. PICK r \in connectors' : r.id = i
    BY <1>7 DEF VersionsOf
  <2>2. r \in connectors
    BY <1>1, <1>7, <2>1
  <2>. QED BY <2>1, <2>2 DEF VersionsOf
<1>. QED BY <1>2, <1>3, <1>4, <1>5, <1>6, <1>7

\* A step of caller c that leaves it with the record y.
LEMMA CallerMoves ==
  ASSUME ConnectorAssumptions, VaultAssumptions, Inv, VaultInv', Grown, now' = now,
         NEW c \in Callers, NEW y \in Caller, call' = [call EXCEPT ![c] = y], CallOK(y)',
         connectors' = connectors \/ \E row \in ConnectorRow : SaveConnector(row) /\ RowOK(row)',
         y.pc # "idle" => \/ call[c].pc # "idle" /\ y.row.id = call[c].row.id
                          \/ VersionsOf(y.row.id) # {}
                          \/ y.row.id \notin gone,
         late' = late \/ (late' = late \ {c} /\ y.pc = "idle"),
         gone' = gone,
         taken' \in [Callers -> Taken \cup {None}],
         \A d \in Callers : taken'[d] = taken[d] \/ TakenOK(taken[d])',
         calls' \in [ConnectorIds -> [Time -> Nat]], budget' \in 0..MaxRequests
  PROVE  Inv'
<1>1. /\ connectors' \subseteq ConnectorRow
      /\ \A r, s \in connectors' : SameKey(r, s) => r = s
      /\ \A r \in connectors' : RowOK(r)'
      /\ \A i : VersionsOf(i) # {} => VersionsOf(i)' # {}
  <2>1. CASE connectors' = connectors
    <3>1. \A r \in connectors' : RowOK(r)'
      BY <2>1, RowKept DEF Inv, ConnInv
    <3>. QED BY <2>1, <3>1 DEF Inv, ConnInv, VersionsOf
  <2>2. CASE \E row \in ConnectorRow : SaveConnector(row) /\ RowOK(row)'
    BY <2>2, SaveKeeps DEF Inv
  <2>. QED BY <2>1, <2>2
<1>2. call' \in [Callers -> Caller] /\ call'[c] = y /\ \A d \in Callers \ {c} : call'[d] = call[d]
  BY DEF Inv, ConnInv
<1>3. ASSUME NEW d \in Callers PROVE CallOK(call[d])'
  <2>1. CASE d = c
    <3>1. call'[d] = y
      BY <1>2, <2>1
    <3>. QED BY <3>1 DEF CallOK
  <2>2. CASE d # c
    <3>1. PICK x \in Caller : x = call[d]
      BY DEF Inv, ConnInv
    <3>2. CallOK(x)'
      BY <3>1, CallKept DEF Inv, ConnInv
    <3>3. call'[d] = x
      BY <1>2, <2>2, <3>1
    <3>. QED BY <3>2, <3>3 DEF CallOK
  <2>. QED BY <2>1, <2>2
<1>4. ASSUME NEW d \in Callers PROVE LateOK(d, call[d])'
  <2>1. PICK x \in Caller : x = call'[d]
    BY <1>2
  <2>2. LateOK(d, call[d]) /\ LateOK(c, call[c])
    BY DEF Inv, ConnInv
  <2>3. ASSUME x.pc # "idle", x.row.id \in gone, VersionsOf(x.row.id)' = {} PROVE d \in late'
    <3>1. VersionsOf(x.row.id) = {}
      BY <1>1, <2>3
    <3>2. CASE d = c
      BY <1>2, <2>1, <2>2, <2>3, <3>1, <3>2 DEF LateOK
    <3>3. CASE d # c
      BY <1>2, <2>1, <2>2, <2>3, <3>1, <3>3 DEF LateOK
    <3>. QED BY <3>2, <3>3
  <2>. QED BY <2>1, <2>3 DEF LateOK, VersionsOf
<1>5. ASSUME NEW d \in Callers PROVE TakenOK(taken[d])'
  <2>1. CASE taken'[d] = taken[d]
    <3>1. PICK t \in Taken \cup {None} : t = taken[d]
      BY DEF Inv, ConnInv
    <3>2. TakenOK(t)'
      BY <3>1, TakenKept DEF Inv, ConnInv, Grown
    <3>. QED BY <2>1, <3>1, <3>2 DEF TakenOK
  <2>2. CASE TakenOK(taken[d])'
    BY <2>2
  <2>. QED BY <2>1, <2>2
<1>6. \A i \in gone' : \E w \in written' : w[1] = i
  BY DEF Inv, ConnInv, Grown
<1>7. failed' \in [ConnectorIds -> Nat]
  BY DEF Grown
<1>8. ConnInv'
  BY <1>1, <1>2, <1>3, <1>4, <1>5, <1>6, <1>7 DEF ConnInv
<1>. QED BY <1>8 DEF Inv
-----------------------------------------------------------------------------
(* The rows the callers make of their copies.                              *)

LEMMA ResolvedRow ==
  ASSUME NEW r \in ConnectorRow, NEW k \in Nat, RowOK(r), Known(r, k),
         NEW q, q = [r EXCEPT !.config = k]
  PROVE  /\ q \in ConnectorRow /\ RowOK(q) /\ q.config = k
         /\ q.id = r.id /\ q.version = r.version /\ q.failures = r.failures
         /\ q.state = r.state /\ q.opened = r.opened
<1>1. /\ q \in ConnectorRow /\ q.config = k
      /\ q.id = r.id /\ q.version = r.version /\ q.failures = r.failures
      /\ q.state = r.state /\ q.opened = r.opened
  BY DEF ConnectorRow, Config
<1>2. Known(q, q.config)
  BY <1>1 DEF Known
<1>. QED BY <1>1, <1>2 DEF RowOK

LEMMA RecoveredRow ==
  ASSUME ConnInv, NEW r \in ConnectorRow, RowOK(r), NEW q, q = Recovered(r)
  PROVE  /\ q \in ConnectorRow /\ RowOK(q) /\ q.config = r.config
         /\ q.id = r.id /\ q.version = r.version /\ q.failures = 0
         /\ (r.state # "OPEN" => q.state = "CLOSED")
<1>1. PICK st : st = IF r.state = "HALF_OPEN" THEN "CLOSED" ELSE r.state
  OBVIOUS
<1>2. q = [r EXCEPT !.failures = 0, !.state = st]
  BY <1>1 DEF Recovered
<1>3. /\ st \in {"CLOSED", "OPEN", "HALF_OPEN"} /\ (st # "CLOSED" => r.state = st)
      /\ (r.state # "OPEN" => st = "CLOSED")
  BY <1>1 DEF ConnectorRow
<1>4. /\ q \in ConnectorRow /\ q.config = r.config /\ q.opened = r.opened
      /\ q.id = r.id /\ q.version = r.version /\ q.failures = 0 /\ q.state = st
  <2>1. PICK z \in Nat : z = 0
    OBVIOUS
  <2>2. q = [r EXCEPT !.failures = z, !.state = st]
    BY <1>2, <2>1
  <2>3. /\ q \in ConnectorRow /\ q.config = r.config /\ q.opened = r.opened
        /\ q.id = r.id /\ q.version = r.version /\ q.failures = z /\ q.state = st
    BY <1>3, <2>2 DEF ConnectorRow
  <2>. QED BY <2>1, <2>3
<1>5. Known(q, q.config)
  BY <1>4 DEF Known, RowOK
<1>6. failed[q.id] \in Nat
  BY <1>4 DEF ConnInv, ConnectorRow
<1>. QED BY <1>3, <1>4, <1>5, <1>6 DEF RowOK

LEMMA BrokenRow ==
  ASSUME ConnectorAssumptions, ConnInv, NEW r \in ConnectorRow, RowOK(r), NEW at \in Time,
         r.failures < failed[r.id], NEW q, q = Broken(r, at)
  PROVE  q \in ConnectorRow /\ RowOK(q) /\ q.id = r.id
<1>1. PICK opens \in BOOLEAN : opens = (r.state = "HALF_OPEN" \/ r.failures + 1 >= Threshold)
  OBVIOUS
<1>2. PICK n \in Nat : n = r.failures + 1
  BY DEF ConnectorRow
<1>3. PICK st : st = IF opens THEN "OPEN" ELSE r.state
  OBVIOUS
<1>4. PICK o : o = IF opens THEN at ELSE r.opened
  OBVIOUS
<1>5. q = [r EXCEPT !.failures = n, !.state = st, !.opened = o]
  BY <1>1, <1>2, <1>3, <1>4 DEF Broken
<1>6. st \in {"CLOSED", "OPEN", "HALF_OPEN"} /\ o \in Time \cup {None}
  BY <1>3, <1>4 DEF ConnectorRow
<1>7. /\ q \in ConnectorRow /\ q.id = r.id /\ q.version = r.version /\ q.config = r.config
      /\ q.failures = n /\ q.state = st /\ q.opened = o
  BY <1>5, <1>6 DEF ConnectorRow
<1>8. Known(q, q.config)
  BY <1>7 DEF Known, RowOK
<1>9. /\ failed[r.id] \in Nat /\ Threshold \in Nat /\ r.failures \in Nat
      /\ r.failures < failed[r.id] /\ (r.state # "CLOSED" => failed[r.id] >= Threshold)
  BY DEF ConnInv, ConnectorRow, ConnectorAssumptions, RowOK
<1>10. n <= failed[r.id]
  BY <1>2, <1>9
<1>11. opens => failed[r.id] >= Threshold
  <2>1. CASE r.state = "HALF_OPEN"
    BY <1>9, <2>1
  <2>2. CASE n >= Threshold
    BY <1>9, <1>10, <2>2
  <2>. QED BY <1>1, <1>2, <2>1, <2>2
<1>12. st # "CLOSED" => failed[r.id] >= Threshold
  BY <1>3, <1>9, <1>11
<1>13. st = "OPEN" => o \in Time
  BY <1>3, <1>4 DEF RowOK
<1>. QED BY <1>7, <1>8, <1>10, <1>12, <1>13 DEF RowOK

-----------------------------------------------------------------------------
(* The steps of a caller.                                                  *)

LEMMA CallerFacts ==
  ASSUME Inv, NEW c \in Callers
  PROVE  /\ call[c] \in Caller /\ CallOK(call[c]) /\ LateOK(c, call[c])
         /\ ConnInv /\ VaultInv
         /\ taken \in [Callers -> Taken \cup {None}] /\ failed \in [ConnectorIds -> Nat]
         /\ calls \in [ConnectorIds -> [Time -> Nat]] /\ budget \in 0..MaxRequests
         /\ call[c].pc # "idle" => call[c].row \in ConnectorRow /\ RowOK(call[c].row)
         /\ now \in Time
BY MemoryTypes DEF Inv, ConnInv, CallOK

LEMMA VaultAside ==
  ASSUME VaultInv, UNCHANGED vaultVars
  PROVE  VaultInv' /\ SecretsGrow /\ now' = now
<1>1. UNCHANGED <<secretRows, memory>>
  BY DEF vaultVars, secretRows, memory
<1>2. now' = now
  BY DEF vaultVars
<1>. QED BY <1>1, <1>2, MemoryUntouched

LEMMA IdleOK ==
  ASSUME VaultAssumptions
  PROVE  Idle \in Caller /\ CallOK(Idle)' /\ Idle.pc = "idle"
<1>1. 0 \in Time
  BY DEF Time, VaultAssumptions
<1>. QED BY <1>1 DEF Idle, Caller, CallOK

\* A step that touches neither the vault nor what was taken or written.
LEMMA CallerActs ==
  ASSUME ConnectorAssumptions, VaultAssumptions, Inv, UNCHANGED <<vaultVars, taken, written, gone>>,
         NEW c \in Callers, NEW y \in Caller, call' = [call EXCEPT ![c] = y], CallOK(y)',
         call[c].pc # "idle", y.pc # "idle" => y.row.id = call[c].row.id,
         connectors' = connectors \/ \E row \in ConnectorRow : SaveConnector(row) /\ RowOK(row)',
         late' = late \/ (late' = late \ {c} /\ y.pc = "idle"),
         failed' \in [ConnectorIds -> Nat], \A i \in ConnectorIds : failed'[i] >= failed[i],
         calls' \in [ConnectorIds -> [Time -> Nat]], budget' = budget
  PROVE  Inv'
<1>1. VaultInv' /\ Grown /\ now' = now
  BY VaultAside DEF Inv, Grown
<1>2. taken' \in [Callers -> Taken \cup {None}] /\ \A d \in Callers : taken'[d] = taken[d]
  BY CallerFacts
<1>. QED BY <1>1, <1>2, CallerFacts, CallerMoves

\* The end of a request: the caller answers, whether a copy was saved or not.
LEMMA CallerAnswers ==
  ASSUME ConnectorAssumptions, VaultAssumptions, Inv,
         UNCHANGED <<vaultVars, taken, written, gone, failed, budget>>,
         NEW c \in Callers, Answer(c), call[c].pc # "idle",
         connectors' = connectors \/ \E row \in ConnectorRow : SaveConnector(row) /\ RowOK(row),
         calls' \in [ConnectorIds -> [Time -> Nat]]
  PROVE  Inv'
<1>1. call' = [call EXCEPT ![c] = Idle] /\ late' = late \ {c}
  BY DEF Answer, Become
<1>2. /\ failed' \in [ConnectorIds -> Nat]
      /\ \A i \in ConnectorIds : failed'[i] >= failed[i]
  BY CallerFacts
<1>3. Grown
  BY <1>2, VaultAside DEF Grown, Inv
<1>4. connectors' = connectors \/ \E row \in ConnectorRow : SaveConnector(row) /\ RowOK(row)'
  BY <1>3, RowKept DEF Inv
<1>5. PICK y \in Caller : y = Idle /\ CallOK(y)' /\ y.pc = "idle"
  BY IdleOK DEF CallOK
<1>. QED BY <1>1, <1>2, <1>4, <1>5, CallerActs

LEMMA CallCounted ==
  ASSUME VaultAssumptions, Inv, NEW i \in ConnectorIds, CountCall(i)
  PROVE  calls' \in [ConnectorIds -> [Time -> Nat]]
<1>1. Count(calls[i], Window) \in [Time -> Nat]
  BY CallerFacts, MemoryTypes, CountType DEF Inv, ConnInv
<1>2. calls' = calls \/ calls' = [calls EXCEPT ![i] = Count(calls[i], Window)]
  BY DEF CountCall
<1>. QED BY <1>1, <1>2 DEF Inv, ConnInv

\* A success of the only copy there is: the count of its connector starts again, and
\* the row it saves is the only one that tells of the connector.
LEMMA RestartKeeps ==
  ASSUME ConnectorAssumptions, VaultAssumptions, Inv, UNCHANGED <<vaultVars, taken, written, gone>>,
         NEW c \in Callers, Answer(c), call[c].pc # "idle",
         NEW z \in ConnectorRow, z.id = call[c].row.id, z.version = call[c].row.version,
         z.failures = 0, z.state = "CLOSED", RowOK(z), SaveConnector(z),
         OnlyCopy(c, z.id), failed' = [failed EXCEPT ![z.id] = 0],
         UNCHANGED <<calls, budget>>
  PROVE  Inv'
<1>1. call' = [call EXCEPT ![c] = Idle] /\ late' = late \ {c}
  BY DEF Answer, Become
<1>2. VaultInv' /\ SecretsGrow /\ now' = now
  BY VaultAside DEF Inv
<1>3. PICK n \in Nat : n = 0
  OBVIOUS
<1>4. z.id \in ConnectorIds /\ failed \in [ConnectorIds -> Nat]
  BY CallerFacts DEF ConnectorRow
<1>5. /\ failed' \in [ConnectorIds -> Nat] /\ failed'[z.id] = n
      /\ \A j \in ConnectorIds : j # z.id => failed'[j] = failed[j]
  BY <1>3, <1>4
<1>6. connectors' = {r \in connectors : ~SameKey(r, z)} \cup {z}
  BY DEF SaveConnector
<1>7. connectors' \subseteq ConnectorRow /\ \A r, s \in connectors' : SameKey(r, s) => r = s
  BY <1>6 DEF Inv, ConnInv, SameKey
<1>8. RowOK(z)'
  <2>1. Known(z, z.config)'
    BY <1>2, KnownKept DEF RowOK
  <2>2. z.failures <= failed'[z.id]
    BY <1>3, <1>5
  <2>. QED BY <2>1, <2>2 DEF RowOK
<1>9. ASSUME NEW r \in connectors', r # z PROVE RowOK(r)'
  <2>1. r \in connectors /\ ~SameKey(r, z) /\ r \in ConnectorRow /\ RowOK(r)
    BY <1>6, <1>9 DEF Inv, ConnInv
  <2>2. r.id # z.id
    BY <2>1 DEF OnlyCopy, VersionsOf, SameKey
  <2>3. failed'[r.id] >= failed[r.id]
    BY <1>4, <1>5, <2>1, <2>2 DEF ConnectorRow
  <2>. QED BY <1>2, <1>5, <2>1, <2>3, RowOfKept DEF Inv
<1>10. call' \in [Callers -> Caller] /\ call'[c] = Idle /\ \A d \in Callers \ {c} : call'[d] = call[d]
  BY <1>1, CallerFacts, IdleOK DEF Inv, ConnInv
<1>11. ASSUME NEW d \in Callers PROVE CallOK(call[d])'
  <2>1. CASE d = c
    <3>1. PICK y \in Caller : y = Idle /\ CallOK(y)'
      BY IdleOK DEF CallOK
    <3>2. call'[d] = y
      BY <1>10, <2>1, <3>1
    <3>. QED BY <3>1, <3>2 DEF CallOK
  <2>2. CASE d # c
    <3>1. PICK x \in Caller : x = call[d] /\ CallOK(x)
      BY CallerFacts
    <3>2. x.pc # "idle" => x.row.id # z.id /\ x.row.id \in ConnectorIds
      BY <2>2, <3>1 DEF OnlyCopy, At, CallOK, ConnectorRow
    <3>3. x.pc # "idle" => failed'[x.row.id] >= failed[x.row.id]
      BY <1>4, <1>5, <3>2
    <3>4. CallOK(x)'
      BY <1>2, <1>5, <3>1, <3>3, CallOfKept DEF Inv
    <3>5. call'[d] = x
      BY <1>10, <2>2, <3>1
    <3>. QED BY <3>4, <3>5 DEF CallOK
  <2>. QED BY <2>1, <2>2
<1>12. ASSUME NEW i, VersionsOf(i) # {} PROVE VersionsOf(i)' # {}
  <2>1. PICK r \in connectors : r.id = i
    BY <1>12 DEF VersionsOf
  <2>2. \E q \in connectors' : q.id = i
    BY <1>6, <2>1 DEF SameKey
  <2>. QED BY <2>2 DEF VersionsOf
<1>13. ASSUME NEW d \in Callers PROVE LateOK(d, call[d])'
  <2>1. LateOK(d, call[d])
    BY CallerFacts
  <2>2. CASE d = c
    BY <1>10, <2>2, IdleOK DEF LateOK
  <2>3. CASE d # c
    BY <1>1, <1>10, <1>12, <2>1, <2>3 DEF LateOK
  <2>. QED BY <2>2, <2>3
<1>14. ASSUME NEW d \in Callers PROVE TakenOK(taken[d])'
  <2>1. PICK t \in Taken \cup {None} : t = taken[d] /\ TakenOK(t)
    BY DEF Inv, ConnInv
  <2>2. TakenOK(t)'
    BY <1>2, <2>1, TakenKept DEF Inv
  <2>. QED BY <2>1, <2>2 DEF TakenOK
<1>15. \A i \in gone' : \E w \in written' : w[1] = i
  BY DEF Inv, ConnInv
<1>16. ConnInv'
  BY <1>5, <1>7, <1>8, <1>9, <1>10, <1>11, <1>13, <1>14, <1>15, CallerFacts DEF ConnInv
<1>. QED BY <1>2, <1>16 DEF Inv

\* The saves at the end of a call and of the other requests.
LEMMA SavesKeep ==
  ASSUME ConnectorAssumptions, VaultAssumptions, Inv, NEW c \in Callers,
         HandleSuccess(c) \/ HandleFailure(c) \/ Store(c) \/ CallerFails(c)
  PROVE  Inv'
<1>a. /\ UNCHANGED <<vaultVars, taken, written, gone, budget>> /\ Answer(c)
      /\ call[c].pc # "idle"
      /\ HandleFailure(c) \/ Store(c) \/ CallerFails(c) => failed' = failed
      /\ UNCHANGED calls \/ CountCall(call[c].row.id)
      /\ ~CallerFails(c) => UNCHANGED calls
  BY DEF HandleSuccess, HandleFailure, Store, CallerFails, At, history
<1>b. calls' \in [ConnectorIds -> [Time -> Nat]]
  <2>1. call[c].row \in ConnectorRow
    BY <1>a, CallerFacts
  <2>. QED BY <1>a, <2>1, CallCounted, CallerFacts DEF ConnectorRow
<1>c. PICK r \in ConnectorRow : r = call[c].row /\ RowOK(r)
  BY <1>a, CallerFacts
<1>d. ASSUME call[c].pc \in {"success", "failure"}
      PROVE  \E q \in ConnectorRow : /\ q = Resolved(c) /\ RowOK(q)
                                     /\ q.id = r.id /\ q.failures = r.failures
                                     /\ q.version = r.version /\ q.state = r.state
  <2>1. PICK k \in Nat : k = call[c].config /\ Known(r, k)
    BY <1>c, <1>d, CallerFacts DEF CallOK
  <2>2. PICK q : q = [r EXCEPT !.config = k]
    OBVIOUS
  <2>3. q \in ConnectorRow /\ RowOK(q) /\ q.id = r.id /\ q.failures = r.failures
        /\ q.version = r.version /\ q.state = r.state
    BY <1>c, <2>1, <2>2, ResolvedRow
  <2>4. q = Resolved(c)
    BY <1>c, <2>1, <2>2 DEF Resolved
  <2>. QED BY <2>3, <2>4
<1>1. CASE HandleSuccess(c)
  <2>1. PICK q \in ConnectorRow : /\ q = Resolved(c) /\ RowOK(q) /\ q.id = r.id
                                 /\ q.version = r.version /\ q.state = r.state
    BY <1>1, <1>d DEF HandleSuccess, At
  <2>2. PICK z : z = Recovered(q)
    OBVIOUS
  <2>3. z \in ConnectorRow /\ RowOK(z) /\ z.id = r.id /\ z.version = r.version /\ z.failures = 0
        /\ (q.state # "OPEN" => z.state = "CLOSED")
    BY <2>1, <2>2, RecoveredRow DEF Inv
  <2>4. SaveConnector(z) /\ UNCHANGED calls
    BY <1>1, <2>1, <2>2 DEF HandleSuccess
  <2>5. CASE failed' = failed
    BY <1>a, <1>b, <2>3, <2>4, <2>5, CallerAnswers
  <2>6. CASE OnlyCopy(c, z.id) /\ failed' = [failed EXCEPT ![z.id] = 0]
    <3>1. r.state # "OPEN"
      BY <1>1, <1>c, CallerFacts DEF HandleSuccess, At, CallOK
    <3>. QED BY <1>a, <1>c, <2>1, <2>3, <2>4, <2>6, <3>1, RestartKeeps
  <2>. QED BY <1>1, <1>c, <2>3, <2>5, <2>6 DEF HandleSuccess
<1>2. CASE HandleFailure(c)
  <2>1. PICK q \in ConnectorRow : q = Resolved(c) /\ RowOK(q) /\ q.id = r.id /\ q.failures = r.failures
    BY <1>2, <1>d DEF HandleFailure, At
  <2>2. q.failures < failed[q.id] /\ call[c].at \in Time
    BY <1>2, <1>c, <2>1, CallerFacts DEF HandleFailure, At, CallOK, Caller
  <2>3. PICK z : z = Broken(q, call[c].at)
    OBVIOUS
  <2>4. z \in ConnectorRow /\ RowOK(z)
    <3>1. PICK at \in Time : at = call[c].at
      BY <2>2
    <3>. QED BY <2>1, <2>2, <2>3, <3>1, BrokenRow DEF Inv
  <2>5. SaveConnector(z)
    BY <1>2, <2>1, <2>3 DEF HandleFailure
  <2>. QED BY <1>2, <1>a, <1>b, <2>4, <2>5, CallerAnswers
<1>3. CASE Store(c)
  <2>1. SaveConnector(r)
    BY <1>3, <1>c DEF Store
  <2>. QED BY <1>3, <1>a, <1>b, <1>c, <2>1, CallerAnswers
<1>4. CASE CallerFails(c)
  <2>1. connectors' = connectors
    BY <1>4 DEF CallerFails
  <2>. QED BY <1>4, <1>a, <1>b, <2>1, CallerAnswers
<1>. QED BY <1>1, <1>2, <1>3, <1>4

-----------------------------------------------------------------------------
(* The starts of requests.                                                 *)

LEMMA StartKeepsVault ==
  ASSUME ConnectorAssumptions, Inv, NEW c \in Callers, StartWith(c), UNCHANGED secretRows
  PROVE  VaultInv' /\ SecretsGrow /\ now' = now
<1>1. ServiceOf[c] \in Services
  BY DEF ConnectorAssumptions
<1>2. now' = now
  BY DEF secretRows
<1>3. CASE Renew(ServiceOf[c])
  BY <1>1, <1>2, <1>3, RenewKeeps DEF Inv
<1>4. CASE UNCHANGED memory
  BY <1>2, <1>4, MemoryUntouched DEF Inv
<1>. QED BY <1>3, <1>4 DEF StartWith

\* A caller begins to work on a copy that is in order.
LEMMA StartKeeps ==
  ASSUME ConnectorAssumptions, VaultAssumptions, Inv, NEW c \in Callers, StartWith(c), Spend,
         UNCHANGED <<secretRows, connectors, calls, taken, failed, gone, late>>,
         written \subseteq written',
         NEW row \in ConnectorRow, RowOK(row)', VersionsOf(row.id) # {} \/ row.id \notin gone,
         NEW kind \in {"call", "probe", "edit"}, NEW pc \in {"fetch", "admit", "store"},
         pc = "fetch" => row.config \in SecretNames, pc = "admit" => row.config \in Nat,
         Become(c, [Idle EXCEPT !.kind = kind, !.row = row, !.config = row.config, !.pc = pc])
  PROVE  Inv'
<1>1. VaultInv' /\ SecretsGrow /\ now' = now
  BY StartKeepsVault
<1>2. Grown
  <2>1. failed \in [ConnectorIds -> Nat]
    BY CallerFacts
  <2>. QED BY <1>1, <2>1 DEF Grown
<1>3. PICK y : y = [Idle EXCEPT !.kind = kind, !.row = row, !.config = row.config, !.pc = pc]
  OBVIOUS
<1>4. /\ y \in Caller /\ y.pc = pc /\ y.row = row /\ y.config = row.config
      /\ call' = [call EXCEPT ![c] = y]
  <2>1. Idle \in Caller
    BY IdleOK
  <2>2. row.config \in Config
    BY DEF ConnectorRow
  <2>3. call' = [call EXCEPT ![c] = y]
    BY <1>3 DEF Become
  <2>4. y \in Caller /\ y.pc = pc /\ y.row = row /\ y.config = row.config
    BY <1>3, <2>1, <2>2 DEF Caller
  <2>. QED BY <2>3, <2>4
<1>5. CallOK(y)'
  <2>1. Known(row, row.config)'
    BY DEF RowOK
  <2>. QED BY <1>4, <2>1 DEF CallOK
<1>6. budget' \in 0..MaxRequests
  BY CallerFacts DEF Spend, ConnectorAssumptions
<1>7. /\ taken' \in [Callers -> Taken \cup {None}] /\ \A d \in Callers : taken'[d] = taken[d]
      /\ calls' \in [ConnectorIds -> [Time -> Nat]]
  BY CallerFacts
<1>. QED BY <1>1, <1>2, <1>4, <1>5, <1>6, <1>7, CallerMoves

LEMMA InstantiateKeeps ==
  ASSUME ConnectorAssumptions, VaultAssumptions, Inv, NEW c \in Callers, StartWith(c), Spend,
         UNCHANGED <<secretRows, connectors, calls, taken, failed, gone, late>>,
         written \subseteq written',
         NEW row \in ConnectorRow, RowOK(row)', VersionsOf(row.id) # {} \/ row.id \notin gone,
         NEW kind \in {"call", "probe", "edit"}, Instantiate(c, kind, row)
  PROVE  Inv'
<1>1. PICK pc : pc = IF row.config \in SecretNames THEN "fetch" ELSE Ready(kind)
  OBVIOUS
<1>2. /\ pc \in {"fetch", "admit", "store"}
      /\ pc = "fetch" => row.config \in SecretNames
      /\ pc = "admit" => row.config \in Nat
  BY <1>1 DEF Ready, ConnectorRow, Config
<1>3. Become(c, [Idle EXCEPT !.kind = kind, !.row = row, !.config = row.config, !.pc = pc])
  BY <1>1 DEF Instantiate
<1>. QED BY <1>2, <1>3, StartKeeps

LEMMA TableRow ==
  ASSUME ConnectorAssumptions, Inv, NEW r \in connectors, SecretsGrow, written \subseteq written',
         failed' = failed
  PROVE  r \in ConnectorRow /\ RowOK(r)' /\ VersionsOf(r.id) # {}
<1>1. Grown
  <2>1. failed \in [ConnectorIds -> Nat]
    BY DEF Inv, ConnInv
  <2>. QED BY <2>1 DEF Grown
<1>2. r \in ConnectorRow /\ RowOK(r) /\ r \in VersionsOf(r.id)
  BY DEF Inv, ConnInv, VersionsOf
<1>. QED BY <1>1, <1>2, RowKept DEF Inv

LEMMA RequestsStart ==
  ASSUME ConnectorAssumptions, VaultAssumptions, Inv, NEW c \in Callers,
         Dispatch(c) \/ CheckHealth(c) \/ TestConnector(c)
  PROVE  Inv'
<1>1. /\ StartWith(c) /\ Spend
      /\ UNCHANGED <<secretRows, connectors, calls, taken, failed, written, gone, late>>
  BY DEF Dispatch, CheckHealth, TestConnector, history
<1>2. SecretsGrow
  BY <1>1, StartKeepsVault
<1>3. PICK r \in connectors, kind \in {"call", "probe", "edit"} : Instantiate(c, kind, r)
  BY DEF Dispatch, CheckHealth, TestConnector, ListedRows, LatestRow, VersionsOf, Probe
<1>4. r \in ConnectorRow /\ RowOK(r)' /\ VersionsOf(r.id) # {}
  BY <1>1, <1>2, TableRow
<1>. QED BY <1>1, <1>3, <1>4, InstantiateKeeps

LEMMA CreationStarts ==
  ASSUME ConnectorAssumptions, VaultAssumptions, Inv, NEW c \in Callers, CreateConnector(c)
  PROVE  Inv'
<1>1. /\ StartWith(c) /\ Spend
      /\ UNCHANGED <<secretRows, connectors, calls, taken, failed, gone, late>>
  BY DEF CreateConnector
<1>2. PICK i \in ConnectorIds, n \in SecretNames :
        /\ \A w \in written : w[1] # i
        /\ Instantiate(c, "edit", NewConnector(i, n))
        /\ written' = written \cup {<<i, 1, n>>}
  BY DEF CreateConnector
<1>3. PICK row : row = NewConnector(i, n)
  OBVIOUS
<1>4. PICK one \in Nat, zero \in Nat : one = 1 /\ zero = 0
  OBVIOUS
<1>5. row = [id |-> i, version |-> one, config |-> n, enabled |-> TRUE, state |-> "CLOSED",
             failures |-> zero, opened |-> None]
  BY <1>3, <1>4 DEF NewConnector
<1>6. /\ row \in ConnectorRow /\ row.id = i /\ row.version = one /\ row.config = n
      /\ row.failures = zero /\ row.state = "CLOSED"
  BY <1>5 DEF ConnectorRow, Config
<1>7. <<i, one, n>> \in written'
  BY <1>2, <1>4
<1>8. Known(row, row.config)'
  BY <1>6, <1>7 DEF Known
<1>9. zero <= failed'[i]
  <2>1. failed'[i] \in Nat
    BY <1>1, CallerFacts
  <2>. QED BY <1>4, <2>1
<1>10. RowOK(row)'
  BY <1>6, <1>8, <1>9 DEF RowOK
<1>11. row.id \notin gone
  BY <1>2, <1>6 DEF Inv, ConnInv
<1>. QED BY <1>1, <1>2, <1>3, <1>6, <1>10, <1>11, InstantiateKeeps

LEMMA UpdateStarts ==
  ASSUME ConnectorAssumptions, VaultAssumptions, Inv, NEW c \in Callers, UpdateConnector(c)
  PROVE  Inv'
<1>1. /\ StartWith(c) /\ Spend
      /\ UNCHANGED <<secretRows, connectors, calls, taken, failed, gone, late>>
  BY DEF UpdateConnector
<1>2. PICK i \in ConnectorIds, enabled \in BOOLEAN : \E r \in LatestRow(i) :
        \E config \in SecretNames \cup {r.config} :
        LET row == UpdatedRow(r, config, enabled) IN
        /\ \/ Instantiate(c, "edit", row)
           \/ /\ config = r.config /\ (enabled => r.enabled)
              /\ Become(c, [Idle EXCEPT !.kind = "edit", !.row = row, !.config = config, !.pc = "store"])
        /\ written' = written \cup {<<row.id, row.version, row.config>>}
  BY DEF UpdateConnector
<1>3. PICK r \in LatestRow(i) : \E config \in SecretNames \cup {r.config} :
        LET row == UpdatedRow(r, config, enabled) IN
        /\ \/ Instantiate(c, "edit", row)
           \/ /\ config = r.config /\ (enabled => r.enabled)
              /\ Become(c, [Idle EXCEPT !.kind = "edit", !.row = row, !.config = config, !.pc = "store"])
        /\ written' = written \cup {<<row.id, row.version, row.config>>}
  BY <1>2
<1>4. PICK config \in SecretNames \cup {r.config} :
        LET row == UpdatedRow(r, config, enabled) IN
        /\ \/ Instantiate(c, "edit", row)
           \/ /\ config = r.config /\ (enabled => r.enabled)
              /\ Become(c, [Idle EXCEPT !.kind = "edit", !.row = row, !.config = config, !.pc = "store"])
        /\ written' = written \cup {<<row.id, row.version, row.config>>}
  BY <1>3
<1>5. PICK row : row = UpdatedRow(r, config, enabled)
  OBVIOUS
<1>6. /\ \/ Instantiate(c, "edit", row)
         \/ Become(c, [Idle EXCEPT !.kind = "edit", !.row = row, !.config = config, !.pc = "store"])
      /\ written' = written \cup {<<row.id, row.version, row.config>>}
  BY <1>4, <1>5
<1>7. /\ r \in connectors /\ r \in ConnectorRow /\ VersionsOf(r.id) # {}
      /\ r.failures <= failed[r.id] /\ (r.state # "CLOSED" => failed[r.id] >= Threshold)
      /\ r.state = "OPEN" => r.opened \in Time
  BY <1>3 DEF LatestRow, VersionsOf, Inv, ConnInv, RowOK
<1>8. PICK v \in Nat : v = r.version + 1
  BY <1>7 DEF ConnectorRow
<1>9. row = [r EXCEPT !.version = v, !.config = config, !.enabled = enabled]
  BY <1>5, <1>8 DEF UpdatedRow
<1>10. config \in Config
  BY <1>7 DEF ConnectorRow, Config
<1>11. /\ row \in ConnectorRow /\ row.id = r.id /\ row.config = config
       /\ row.failures = r.failures /\ row.state = r.state /\ row.opened = r.opened
  BY <1>7, <1>9, <1>10 DEF ConnectorRow
<1>12. Known(row, row.config)'
  <2>1. PICK w : w = <<row.id, row.version, row.config>>
    OBVIOUS
  <2>2. w[1] = row.id /\ w[2] = row.version /\ w[3] = row.config
    BY <2>1
  <2>3. w \in written'
    BY <1>6, <2>1
  <2> HIDE <1>6
  <2>. QED BY <2>2, <2>3 DEF Known
<1>13. RowOK(row)'
  BY <1>1, <1>7, <1>11, <1>12 DEF RowOK
<1>14. VersionsOf(row.id) # {} /\ written \subseteq written'
  BY <1>6, <1>7, <1>11
<1>15. CASE Instantiate(c, "edit", row)
  BY <1>1, <1>11, <1>13, <1>14, <1>15, InstantiateKeeps
<1>16. CASE Become(c, [Idle EXCEPT !.kind = "edit", !.row = row, !.config = config, !.pc = "store"])
  <2>1. Become(c, [Idle EXCEPT !.kind = "edit", !.row = row, !.config = row.config, !.pc = "store"])
    BY <1>11, <1>16
  <2>. QED BY <1>1, <1>11, <1>13, <1>14, <2>1, StartKeeps
<1>. QED BY <1>6, <1>15, <1>16

\* The rows of one connector go; the callers that hold a copy are remembered.
LEMMA DeletionKeeps ==
  ASSUME ConnectorAssumptions, VaultAssumptions, Inv, NEW c \in Callers, DeleteConnector(c)
  PROVE  Inv'
<1>1. /\ UNCHANGED <<vaultVars, call, calls, taken, failed, written>> /\ Spend
  BY DEF DeleteConnector
<1>2. PICK r \in connectors :
        /\ DeleteRows(r.id) /\ gone' = gone \cup {r.id}
        /\ late' = late \cup {d \in Callers : ~At(d, "idle") /\ call[d].row.id = r.id}
  BY DEF DeleteConnector
<1>3. VaultInv' /\ Grown /\ now' = now
  <2>1. failed \in [ConnectorIds -> Nat]
    BY CallerFacts
  <2>. QED BY <1>1, <2>1, VaultAside DEF Inv, Grown
<1>4. connectors' \subseteq connectors /\ \A q \in connectors : q.id # r.id => q \in connectors'
  BY <1>2 DEF DeleteRows, VersionsOf
<1>5. \A q \in connectors' : RowOK(q)'
  BY <1>3, <1>4, RowKept DEF Inv, ConnInv
<1>6. ASSUME NEW d \in Callers PROVE CallOK(call[d])' /\ LateOK(d, call[d])' /\ TakenOK(taken[d])'
  <2>1. PICK x \in Caller : x = call[d] /\ CallOK(x) /\ LateOK(d, x)
    BY CallerFacts
  <2>2. CallOK(x)'
    BY <1>3, <2>1, CallKept DEF Inv
  <2>3. ASSUME x.pc # "idle", x.row.id \in gone', VersionsOf(x.row.id)' = {} PROVE d \in late'
    <3>1. CASE x.row.id = r.id
      BY <1>2, <2>1, <2>3, <3>1 DEF At
    <3>2. CASE x.row.id # r.id
      <4>1. VersionsOf(x.row.id) = {}
        BY <1>4, <2>3, <3>2 DEF VersionsOf
      <4>. QED BY <1>2, <2>1, <2>3, <3>2, <4>1 DEF LateOK
    <3>. QED BY <3>1, <3>2
  <2>4. LateOK(d, x)'
    BY <2>3 DEF LateOK, VersionsOf
  <2>5. PICK t \in Taken \cup {None} : t = taken[d] /\ TakenOK(t)
    BY DEF Inv, ConnInv
  <2>6. TakenOK(t)'
    BY <1>3, <2>5, TakenKept DEF Inv, Grown
  <2>. QED BY <1>1, <2>1, <2>2, <2>4, <2>5, <2>6
<1>7. \A i \in gone' : \E w \in written' : w[1] = i
  <2>1. \E w \in written : w[1] = r.id
    BY DEF Inv, ConnInv, RowOK, Known
  <2>. QED BY <1>1, <1>2, <2>1 DEF Inv, ConnInv
<1>8. budget' \in 0..MaxRequests
  BY <1>1, CallerFacts DEF Spend, ConnectorAssumptions
<1>. QED BY <1>1, <1>3, <1>4, <1>5, <1>6, <1>7, <1>8 DEF Inv, ConnInv

-----------------------------------------------------------------------------
(* The resolution of the configuration.                                    *)

\* A caller goes on in good order, or its secret cannot be resolved.
LEMMA ResolutionMoves ==
  ASSUME ConnectorAssumptions, VaultAssumptions, Inv, VaultInv', SecretsGrow, now' = now,
         NEW c \in Callers, call[c].pc # "idle",
         UNCHANGED <<connectors, calls, budget, failed, written, gone>>,
         \/ ResolutionFails(c)
         \/ /\ UNCHANGED late
            /\ \E y \in Caller : CallOK(y) /\ y.row = call[c].row /\ Become(c, y),
         taken' \in [Callers -> Taken \cup {None}],
         \A d \in Callers : taken'[d] = taken[d] \/ TakenOK(taken[d])'
  PROVE  Inv'
<1>1. Grown
  <2>1. failed \in [ConnectorIds -> Nat]
    BY CallerFacts
  <2>. QED BY <2>1 DEF Grown
<1>2. ASSUME NEW y \in Caller, CallOK(y), call' = [call EXCEPT ![c] = y],
             y.pc # "idle" => y.row = call[c].row,
             late' = late \/ (late' = late \ {c} /\ y.pc = "idle")
      PROVE  Inv'
  <2>1. CallOK(y)'
    BY <1>1, <1>2, CallKept DEF Inv
  <2>2. calls' \in [ConnectorIds -> [Time -> Nat]] /\ budget' \in 0..MaxRequests
    BY CallerFacts
  <2>. QED BY <1>1, <1>2, <2>1, <2>2, CallerMoves
<1>3. CASE ResolutionFails(c)
  <2>1. CASE call[c].kind = "call"
    <3>1. call' = [call EXCEPT ![c] = Idle] /\ late' = late \ {c}
      BY <1>3, <2>1 DEF ResolutionFails, Answer, Become
    <3>2. PICK y \in Caller : y = Idle /\ y.pc = "idle"
      BY IdleOK
    <3>3. CallOK(y)
      BY <3>2 DEF CallOK
    <3>. QED BY <1>2, <3>1, <3>2, <3>3
  <2>2. CASE call[c].kind # "call"
    <3>1. PICK x \in Caller : x = call[c] /\ CallOK(x)
      BY CallerFacts
    <3>2. PICK y : y = [x EXCEPT !.pc = "store"]
      OBVIOUS
    <3>3. y \in Caller /\ y.pc = "store" /\ y.row = x.row
      BY <3>1, <3>2 DEF Caller
    <3>4. CallOK(y)
      BY <3>1, <3>3 DEF CallOK
    <3>5. call' = [call EXCEPT ![c] = y] /\ late' = late
      BY <1>3, <2>2, <3>1, <3>2 DEF ResolutionFails, Goto, Become
    <3>. QED BY <1>2, <3>1, <3>3, <3>4, <3>5
  <2>. QED BY <2>1, <2>2
<1>4. ASSUME NEW y \in Caller, CallOK(y), y.row = call[c].row, Become(c, y), UNCHANGED late
      PROVE  Inv'
  <2>1. call' = [call EXCEPT ![c] = y]
    BY <1>4 DEF Become
  <2>. QED BY <1>2, <1>4, <2>1
<1>. QED BY <1>3, <1>4

LEMMA SameTaken ==
  ASSUME Inv, UNCHANGED taken
  PROVE  /\ taken' \in [Callers -> Taken \cup {None}]
         /\ \A d \in Callers : taken'[d] = taken[d]
BY DEF Inv, ConnInv

LEMMA FetchKeeps ==
  ASSUME ConnectorAssumptions, VaultAssumptions, Inv, NEW c \in Callers, FetchSecret(c)
  PROVE  Inv'
<1>1. /\ call[c].pc = "fetch"
      /\ UNCHANGED <<secretRows, cache, verdicts, connectors, calls, budget, taken, failed, written, gone>>
  BY DEF FetchSecret, At, history
<1>2. now' = now /\ ServiceOf[c] \in Services
  BY <1>1 DEF secretRows, ConnectorAssumptions
<1>3. VaultInv' /\ SecretsGrow
  <2>1. CASE UNCHANGED resolutions
    BY <1>1, <2>1, MemoryUntouched DEF Inv, memory
  <2>2. CASE CountResolution(ServiceOf[c])
    BY <1>1, <1>2, <2>2, CountKeeps DEF Inv
  <2>. QED BY <2>1, <2>2 DEF FetchSecret
<1>4. PICK x \in Caller : x = call[c] /\ CallOK(x)
  BY CallerFacts
<1>5. ASSUME NEW r \in CurrentSecret(x.config), Become(c, [x EXCEPT !.pc = "policy", !.secret = r])
      PROVE  \E y \in Caller : CallOK(y) /\ y.row = call[c].row /\ Become(c, y)
  <2>1. r \in SecretRow /\ r.name = x.config /\ r.current /\ r \in secrets
    BY DEF CurrentSecret, Inv, VaultInv, VaultOK
  <2>2. SecretOK(r, x.config)
    <3>1. \A p \in retired : p[1] = r.id => ~r.current
      BY <2>1 DEF Inv, VaultInv, RetiredOK
    <3>. QED BY <2>1, <3>1 DEF SecretOK, Named
  <2>3. PICK y : y = [x EXCEPT !.pc = "policy", !.secret = r]
    OBVIOUS
  <2>4. y \in Caller /\ y.pc = "policy" /\ y.row = x.row /\ y.config = x.config /\ y.secret = r
    BY <2>1, <2>3 DEF Caller
  <2>5. CallOK(y)
    BY <1>1, <1>4, <2>2, <2>4 DEF CallOK
  <2>. QED BY <1>4, <1>5, <2>3, <2>4, <2>5
<1>6. \/ ResolutionFails(c)
      \/ /\ UNCHANGED late
         /\ \E r \in CurrentSecret(x.config) : Become(c, [x EXCEPT !.pc = "policy", !.secret = r])
  BY <1>4 DEF FetchSecret
<1>. QED BY <1>1, <1>2, <1>3, <1>5, <1>6, SameTaken, ResolutionMoves

LEMMA PolicyKeeps ==
  ASSUME ConnectorAssumptions, VaultAssumptions, Inv, NEW c \in Callers, AskPolicy(c)
  PROVE  Inv'
<1>1. /\ call[c].pc = "policy"
      /\ UNCHANGED <<secretRows, cache, resolutions, connectors, calls, budget, taken, failed, written, gone>>
  BY DEF AskPolicy, At, history
<1>2. now' = now /\ ServiceOf[c] \in Services
  BY <1>1 DEF secretRows, ConnectorAssumptions
<1>3. PICK x \in Caller : x = call[c] /\ CallOK(x)
  BY CallerFacts
<1>4. x.secret \in SecretRow /\ x.secret.name \in SecretNames
  BY <1>1, <1>3 DEF CallOK, SecretOK
<1>5. VaultInv' /\ SecretsGrow
  <2>1. RememberVerdict(ServiceOf[c], x.secret.name)
    BY <1>3 DEF AskPolicy
  <2>. QED BY <1>1, <1>2, <1>4, <2>1, VerdictKeeps DEF Inv
<1>6. \/ ResolutionFails(c)
      \/ UNCHANGED late /\ Become(c, [x EXCEPT !.pc = "take"])
  BY <1>3 DEF AskPolicy, Goto
<1>7. PICK y : y = [x EXCEPT !.pc = "take"]
  OBVIOUS
<1>8. /\ y \in Caller /\ y.pc = "take" /\ y.row = x.row
      /\ y.config = x.config /\ y.secret = x.secret
  BY <1>7 DEF Caller
<1>9. CallOK(y)
  BY <1>1, <1>3, <1>8 DEF CallOK
<1>. QED BY <1>1, <1>2, <1>3, <1>5, <1>6, <1>7, <1>8, <1>9, SameTaken, ResolutionMoves

LEMMA TakeKeeps ==
  ASSUME ConnectorAssumptions, VaultAssumptions, Inv, NEW c \in Callers, TakeSecret(c)
  PROVE  Inv'
<1>1. /\ call[c].pc = "take"
      /\ UNCHANGED <<secretRows, verdicts, resolutions, connectors, calls, budget, failed, written, gone, late>>
  BY DEF TakeSecret, At
<1>2. now' = now /\ ServiceOf[c] \in Services /\ now \in Time /\ now \in Nat /\ TTL \in Nat
  BY <1>1, MemoryTypes DEF secretRows, ConnectorAssumptions, VaultAssumptions, Inv
<1>3. PICK x \in Caller : x = call[c] /\ CallOK(x)
  BY CallerFacts
<1>4. PICK r \in SecretRow : r = x.secret /\ SecretOK(r, x.config)
  BY <1>1, <1>3 DEF CallOK, SecretOK
<1>5. PICK s \in Services : s = ServiceOf[c]
  BY <1>2
<1>6. PICK v : v = ResolvedValue(s, r)
  OBVIOUS
<1>7. /\ RememberValue(s, r)
      /\ Become(c, [x EXCEPT !.pc = Ready(x.kind), !.config = v, !.secret = None])
      /\ taken' = [taken EXCEPT ![c] = [value |-> v, at |-> now]]
  BY <1>3, <1>4, <1>5, <1>6 DEF TakeSecret
<1>8. /\ r.name = x.config /\ x.config \in SecretNames /\ Named(r.id, r.name)
      /\ \A p \in retired : p[1] = r.id => p[2] >= now
  BY <1>1, <1>3, <1>4 DEF SecretOK, CallOK
<1>9. VaultInv' /\ SecretsGrow
  BY <1>1, <1>7, <1>8, ValueKeeps DEF Inv
<1>10. \A p \in retired : p[2] \in Nat
  BY DEF Inv, VaultInv, VaultOK, Time
<1>11. /\ v \in Nat /\ Named(v, x.config)
       /\ \A p \in retired : p[1] = v => now <= p[2] + TTL
  <2>1. CASE Cached(s, r.name)
    <3>1. PICK e \in CacheEntry : e = cache[s][r.name] /\ now <= e.expires /\ v = e.value
      BY <1>6, <1>8, <2>1, MemoryTypes DEF Cached, ResolvedValue, Inv
    <3>2. EntryOK(r.name, e)
      BY <1>8, <2>1, <3>1 DEF Cached, Inv, VaultInv, CachesOK
    <3>3. e.expires \in Nat /\ e.value \in Nat
      BY DEF CacheEntry
    <3>. QED BY <1>2, <1>8, <1>10, <3>1, <3>2, <3>3 DEF EntryOK
  <2>2. CASE ~Cached(s, r.name)
    <3>1. v = r.id /\ r.id \in Nat
      BY <1>6, <2>2 DEF ResolvedValue, SecretRow
    <3>. QED BY <1>2, <1>8, <1>10, <3>1
  <2>. QED BY <2>1, <2>2
<1>12. Known(x.row, v)
  <2>1. PICK w \in written :
          /\ w[1] = x.row.id /\ w[2] = x.row.version
          /\ w[3] = x.config \/ Named(x.config, w[3])
    BY <1>1, <1>3 DEF CallOK, RowOK, Known
  <2>2. ~Named(x.config, w[3])
    BY <1>8 DEF Named, Inv, VaultInv, VaultOK, SecretRow, VaultAssumptions
  <2>. QED BY <1>11, <2>1, <2>2 DEF Known
<1>13. PICK y : y = [x EXCEPT !.pc = Ready(x.kind), !.config = v, !.secret = None]
  OBVIOUS
<1>14. /\ y \in Caller /\ y.pc \in {"admit", "store"} /\ y.row = x.row /\ y.config = v
  <2>1. PICK pc \in {"admit", "store"} : pc = Ready(x.kind)
    BY DEF Ready
  <2>2. y = [x EXCEPT !.pc = pc, !.config = v, !.secret = None]
    BY <1>13, <2>1
  <2>3. v \in Config
    BY <1>11 DEF Config
  <2>. QED BY <2>1, <2>2, <2>3 DEF Caller
<1>15. CallOK(y)
  BY <1>1, <1>3, <1>11, <1>12, <1>14 DEF CallOK
<1>16. PICK t : t = [value |-> v, at |-> now]
  OBVIOUS
<1>17. t \in Taken /\ t.value = v /\ t.at = now
  BY <1>2, <1>11, <1>16 DEF Taken
<1>18. taken' \in [Callers -> Taken \cup {None}]
       /\ \A d \in Callers : taken'[d] = IF d = c THEN t ELSE taken[d]
  BY <1>7, <1>16, <1>17 DEF Inv, ConnInv
<1>19. retired' = retired
  BY <1>1 DEF secretRows
<1>20. ASSUME NEW d \in Callers PROVE taken'[d] = taken[d] \/ TakenOK(taken[d])'
  <2>1. CASE d = c
    <3>1. taken'[d] = t
      BY <1>18, <2>1
    <3>2. TakenOK(t)'
      BY <1>2, <1>11, <1>17, <1>19 DEF TakenOK
    <3>. QED BY <3>1, <3>2 DEF TakenOK
  <2>. QED BY <1>18, <2>1
<1>21. Become(c, y)
  BY <1>7, <1>13
<1>. QED BY <1>1, <1>2, <1>3, <1>9, <1>14, <1>15, <1>18, <1>20, <1>21, ResolutionMoves

-----------------------------------------------------------------------------
(* The calls.                                                              *)

\* What is known of a caller stays known when only its failures are counted.
LEMMA StillKnown ==
  ASSUME ConnectorAssumptions, Inv, UNCHANGED <<vaultVars, written>>,
         failed' \in [ConnectorIds -> Nat], \A i \in ConnectorIds : failed'[i] >= failed[i]
  PROVE  /\ \A x \in Caller : CallOK(x) => CallOK(x)'
         /\ \A r \in ConnectorRow : RowOK(r) => RowOK(r)'
<1>1. Grown /\ now' = now
  BY VaultAside DEF Inv, Grown
<1>2. ASSUME NEW x \in Caller, CallOK(x) PROVE CallOK(x)'
  BY <1>1, <1>2, CallKept DEF Inv
<1>3. ASSUME NEW r \in ConnectorRow, RowOK(r) PROVE RowOK(r)'
  BY <1>1, <1>3, RowKept DEF Inv
<1>. QED BY <1>2, <1>3

LEMMA AdmissionKeeps ==
  ASSUME ConnectorAssumptions, VaultAssumptions, Inv, NEW c \in Callers, AdmitCall(c)
  PROVE  Inv'
<1>1. /\ call[c].pc = "admit" /\ CountCall(call[c].row.id)
      /\ UNCHANGED <<vaultVars, budget, taken, failed, written, gone, late>>
  BY DEF AdmitCall, At, history
<1>2. PICK x \in Caller : x = call[c] /\ CallOK(x)
  BY CallerFacts
<1>3. PICK r \in ConnectorRow : r = x.row /\ RowOK(r)
  BY <1>1, <1>2 DEF CallOK
<1>4. PICK k \in Nat : k = x.config /\ Known(r, k)
  BY <1>1, <1>2, <1>3 DEF CallOK
<1>5. /\ calls' \in [ConnectorIds -> [Time -> Nat]] /\ now \in Time
      /\ failed' \in [ConnectorIds -> Nat] /\ \A i \in ConnectorIds : failed'[i] >= failed[i]
  BY <1>1, <1>2, <1>3, CallCounted, CallerFacts DEF ConnectorRow
<1>6. CASE Become(c, [x EXCEPT !.pc = "send", !.at = now]) /\ UNCHANGED connectors
           /\ x.row.state # "OPEN"
  <2>1. PICK y : y = [x EXCEPT !.pc = "send", !.at = now]
    OBVIOUS
  <2>2. y \in Caller /\ y.pc = "send" /\ y.row = x.row /\ y.config = x.config
    BY <1>5, <2>1 DEF Caller
  <2>3. CallOK(y)
    BY <1>1, <1>2, <1>6, <2>2 DEF CallOK
  <2>4. CallOK(y)' /\ call' = [call EXCEPT ![c] = y]
    BY <1>1, <1>5, <1>6, <2>1, <2>2, <2>3, StillKnown DEF Become
  <2>. QED BY <1>1, <1>2, <1>5, <1>6, <2>2, <2>4, CallerActs
<1>7. ASSUME NEW q, q = [Resolved(c) EXCEPT !.state = "HALF_OPEN", !.opened = None],
             r.state = "OPEN", SaveConnector(q),
             Become(c, [x EXCEPT !.pc = "send", !.at = now, !.row = q])
      PROVE  Inv'
  <2>1. PICK z : z = [r EXCEPT !.config = k]
    OBVIOUS
  <2>2. z \in ConnectorRow /\ RowOK(z) /\ z.config = k /\ z.id = r.id /\ z.version = r.version
        /\ z.failures = r.failures /\ z.state = "OPEN"
    BY <1>3, <1>4, <1>7, <2>1, ResolvedRow
  <2>3. q = [z EXCEPT !.state = "HALF_OPEN", !.opened = None]
    BY <1>2, <1>3, <1>4, <1>7, <2>1 DEF Resolved
  <2>4. /\ q \in ConnectorRow /\ q.config = k /\ q.id = r.id /\ q.version = r.version
        /\ q.failures = r.failures /\ q.state = "HALF_OPEN"
    BY <2>2, <2>3 DEF ConnectorRow
  <2>5. Known(q, k)
    BY <1>4, <2>4 DEF Known
  <2>6. RowOK(q)
    <3>1. r.failures <= failed[r.id] /\ failed[r.id] >= Threshold
      BY <1>3, <1>7 DEF RowOK
    <3>. QED BY <2>4, <2>5, <3>1 DEF RowOK
  <2>7. PICK y : y = [x EXCEPT !.pc = "send", !.at = now, !.row = q]
    OBVIOUS
  <2>8. y \in Caller /\ y.pc = "send" /\ y.row = q /\ y.config = k
    BY <1>4, <1>5, <2>4, <2>7 DEF Caller
  <2>9. CallOK(y)
    BY <2>4, <2>5, <2>6, <2>8 DEF CallOK
  <2>10. CallOK(y)' /\ RowOK(q)' /\ call' = [call EXCEPT ![c] = y]
    BY <1>1, <1>5, <1>7, <2>4, <2>6, <2>7, <2>8, <2>9, StillKnown DEF Become
  <2>11. y.row.id = call[c].row.id
    BY <1>2, <1>3, <2>4, <2>8
  <2>. QED BY <1>1, <1>5, <1>7, <2>4, <2>8, <2>10, <2>11, CallerActs
<1>. QED BY <1>2, <1>3, <1>6, <1>7 DEF AdmitCall

LEMMA RefusalKeeps ==
  ASSUME ConnectorAssumptions, VaultAssumptions, Inv, NEW c \in Callers, RefuseCall(c)
  PROVE  Inv'
<1>1. /\ call[c].pc = "admit" /\ Answer(c) /\ (UNCHANGED calls \/ CountCall(call[c].row.id))
      /\ UNCHANGED <<vaultVars, connectors, budget, taken, failed, written, gone>>
  BY DEF RefuseCall, At, history
<1>2. call[c].row \in ConnectorRow
  BY <1>1, CallerFacts
<1>3. calls' \in [ConnectorIds -> [Time -> Nat]]
  BY <1>1, <1>2, CallCounted, CallerFacts DEF ConnectorRow
<1>. QED BY <1>1, <1>3, CallerAnswers

LEMMA FailureCounted ==
  ASSUME Inv, NEW i \in ConnectorIds, Failing(i)
  PROVE  /\ failed' \in [ConnectorIds -> Nat] /\ failed'[i] > failed[i]
         /\ \A j \in ConnectorIds : failed'[j] >= failed[j]
<1>1. PICK n \in Nat : n = failed[i] + 1
  BY DEF Inv, ConnInv
<1>2. failed' = [failed EXCEPT ![i] = n]
  BY <1>1 DEF Failing
<1>3. failed \in [ConnectorIds -> Nat]
  BY DEF Inv, ConnInv
<1>4. failed' \in [ConnectorIds -> Nat] /\ failed'[i] = n
      /\ \A j \in ConnectorIds \ {i} : failed'[j] = failed[j]
  BY <1>2, <1>3
<1>. QED BY <1>1, <1>3, <1>4

\* A caller whose failure was counted works on a copy that counts it not yet.
LEMMA FailureKeeps ==
  ASSUME ConnectorAssumptions, VaultAssumptions, Inv, NEW c \in Callers,
         call[c].pc \in {"send", "success"}, Failing(call[c].row.id),
         NEW q \in ConnectorRow, RowOK(q), q.id = call[c].row.id, q.version = call[c].row.version,
         Become(c, [call[c] EXCEPT !.pc = "failure", !.row = q]),
         UNCHANGED <<vaultVars, connectors, calls, budget, taken, written, gone, late>>
  PROVE  Inv'
<1>1. PICK x \in Caller : x = call[c] /\ CallOK(x)
  BY CallerFacts
<1>2. x.config \in Nat /\ Known(x.row, x.config)
  BY <1>1 DEF CallOK
<1>3. /\ failed' \in [ConnectorIds -> Nat] /\ failed'[q.id] > failed[q.id]
      /\ \A j \in ConnectorIds : failed'[j] >= failed[j]
  BY FailureCounted DEF ConnectorRow
<1>4. q.failures < failed'[q.id]
  <2>1. q.failures \in Nat /\ failed[q.id] \in Nat /\ failed'[q.id] \in Nat /\ q.failures <= failed[q.id]
    BY <1>3, CallerFacts DEF ConnectorRow, RowOK
  <2>. QED BY <1>3, <2>1
<1>5. Known(q, x.config)
  BY <1>1, <1>2 DEF Known
<1>6. RowOK(q)'
  BY <1>3, StillKnown
<1>7. PICK y : y = [x EXCEPT !.pc = "failure", !.row = q]
  OBVIOUS
<1>8. y \in Caller /\ y.pc = "failure" /\ y.row = q /\ y.config = x.config
  BY <1>7 DEF Caller
<1>9. Known(q, x.config)'
  <2>1. Grown
    BY <1>3, VaultAside DEF Inv, Grown
  <2>. QED BY <1>5, <2>1, KnownKept DEF Grown
<1>10. CallOK(y)'
  BY <1>2, <1>4, <1>6, <1>8, <1>9 DEF CallOK
<1>11. call' = [call EXCEPT ![c] = y]
  BY <1>1, <1>7 DEF Become
<1>12. calls' \in [ConnectorIds -> [Time -> Nat]]
  BY CallerFacts
<1>. QED BY <1>3, <1>8, <1>10, <1>11, <1>12, CallerActs

LEMMA SendKeeps ==
  ASSUME ConnectorAssumptions, VaultAssumptions, Inv, NEW c \in Callers, Send(c)
  PROVE  Inv'
<1>1. /\ call[c].pc = "send"
      /\ UNCHANGED <<vaultVars, connectors, calls, budget, taken, written, gone, late>>
  BY DEF Send, At
<1>2. PICK x \in Caller : x = call[c] /\ CallOK(x)
  BY CallerFacts
<1>3. PICK r \in ConnectorRow : r = x.row /\ RowOK(r)
  BY <1>1, <1>2 DEF CallOK
<1>4. CASE Goto(c, "success") /\ UNCHANGED failed
  <2>1. PICK y : y = [x EXCEPT !.pc = "success"]
    OBVIOUS
  <2>2. y \in Caller /\ y.pc = "success" /\ y.row = x.row /\ y.config = x.config
    BY <2>1 DEF Caller
  <2>3. CallOK(y)
    BY <1>1, <1>2, <2>2 DEF CallOK
  <2>4. /\ failed' \in [ConnectorIds -> Nat] /\ \A j \in ConnectorIds : failed'[j] >= failed[j]
        /\ calls' \in [ConnectorIds -> [Time -> Nat]]
    BY <1>1, <1>4, CallerFacts
  <2>5. CallOK(y)' /\ call' = [call EXCEPT ![c] = y]
    BY <1>1, <1>2, <1>4, <2>1, <2>2, <2>3, <2>4, StillKnown DEF Goto, Become
  <2>. QED BY <1>1, <1>2, <2>2, <2>4, <2>5, CallerActs
<1>5. CASE Goto(c, "failure") /\ Failing(call[c].row.id)
  <2>1. [x EXCEPT !.pc = "failure", !.row = r] = [x EXCEPT !.pc = "failure"]
    BY <1>3 DEF Caller
  <2>2. Become(c, [call[c] EXCEPT !.pc = "failure", !.row = r])
    BY <1>2, <1>5, <2>1 DEF Goto
  <2>. QED BY <1>1, <1>2, <1>3, <1>5, <2>2, FailureKeeps
<1>. QED BY <1>4, <1>5 DEF Send

LEMMA UnsavedKeeps ==
  ASSUME ConnectorAssumptions, VaultAssumptions, Inv, NEW c \in Callers, SuccessUnsaved(c)
  PROVE  Inv'
<1>1. /\ call[c].pc = "success" /\ Failing(call[c].row.id)
      /\ UNCHANGED <<vaultVars, connectors, calls, budget, taken, written, gone, late>>
  BY DEF SuccessUnsaved, At
<1>2. PICK r \in ConnectorRow : r = call[c].row /\ RowOK(r)
  BY <1>1, CallerFacts
<1>3. PICK q : q = Recovered(r)
  OBVIOUS
<1>4. q \in ConnectorRow /\ RowOK(q) /\ q.id = r.id /\ q.version = r.version
  BY <1>2, <1>3, RecoveredRow DEF Inv
<1>5. Become(c, [call[c] EXCEPT !.pc = "failure", !.row = q])
  BY <1>2, <1>3 DEF SuccessUnsaved
<1>. QED BY <1>1, <1>2, <1>4, <1>5, FailureKeeps

-----------------------------------------------------------------------------
(* The invariant.                                                          *)

LEMMA InitInv == ASSUME VaultAssumptions, ConnectorAssumptions, Init PROVE Inv
<1>1. Forgetful \in [SecretNames -> CacheEntry \cup {None}]
      /\ Forgetful \in [SecretNames -> Verdict \cup {None}]
      /\ \A n \in SecretNames : Forgetful[n] = None
  BY DEF Forgetful
<1>2. NoTimes \in [Time -> Nat] /\ 0 \in Time
  BY DEF NoTimes, Time, VaultAssumptions
<1>3. VaultInv
  <2>1. VaultOK
    BY <1>1, <1>2 DEF Init, VaultInit, VaultOK
  <2>2. AdminsOK /\ RetiredOK
    BY DEF Init, VaultInit, AdminsOK, RetiredOK
  <2>3. CachesOK
    BY <1>1 DEF Init, VaultInit, CachesOK
  <2>. QED BY <2>1, <2>2, <2>3 DEF VaultInv, Init, VaultInit
<1>4. \A c \in Callers : call[c] = Idle /\ taken[c] = None
  BY DEF Init
<1>5. Idle \in Caller /\ Idle.pc = "idle"
  BY IdleOK
<1>6. \A c \in Callers : CallOK(call[c]) /\ LateOK(c, call[c]) /\ TakenOK(taken[c])
  BY <1>4, <1>5 DEF CallOK, LateOK, TakenOK
<1>7. calls \in [ConnectorIds -> [Time -> Nat]] /\ failed \in [ConnectorIds -> Nat]
      /\ budget \in 0..MaxRequests
  BY <1>2 DEF Init, ConnectorAssumptions
<1>8. call \in [Callers -> Caller] /\ taken \in [Callers -> Taken \cup {None}]
  BY <1>5 DEF Init
<1>9. connectors = {} /\ gone = {}
  BY DEF Init
<1>. QED BY <1>3, <1>6, <1>7, <1>8, <1>9 DEF Inv, ConnInv

LEMMA AdminStepKeeps ==
  ASSUME VaultAssumptions, ConnectorAssumptions, Inv, AdminStep PROVE Inv'
<1>1. /\ UNCHANGED <<connectors, call, calls, taken, failed, written, gone, late>>
      /\ budget' \in 0..MaxRequests
  BY CallerFacts DEF AdminStep, Spend, ConnectorAssumptions, Inv, ConnInv
<1>2. VaultInv' /\ SecretsGrow /\ now' = now
  BY AdminsKeepVault DEF Inv
<1>3. Grown
  BY <1>1, <1>2 DEF Grown, Inv, ConnInv
<1>4. ASSUME NEW r \in connectors PROVE RowOK(r)'
  BY <1>3, RowKept DEF Inv, ConnInv
<1>5. ASSUME NEW c \in Callers PROVE CallOK(call[c])' /\ LateOK(c, call[c])' /\ TakenOK(taken[c])'
  <2>1. PICK x \in Caller : x = call[c] /\ CallOK(x) /\ LateOK(c, x)
    BY CallerFacts
  <2>2. CallOK(x)'
    BY <1>2, <1>3, <2>1, CallKept DEF Inv
  <2>3. LateOK(c, x)'
    BY <1>1, <2>1 DEF LateOK, VersionsOf
  <2>4. PICK t \in Taken \cup {None} : t = taken[c] /\ TakenOK(t)
    BY DEF Inv, ConnInv
  <2>5. TakenOK(t)'
    BY <1>2, <2>4, TakenKept DEF Inv
  <2>. QED BY <1>1, <2>1, <2>2, <2>3, <2>4, <2>5
<1>. QED BY <1>1, <1>2, <1>4, <1>5 DEF Inv, ConnInv

\* While time passes, no caller holds a row it fetched from the vault.
LEMMA TickKeeps ==
  ASSUME VaultAssumptions, ConnectorAssumptions, Inv, Tick PROVE Inv'
<1>1. /\ UNCHANGED <<secrets, retired, connectors, call, calls, budget, taken, failed, written, gone, late>>
      /\ now' = now + 1 /\ \A c \in Callers : call[c].pc \notin {"policy", "take"}
      /\ now \in Nat
  BY MemoryTypes DEF Tick, history, Inv
<1>2. VaultInv'
  BY TickKeepsVault DEF Inv
<1>3. ASSUME NEW r \in connectors PROVE RowOK(r)'
  BY <1>1 DEF Inv, ConnInv, RowOK, Known, Named
<1>4. ASSUME NEW c \in Callers PROVE CallOK(call[c])' /\ LateOK(c, call[c])' /\ TakenOK(taken[c])'
  <2>1. PICK x \in Caller : x = call[c] /\ CallOK(x) /\ LateOK(c, x)
    BY CallerFacts
  <2>2. CallOK(x)'
    BY <1>1, <2>1 DEF CallOK, RowOK, Known, Named
  <2>3. LateOK(c, x)'
    BY <1>1, <2>1 DEF LateOK, VersionsOf
  <2>4. PICK t \in Taken \cup {None} : t = taken[c] /\ TakenOK(t)
    BY DEF Inv, ConnInv
  <2>5. TakenOK(t)'
    BY <1>1, <2>4 DEF TakenOK, Taken, Time
  <2>. QED BY <1>1, <2>1, <2>2, <2>3, <2>4, <2>5
<1>. QED BY <1>1, <1>2, <1>3, <1>4 DEF Inv, ConnInv

LEMMA StutterKeeps ==
  ASSUME Inv, UNCHANGED vars PROVE Inv'
<1>1. UNCHANGED <<secrets, admin, cache, verdicts, resolutions, permitted, now, retired>>
      /\ UNCHANGED <<connectors, call, calls, budget, taken, failed, written, gone, late>>
  BY DEF vars, vaultVars
<1>2. VaultInv'
  BY <1>1 DEF Inv, VaultInv, VaultOK, AdminsOK, RetiredOK, CachesOK, EntryOK, Named
<1>3. ConnInv'
  BY <1>1 DEF Inv, ConnInv, CallOK, LateOK, TakenOK, RowOK, SecretOK, Known, Named, VersionsOf
<1>. QED BY <1>2, <1>3 DEF Inv

LEMMA StepKeeps ==
  ASSUME VaultAssumptions, ConnectorAssumptions, Inv, [Next]_vars PROVE Inv'
<1>1. ASSUME NEW c \in Callers, CallerStep(c) PROVE Inv'
  <2>1. CASE Dispatch(c) \/ CheckHealth(c) \/ TestConnector(c)
    BY <2>1, RequestsStart
  <2>2. CASE CreateConnector(c)
    BY <2>2, CreationStarts
  <2>3. CASE UpdateConnector(c)
    BY <2>3, UpdateStarts
  <2>4. CASE DeleteConnector(c)
    BY <2>4, DeletionKeeps
  <2>5. CASE FetchSecret(c)
    BY <2>5, FetchKeeps
  <2>6. CASE AskPolicy(c)
    BY <2>6, PolicyKeeps
  <2>7. CASE TakeSecret(c)
    BY <2>7, TakeKeeps
  <2>8. CASE AdmitCall(c)
    BY <2>8, AdmissionKeeps
  <2>9. CASE RefuseCall(c)
    BY <2>9, RefusalKeeps
  <2>10. CASE Send(c)
    BY <2>10, SendKeeps
  <2>11. CASE SuccessUnsaved(c)
    BY <2>11, UnsavedKeeps
  <2>12. CASE HandleSuccess(c) \/ HandleFailure(c) \/ Store(c) \/ CallerFails(c)
    BY <2>12, SavesKeep
  <2>. QED
    BY <1>1, <2>1, <2>2, <2>3, <2>4, <2>5, <2>6, <2>7, <2>8, <2>9, <2>10, <2>11, <2>12
    DEF CallerStep
<1>. QED BY <1>1, AdminStepKeeps, TickKeeps, StutterKeeps DEF Next

LEMMA InvHolds == Spec => []Inv
<1>1. Init => Inv
  BY VaultAssumptions, ConnectorAssumptions, InitInv
<1>2. Inv /\ [Next]_vars => Inv'
  BY VaultAssumptions, ConnectorAssumptions, StepKeeps
<1>. QED BY <1>1, <1>2, PTL DEF Spec

\* Every variable has its type, the versions of a secret have exactly one current row,
\* and whoever resolves, calls or handles a result holds what the step needs.
THEOREM TypeCorrect == Spec => []TypeOK
<1>1. Inv => TypeOK
  BY DEF Inv, VaultInv, ConnInv, TypeOK, CallOK, RowOK, SecretOK
<1>. QED BY <1>1, InvHolds, PTL

\* However copies of a connector are read, saved over each other and carried into new
\* versions (base.py, connectors/service.py), the circuit breaker counts no failure that
\* did not happen, and none from before a success that was saved over the only copy there
\* was; it opens only after Threshold failures counted in this way.
THEOREM CircuitsOpenOnFailures == Spec => []BreakerOpensOnFailures
<1>1. ASSUME Inv, NEW r \in Copies
      PROVE  r.failures <= failed[r.id] /\ (r.state # "CLOSED" => failed[r.id] >= Threshold)
  BY <1>1, CallerFacts DEF Copies, At, RowOK
<1>2. ASSUME Inv, NEW r \in connectors
      PROVE  r.failures <= failed[r.id] /\ (r.state # "CLOSED" => failed[r.id] >= Threshold)
  BY <1>2 DEF Inv, ConnInv, RowOK
<1>3. Inv => BreakerOpensOnFailures
  BY <1>1, <1>2 DEF BreakerOpensOnFailures
<1>. QED BY <1>3, InvHolds, PTL

\* Although a rotation invalidates no cache of a service that resolves secrets
\* (vault/service.py, dependencies.py), a replaced value is handed out at most TTL after
\* it was replaced.
THEOREM RetiredSecretsExpire == Spec => []StaleSecretsExpire
<1>1. Inv => StaleSecretsExpire
  BY DEF Inv, ConnInv, TakenOK, StaleSecretsExpire
<1>. QED BY <1>1, InvHolds, PTL

\* The configuration stored under a version was written under it, or is the value of the
\* secret that one refers to: calls save resolved configurations (base.py, execute), but
\* never that of another connector, version or secret.
THEOREM ConfigurationsTraced == Spec => []ConfigurationsAreTraceable
<1>1. ASSUME Inv, NEW r \in connectors
      PROVE  \E w \in written :
               /\ w[1] = r.id /\ w[2] = r.version
               /\ \/ w[3] = r.config
                  \/ \E s \in secrets : s.id = r.config /\ s.name = w[3]
  BY <1>1 DEF Inv, ConnInv, RowOK, Known, Named
<1>2. Inv => ConfigurationsAreTraceable
  BY <1>1 DEF ConfigurationsAreTraceable
<1>. QED BY <1>2, InvHolds, PTL

-----------------------------------------------------------------------------
(* Deletions.                                                              *)

Undone(i) ==
  \/ i \in gone /\ VersionsOf(i) # {}
  \/ \E c \in late : call[c].row.id = i /\ call'[c] # call[c]

\* The save of a copy brings back at most the connector of that copy.
LEMMA SaveUndoes ==
  ASSUME Inv, NEW c \in Callers, NEW q, SaveConnector(q), q.id = call[c].row.id,
         call[c].pc # "idle", call'[c] # call[c], gone' = gone,
         NEW i \in gone', VersionsOf(i)' # {}
  PROVE  Undone(i)
<1>1. CASE VersionsOf(i) # {}
  BY <1>1 DEF Undone
<1>2. CASE VersionsOf(i) = {}
  <2>1. PICK r \in connectors' : r.id = i
    BY DEF VersionsOf
  <2>2. r \notin connectors
    BY <1>2, <2>1 DEF VersionsOf
  <2>3. r = q
    BY <2>1, <2>2 DEF SaveConnector
  <2>4. LateOK(c, call[c])
    BY CallerFacts
  <2>. QED BY <1>2, <2>1, <2>3, <2>4 DEF LateOK, Undone
<1>. QED BY <1>1, <1>2

\* The rows callers save are those of the connectors they work on.
LEMMA SavedIds ==
  ASSUME Inv, NEW c \in Callers, call[c].pc # "idle"
  PROVE  /\ [Resolved(c) EXCEPT !.state = "HALF_OPEN", !.opened = None].id = call[c].row.id
         /\ Recovered(Resolved(c)).id = call[c].row.id
         /\ Broken(Resolved(c), call[c].at).id = call[c].row.id
<1>1. PICK r \in ConnectorRow : r = call[c].row
  BY CallerFacts
<1>2. PICK z : z = Resolved(c)
  OBVIOUS
<1>3. /\ z.id = r.id
      /\ z = [id |-> z.id, version |-> z.version, config |-> z.config, enabled |-> z.enabled,
              state |-> z.state, failures |-> z.failures, opened |-> z.opened]
  BY <1>1, <1>2 DEF Resolved, ConnectorRow
<1>4. [z EXCEPT !.state = "HALF_OPEN", !.opened = None].id = z.id
  BY <1>3
<1>5. Recovered(z).id = z.id
  <2>1. PICK n, st : Recovered(z) = [z EXCEPT !.failures = n, !.state = st]
    BY DEF Recovered
  <2>. QED BY <1>3, <2>1
<1>6. \A at : Broken(z, at).id = z.id
  <2> TAKE at
  <2>1. PICK n, st, o : Broken(z, at) = [z EXCEPT !.failures = n, !.state = st, !.opened = o]
    BY DEF Broken
  <2>. QED BY <1>3, <2>1
<1>. QED BY <1>1, <1>2, <1>3, <1>4, <1>5, <1>6

LEMMA CallsMove ==
  ASSUME Inv, NEW c \in Callers, NEW y, Become(c, y), y.pc # call[c].pc
  PROVE  call'[c] # call[c]
BY DEF Become, Inv, ConnInv

LEMMA StepUndoes ==
  ASSUME VaultAssumptions, ConnectorAssumptions, Inv, [Next]_vars,
         NEW i \in gone', VersionsOf(i)' # {}
  PROVE  Undone(i)
<1>1. CASE UNCHANGED <<connectors, gone>>
  BY <1>1 DEF Undone, VersionsOf
<1>2. ASSUME NEW c \in Callers, DeleteConnector(c) PROVE Undone(i)
  BY <1>2 DEF DeleteConnector, DeleteRows, VersionsOf, Undone
<1>3. ASSUME NEW c \in Callers, HandleSuccess(c) \/ HandleFailure(c) \/ Store(c) PROVE Undone(i)
  <2>1. call[c].pc # "idle" /\ Become(c, Idle) /\ Idle.pc # call[c].pc /\ gone' = gone
    BY <1>3, IdleOK DEF HandleSuccess, HandleFailure, Store, At, Answer, history
  <2>2. \E q : SaveConnector(q) /\ q.id = call[c].row.id
    BY <1>3, <2>1, SavedIds DEF HandleSuccess, HandleFailure, Store
  <2>3. call'[c] # call[c]
    BY <2>1, CallsMove
  <2>. QED BY <2>1, <2>2, <2>3, SaveUndoes
<1>4. ASSUME NEW c \in Callers, AdmitCall(c), connectors' # connectors PROVE Undone(i)
  <2>1. PICK q : /\ q = [Resolved(c) EXCEPT !.state = "HALF_OPEN", !.opened = None]
                 /\ SaveConnector(q)
                 /\ Become(c, [call[c] EXCEPT !.pc = "send", !.at = now, !.row = q])
    BY <1>4 DEF AdmitCall
  <2>2. call[c].pc = "admit" /\ gone' = gone /\ call[c] \in Caller
    BY <1>4, CallerFacts DEF AdmitCall, At, history
  <2>3. PICK y : y = [call[c] EXCEPT !.pc = "send", !.at = now, !.row = q]
    OBVIOUS
  <2>4. y.pc = "send"
    BY <2>2, <2>3 DEF Caller
  <2>5. call'[c] # call[c]
    BY <2>1, <2>2, <2>3, <2>4, CallsMove
  <2>. QED BY <2>1, <2>2, <2>5, SavedIds, SaveUndoes
<1>5. ASSUME NEW c \in Callers, CallerStep(c) PROVE Undone(i)
  <2>1. CASE DeleteConnector(c) \/ HandleSuccess(c) \/ HandleFailure(c) \/ Store(c)
    BY <1>2, <1>3, <2>1
  <2>2. CASE AdmitCall(c)
    BY <1>1, <1>4, <2>2 DEF AdmitCall, history
  <2>3. CASE \/ Dispatch(c) \/ CheckHealth(c) \/ TestConnector(c) \/ CreateConnector(c)
             \/ UpdateConnector(c)
    BY <1>1, <2>3
    DEF Dispatch, CheckHealth, TestConnector, CreateConnector, UpdateConnector, history
  <2>4. CASE FetchSecret(c) \/ AskPolicy(c) \/ TakeSecret(c)
    BY <1>1, <2>4 DEF FetchSecret, AskPolicy, TakeSecret, history
  <2>5. CASE RefuseCall(c) \/ Send(c) \/ SuccessUnsaved(c) \/ CallerFails(c)
    BY <1>1, <2>5 DEF RefuseCall, Send, SuccessUnsaved, CallerFails, history
  <2>. QED BY <1>5, <2>1, <2>2, <2>3, <2>4, <2>5 DEF CallerStep
<1>6. CASE Tick \/ AdminStep \/ UNCHANGED vars
  BY <1>1, <1>6 DEF Tick, AdminStep, vars, history
<1>. QED BY <1>5, <1>6 DEF Next

\* delete_connector (sqlite.py) removes every version, and only a save of a copy read
\* before the deletion can bring the connector back.
THEOREM DeletionsHold == Spec => DeletionIsUndoneOnlyByRaces
<1>1. Inv /\ [Next]_vars =>
        [\A i \in gone' :
           VersionsOf(i)' # {} =>
             \/ i \in gone /\ VersionsOf(i) # {}
             \/ \E c \in late : call[c].row.id = i /\ call'[c] # call[c] ]_vars
  BY VaultAssumptions, ConnectorAssumptions, StepUndoes DEF Undone
<1>. QED BY <1>1, InvHolds, PTL DEF Spec, DeletionIsUndoneOnlyByRaces
=============================================================================
