---------------------------- MODULE SecretVault ----------------------------
(***************************************************************************)
(* The secret vault (app/vault): versions of a secret in the database, and *)
(* what each VaultService keeps in memory: a cache of resolved values, a   *)
(* cache of policy decisions, and the resolutions of the last minute.      *)
(*                                                                         *)
(* The routes that change secrets build a VaultService of their own, so    *)
(* that the cache they invalidate is empty: no service that resolves       *)
(* secrets hears of a rotation. Every row is written with a new id and a   *)
(* new value; the id stands for both.                                      *)
(***************************************************************************)
EXTENDS Naturals
LOCAL INSTANCE Functions

CONSTANTS
  SecretNames,
  Services,      \* VaultService objects that resolve secrets
  Admins,        \* request threads that create, rotate and disable secrets
  VaultLimit,    \* resolutions of one service per Window
  Window,        \* one minute
  TTL,           \* secret_cache_ttl_seconds
  DecisionTTL,   \* lifetime of a cached policy decision
  MaxTime,       \* bound: clock
  MaxSecrets,    \* bound: rows ever written
  None

ASSUME VaultAssumptions ==
  /\ {VaultLimit, Window, TTL, DecisionTTL, MaxTime, MaxSecrets} \subseteq Nat
  /\ SecretNames \cap Nat = {} /\ None \notin SecretNames

Time == 0..MaxTime
SecretRow == [id: Nat, name: SecretNames, version: Nat, enabled: BOOLEAN, current: BOOLEAN]
CacheEntry == [value: Nat, expires: Nat]
Verdict == [at: Time, allowed: BOOLEAN]
NoTimes == [t \in Time |-> 0]

VARIABLES
  secrets,     \* the rows of table secrets
  admin,       \* the row an administrator is about to save, or None
  cache,       \* SecretCache of each service, for version None
  verdicts,    \* _decision_cache of each service
  resolutions, \* how many of the last resolutions of each service were when
  permitted,   \* what the SECRET policies say of a name
  now,
  retired      \* history: <<id, time>> of the rows that ceased to be current

vaultVars == <<secrets, admin, cache, verdicts, resolutions, permitted, now, retired>>

\* Ids are unique, and the versions of a name are; exactly one of them is current.
VaultOK ==
  /\ secrets \subseteq SecretRow
  /\ \A r, s \in secrets : r.id = s.id \/ (r.name = s.name /\ r.version = s.version) => r = s
  /\ \A r \in secrets : \E s \in secrets :
       s.name = r.name /\ \A q \in secrets : q.name = r.name /\ q.current <=> q = s
  /\ admin \in [Admins -> SecretRow \cup {None}]
  /\ cache \in [Services -> [SecretNames -> CacheEntry \cup {None}]]
  /\ verdicts \in [Services -> [SecretNames -> Verdict \cup {None}]]
  /\ resolutions \in [Services -> [Time -> Nat]]
  /\ permitted \in [SecretNames -> BOOLEAN]
  /\ now \in Time
  /\ retired \subseteq Nat \X Time

Forgetful == [n \in SecretNames |-> None]

VaultInit ==
  /\ secrets = {}
  /\ admin = [a \in Admins |-> None]
  /\ cache = [s \in Services |-> Forgetful]
  /\ verdicts = [s \in Services |-> Forgetful]
  /\ resolutions = [s \in Services |-> NoTimes]
  /\ permitted = [n \in SecretNames |-> TRUE]
  /\ now = 0
  /\ retired = {}

-----------------------------------------------------------------------------
(* The repository.                                                         *)

\* get_secret_by_name without a version.
CurrentSecret(n) == {r \in secrets : r.name = n /\ r.current}

\* list_secrets: the version numbers of a name.
VersionNumbers(n) == {r.version : r \in {s \in secrets : s.name = n}}

\* save_secret: INSERT into a table where a name has a version once.
VersionTaken(row) == row.version \in VersionNumbers(row.name)
SaveSecret(row) ==
  /\ secrets' = {[r EXCEPT !.current = IF r.name = row.name THEN FALSE ELSE @] : r \in secrets}
                  \cup {row}
  /\ retired' = retired \cup {<<r.id, now>> : r \in CurrentSecret(row.name)}

\* disable_secret
DisableRow(r) == secrets' = (secrets \ {r}) \cup {[r EXCEPT !.enabled = FALSE]}

-----------------------------------------------------------------------------
(* Creation, rotation, disabling.                                          *)

\* Every id given so far is in a row or about to be, except one whose save failed:
\* nobody has seen that one, and it may be given again.
UsedIds == {r.id : r \in secrets} \cup {admin[a].id : a \in {b \in Admins : admin[b] # None}}
NewId == CHOOSE i \in 1..MaxSecrets : i \notin UsedIds

NewRow(n, version) ==
  [id |-> NewId, name |-> n, version |-> version, enabled |-> TRUE, current |-> TRUE]

Prepare(a, row) ==
  /\ admin' = [admin EXCEPT ![a] = row]
  /\ UNCHANGED <<secrets, cache, verdicts, resolutions, permitted, now, retired>>

\* create_secret of the service: refused when the name has a current row.
FirstVersion(n) == IF CurrentSecret(n) = {} THEN {NewRow(n, 1)} ELSE {}

\* rotate_secret of the service: the highest version of the name plus one. Its two
\* reads are one step, as rows are never deleted and keep their names.
NextSecretVersion(r) ==
  {NewRow(r.name, v + 1) : v \in {w \in VersionNumbers(r.name) : \A x \in VersionNumbers(r.name) : x <= w}}

\* The routes: any row may be rotated, also one that is not current.
CreateSecret(a) ==
  /\ admin[a] = None /\ UsedIds # 1..MaxSecrets
  /\ \E n \in SecretNames : \E row \in FirstVersion(n) : Prepare(a, row)

RotateSecret(a) ==
  /\ admin[a] = None /\ UsedIds # 1..MaxSecrets
  /\ \E r \in secrets : \E row \in NextSecretVersion(r) : Prepare(a, row)

\* The row is saved; the cache that is invalidated afterwards is the request's own.
\* Of two requests that chose the same version the second one fails.
FinishSecret(a) ==
  /\ admin[a] # None
  /\ IF VersionTaken(admin[a]) THEN UNCHANGED <<secrets, retired>> ELSE SaveSecret(admin[a])
  /\ admin' = [admin EXCEPT ![a] = None]
  /\ UNCHANGED <<cache, verdicts, resolutions, permitted, now>>

\* The row stays current.
DisableSecret(a) ==
  /\ admin[a] = None
  /\ \E r \in secrets : r.enabled /\ DisableRow(r)
  /\ UNCHANGED <<admin, cache, verdicts, resolutions, permitted, now, retired>>

\* An administrator changes the SECRET policies.
ChangePolicy ==
  /\ \E n \in SecretNames : permitted' = [permitted EXCEPT ![n] = ~@]
  /\ UNCHANGED <<secrets, admin, cache, verdicts, resolutions, now, retired>>

-----------------------------------------------------------------------------
(* resolve_secret, in three parts: the row is fetched, the policy is asked,*)
(* the value is taken from the cache or from the row.                      *)

\* _check_rate_limit: a list of times is the number of its entries at each time;
\* those that left the window are dropped.
Recent(times, window) == [t \in Time |-> IF t + window > now THEN times[t] ELSE 0]
Total(times) == FoldFunction(LAMBDA m, n : m + n, 0, times)
Count(times, window) == [Recent(times, window) EXCEPT ![now] = @ + 1]
MayResolve(s) == Total(Recent(resolutions[s], Window)) < VaultLimit
CountResolution(s) ==
  resolutions' = [resolutions EXCEPT ![s] = Count(@, Window)]

\* _evaluate_secret_policy: a decision counts for DecisionTTL.
Decided(s, n) == verdicts[s][n] # None /\ now < verdicts[s][n].at + DecisionTTL
PolicyAllows(s, n) == IF Decided(s, n) THEN verdicts[s][n].allowed ELSE permitted[n]
RememberVerdict(s, n) ==
  verdicts' = IF Decided(s, n) THEN verdicts
              ELSE [verdicts EXCEPT ![s][n] = [at |-> now, allowed |-> permitted[n]]]

\* As if entries did not expire.
CachedForever(s, n) == cache[s][n] # None

\* SecretCache.get
Cached(s, n) == cache[s][n] # None /\ now <= cache[s][n].expires

ResolvedValue(s, r) == IF Cached(s, r.name) THEN cache[s][r.name].value ELSE r.id

\* SecretCache.set
RememberValue(s, r) ==
  cache' = IF Cached(s, r.name) THEN cache
           ELSE [cache EXCEPT ![s][r.name] = [value |-> r.id, expires |-> now + TTL]]

\* A new VaultService.
Renew(s) ==
  /\ cache' = [cache EXCEPT ![s] = Forgetful]
  /\ verdicts' = [verdicts EXCEPT ![s] = Forgetful]
  /\ resolutions' = [resolutions EXCEPT ![s] = NoTimes]
=============================================================================
