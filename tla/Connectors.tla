----------------------------- MODULE Connectors -----------------------------
(***************************************************************************)
(* Connectors (app/connectors) and their callers: the notifier, the health *)
(* pass and the connector routes. Every caller works on a copy of a row    *)
(* from the read to the save, and save_connector writes all the columns of *)
(* that copy: circuit breaker, failure count and configuration. A call     *)
(* saves the copy whose secret references were replaced by their values.   *)
(*                                                                         *)
(* A configuration is the name of the one secret it refers to, or a value. *)
(* The columns that only report (health_status, the dates of checks and    *)
(* validations, consecutive_failures) are left out: no decision reads them.*)
(***************************************************************************)
EXTENDS SecretVault

CONSTANTS
  ConnectorIds,
  Callers,       \* threads that work on connectors
  ServiceOf,     \* the VaultService of each caller
  Renewed,       \* services that are built anew for each request
  Threshold,     \* failures that open the circuit (5)
  Cooldown,      \* 30 seconds
  CallLimit,     \* rate_limit_per_minute
  MaxRequests    \* bound: requests of callers, changes of policies

ASSUME ConnectorAssumptions ==
  /\ ServiceOf \in [Callers -> Services] /\ Renewed \subseteq Services
  /\ Threshold \in Nat \ {0} /\ {Cooldown, CallLimit, MaxRequests} \subseteq Nat
  /\ None \notin Nat

Config == SecretNames \cup Nat
ConnectorRow == [id: ConnectorIds, version: Nat, config: Config, enabled: BOOLEAN,
                 state: {"CLOSED", "OPEN", "HALF_OPEN"}, failures: Nat, opened: Time \cup {None}]

\* kind: an execution of the connector, a probe (health pass, test route), or a
\* creation or update that validates what it will save. row is the copy, config
\* the resolved configuration, secret the row fetched from the vault, at the time
\* the call was admitted.
Caller == [pc: {"idle", "fetch", "policy", "take", "admit", "send", "success", "failure", "store"},
           kind: {"call", "probe", "edit"}, row: ConnectorRow \cup {None}, config: Config \cup {None},
           secret: SecretRow \cup {None}, at: Time]
Idle == [pc |-> "idle", kind |-> "call", row |-> None, config |-> None, secret |-> None, at |-> 0]

VARIABLES
  connectors,   \* the rows of table connectors
  call,         \* what each caller does
  calls,        \* RateLimiter: how many of the last calls of each connector were when
  budget,
  taken,        \* history: the value each caller took last, and when
  failed,       \* history: failures per connector since a success left its only copy
  written,      \* history: <<id, version, config>> saved by creations and updates
  gone,         \* history: connectors ever deleted
  late          \* history: callers that held a copy of a connector when it was deleted

vars == <<vaultVars, connectors, call, calls, budget, taken, failed, written, gone, late>>

SameKey(r, s) == r.id = s.id /\ r.version = s.version

TypeOK ==
  /\ VaultOK
  /\ connectors \subseteq ConnectorRow
  /\ \A r, s \in connectors : SameKey(r, s) => r = s
  /\ \A r \in connectors : r.state = "OPEN" => r.opened \in Time
  /\ call \in [Callers -> Caller]
  /\ \A c \in Callers :
       /\ call[c].pc # "idle" => call[c].row \in ConnectorRow
       /\ call[c].pc \in {"policy", "take"} => call[c].secret \in SecretRow
       /\ call[c].pc \in {"admit", "send", "success", "failure"} => call[c].config \in Nat
  /\ calls \in [ConnectorIds -> [Time -> Nat]]
  /\ budget \in 0..MaxRequests

Init ==
  /\ VaultInit
  /\ connectors = {}
  /\ call = [c \in Callers |-> Idle]
  /\ calls = [i \in ConnectorIds |-> NoTimes]
  /\ budget = MaxRequests
  /\ taken = [c \in Callers |-> None]
  /\ failed = [i \in ConnectorIds |-> 0]
  /\ written = {}
  /\ gone = {}
  /\ late = {}

-----------------------------------------------------------------------------
(* The repository.                                                         *)

VersionsOf(i) == {r \in connectors : r.id = i}

\* get_connector without a version.
LatestRow(i) == {r \in VersionsOf(i) : \A s \in VersionsOf(i) : s.version <= r.version}

\* list_connectors groups by connector_id without an aggregate: which version of
\* a connector it returns is up to SQLite.
ListedRows == connectors

\* As if a save inserted its copy beside the stored row.
InsertConnector(row) == connectors' = connectors \cup {row}

\* save_connector: an upsert of all columns.
SaveConnector(row) == connectors' = {r \in connectors : ~SameKey(r, row)} \cup {row}

-----------------------------------------------------------------------------
(* Callers.                                                                *)

At(c, l) == call[c].pc = l
Become(c, req) == call' = [call EXCEPT ![c] = req]
Goto(c, l) == Become(c, [call[c] EXCEPT !.pc = l])
Answer(c) == Become(c, Idle) /\ late' = late \ {c}
Spend == budget > 0 /\ budget' = budget - 1

secretRows == <<secrets, admin, permitted, now, retired>>
memory == <<cache, verdicts, resolutions>>
history == <<taken, failed, written, gone>>

\* ConnectorService and its VaultService, new for every request of a route.
StartWith(c) == IF ServiceOf[c] \in Renewed THEN Renew(ServiceOf[c]) ELSE UNCHANGED memory

\* Where _get_connector_instance goes on once the configuration is resolved.
Ready(kind) == IF kind = "call" THEN "admit" ELSE "store"

\* _get_connector_instance: a configuration without a reference needs no vault.
Instantiate(c, kind, row) ==
  Become(c, [Idle EXCEPT !.kind = kind, !.row = row, !.config = row.config,
                         !.pc = IF row.config \in SecretNames THEN "fetch" ELSE Ready(kind)])

\* test_connector of the service: validation and the save of what it found.
Probe(c, row) == Instantiate(c, "probe", row)

\* The notifier takes an enabled connector from the list.
Dispatch(c) ==
  /\ At(c, "idle") /\ Spend /\ StartWith(c)
  /\ \E r \in ListedRows : r.enabled /\ Instantiate(c, "call", r)
  /\ UNCHANGED <<secretRows, connectors, calls, history, late>>

\* ConnectorHealthScheduler.run_once, one connector of its list.
CheckHealth(c) ==
  /\ At(c, "idle") /\ Spend /\ StartWith(c)
  /\ \E r \in ListedRows : r.enabled /\ Probe(c, r)
  /\ UNCHANGED <<secretRows, connectors, calls, history, late>>

\* The route that tests a connector, enabled or not.
TestConnector(c) ==
  /\ At(c, "idle") /\ Spend /\ StartWith(c)
  /\ \E i \in ConnectorIds : \E r \in LatestRow(i) : Probe(c, r)
  /\ UNCHANGED <<secretRows, connectors, calls, history, late>>

NewConnector(i, n) ==
  [id |-> i, version |-> 1, config |-> n, enabled |-> TRUE, state |-> "CLOSED",
   failures |-> 0, opened |-> None]

\* create_connector: whether the validation succeeds or not, the row is saved.
CreateConnector(c) ==
  /\ At(c, "idle") /\ Spend /\ StartWith(c)
  /\ \E i \in ConnectorIds, n \in SecretNames :
       /\ \A w \in written : w[1] # i
       /\ Instantiate(c, "edit", NewConnector(i, n))
       /\ written' = written \cup {<<i, 1, n>>}
  /\ UNCHANGED <<secretRows, connectors, calls, taken, failed, gone, late>>

\* update_connector: the next version, with the circuit of the one it was read from.
UpdatedRow(r, config, enabled) ==
  [r EXCEPT !.version = @ + 1, !.config = config, !.enabled = enabled]

\* Without a new configuration, and unless it enables the connector, nothing is
\* validated.
UpdateConnector(c) ==
  /\ At(c, "idle") /\ Spend /\ StartWith(c)
  /\ \E i \in ConnectorIds, enabled \in BOOLEAN : \E r \in LatestRow(i) :
       \E config \in SecretNames \cup {r.config} :
       LET row == UpdatedRow(r, config, enabled) IN
       /\ \/ Instantiate(c, "edit", row)
          \/ /\ config = r.config /\ (enabled => r.enabled)
             /\ Become(c, [Idle EXCEPT !.kind = "edit", !.row = row, !.config = config, !.pc = "store"])
       /\ written' = written \cup {<<row.id, row.version, row.config>>}
  /\ UNCHANGED <<secretRows, connectors, calls, taken, failed, gone, late>>

\* As if only the latest version were deleted.
DeleteLatest(i) == connectors' = connectors \ LatestRow(i)

\* delete_connector of the repository, one statement for all versions.
DeleteRows(i) == connectors' = connectors \ VersionsOf(i)

DeleteConnector(c) ==
  /\ At(c, "idle") /\ Spend
  /\ \E i \in {r.id : r \in connectors} :
       /\ DeleteRows(i)
       /\ gone' = gone \cup {i}
       /\ late' = late \cup {d \in Callers : ~At(d, "idle") /\ call[d].row.id = i}
  /\ UNCHANGED <<vaultVars, call, calls, taken, failed, written>>

-----------------------------------------------------------------------------
(* _resolve_config_secrets.                                                *)

\* The secret cannot be resolved: a call ends, the others save what they hold.
ResolutionFails(c) ==
  IF call[c].kind = "call" THEN Answer(c) ELSE Goto(c, "store") /\ UNCHANGED late

FetchSecret(c) ==
  /\ At(c, "fetch")
  /\ LET s == ServiceOf[c]
         rows == {r \in CurrentSecret(call[c].config) : r.enabled}
     IN  IF ~MayResolve(s) THEN ResolutionFails(c) /\ UNCHANGED resolutions
         ELSE /\ CountResolution(s)
              /\ IF rows = {} THEN ResolutionFails(c)
                 ELSE /\ \E r \in rows : Become(c, [call[c] EXCEPT !.pc = "policy", !.secret = r])
                      /\ UNCHANGED late
  /\ UNCHANGED <<secretRows, cache, verdicts, connectors, calls, budget, history>>

AskPolicy(c) ==
  /\ At(c, "policy")
  /\ LET s == ServiceOf[c]
         n == call[c].secret.name
     IN  /\ RememberVerdict(s, n)
         /\ IF PolicyAllows(s, n) THEN Goto(c, "take") /\ UNCHANGED late ELSE ResolutionFails(c)
  /\ UNCHANGED <<secretRows, cache, resolutions, connectors, calls, budget, history>>

TakeSecret(c) ==
  /\ At(c, "take")
  /\ LET s == ServiceOf[c]
         r == call[c].secret
         v == ResolvedValue(s, r)
     IN  /\ RememberValue(s, r)
         /\ Become(c, [call[c] EXCEPT !.pc = Ready(call[c].kind), !.config = v, !.secret = None])
         /\ taken' = [taken EXCEPT ![c] = [value |-> v, at |-> now]]
  /\ UNCHANGED <<secretRows, verdicts, resolutions, connectors, calls, budget, failed, written, gone, late>>

-----------------------------------------------------------------------------
(* BaseConnector.execute. Its record is the copy with the resolved         *)
(* configuration, and every save stores that.                              *)

\* As if the result of a call were saved as a new version.
ResolvedNext(c) == [call[c].row EXCEPT !.config = call[c].config, !.version = @ + 1]

Resolved(c) == [call[c].row EXCEPT !.config = call[c].config]

\* check_limit; a limit of 0 is none.
WithinLimit(i) == CallLimit = 0 \/ Total(Recent(calls[i], Window)) < CallLimit
CountCall(i) ==
  calls' = IF CallLimit = 0 THEN calls ELSE [calls EXCEPT ![i] = Count(@, Window)]

CooledDown(row) == row.opened = None \/ row.opened + Cooldown <= now

\* _evaluate_circuit_breaker lets the call pass: a closed or half-open circuit as
\* it is, an open one that has cooled down as half-open, which is saved.
AdmitCall(c) ==
  LET row == call[c].row IN
  /\ At(c, "admit") /\ WithinLimit(row.id) /\ CountCall(row.id)
  /\ \/ /\ row.state # "OPEN"
        /\ Become(c, [call[c] EXCEPT !.pc = "send", !.at = now])
        /\ UNCHANGED connectors
     \/ /\ row.state = "OPEN" /\ CooledDown(row)
        /\ LET probe == [Resolved(c) EXCEPT !.state = "HALF_OPEN", !.opened = None]
           IN  /\ SaveConnector(probe)
               /\ Become(c, [call[c] EXCEPT !.pc = "send", !.at = now, !.row = probe])
  /\ UNCHANGED <<vaultVars, budget, history, late>>

RefuseCall(c) ==
  LET row == call[c].row IN
  /\ At(c, "admit")
  /\ \/ ~WithinLimit(row.id) /\ UNCHANGED calls
     \/ WithinLimit(row.id) /\ CountCall(row.id) /\ row.state = "OPEN" /\ ~CooledDown(row)
  /\ Answer(c)
  /\ UNCHANGED <<vaultVars, connectors, budget, history>>

Failing(i) == failed' = [failed EXCEPT ![i] = @ + 1]

\* The connector's _execute; the target answers or fails.
Send(c) ==
  /\ At(c, "send")
  /\ \/ Goto(c, "success") /\ UNCHANGED failed
     \/ Goto(c, "failure") /\ Failing(call[c].row.id)
  /\ UNCHANGED <<vaultVars, connectors, calls, budget, taken, written, gone, late>>

\* As if a success closed the circuit and left the count as it was.
RecoveredCounting(row) ==
  [row EXCEPT !.state = IF @ = "HALF_OPEN" THEN "CLOSED" ELSE @]

Recovered(row) ==
  [row EXCEPT !.failures = 0, !.state = IF @ = "HALF_OPEN" THEN "CLOSED" ELSE @]

\* The copy of caller c is the only one of connector i: no other version is
\* stored and no other caller is about to save an older copy.
OnlyCopy(c, i) ==
  /\ \A r \in VersionsOf(i) : SameKey(r, call[c].row)
  /\ \A d \in Callers \ {c} : ~At(d, "idle") => call[d].row.id # i

HandleSuccess(c) ==
  LET i == call[c].row.id IN
  /\ At(c, "success")
  /\ SaveConnector(Recovered(Resolved(c)))
  /\ failed' = IF OnlyCopy(c, i) THEN [failed EXCEPT ![i] = 0] ELSE failed
  /\ Answer(c)
  /\ UNCHANGED <<vaultVars, calls, budget, taken, written, gone>>

\* The save raises inside the try block: the success is handled as a failure.
SuccessUnsaved(c) ==
  /\ At(c, "success")
  /\ Become(c, [call[c] EXCEPT !.pc = "failure", !.row = Recovered(@)])
  /\ Failing(call[c].row.id)
  /\ UNCHANGED <<vaultVars, connectors, calls, budget, taken, written, gone, late>>

\* The circuit opens at the threshold, or at once when it was half-open; the time
\* is that of the admission.
Broken(row, at) ==
  LET opens == row.state = "HALF_OPEN" \/ row.failures + 1 >= Threshold
  IN  [row EXCEPT !.failures = @ + 1, !.state = IF opens THEN "OPEN" ELSE @,
                  !.opened = IF opens THEN at ELSE @]

HandleFailure(c) ==
  /\ At(c, "failure")
  /\ SaveConnector(Broken(Resolved(c), call[c].at))
  /\ Answer(c)
  /\ UNCHANGED <<vaultVars, calls, budget, history>>

\* Probes, creations and updates save the copy with its references.
Store(c) ==
  /\ At(c, "store")
  /\ SaveConnector(call[c].row)
  /\ Answer(c)
  /\ UNCHANGED <<vaultVars, calls, budget, history>>

\* A save raises, or the thread dies with its process; the rate limiter may have
\* counted a call that goes no further.
CallerFails(c) ==
  LET i == call[c].row.id IN
  /\ ~At(c, "idle")
  /\ UNCHANGED calls \/ (At(c, "admit") /\ WithinLimit(i) /\ CountCall(i))
  /\ Answer(c)
  /\ UNCHANGED <<vaultVars, connectors, budget, history>>

-----------------------------------------------------------------------------

\* Timing assumption: a resolution takes less than a unit of time.
Tick ==
  /\ now < MaxTime
  /\ \A c \in Callers : call[c].pc \notin {"policy", "take"}
  /\ now' = now + 1
  /\ UNCHANGED <<secrets, admin, cache, verdicts, resolutions, permitted, retired>>
  /\ UNCHANGED <<connectors, call, calls, budget, history, late>>

CallerStep(c) ==
  \/ Dispatch(c) \/ CheckHealth(c) \/ TestConnector(c)
  \/ CreateConnector(c) \/ UpdateConnector(c) \/ DeleteConnector(c)
  \/ FetchSecret(c) \/ AskPolicy(c) \/ TakeSecret(c)
  \/ AdmitCall(c) \/ RefuseCall(c) \/ Send(c) \/ HandleSuccess(c) \/ SuccessUnsaved(c)
  \/ HandleFailure(c) \/ Store(c) \/ CallerFails(c)

AdminStep ==
  /\ \/ ChangePolicy /\ Spend
     \/ \E a \in Admins :
          \/ (CreateSecret(a) \/ RotateSecret(a) \/ DisableSecret(a)) /\ Spend
          \/ FinishSecret(a) /\ UNCHANGED budget
  /\ UNCHANGED <<connectors, call, calls, taken, failed, written, gone, late>>

Next == Tick \/ AdminStep \/ \E c \in Callers : CallerStep(c)

Spec == Init /\ [][Next]_vars

-----------------------------------------------------------------------------
(* Properties.                                                             *)

\* The rows of the table and the copies callers are going to save.
Copies == {call[c].row : c \in {d \in Callers : ~At(d, "idle")}}

\* However copies are read, saved over each other and carried into new versions, a
\* circuit counts no failure its connector did not have, and none that a success
\* has wiped out, once that success was saved over the only copy there was; it is
\* open or half-open only after Threshold failures counted in this way.  (That
\* they are consecutive, as "five-consecutive-failure", walkthrough.md:54, has it,
\* is true of calls nobody overlaps: a copy read before another caller's success
\* and saved after it brings the old count back.)
BreakerOpensOnFailures ==
  \A r \in connectors \cup Copies :
    r.failures <= failed[r.id] /\ (r.state # "CLOSED" => failed[r.id] >= Threshold)

\* A rotation invalidates no cache of a service that resolves secrets, but no
\* service hands out a replaced value longer than an entry lives.
StaleSecretsExpire ==
  \A c \in Callers, p \in retired :
    taken[c] # None /\ taken[c].value = p[1] => taken[c].at <= p[2] + TTL

\* The configuration of a version is one that a creation or an update wrote under
\* that version, or the value of the secret such a configuration refers to: never
\* that of another connector, version or secret.
ConfigurationsAreTraceable ==
  \A r \in connectors : \E w \in written :
    /\ w[1] = r.id /\ w[2] = r.version
    /\ \/ w[3] = r.config
       \/ \E s \in secrets : s.id = r.config /\ s.name = w[3]

\* A deleted connector has no version left, and comes back only by the save of a
\* caller that held a copy of it when it was deleted.
DeletionIsUndoneOnlyByRaces ==
  [][\A i \in gone' :
       VersionsOf(i)' # {} =>
         \/ i \in gone /\ VersionsOf(i) # {}
         \/ \E c \in late : call[c].row.id = i /\ call'[c] # call[c] ]_vars
=============================================================================
