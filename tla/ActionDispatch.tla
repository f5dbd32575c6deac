--------------------------- MODULE ActionDispatch ---------------------------
(***************************************************************************)
(* Dispatch of action nodes (app/actions/engine.py): e-mails, webhooks,    *)
(* tickets.  An execution that is retried, resumed or run again after a    *)
(* crash visits the same action node again; the engine looks for a         *)
(* successful action_executions row with the idempotency key               *)
(* "execution:node" before it calls the connector.  Check, call and record *)
(* are three separate steps, and the call acts on another system.          *)
(***************************************************************************)
EXTENDS Naturals, FiniteSets

CONSTANTS
  Keys,        \* idempotency keys, one per execution and action node
  Threads,     \* threads that run executions: workers and callback requests
  SerialKeys,  \* keys of executions that one thread at a time runs (JobRuntime:
               \* HeldJobIsLocked); the others are run by racing resumes too
  MaxVisits,   \* bound: visits of action nodes
  MaxCrashes,  \* bound: thread deaths
  None

ASSUME DispatchAssumptions ==
  /\ IsFiniteSet(Threads)
  /\ SerialKeys \subseteq Keys
  /\ MaxVisits \in Nat
  /\ MaxCrashes \in Nat
  /\ None \notin Keys

VARIABLES
  saved,       \* action_executions rows with success = 1, per key
  failures,    \* action_executions rows with success = 0, per key
  effects,     \* how often the other system acted, per key
  unrecorded,  \* history: effects no successful row will ever tell of, per key
  pc, key, outcome,  \* a thread in ActionExecutionEngine.execute
  budget       \* what is left of MaxVisits and MaxCrashes

rowsOf == <<saved, failures>>
outside == <<effects, unrecorded>>
vars == <<saved, failures, effects, unrecorded, pc, key, outcome, budget>>

Locations == {"idle", "check", "call", "save", "audit", "except", "done"}
Outcomes == {None, "success", "failure", "raised"}

TypeOK ==
  /\ saved \in [Keys -> Nat] /\ failures \in [Keys -> Nat]
  /\ effects \in [Keys -> Nat] /\ unrecorded \in [Keys -> Nat]
  /\ pc \in [Threads -> Locations]
  /\ key \in [Threads -> Keys \cup {None}]
  /\ outcome \in [Threads -> Outcomes]
  /\ \A t \in Threads : pc[t] # "idle" => key[t] \in Keys
  /\ \A t \in Threads : pc[t] \in {"save", "audit"} => outcome[t] \in {"success", "failure"}
  /\ budget \in [visits: Nat, crashes: Nat]

Init ==
  /\ saved = [k \in Keys |-> 0] /\ failures = [k \in Keys |-> 0]
  /\ effects = [k \in Keys |-> 0] /\ unrecorded = [k \in Keys |-> 0]
  /\ pc = [t \in Threads |-> "idle"]
  /\ key = [t \in Threads |-> None]
  /\ outcome = [t \in Threads |-> None]
  /\ budget = [visits |-> MaxVisits, crashes |-> MaxCrashes]

\* Threads inside execute for key k; and those whose call succeeded and whose
\* row is not written yet.
Inside(k) == {t \in Threads : pc[t] # "idle" /\ key[t] = k}
Pending(k) == {t \in Threads : pc[t] = "save" /\ key[t] = k /\ outcome[t] = "success"}

Bump(f, k) == [f EXCEPT ![k] = @ + 1]

\* Thread t goes to l with outcome o.
Moves(t, l, o) ==
  /\ pc' = [pc EXCEPT ![t] = l]
  /\ outcome' = [outcome EXCEPT ![t] = o]

\* The engine reaches an action node; its connector is registered or is not.
Visit(t, k) ==
  /\ pc[t] = "idle"
  /\ k \in SerialKeys => Inside(k) = {}
  /\ budget.visits > 0
  /\ budget' = [budget EXCEPT !.visits = @ - 1]
  /\ key' = [key EXCEPT ![t] = k]
  /\ Moves(t, "check", None) \/ Moves(t, "done", "raised")
  /\ UNCHANGED <<rowsOf, outside>>

\* As if the look-up did not ask for success = 1.
ReuseAnyRow(t) ==
  /\ pc[t] = "check"
  /\ saved[key[t]] + failures[key[t]] > 0
  /\ Moves(t, "done", "success")
  /\ UNCHANGED <<rowsOf, outside, key, budget>>

\* get_successful_action_execution found a row: its result is returned.
ReuseResult(t) ==
  /\ pc[t] = "check"
  /\ saved[key[t]] > 0
  /\ Moves(t, "done", "success")
  /\ UNCHANGED <<rowsOf, outside, key, budget>>

\* As if the idempotency key were not looked up.
PrepareAlways(t) ==
  /\ pc[t] = "check"
  /\ Moves(t, "call", None)
  /\ UNCHANGED <<rowsOf, outside, key, budget>>

\* No such row: the payload is prepared.
Prepare(t) ==
  /\ pc[t] = "check"
  /\ saved[key[t]] = 0
  /\ Moves(t, "call", None)
  /\ UNCHANGED <<rowsOf, outside, key, budget>>

\* _resolve_secrets_recursive raises before the try block: nothing is recorded.
SecretMissing(t) ==
  /\ pc[t] = "call"
  /\ Moves(t, "done", "raised")
  /\ UNCHANGED <<rowsOf, outside, key, budget>>

\* connector.execute: the other system acts and the connector knows.
CallSucceeds(t) ==
  /\ pc[t] = "call"
  /\ effects' = Bump(effects, key[t])
  /\ Moves(t, "save", "success")
  /\ UNCHANGED <<rowsOf, unrecorded, key, budget>>

\* connector.execute reports a failure or raises; the other system may have
\* acted all the same (a timeout after the request was accepted).
CallFails(t) ==
  /\ pc[t] = "call"
  /\ Moves(t, "save", "failure") \/ Moves(t, "except", None)
  /\ \/ UNCHANGED outside
     \/ effects' = Bump(effects, key[t]) /\ unrecorded' = Bump(unrecorded, key[t])
  /\ UNCHANGED <<rowsOf, key, budget>>

\* As if every run were recorded as a failure.
SaveRunFailed(t) ==
  /\ pc[t] = "save"
  /\ failures' = Bump(failures, key[t])
  /\ Moves(t, "audit", outcome[t])
  /\ UNCHANGED <<saved, outside, key, budget>>

\* save_action_execution.
SaveRun(t) ==
  /\ pc[t] = "save"
  /\ \/ outcome[t] = "success" /\ saved' = Bump(saved, key[t]) /\ UNCHANGED failures
     \/ outcome[t] = "failure" /\ failures' = Bump(failures, key[t]) /\ UNCHANGED saved
  /\ Moves(t, "audit", outcome[t])
  /\ UNCHANGED <<outside, key, budget>>

\* The row of a success is lost.
Loses(t) ==
  unrecorded' = IF t \in Pending(key[t]) THEN Bump(unrecorded, key[t]) ELSE unrecorded

\* save_action_execution raises, and the except branch takes over.
SaveRunRaises(t) ==
  /\ pc[t] = "save"
  /\ Loses(t)
  /\ Moves(t, "except", None)
  /\ UNCHANGED <<rowsOf, effects, key, budget>>

AuditRun(t) ==
  /\ pc[t] = "audit"
  /\ Moves(t, "done", outcome[t])
  /\ UNCHANGED <<rowsOf, outside, key, budget>>

\* As if the run were recorded again when the audit log raises.
SaveAgain(t) ==
  /\ pc[t] = "audit"
  /\ Moves(t, "save", None)
  /\ UNCHANGED <<rowsOf, outside, key, budget>>

\* The audit log raises after the row was saved: the except branch adds a
\* failure row to it.
AuditRaises(t) ==
  /\ pc[t] = "audit"
  /\ Moves(t, "except", None)
  /\ UNCHANGED <<rowsOf, outside, key, budget>>

\* The except branch: a failure row (if it can be written), and raise.
RecordFailure(t) ==
  /\ pc[t] = "except"
  /\ failures' \in {failures, Bump(failures, key[t])}
  /\ Moves(t, "done", "raised")
  /\ UNCHANGED <<saved, outside, key, budget>>

\* The execution engine takes the result or the exception and goes on.
Return(t) ==
  /\ pc[t] = "done"
  /\ Moves(t, "idle", None)
  /\ key' = [key EXCEPT ![t] = None]
  /\ UNCHANGED <<rowsOf, outside, budget>>

\* The process dies anywhere in between.
ThreadDies(t) ==
  /\ pc[t] # "idle"
  /\ budget.crashes > 0
  /\ budget' = [budget EXCEPT !.crashes = @ - 1]
  /\ Loses(t)
  /\ Moves(t, "idle", None)
  /\ key' = [key EXCEPT ![t] = None]
  /\ UNCHANGED <<rowsOf, effects>>

Step(t) ==
  \/ \E k \in Keys : Visit(t, k)
  \/ ReuseResult(t) \/ Prepare(t) \/ SecretMissing(t) \/ CallSucceeds(t) \/ CallFails(t)
  \/ SaveRun(t) \/ SaveRunRaises(t) \/ AuditRun(t) \/ AuditRaises(t) \/ RecordFailure(t)
  \/ Return(t) \/ ThreadDies(t)

Next == \E t \in Threads : Step(t)

Spec == Init /\ [][Next]_vars

-----------------------------------------------------------------------------
\* The books balance: every side effect is recorded, about to be recorded, or
\* was lost by a crash, a failed write or a connector that could not tell.
EffectsAccounted ==
  \A k \in Keys : effects[k] = saved[k] + unrecorded[k] + Cardinality(Pending(k))

\* One thread per execution: retries, resumes and failing audit logs never
\* repeat an action, except for effects whose record was lost.
ActionRunsOnce == \A k \in SerialKeys : effects[k] <= 1 + unrecorded[k]

\* Racing threads (two resumes of one execution) repeat an action at most once
\* per thread: whoever checks after the first record reuses it.
RepeatsAreBounded ==
  \A k \in Keys : effects[k] <= Cardinality(Threads) + unrecorded[k]

\* Whatever the connector, the log and the database do, a success that is
\* reported to the execution engine has happened.
ReportedSuccessHappened ==
  \A t \in Threads : pc[t] = "done" /\ outcome[t] = "success" => effects[key[t]] > 0

\* Once a success is recorded, one thread per execution never acts again.
RecordedActionIsNotRepeated ==
  [][\A k \in SerialKeys : saved[k] > 0 => effects'[k] = effects[k]]_vars
=============================================================================
