# A TLA+ model of RunbookMind

RunbookMind (this repository, `src/app`) compiles security runbooks into
execution graphs and runs them: request threads compile runbooks with the help
of language models, store them as versions of a bundle and promote them to
environments; an HTTP API enqueues executions, background workers drain the
queue, an engine walks the graph, pauses at gated nodes for a human decision and
performs side effects through connectors; a cron scheduler starts executions on
its own. Everything is persisted in SQLite. The modules here model the part of
it in which threads, processes, requests and crashes meet, model-check it on
small instances with TLC, and prove its invariants for all instances with TLAPS.

## 1. The system

Paths are relative to `src/app`.

| Component | Code | State it keeps | Operations | Hard behaviour |
|---|---|---|---|---|
| Job queue | `jobs/queue.py`, `jobs/models.py` | `jobs` table | enqueue, dequeue, cancel, update_job | two workers selecting one row; blind overwrite by `update_job` |
| Worker | `jobs/worker.py`, `jobs/retry.py` | its copy of the job row | recovery at start, poll, process, retry with backoff, suspend | crash while RUNNING; recovery transaction and audit connection; stale copies |
| Execution engine | `runtime/engine.py`, `runtime/governance.py` | `executions`, `node_executions`, `approvals` | execute, resume, cancel, traversal loop | own copy of the execution saved at every node; gates; depth limit across resumes |
| Routes | `web/routes.py` | none | all requests | several commits per request, nothing atomic across them |
| Cron scheduler | `jobs/scheduler.py` | `schedules` table | create, delete, evaluation pass | one transaction for a whole pass, nested connections, misfires, horizon of one year |
| Action engine | `actions/*.py` | `action_executions` | execute with idempotency key | check, call and record are three steps; the call acts elsewhere |
| Approval service, callbacks | `collaboration/*.py` | `approval_requests`, `approval_callbacks`, `approval_reminders` | create, decide, escalate, expire, remind, callbacks with nonces | read-then-save without a version; escalation pass over stale copies |
| Governance policies | `governance/*.py` | versions of policies | create, update, roll back, delete, evaluate | force is taken by name, rows are read by id; edits race |
| Deployment | `deployment/service.py` | deployments, snapshots, approvals | promote, roll back | four transactions per promotion |
| Bundle store | `storage/bundle_store.py`, `storage/*_store.py` | versions of bundles, compilations, traces | save, get, list, delete | version = latest + 1 from an earlier read, `INSERT OR REPLACE` |
| Secret vault | `vault/*.py` | secret versions; two caches and a rate limiter per object | create, rotate, disable, resolve | an invalidation reaches one object only |
| Connector framework | `connectors/base.py`, `service.py`, `health.py` | connector rows, rate limiter | create, update, delete, test, health pass, call | every caller saves all columns of the copy it read |
| Compiler, planner, validator | `compiler/`, `planner/`, `agent/compiler.py`, `validation/`, `schema/`, `service/` | schema cache | compile a runbook, plan a graph | stages that ask again what was already answered; repeated step ids |
| SPL generation | `splunk/adapters/` | a cache and a rate limiter per provider | generate, with fallback and guardrail | caches shared by request threads without a lock, filled before an answer is judged |
| Parsers, generation, agents, query runner | `parser`, `generation`, `agent`, `grounding`, `runtime/runner.py` | none | pure functions and calls of external services | - |
| Auth, compliance, audit, metrics, UI | `auth`, `compliance`, `audit`, `observability`, `ui` | simple rows | single statements | the audit repository opens its own connection |

How they interact: a compile request asks the providers for every step, plans the
graph and stores the result as the next version of a bundle; a promotion asks the
policies, and writes approval, snapshot, deployment and a further version. A
route commits an execution and enqueues a job; a worker takes the job, calls the
engine, and settles the job with what the engine returned; the engine writes
executions, node runs and approvals, calls the action engine for action nodes and
the approval service at gates; a resume request rewrites the job row so that a
worker calls `engine.resume`, a token callback calls `engine.resume` in the
request's own thread; the cron pass inserts executions and enqueues jobs. The
notifier, the health pass and the connector routes call connectors, which resolve
their secrets through a vault service. All of them share one SQLite file. Python
locks protect single repository objects; across two calls, and across processes,
only SQLite's write lock orders anything. In the production wiring
(`web/dependencies.py`) the audit repository writes to the same file as the queue
and the scheduler.

What makes each component correct:

* queue and worker: a job a worker holds is its own; the status of a job
  follows its life cycle; attempts are bounded; every job settles;
* engine: a saved decision opens the gate it was saved for, and no more gates are
  passed than administrators approved; nothing runs after a rejection; a suspended
  job can be resumed; the depth limit counts across resumes; a COMPLETED job has a
  COMPLETED execution;
* scheduler: a fire starts at most one execution (a bounded number when several
  server processes race), is dropped only when it is too late, and is eventually
  handled;
* action engine: a side effect is performed once, except where its record was
  lost, and a reported success has happened;
* approval service: a nonce decides once; a request is decided again only by
  threads that raced or after a reopening; levels are asked in their time;
  status and decision of a request agree;
* policies: one version of a policy is in force;
* releases: a deployment is backed by what was approved and stored, a promoted
  version by a deployment; a version is overwritten only by a race;
* vault and connectors: a vault service hands out a replaced secret no longer than
  a cache entry lives (a value that a call has stored in the connector row is
  outside this); a circuit opens only on failures its connector had, none of them
  wiped out by a success that was saved over the only copy; configurations are
  somebody's; deletions hold;
* compilation: a reported query fits the schema that was known, whichever cache
  or provider it came from; a plan leads past no step.

## 2. The modules

| Module | Models | Composition |
|---|---|---|
| `JobLifecycle` | the abstract promise about one job: status and attempts | implemented by `JobRuntime` (`ImplementsLifecycle`) |
| `JobRuntime` | queue, workers, engine, the routes for executions and jobs, token callback | `INSTANCE JobLifecycle WITH` the jobs table |
| `CronScheduler` | scheduler passes of several processes, routes for schedules | stand-alone |
| `ActionDispatch` | the action engine under retries, resumes and crashes | its `SerialKeys` rests on `ExecutionsRunAlone` of `JobRuntime` |
| `Approvals` | approval requests, token callbacks in request threads, the expiry, escalation and reminder pass | stand-alone; `JobRuntime` has the pending requests of an execution only |
| `Policies` | versions of deployment policies, which are in force, what they decide | extended by `Releases` |
| `Releases` | compile, promotion, rollback and deletion requests on bundles, deployments and snapshots | extends `Policies`: the editors of policies interleave with promotions |
| `SecretVault` | versions of secrets, caches and rate limits of vault services | extended by `Connectors` |
| `Connectors` | connector rows, callers with their copies, circuit breaker, rate limiter | extends `SecretVault`: calls resolve secrets while administrators rotate them |
| `Planner` | graph generation and validation, as operators on a runbook | extended by `SplProvider` |
| `SplProvider` | provider chain, caches, rate limiters, guardrail | extended by `Compilation` |
| `Compilation` | request threads that compile runbooks | composes `SplProvider` and `Planner` |
| `...Proofs` | the theorems about a module | extend it |
| `MC...` | instances for TLC | extend the modules |

**Granularity.** Every repository or queue method commits one SQLite statement
or one transaction under a lock and is one atomic step. Between two of them any
other thread may run. What a thread read earlier stays in its local variables
(`job`, `loc`, `pass`, `handler`, `request`, `call`), and what it writes is that
copy, as in the code. The exceptions: the cron pass is one long transaction, whose
rows are separate steps and whose changes appear at `CommitPass`; a look-up in a
provider's cache is several steps, since that dictionary has no lock.

**JobRuntime.** `jobs`, `execs`, `approvals`, `requests`, `rows` are the tables;
`pc`, `job`, `loc` the threads. A worker goes idle -> (clear) -> begin or lookup
-> scan -> step -> gate -> run -> ... -> settle -> idle. A request handler uses
the same engine locations when a callback resumes an execution in its thread.
`NodeFails`, `FollowEdge`, `NoRoute` and `DenyByPolicy` leave open what a query,
an action, a condition or a policy says. Job and execution ids are the numbers
`Execs` in creation order, which is also the queue's order, since the routes give
every job priority 100. `due` stands for `run_at <= now`. `cursor` in the locals
of a thread is `current_node_id` of its copy of the execution, which is behind the
node it visits until `SaveCursor`. Four history variables count: `runs` the runs of
each node, `grants` the APPROVED decisions the engine saved into approvals of each
node, `sent` the APPROVED decisions administrators sent, and `passed` the gates that
were passed, both per execution. `sent` is counted where the request arrives
(`ReadJobForResume`, `ReceiveCallback`); it cannot be kept per node, since a resume
request names no node. `BeginExecution` replaces the stored row by a fresh record
and `ClearHistory` deletes node runs and approvals of a retried job, as
`_process_job` does.

**CronScheduler.** Time is counted in minutes, a cron expression is the set of
minutes it matches. `writer` is the process whose transaction holds the write
lock. `Enqueue` writes on a second connection and so succeeds only while nobody,
the pass itself included, holds that lock. `MissFire` raises after the write if
the audit log shares the file. `RollbackPass` undoes a pass, `LockTimeout` is the
busy timeout of SQLite.

**ActionDispatch.** One thread in `ActionExecutionEngine.execute` per visit of an action
node: check -> call -> save -> audit -> done, or except -> done. `effects` counts
what the other system did, `unrecorded` what no row will ever tell of: a crash
between call and save, a failing save, or a connector that reports a failure
although the other system acted.

**Approvals.** A request thread in `handle_token_callback` goes nonce -> token ->
burn -> read -> write, one repository call per step; `decide_approval` is the
last two. `save_approval_request` writes all the mutable columns of the copy its
caller holds, so `row` in `handler` and the pairs in `sweep` are those copies.
The pass lists the rows once (`BeginSweep`), looks at the clock for each
(`Inspect`), and writes (`Expire`, `Escalate`, `Remind`). The escalation policy is
the sequence of its timeouts; token and request expire together. `used`,
`decided` and `reopened` are history variables. That a decision is final does not
hold of this code and is not claimed: two callbacks that read the same PENDING
row both decide it, and the pass saves an old copy over a decision, which makes
the request PENDING again; `DecisionsAreBounded` says how far this goes. In the
repository only tests call the pass; the model runs it at any time, one at a
time, so that its properties also hold once it is scheduled.

**Policies and Releases.** A policy row is written by `SavePolicy`, which takes
force from all rows of the row's *name* and on a conflict of id and version
keeps the stored name, as the upsert does. `BeginEdit` reads, `EndEdit` writes,
so that updates and rollbacks of several administrators overlap. A definition is a
set of rules about environments, and `Evaluate` is `PolicyEngine.evaluate` on the
rules in force. In `Releases` a request thread holds the row it works on (`row`)
and what was stored when it chose a version number (`seen`, a history component).
A payload is the number of the compilation that built it, so that "the same
content" is equality of numbers. `RequestFails` may end a request between any two
repository calls.

**SecretVault and Connectors.** A secret's value is the id of its row. Routes that
rotate a secret build a `VaultService` of their own, whose cache is empty, so
`FinishSecret` changes nothing else; `Renewed` are the services that are built anew
for each request. `resolutions` and `calls` are the sliding windows, as counts per
instant. A connector's configuration is the name of the secret it refers to, or a
value. `execute` saves the *resolved* configuration with its copy, as the code does.
`Resolved`, `Broken` and `Recovered` are the copies a call saves. `failed` is a
history variable: the failures of a connector since a success was saved while no
other caller held a copy of it (`OnlyCopy`). HALF_OPEN lets every thread through,
and `AdmitCall` does not limit them. Timing assumption, stated at `Tick`: one
resolution of a secret takes less than a unit of time (the lifetime of an entry is
300 seconds).

**Planner, SplProvider, Compilation.** A runbook is a sequence of steps with ids
that may repeat, as parsers produce. `Links` is the graph `generate_graph` builds,
on positions; `Edges` the same on ids. `ValidGraph` is the repository's own
validation, `sound` in a plan is what `validate_runbook` says of the runbook. A call
of `generate_spl` walks the chain of configured providers; for each it looks into
the provider's cache (test, read, delete an expired entry), waits for the rate
limiter, asks, stores, and lets the guardrail judge, with one corrective attempt
under another cache key. What a model answers is abstract: for which source, and
whether it breaks a rule of the guardrail. A compile thread goes through schema,
generate, validate, optimize, validate, explain for each step.

## 3. Runs

| Run | Question | Bounds |
|---|---|---|
| `jobs_twoworkers` | does a worker hold exactly the row it took, and does a saved decision let its own node pass, once? | 2 workers, 2 jobs (one of them gated), 2 clients, 2 requests (cancellations of jobs, callbacks), 1 crash; production wiring |
| `jobs_wronggate` (violation) | does a decision that comes back with a token open the gate it was asked for? | 1 worker, 1 execution, 2 gated nodes, 2 requests (a resume, a callback) |
| `jobs_resume` | depth limit, resumability, approvals spent once, finality of a rejection, agreement of job and execution | 1 worker, 1 execution, a graph with a loop and a leaf, every node gated, depth limit 2, 3 resumes, 1 crash with a recovery that commits |
| `jobs_live` | does every job settle, along the abstract life cycle? | 2 jobs, 2 crashes, 2 attempts, 1 cancellation (of a job or an execution) |
| `cron_single` | is a run skipped only when it is too late? | 1 process, 2 schedules, one of them without a next run, 6 minutes, 1 crash |
| `cron_handled` | how many executions does a fire start, and is every due run eventually handled? | 2 processes, production wiring, no misfires, 1 crash |
| `cron_atomicfire` (violation) | are execution and job of a fire saved together? | 1 process |
| `actions_retries` | how often do side effects happen? | 3 threads, 2 keys (one served serially, one by racing threads), 4 visits, 1 crash |
| `approvals_races` | what do racing callbacks and the pass do to a request? | 1 request, 2 threads, 3 nonces, 3 levels (1, 2, 3), lifetime 2, reminders every unit, 4 instants |
| `releases_races` | what do racing compilations, promotions, rollbacks, deletions and policy edits leave behind? | 2 request threads, 2 editors, 1 bundle name, 2 environments, 2 policies of one name, 3 requests |
| `connectors_stale` | what do stale copies and stale caches do to circuits, configurations, secrets and deletions? | 1 connector, 1 secret with 3 rows, a long-lived caller and a request thread, 2 administrators, threshold 2, limits 2, 3 instants, 5 requests |
| `compile_caches` | which queries does a response report, and what graph? | 2 threads, 3 runbooks (one step; branch and merge; repeated ids), OpenRouter with Gemini behind it, entries that expire, 3 steps |

The bounds are the smallest at which every action fires and every race of a
hazard that PROJECT.json credits to a property happens: two workers or a worker and two request threads,
two nodes so that a gate is passed and another reached, two attempts so that a retry
and a final failure occur, three requests so that resumes meet each other and a job
that is already running, one crash at any point. One approval request is enough
because rows and callbacks of different requests share nothing but the nonces; three
nonces and two threads let a request be decided twice, reopened and decided again,
and three levels with a lifetime of two let a request escalate twice, remind and
expire. In `releases_races` two threads choose the same version number, a promotion
is interrupted after each of its writes, and two edits of policies of one name
overlap; `Definitions` holds an unconditional and a contradictory rule set. In
`connectors_stale` three rows of a secret let a value be replaced twice, a threshold
of two lets a lost failure matter, five requests let a creation, a rotation, two
calls and a deletion meet. In `compile_caches` the three runbooks share
descriptions, so that one thread's answers are found by another, and a lifetime of
zero with a clock of two instants makes entries expire inside a look-up. The largest
instance has 2.1 million distinct states (`connectors_stale`), the
others fewer. `CHECK_DEADLOCK FALSE` is set because clients send a bounded number of
requests and the system then rests; `approvals_races` checks for deadlock.

**Fairness.** `JobRuntime!FairSpec`: a running thread keeps running, the backoff
delay of a job elapses, and a dead worker is started again (its process is
supervised; without that nobody would ever look at the queue). Nothing obliges a
client to send a request. `CronScheduler!FairSpec`: scheduler threads keep
running, with a pass every interval as in `_loop`. The clock need not move. The
other modules state safety only: a request may fail anywhere, and nothing in the
code repeats it.

**Disagreements of code and comments.** The violation runs show two:

* `jobs_wronggate`: the approver is asked about a node ("*Approval Required*
  (Execution: ..., Node: ...)", `collaboration/approval_service.py:261`), but
  `token_callback` passes only the execution id on (`web/routes.py:1923`), and
  `engine.resume` decides the latest approval of the execution
  (`runtime/engine.py:138`). A callback that arrives after its gate was passed opens
  the next gate.
* `cron_atomicfire`: the pass holds the write lock when it calls `enqueue`
  (`jobs/scheduler.py:357`), which fails on its own connection; the exception is
  swallowed and the execution is committed without a job, against "Atomic save in
  same lock context" (line 355).

Others were met while modelling. The model contains the behaviour, and no property
claims its absence:

* `recover_orphaned_jobs` (`jobs/worker.py:57`) writes audit events on a second
  connection while its own update is uncommitted; on one file this fails with
  "database is locked" and the recovery is rolled back (`StartWorker` with
  `AuditSharesDb`). In the same way the audit event of a misfire rolls the pass
  back each time (`jobs/scheduler.py:287`, `MissFire`).
* `cancel` (`runtime/engine.py:186`) rewrites the execution, but the engine thread
  saves its own copy over it at the next node (`SaveCursor`), so a CANCELLED
  execution runs on.
* A resume from the user interface names no gate either, so that a late one decides
  the gate the execution waits at by then (`RequeueJob`, `DecideGate`).
  `NoGatePassesUnapproved` says that each request opens one gate at most. The
  exception is a job whose worker died after the engine had paused at a later gate
  and before the job was settled: its payload still says APPROVED
  (`jobs/worker.py:77`), and a recovery that commits puts it back, so that it
  approves the later gate unasked (`PauseForApproval`, `WorkerDies`, `StartWorker`;
  counted by `Replays`). With the production wiring no recovery commits.
* A `ValueError` of `get_next_run` for one schedule aborts the pass for all of them
  (`NoNextRun`). A resume sent before the worker has settled the job is overwritten
  by the settling update (`RequeueJob`, then `SettleJob`). Cancelling a paused
  execution leaves its job suspended (`CancelQueued` cancels only QUEUED and
  RETRYING jobs).
* `list_connectors` ("List latest version", `storage/sqlite.py:2329`) groups without
  an aggregate, so that any version may be listed (`ListedRows`). Two updates of a
  connector choose the same version and the later one wins. The circuit breaker does
  not count "five-consecutive-failure" (`walkthrough.md:54`) when calls overlap, in
  either direction: a stale copy may lose failures, so that it takes more than five,
  and a copy read before a success was saved brings an old count back, so that
  failures with a success between them open the circuit. `BreakerOpensOnFailures`
  claims what is left: only a success that nobody could save over ends the count,
  and no circuit opens without the threshold of failures since. A call whose row
  cannot be saved after a success is counted as a failure (`SuccessUnsaved`). After
  the first call the stored configuration is the resolved one, and a later rotation
  no longer reaches that version.
* Two creations or rotations that choose the same version of a secret: the second
  insert fails by the unique index, and the request with it.
* Two compile requests, or a compilation and a promotion, that choose the same
  version of a bundle: the second overwrites the first, although the store "ensures
  existing versions are never overwritten" (`OverwritesAreRaces` bounds it).
* The optimizer is "always a cache hit" (`splunk/adapters/mcp_optimizer.py:12`) only
  if the key is the same: the data source is resolved again by each stage, which
  changes it for authentication sources, and the entry may have expired.
* The look-up in a provider's cache raises `KeyError` when another thread deletes
  the entry between test and read (`claude_spl_service.py:53`); the attempt then
  counts as failed.
* Runbooks that the validator refuses are compiled, planned and stored all the
  same, as FAILED. With repeated step ids their graph contains loops on ids; the
  depth limit (`CycleBound`) then ends an execution of it.

## 4. Proofs

All theorems hold for any number of workers, clients, executions, keys, requests,
threads, rows and runbooks (finite where sizes are counted), every graph, and
without the bounds having a particular value. They use the named `ASSUME`s of the
modules, and where the table says so an assumption of the theorem. Every property
of the passing runs is a theorem except the two liveness properties; some theorems
say more than any run checks (`NoJobIsStranded`, `ExecutionsRunAlone`,
`NodeRunsBounded`, `FiresExecuteOnce`, `RunsAdvance`, `RunsAreComplete`).

| Proofs | Theorems | Argument |
|---|---|---|
| `JobRuntimeProofs` | `TypeCorrect` | `TypeOK` contains what each thread must have read by the time it reaches a location, and is inductive as it stands. |
| | `GatesHold` | About saved decisions: that runs never exceed grants is not inductive. `GateInv` counts the threads that carry a permission (their `bypass` names the node and they have not begun it): runs plus carried permissions never exceed grants. A saved decision adds one to both sides, `BeginNode` turns a permission into a run, every other step loses permissions at most. |
| | `LockHolds` | `LockInv`; no resume requests, `RecoveryIsHarmless`. |
| | `LifecycleHolds` | refinement of `JobLifecycle`, from `LockInv` and `AttemptInv` (attempts of waiting jobs), under the assumptions of `LockHolds`. |
| | `NoJobIsStranded` | `ServedInv`: a RUNNING row that is not suspended names a worker that is at work on it or is down, and a QUEUED row is due. The safety half of `EveryJobSettles`, for any requests and any interleaving of crashes and recoveries; assumption `RecoveryCommits`. |
| | `ExecutionsRunAlone` | from `LockInv`, and `EnginesInv` (only workers, and with callbacks request threads, are inside the engine); assumptions of `LockHolds`, no callbacks. |
| | `NodeRunsBounded` | no assumption. `NodesInv`: a thread holds a ticket for each node it may still begin by its own count; node runs and tickets of an execution together never exceed `max_nodes_executed` for each thread that can be inside the engine. |
| | `CyclesBounded` | `CycleInv`: the count of a thread is exact, since nobody else runs its execution (`Apart`); no callbacks, `WorkersApart`. |
| | `SuspendedJobsWait`, `CompletionsAgree` | `CalmInv`: what the tables hold at each location of a worker when nobody else writes its execution; assumption `Calm`. |
| | `RejectionsAreFinal` | `RejectionInv`: the job of a rejected execution is a resume job with a decided latest approval; `RecordsInv`: a job exists only for an execution that does, under no assumption. One worker, no callbacks. |
| | `ApprovalsAreSpentOnce` | About what administrators sent. `SpendInv` adds up where an approval can be on its way to the gate it opens: in a request that has not written the job yet (`Sending`), in the payload of a row that a worker will take (`RowCarries`), with the worker (`WorkerCarries`). With the gates already passed these never exceed what was sent plus the replays after a crash. The payload that is kept when the job pauses again carries nothing: the row is suspended, and a resume replaces it. One worker, no callbacks. |
| `ActionDispatchProofs` | `TypeCorrect`, `EffectsAreAccounted`, `SerialActionsRunOnce`, `RepeatsBounded`, `SuccessesHappened`, `RecordedIsNotRepeated` | `IInv`: a thread passes the look-up only while no success is recorded, so recorded successes and threads beyond the look-up (`Busy`) never exceed the number of threads (`Bounded`), nor one for a serial key (`Fresh`, which needs `Alone`); the books turn both into bounds on the effects. |
| `ApprovalsProofs` | `TypeCorrect` | inductive as it stands. |
| | `NoncesDecideOnce` | `NonceInv`: two threads past `BurnNonce` never hold the same nonce, and theirs are recorded and not used. The look-up in `CheckNonce` plays no part: the UNIQUE column carries the property. |
| | `StatusIsDecision` | `CopyInv`: every copy of the pass was PENDING without a decision. |
| | `EscalationsWait`, `RemindersBounded` | `LevelInv`, `ReminderInv`: a copy is at no higher level than the clock allows; the reminders of a request fit before the last one. |
| | `DecisionsBounded` | `DecisionInv`: decisions plus threads about to write one never exceed the threads times one plus the reopenings; an expired request is in no copy of the pass. |
| `CronSchedulerProofs` | `TypeCorrect` | any number of processes. |
| | `FiresAreBounded` | any number of processes. `CountInv`: executions of a fire, plus one for each process that still owes it one, are paid by the processes that can no longer make it due again (`Late`); n processes start at most 1 + 2 + ... + n executions. |
| | `FiresExecuteOnce`, `RunsAdvance`, `RunsAreNotSkipped` | `FireInv`: the rows a pass read are the rows it handles, and an executed fire is behind `next_run_at`; one process. |
| `ReleasesProofs` | `TypeCorrect` | `ReleaseInv` types with the uniqueness of bundle versions. |
| | `OnePolicyInForce` | `PolicyInv`: an editor's row is current-to-be, names are kept. |
| | `DeploymentsBacked`, `PromotionsDeployed`, `ArtifactsTraceable` | `ReleaseInv`: what a promotion has written at each of its locations, and that its deployment is its own. |
| | `OverwritesRace` | a number is beyond all versions that were seen when it was chosen. |
| `ConnectorsProofs` | `TypeCorrect`, `CircuitsOpenOnFailures`, `RetiredSecretsExpire`, `ConfigurationsTraced`, `DeletionsHold` | `VaultInv` says of every cache entry that its value is of a row of its name and expires at most TTL after that row was replaced; `ConnInv` says of every copy what is said of the rows, since any caller saves its copy over any row. |
| `PlannerProofs` | `EveryPlanIsSound` | induction over the steps as an argument about the least counterexample (`WellFoundedInduction`), about the graph on positions; validity is carried over to repeated ids. |
| | `RunsAreComplete` | unique ids. A run is a route over positions that only goes forward; the least step of it beyond an unconditional one would have been reached by a link that leads past it. |
| `CompilationProofs` | `TypeCorrect`, `AnswersGrounded`, `PlansSound` | `Fits`: a thread asks for the schema of its step, and an answer that was returned was accepted; `PlansSound` cites `EveryPlanIsSound`. |

Why some theorems have an assumption:

* `LockHolds`, `LifecycleHolds`, `ExecutionsRunAlone`: no resume requests, and
  recovery cannot touch a job of a live worker (`RecoveryIsHarmless`: it never
  commits, as in the production wiring, or nobody crashes, or there is one worker).
  With either removed TLC finds counterexamples: a resume rewrites a RUNNING row,
  and the recovery selects every RUNNING row. `ExecutionsRunAlone` excludes
  callbacks as well, which run the engine in a request thread.
* `NoJobIsStranded`: `RecoveryCommits`, which is the other side of the same coin.
  With the audit log in the file of the queue the recovery is rolled back, and the
  job of a worker that crashed stays RUNNING under the name of a worker that has
  forgotten it.
* `CyclesBounded`: two threads that run one execution count its nodes separately
  (`NodeRunsBounded` says how far this goes). `WorkersApart`: there is one worker,
  or the lock of `LockHolds` keeps them apart.
* `Calm` (one worker that serves starts and resumes, or any number of workers under
  the conditions of `LockHolds` with cancellations of jobs): a callback or a
  cancellation of an execution writes the execution while the worker holds a copy of
  it, and a resume together with a cancellation lets a late `cancel` of the engine
  overwrite the execution of a job that runs again or is COMPLETED. On the graph of
  `jobs_resume` TLC finds `SuspendedIsResumable` violated with callbacks alone, with
  cancellations of executions alone, with resumes and job cancellations, and with
  resumes and two workers; `CompletedJobCompletedExecution` in the same settings,
  where it takes a resume besides the callback.
* `RejectionsAreFinal`, `ApprovalsAreSpentOnce`: with two workers a resumed job may run
  twice, and a callback runs it in a request thread (for rejections TLC finds
  both); cancellations do no harm, since they
  write neither approvals nor payloads.
* One process for `FiresExecuteOnce`, `RunsAdvance`, `RunsAreNotSkipped`: two
  processes read the same due rows before either takes the write lock, both insert
  an execution, and the later commit writes a `next_run_at` computed from an older
  clock. The repository starts one scheduler per server process and deploys one.
* Unique ids for `RunsAreComplete`: with repeated ids two steps are one node, and the
  graph may contain loops.

Only model-checked: `EveryJobSettles` and `DueRunIsHandled`, since liveness under
fairness, and ENABLED, are out of this prover's reach. Not proved either is what
needs an induction over data: sums over the sliding windows of the rate limiters
(`Total` in `SecretVault` and `Connectors`), which no theorem speaks about.

## 5. Not modelled

* What queries, agents, parsers and adapters compute: pure functions and calls
  of other services, a nondeterministic outcome of a node or an abstract answer
  here. The investigation agent prompts a model in a bounded loop and keeps nothing.
* Authentication, tenants, memberships and API keys: every key is scoped by the
  tenant, one tenant is modelled; the checks concern single requests and the rows
  have one writer each. Compliance reports: a read and one insert. The user
  interface: a client of the API.
* Policies of other kinds than deployment policies: in `JobRuntime` a policy may deny
  any node, in `Connectors` the SECRET policies may change their verdict at any time.
* `simulate`, risk scores, health columns, confidence values, warnings and metrics:
  no decision of the modelled code reads them.
* Failures of audit writes other than in recovery, in the cron pass and in the
  action engine; the cron pass holding the lock while a worker writes an audit event.
* `stop` followed by `start` of a worker in one process (a thread that outlives
  the join timeout).
* The Slack callback route: its `request` parameter is declared `Any`, so the
  framework passes no request and the route answers 500 before it changes state.
* `last_generator_confidence` of a shared adapter, which another thread may replace
  before it is read: only a number in a report depends on it.
* The definitions of `save_secret` and its neighbours at `storage/sqlite.py:1117`:
  later definitions of the same methods replace them.
* Cryptography of tokens and of the vault; versions of a secret other than the
  current one, which no connector asks for.

## 6. What is left

The modules of the plan are written: runtime, scheduler, actions, approvals first,
then policies and releases, vault and connectors, planner and compilation. What
would extend the project:

* two workers in two processes with a separate audit log, once `recover_orphaned_jobs`
  tells its own process's jobs from those of others;
* liveness of compile requests, which needs an assumption about the providers;
* stronger job theorems (`Calm` with cancellations of executions), once the engine
  rereads the execution before it saves it;
* audit writes of the worker that fail: the event JOB_STARTED is written before the
  `try` block of `_process_job`, so that its failure strands the job, which
  `NoJobIsStranded` does not see.
