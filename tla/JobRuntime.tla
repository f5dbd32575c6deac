----------------------------- MODULE JobRuntime -----------------------------
(***************************************************************************)
(* The asynchronous execution path of RunbookMind: the durable job queue,  *)
(* the background workers that drain it, the execution engine they call,   *)
(* and the HTTP routes that start, resume and cancel executions.           *)
(*                                                                         *)
(* Every repository or queue method is one committed SQLite statement (or  *)
(* transaction) and is one atomic step here; between two of them any other *)
(* thread may run.  A thread keeps what it read earlier: a worker its copy *)
(* of the job row, the engine its copy of the execution row and of the     *)
(* approval.  Writes persist those copies blindly, as the code does.       *)
(*                                                                         *)
(* A start creates one execution and one job for it; both are named by the *)
(* element of Execs, in creation order, so that the queue's ORDER BY       *)
(* (priority, created_at) is the order of Execs (all jobs the routes       *)
(* create have priority 100).                                              *)
(***************************************************************************)
EXTENDS Naturals, FiniteSets

CONSTANTS
  Execs,        \* executions that may be started, numbered in creation order
  Workers,      \* worker processes, each with one BackgroundWorker thread
  Clients,      \* HTTP request threads
  Nodes,        \* nodes of the execution graph
  EntryNode,    \* skill.graph.entry_node
  Edges,        \* <<source, target>> pairs of skill.graph.edges
  Defaults,     \* the edges that carry no condition
  Mode,         \* governance execution_mode of the skill each execution runs
  MaxAttempts,  \* JobRecord.max_attempts
  MaxNodes,     \* ExecutionEngine.max_nodes_executed
  AuditSharesDb,\* the audit repository writes to the queue's database file
  Ops,          \* which kinds of requests the clients send in this instance
  MaxRequests,  \* bound: requests the clients send besides the starts
  MaxCrashes,   \* bound: thread deaths
  None          \* SQL NULL / Python None

HIL == "HIL_SUSPENDED"

JobStatus == {"QUEUED", "RUNNING", "RETRYING", "COMPLETED", "FAILED", "CANCELLED"}
ExecStatus == {"PENDING", "RUNNING", "COMPLETED", "FAILED", "CANCELLED"}
Decision == {"APPROVED", "REJECTED"}
Threads == Workers \cup Clients

\* A row of the jobs table.  payload is the action the worker will take: None
\* for "execute", the decision for "resume".  due abstracts run_at: FALSE while
\* run_at lies in the future.
Job == [status: JobStatus, attempt: Nat, owner: Workers \cup {None, HIL},
        payload: Decision \cup {None}, due: BOOLEAN]

\* A row of the executions table.
Exec == [status: ExecStatus, node: Nodes \cup {None}]

\* A row of the approvals table; id is its place in the order of requested_at.
Approval == [id: Nat, node: Nodes, decision: Decision \cup {None}]

\* A PENDING row of approval_requests (collaboration); created together with
\* the approval of the same id.
Request == [id: Nat, node: Nodes]

ASSUME Assumptions ==
  /\ Execs \subseteq Nat
  /\ EntryNode \in Nodes
  /\ Edges \subseteq Nodes \X Nodes
  /\ Defaults \subseteq Edges
  /\ Mode \in [Execs -> {"AUTO", "HUMAN_IN_LOOP", "MANUAL"}]
  /\ MaxAttempts \in Nat \ {0}
  /\ MaxNodes \in Nat \ {0}
  /\ AuditSharesDb \in BOOLEAN
  /\ Ops \subseteq {"resume", "cancelExec", "cancelJob", "callback"}
  /\ MaxRequests \in Nat
  /\ MaxCrashes \in Nat
  /\ IsFiniteSet(Workers) /\ IsFiniteSet(Clients)
  /\ Workers \cap Clients = {}
  /\ None \notin Nodes \cup Workers \cup JobStatus \cup ExecStatus \cup Decision \cup {HIL}
  /\ None \notin Job /\ None \notin Exec
  /\ HIL \notin Workers

VARIABLES
  jobs,       \* jobs table: partial function on Execs
  execs,      \* executions table: partial function on Execs
  approvals,  \* approvals table, per execution
  requests,   \* pending collaboration approval requests, per execution
  gates,      \* number of approvals ever created, per execution
  rows,       \* number of node_executions rows, per execution
  pc,         \* where each thread is
  job,        \* a thread's copy of the job row
  loc,        \* a thread's other local variables
  budget,     \* what is left of MaxRequests and MaxCrashes
  grants,     \* history: APPROVED decisions saved, per execution and node
  runs,       \* history: runs of gated nodes (HUMAN_IN_LOOP), per execution and node
  sent,       \* history: APPROVED decisions administrators sent, per execution
  passed      \* history: runs of gated nodes, per execution

tables == <<jobs, execs, approvals, requests, gates, rows>>
locals == <<pc, job, loc>>
history == <<grants, runs, sent, passed>>
vars == <<jobs, execs, approvals, requests, gates, rows, pc, job, loc, budget,
          grants, runs, sent, passed>>

\* What execute and resume return or, "ERROR", raise.
Outcome == {"COMPLETED", "FAILED", "PAUSED", "ERROR"}

\* Local variables of a thread inside the engine: the execution it works on,
\* the node it has come to, the cursor of its record, the bypassed gate,
\* executed_count, the decision to apply, the approval it read, the
\* collaboration request that triggered it, the outcome.
Local == [exec: Execs \cup {None}, node: Nodes \cup {None}, cursor: Nodes \cup {None},
          bypass: Nodes \cup {None}, count: Nat, choice: Decision \cup {None}, appr: Approval \cup {None},
          via: Request \cup {None}, result: Outcome \cup {None}]

Locations == {"idle", "down", "clear", "begin", "scan", "step", "gate", "ask", "run",
              "complete", "fail", "settle", "lookup", "approval", "decide", "reject",
              "enqueue", "requeue", "qcancel", "elookup", "ecancel", "answer"}

NoLocal == [exec |-> None, node |-> None, cursor |-> None, bypass |-> None, count |-> 0,
            choice |-> None, appr |-> None, via |-> None, result |-> None]

\* Locations only a worker or only a client can be at.
WorkerOnly == {"down", "clear", "begin", "settle"}
ClientOnly == {"enqueue", "requeue", "qcancel", "elookup", "ecancel", "answer"}

\* Locations at which the thread stands at a node of the graph.
AtNode == {"approval", "decide", "reject", "scan", "step", "gate", "ask", "run", "fail"}

\* What thread t must have read by the time it is at l with locals x and job copy j.
Consistent(t, l, x, j) ==
  /\ l \in WorkerOnly => t \in Workers
  /\ l \in ClientOnly => t \in Clients
  /\ l \notin {"idle", "down"} => x.exec \in Execs
  /\ l \notin {"idle", "down"} /\ t \in Workers => j \in Job
  /\ l = "requeue" => j \in Job
  /\ l \in AtNode => x.node \in Nodes
  /\ l \in {"ask", "decide"} => x.appr \in Approval
  /\ l \in {"lookup", "approval", "decide", "requeue", "answer"} => x.choice \in Decision
  /\ l = "settle" => x.result \in Outcome

ThreadsOK ==
  /\ pc \in [Threads -> Locations]
  /\ loc \in [Threads -> Local]
  /\ job \in [Threads -> Job \cup {None}]
  /\ \A t \in Threads : Consistent(t, pc[t], loc[t], job[t])

TablesOK ==
  /\ jobs \in [Execs -> Job \cup {None}]
  /\ execs \in [Execs -> Exec \cup {None}]
  /\ approvals \in [Execs -> SUBSET Approval]
  /\ requests \in [Execs -> SUBSET Request]
  /\ gates \in [Execs -> Nat]
  /\ rows \in [Execs -> Nat]
  /\ \A e \in Execs : execs[e] # None /\ execs[e].status = "RUNNING" => execs[e].node \in Nodes

CountersOK ==
  /\ budget \in [requests: Nat, crashes: Nat]
  /\ grants \in [Execs -> [Nodes -> Nat]]
  /\ runs \in [Execs -> [Nodes -> Nat]]
  /\ sent \in [Execs -> Nat]
  /\ passed \in [Execs -> Nat]

TypeOK == ThreadsOK /\ TablesOK /\ CountersOK

Init ==
  /\ jobs = [e \in Execs |-> None]
  /\ execs = [e \in Execs |-> None]
  /\ approvals = [e \in Execs |-> {}]
  /\ requests = [e \in Execs |-> {}]
  /\ gates = [e \in Execs |-> 0]
  /\ rows = [e \in Execs |-> 0]
  /\ pc = [t \in Threads |-> "idle"]
  /\ job = [t \in Threads |-> None]
  /\ loc = [t \in Threads |-> NoLocal]
  /\ budget = [requests |-> MaxRequests, crashes |-> MaxCrashes]
  /\ grants = [e \in Execs |-> [n \in Nodes |-> 0]]
  /\ runs = [e \in Execs |-> [n \in Nodes |-> 0]]
  /\ sent = [e \in Execs |-> 0]
  /\ passed = [e \in Execs |-> 0]

-----------------------------------------------------------------------------
(* ------------------------------- helpers -------------------------------- *)

Goto(t, l) == pc' = [pc EXCEPT ![t] = l]

\* The thread leaves the engine with outcome r: a worker goes on to settle its
\* job, a request handler answers its caller.
LeaveEngine(t, r) ==
  \/ /\ t \in Workers
     /\ Goto(t, "settle")
     /\ loc' = [loc EXCEPT ![t] = [NoLocal EXCEPT !.exec = loc[t].exec, !.result = r]]
  \/ /\ t \in Clients
     /\ Goto(t, "idle")
     /\ loc' = [loc EXCEPT ![t] = NoLocal]

\* The thread is done: back to polling, or the response is sent.
Finish(t) ==
  /\ Goto(t, "idle")
  /\ job' = [job EXCEPT ![t] = None]
  /\ loc' = [loc EXCEPT ![t] = NoLocal]

\* save_execution: a blind upsert of the thread's copy.
SaveExecution(t, status, node) ==
  execs' = [execs EXCEPT ![loc[t].exec] = [status |-> status, node |-> node]]

\* update_job: a blind overwrite of the row with the thread's copy.
UpdateJob(e, row) == jobs' = [jobs EXCEPT ![e] = row]

\* As if dequeue did not look at the status of the row.
EligibleAnyLive(e) ==
  jobs[e] # None /\ jobs[e].status \in {"QUEUED", "RETRYING", "RUNNING"} /\ jobs[e].due

\* Rows dequeue selects from, and the one ORDER BY ... LIMIT 1 picks.
Eligible(e) == jobs[e] # None /\ jobs[e].status \in {"QUEUED", "RETRYING"} /\ jobs[e].due
NextJob(e) == Eligible(e) /\ \A f \in Execs : Eligible(f) => e <= f

\* Rows queue.cancel may cancel; and as if it cancelled the job of a worker too.
CancellableRunning(e) ==
  jobs[e] # None /\ jobs[e].status \in {"QUEUED", "RETRYING", "RUNNING"}
Cancellable(e) == jobs[e] # None /\ jobs[e].status \in {"QUEUED", "RETRYING"}

\* get_approval_by_execution: the most recent approval of the execution.
IsLatest(a, e) == a \in approvals[e] /\ \A b \in approvals[e] : b.id <= a.id

Targets(n) == {m \in Nodes : <<n, m>> \in Edges}
HasDefault(n) == \E m \in Nodes : <<n, m>> \in Defaults

(* --------------------------- engine: one run ----------------------------- *)

\* execute: the bundle version is gone, so the call raises ValueError.
BundleMissing(w) ==
  /\ pc[w] = "begin"
  /\ LeaveEngine(w, "ERROR")
  /\ UNCHANGED <<tables, job, budget, history>>

\* execute: a fresh ExecutionRecord at the entry node replaces the stored one.
BeginExecution(w) ==
  /\ pc[w] = "begin"
  /\ SaveExecution(w, "RUNNING", EntryNode)
  /\ loc' = [loc EXCEPT ![w].node = EntryNode, ![w].cursor = EntryNode]
  /\ Goto(w, "scan")
  /\ UNCHANGED <<jobs, approvals, requests, gates, rows, job, budget, history>>

\* As if executed_count started at zero after every resume.
ForgetNodeRuns(t) ==
  /\ pc[t] = "scan"
  /\ loc' = [loc EXCEPT ![t].count = 0]
  /\ Goto(t, "step")
  /\ UNCHANGED <<tables, job, budget, history>>

\* _run_loop: executed_count is reconstructed from the node_executions rows.
ScanNodeRuns(t) ==
  /\ pc[t] = "scan"
  /\ loc' = [loc EXCEPT ![t].count = rows[loc[t].exec]]
  /\ Goto(t, "step")
  /\ UNCHANGED <<tables, job, budget, history>>

\* _run_loop, cycle protection: too many node runs fail the execution, whose
\* record still has the cursor of the node before.
DepthExceeded(t) ==
  /\ pc[t] = "step"
  /\ loc[t].count >= MaxNodes
  /\ SaveExecution(t, "FAILED", loc[t].cursor)
  /\ LeaveEngine(t, "FAILED")
  /\ UNCHANGED <<jobs, approvals, requests, gates, rows, job, budget, history>>

\* As if the cursor were only advanced after the gate.
SkipCursor(t) ==
  /\ pc[t] = "step"
  /\ loc[t].count < MaxNodes
  /\ Goto(t, "gate")
  /\ UNCHANGED <<tables, job, loc, budget, history>>

\* _run_loop: the cursor is saved, with the RUNNING status of the local copy.
SaveCursor(t) ==
  /\ pc[t] = "step"
  /\ loc[t].count < MaxNodes
  /\ SaveExecution(t, "RUNNING", loc[t].node)
  /\ loc' = [loc EXCEPT ![t].cursor = loc[t].node]
  /\ Goto(t, "gate")
  /\ UNCHANGED <<jobs, approvals, requests, gates, rows, job, budget, history>>

\* _run_loop: the execution policies deny the node (policies may change at any time).
DenyByPolicy(t) ==
  /\ pc[t] = "gate"
  /\ SaveExecution(t, "FAILED", loc[t].node)
  /\ LeaveEngine(t, "FAILED")
  /\ UNCHANGED <<jobs, approvals, requests, gates, rows, job, budget, history>>

\* _run_loop: STOP_MANUAL.
StopManual(t) ==
  /\ pc[t] = "gate"
  /\ loc[t].node # loc[t].bypass
  /\ Mode[loc[t].exec] = "MANUAL"
  /\ SaveExecution(t, "FAILED", loc[t].node)
  /\ LeaveEngine(t, "FAILED")
  /\ UNCHANGED <<jobs, approvals, requests, gates, rows, job, budget, history>>

\* _run_loop: PAUSE_APPROVAL saves a new undecided approval for the node.
PauseForApproval(t) ==
  LET e == loc[t].exec
      a == [id |-> gates[e] + 1, node |-> loc[t].node, decision |-> None]
  IN /\ pc[t] = "gate"
     /\ loc[t].node # loc[t].bypass
     /\ Mode[e] = "HUMAN_IN_LOOP"
     /\ approvals' = [approvals EXCEPT ![e] = @ \cup {a}]
     /\ gates' = [gates EXCEPT ![e] = @ + 1]
     /\ loc' = [loc EXCEPT ![t].appr = a]
     /\ Goto(t, "ask")
     /\ UNCHANGED <<jobs, execs, requests, rows, job, budget, history>>

\* create_approval_request; an exception in it is logged and swallowed.
AskApprovers(t) ==
  LET e == loc[t].exec
      r == [id |-> loc[t].appr.id, node |-> loc[t].appr.node]
  IN /\ pc[t] = "ask"
     /\ requests' \in {requests, [requests EXCEPT ![e] = @ \cup {r}]}
     /\ LeaveEngine(t, "PAUSED")
     /\ UNCHANGED <<jobs, execs, approvals, gates, rows, job, budget, history>>

\* _run_loop: CONTINUE, or the gate is bypassed: a RUNNING node row is saved.
BeginNode(t) ==
  LET e == loc[t].exec
      n == loc[t].node
  IN /\ pc[t] = "gate"
     /\ n = loc[t].bypass \/ Mode[e] = "AUTO"
     /\ rows' = [rows EXCEPT ![e] = @ + 1]
     /\ IF Mode[e] = "HUMAN_IN_LOOP"
          THEN /\ runs' = [runs EXCEPT ![e][n] = @ + 1]
               /\ passed' = [passed EXCEPT ![e] = @ + 1]
          ELSE UNCHANGED <<runs, passed>>
     /\ Goto(t, "run")
     /\ UNCHANGED <<jobs, execs, approvals, requests, gates, job, loc, budget, grants, sent>>

\* _run_loop: the node ran; traversal follows a matching or a default edge.
FollowEdge(t) ==
  /\ pc[t] = "run"
  /\ \E m \in Targets(loc[t].node) :
       loc' = [loc EXCEPT ![t].node = m, ![t].bypass = None, ![t].count = @ + 1]
  /\ Goto(t, "step")
  /\ UNCHANGED <<tables, job, budget, history>>

\* _run_loop: the node ran and is a leaf.
ReachLeaf(t) ==
  /\ pc[t] = "run"
  /\ Targets(loc[t].node) = {}
  /\ Goto(t, "complete")
  /\ UNCHANGED <<tables, job, loc, budget, history>>

\* _run_loop: the query or action failed or raised.
NodeFails(t) ==
  /\ pc[t] = "run"
  /\ Goto(t, "fail")
  /\ UNCHANGED <<tables, job, loc, budget, history>>

\* _run_loop: no condition holds and there is no default edge.
NoRoute(t) ==
  /\ pc[t] = "run"
  /\ Targets(loc[t].node) # {}
  /\ ~HasDefault(loc[t].node)
  /\ Goto(t, "fail")
  /\ UNCHANGED <<tables, job, loc, budget, history>>

FailExecution(t) ==
  /\ pc[t] = "fail"
  /\ SaveExecution(t, "FAILED", loc[t].node)
  /\ LeaveEngine(t, "FAILED")
  /\ UNCHANGED <<jobs, approvals, requests, gates, rows, job, budget, history>>

CompleteExecution(t) ==
  /\ pc[t] = "complete"
  /\ SaveExecution(t, "COMPLETED", None)
  /\ LeaveEngine(t, "COMPLETED")
  /\ UNCHANGED <<jobs, approvals, requests, gates, rows, job, budget, history>>

(* --------------------------- engine: resume ------------------------------ *)

\* As if resume did not look at the status of the execution.
LookupAnyExecution(t) ==
  /\ pc[t] = "lookup"
  /\ execs[loc[t].exec] # None
  /\ LET n == execs[loc[t].exec].node
     IN loc' = [loc EXCEPT ![t].node = n, ![t].cursor = n]
  /\ Goto(t, "approval")
  /\ UNCHANGED <<tables, job, budget, history>>

\* resume: the execution must be RUNNING; the copy is used until the end.
LookupExecution(t) ==
  /\ pc[t] = "lookup"
  /\ execs[loc[t].exec] # None
  /\ execs[loc[t].exec].status = "RUNNING"
  /\ LET n == execs[loc[t].exec].node
     IN loc' = [loc EXCEPT ![t].node = n, ![t].cursor = n]
  /\ Goto(t, "approval")
  /\ UNCHANGED <<tables, job, budget, history>>

NotResumable(t) ==
  /\ pc[t] = "lookup"
  /\ execs[loc[t].exec] # None => execs[loc[t].exec].status # "RUNNING"
  /\ LeaveEngine(t, "ERROR")
  /\ UNCHANGED <<tables, job, budget, history>>

\* resume: the latest approval must be undecided.
LookupApproval(t) ==
  /\ pc[t] = "approval"
  /\ \E a \in approvals[loc[t].exec] :
       /\ IsLatest(a, loc[t].exec)
       /\ a.decision = None
       /\ loc' = [loc EXCEPT ![t].appr = a]
  /\ Goto(t, "decide")
  /\ UNCHANGED <<tables, job, budget, history>>

NothingToDecide(t) ==
  /\ pc[t] = "approval"
  /\ \A a \in approvals[loc[t].exec] : IsLatest(a, loc[t].exec) => a.decision # None
  /\ LeaveEngine(t, "ERROR")
  /\ UNCHANGED <<tables, job, budget, history>>

\* As if resume bypassed the gate of the cursor it read, instead of the gate of
\* the approval it decided.
DecideCursorGate(t) ==
  LET e == loc[t].exec
      a == loc[t].appr
      d == loc[t].choice
  IN /\ pc[t] = "decide"
     /\ approvals' = [approvals EXCEPT
          ![e] = {b \in @ : b.id # a.id} \cup {[a EXCEPT !.decision = d]}]
     /\ grants' = [grants EXCEPT ![e][a.node] = IF d = "APPROVED" THEN @ + 1 ELSE @]
     /\ \/ d = "APPROVED" /\ loc' = [loc EXCEPT ![t].bypass = loc[t].node] /\ Goto(t, "scan")
        \/ d = "REJECTED" /\ Goto(t, "reject") /\ UNCHANGED loc
     /\ UNCHANGED <<jobs, execs, requests, gates, rows, job, budget, runs, sent, passed>>

\* resume: the decision is saved into the approval that was read, then the
\* bundle is loaded (it may be gone) and the decision acted on.
DecideGate(t) ==
  LET e == loc[t].exec
      a == loc[t].appr
      d == loc[t].choice
  IN /\ pc[t] = "decide"
     /\ approvals' = [approvals EXCEPT
          ![e] = {b \in @ : b.id # a.id} \cup {[a EXCEPT !.decision = d]}]
     /\ grants' = [grants EXCEPT ![e][a.node] = IF d = "APPROVED" THEN @ + 1 ELSE @]
     /\ \/ /\ d = "APPROVED"
           /\ loc' = [loc EXCEPT ![t].bypass = a.node]
           /\ Goto(t, "scan")
        \/ /\ d = "REJECTED"
           /\ Goto(t, "reject")
           /\ UNCHANGED loc
        \/ LeaveEngine(t, "ERROR")
     /\ UNCHANGED <<jobs, execs, requests, gates, rows, job, budget, runs, sent, passed>>

\* As if a rejected gate were passed like an approved one.
RejectOnly(t) ==
  /\ pc[t] = "reject"
  /\ loc' = [loc EXCEPT ![t].bypass = loc[t].appr.node]
  /\ Goto(t, "scan")
  /\ UNCHANGED <<tables, job, budget, history>>

\* resume: a rejection fails the execution.
RejectExecution(t) ==
  /\ pc[t] = "reject"
  /\ SaveExecution(t, "FAILED", loc[t].node)
  /\ LeaveEngine(t, "FAILED")
  /\ UNCHANGED <<jobs, approvals, requests, gates, rows, job, budget, history>>

(* ------------------------------- worker ---------------------------------- *)

\* dequeue, and the first lines of _process_job: which engine entry to call.
Dequeue(w) ==
  /\ pc[w] = "idle"
  /\ \E e \in Execs :
       LET row == [jobs[e] EXCEPT !.status = "RUNNING", !.owner = w, !.attempt = @ + 1]
       IN /\ NextJob(e)
          /\ jobs' = [jobs EXCEPT ![e] = row]
          /\ job' = [job EXCEPT ![w] = row]
          /\ loc' = [loc EXCEPT ![w] = [NoLocal EXCEPT !.exec = e, !.choice = row.payload]]
          /\ \/ row.payload # None /\ Goto(w, "lookup")
             \/ row.payload = None /\ row.attempt > 1 /\ Goto(w, "clear")
             \/ row.payload = None /\ row.attempt <= 1 /\ Goto(w, "begin")
  /\ UNCHANGED <<execs, approvals, requests, gates, rows, budget, history>>

\* _process_job: a retried execution loses its node runs and approvals.
ClearHistory(w) ==
  /\ pc[w] = "clear"
  /\ rows' = [rows EXCEPT ![loc[w].exec] = 0]
  /\ approvals' = [approvals EXCEPT ![loc[w].exec] = {}]
  /\ Goto(w, "begin")
  /\ UNCHANGED <<jobs, execs, requests, gates, job, loc, budget, history>>

\* As if a paused run counted as a success, as if its job looked again later
\* whether somebody had decided, and as if a job were retried once more than
\* max_attempts.
SettledPausedAsDone(row, result) ==
  IF result \in {"COMPLETED", "PAUSED"} THEN [row EXCEPT !.status = "COMPLETED"]
  ELSE IF row.attempt < MaxAttempts THEN [row EXCEPT !.status = "RETRYING", !.due = FALSE]
  ELSE [row EXCEPT !.status = "FAILED"]
SettledPausedWaiting(row, result) ==
  CASE result = "COMPLETED" -> [row EXCEPT !.status = "COMPLETED"]
    [] result = "PAUSED" -> [row EXCEPT !.status = "RETRYING", !.due = FALSE]
    [] result \in {"FAILED", "ERROR"} /\ row.attempt < MaxAttempts ->
         [row EXCEPT !.status = "RETRYING", !.due = FALSE]
    [] OTHER -> [row EXCEPT !.status = "FAILED"]
SettledOnceMore(row, result) ==
  CASE result = "COMPLETED" -> [row EXCEPT !.status = "COMPLETED"]
    [] result = "PAUSED" -> [row EXCEPT !.status = "RUNNING", !.owner = HIL]
    [] result \in {"FAILED", "ERROR"} /\ row.attempt <= MaxAttempts ->
         [row EXCEPT !.status = "RETRYING", !.due = FALSE]
    [] OTHER -> [row EXCEPT !.status = "FAILED"]

\* What update_job will write for the outcome of the run (and _handle_failure).
Settled(row, result) ==
  CASE result = "COMPLETED" -> [row EXCEPT !.status = "COMPLETED"]
    [] result = "PAUSED" -> [row EXCEPT !.status = "RUNNING", !.owner = HIL]
    [] result \in {"FAILED", "ERROR"} /\ row.attempt < MaxAttempts ->
         [row EXCEPT !.status = "RETRYING", !.due = FALSE]
    [] OTHER -> [row EXCEPT !.status = "FAILED"]

SettleJob(w) ==
  /\ pc[w] = "settle"
  /\ UpdateJob(loc[w].exec, Settled(job[w], loc[w].result))
  /\ Finish(w)
  /\ UNCHANGED <<execs, approvals, requests, gates, rows, budget, history>>

\* The backoff delay of a RETRYING job elapses.
BackoffElapses(e) ==
  /\ jobs[e] # None
  /\ jobs[e].status = "RETRYING"
  /\ ~jobs[e].due
  /\ jobs' = [jobs EXCEPT ![e].due = TRUE]
  /\ UNCHANGED <<execs, approvals, requests, gates, rows, locals, budget, history>>

\* As if recovery looked for jobs without an owner.
OrphanUnowned(e) == jobs[e] # None /\ jobs[e].status = "RUNNING" /\ jobs[e].owner = None

\* recover_orphaned_jobs selects every RUNNING job that is not suspended, no
\* matter whether the worker that owns it is alive.
Orphan(e) == jobs[e] # None /\ jobs[e].status = "RUNNING" /\ jobs[e].owner # HIL

Recovered(row) ==
  IF row.attempt < MaxAttempts
    THEN [row EXCEPT !.status = "QUEUED", !.owner = None, !.due = TRUE]
    ELSE [row EXCEPT !.status = "FAILED"]

\* start: recovery, then the polling loop.  The audit event of the first orphan
\* is written on another connection while the update of the jobs table is not
\* committed: with one database file it fails with "database is locked", the
\* recovery is rolled back and the error logged.
StartWorker(w) ==
  /\ pc[w] = "down"
  /\ \/ /\ AuditSharesDb
        /\ UNCHANGED jobs
     \/ /\ ~AuditSharesDb
        /\ jobs' = [e \in Execs |-> IF Orphan(e) THEN Recovered(jobs[e]) ELSE jobs[e]]
  /\ Goto(w, "idle")
  /\ UNCHANGED <<execs, approvals, requests, gates, rows, job, loc, budget, history>>

\* The process of a worker dies (only the tables survive).
WorkerDies(w) ==
  /\ pc[w] # "down"
  /\ budget.crashes > 0
  /\ budget' = [budget EXCEPT !.crashes = @ - 1]
  /\ pc' = [pc EXCEPT ![w] = "down"]
  /\ job' = [job EXCEPT ![w] = None]
  /\ loc' = [loc EXCEPT ![w] = NoLocal]
  /\ UNCHANGED <<tables, history>>

(* ------------------------------- routes ---------------------------------- *)

\* start_execution, first half: the PENDING execution is committed.
StartExecution(c) ==
  /\ pc[c] = "idle"
  /\ \E e \in Execs :
       /\ execs[e] = None
       /\ \A f \in Execs : f < e => execs[f] # None
       /\ execs' = [execs EXCEPT ![e] = [status |-> "PENDING", node |-> None]]
       /\ loc' = [loc EXCEPT ![c].exec = e]
  /\ Goto(c, "enqueue")
  /\ UNCHANGED <<jobs, approvals, requests, gates, rows, job, budget, history>>

\* start_execution, second half: the job is enqueued.
EnqueueJob(c) ==
  /\ pc[c] = "enqueue"
  /\ jobs' = [jobs EXCEPT ![loc[c].exec] =
       [status |-> "QUEUED", attempt |-> 0, owner |-> None, payload |-> None, due |-> TRUE]]
  /\ Finish(c)
  /\ UNCHANGED <<execs, approvals, requests, gates, rows, budget, history>>

\* A client sends a request of kind op.
Sends(c, op) ==
  /\ pc[c] = "idle"
  /\ op \in Ops
  /\ budget.requests > 0
  /\ budget' = [budget EXCEPT !.requests = @ - 1]

\* An administrator has sent decision d about execution e.
CountSent(e, d) ==
  /\ sent' = [sent EXCEPT ![e] = IF d = "APPROVED" THEN @ + 1 ELSE @]
  /\ UNCHANGED <<grants, runs, passed>>

\* resume_execution reads the job, whatever its status is ...
ReadJobForResume(c) ==
  /\ Sends(c, "resume")
  /\ \E e \in Execs, d \in Decision :
       /\ jobs[e] # None
       /\ job' = [job EXCEPT ![c] = jobs[e]]
       /\ loc' = [loc EXCEPT ![c].exec = e, ![c].choice = d]
       /\ CountSent(e, d)
  /\ Goto(c, "requeue")
  /\ UNCHANGED tables

\* ... and writes the copy back as QUEUED with the decision in its payload.
RequeueJob(c) ==
  /\ pc[c] = "requeue"
  /\ UpdateJob(loc[c].exec, [job[c] EXCEPT !.status = "QUEUED", !.owner = None,
                                           !.payload = loc[c].choice, !.due = TRUE])
  /\ Finish(c)
  /\ UNCHANGED <<execs, approvals, requests, gates, rows, budget, history>>

\* cancel_execution: the record exists; its job, if there is one, is cancelled next.
ReceiveCancel(c) ==
  /\ Sends(c, "cancelExec")
  /\ \E e \in Execs : execs[e] # None /\ loc' = [loc EXCEPT ![c].exec = e]
  /\ Goto(c, "qcancel")
  /\ UNCHANGED <<tables, job, history>>

\* queue.cancel: only a QUEUED or RETRYING job is cancelled; the result is ignored.
CancelQueued(c) ==
  LET e == loc[c].exec
  IN /\ pc[c] = "qcancel"
     /\ \/ Cancellable(e) /\ jobs' = [jobs EXCEPT ![e].status = "CANCELLED"]
        \/ ~Cancellable(e) /\ UNCHANGED jobs
     /\ Goto(c, "elookup")
     /\ UNCHANGED <<execs, approvals, requests, gates, rows, job, loc, budget, history>>

\* cancel_job_by_id: a job that is not queued is refused and nothing changes.
CancelJob(c) ==
  /\ Sends(c, "cancelJob")
  /\ \E e \in Execs :
       /\ Cancellable(e)
       /\ jobs' = [jobs EXCEPT ![e].status = "CANCELLED"]
       /\ loc' = [loc EXCEPT ![c].exec = e]
  /\ Goto(c, "elookup")
  /\ UNCHANGED <<execs, approvals, requests, gates, rows, job, history>>

\* engine.cancel reads the execution; a finished one is refused.
ReadForCancel(c) ==
  LET e == loc[c].exec
  IN /\ pc[c] = "elookup"
     /\ execs[e] # None
     /\ execs[e].status \in {"PENDING", "RUNNING"}
     /\ loc' = [loc EXCEPT ![c].node = execs[e].node]
     /\ Goto(c, "ecancel")
     /\ UNCHANGED <<tables, job, budget, history>>

CancelRefused(c) ==
  /\ pc[c] = "elookup"
  /\ execs[loc[c].exec] # None =>
       execs[loc[c].exec].status \notin {"PENDING", "RUNNING"}
  /\ Finish(c)
  /\ UNCHANGED <<tables, budget, history>>

CancelExecution(c) ==
  /\ pc[c] = "ecancel"
  /\ SaveExecution(c, "CANCELLED", loc[c].node)
  /\ Finish(c)
  /\ UNCHANGED <<jobs, approvals, requests, gates, rows, budget, history>>

\* token_callback: token and nonce are valid and the request is still pending ...
ReceiveCallback(c) ==
  /\ Sends(c, "callback")
  /\ \E e \in Execs : \E r \in requests[e], d \in Decision :
       /\ loc' = [loc EXCEPT ![c] = [NoLocal EXCEPT !.exec = e, !.choice = d, !.via = r]]
       /\ CountSent(e, d)
  /\ Goto(c, "answer")
  /\ UNCHANGED <<tables, job>>

\* ... its copy is saved with the decision, and engine.resume runs in this
\* request's thread.
AnswerRequest(c) ==
  /\ pc[c] = "answer"
  /\ requests' = [requests EXCEPT ![loc[c].exec] = @ \ {loc[c].via}]
  /\ Goto(c, "lookup")
  /\ UNCHANGED <<jobs, execs, approvals, gates, rows, job, loc, budget, history>>

\* A request thread dies with its process between two database calls.
ClientDies(c) ==
  /\ pc[c] # "idle"
  /\ budget.crashes > 0
  /\ budget' = [budget EXCEPT !.crashes = @ - 1]
  /\ Finish(c)
  /\ UNCHANGED <<tables, history>>

-----------------------------------------------------------------------------

\* A thread inside engine.execute, engine.resume or _run_loop.
EngineStep(t) ==
  \/ ScanNodeRuns(t) \/ DepthExceeded(t) \/ SaveCursor(t)
  \/ DenyByPolicy(t) \/ StopManual(t) \/ PauseForApproval(t) \/ AskApprovers(t)
  \/ BeginNode(t) \/ FollowEdge(t) \/ ReachLeaf(t) \/ NodeFails(t) \/ NoRoute(t)
  \/ FailExecution(t) \/ CompleteExecution(t)
  \/ LookupExecution(t) \/ NotResumable(t) \/ LookupApproval(t) \/ NothingToDecide(t)
  \/ DecideGate(t) \/ RejectExecution(t)

WorkerStep(w) ==
  \/ Dequeue(w) \/ ClearHistory(w) \/ BundleMissing(w) \/ BeginExecution(w)
  \/ SettleJob(w) \/ StartWorker(w)

\* A request handler goes on with the request it received.
HandlerStep(c) ==
  \/ EnqueueJob(c) \/ RequeueJob(c) \/ CancelQueued(c)
  \/ ReadForCancel(c) \/ CancelRefused(c) \/ CancelExecution(c)
  \/ AnswerRequest(c)

ClientSends(c) ==
  \/ StartExecution(c) \/ ReadJobForResume(c) \/ ReceiveCancel(c)
  \/ CancelJob(c) \/ ReceiveCallback(c)

Next ==
  \/ \E t \in Threads : EngineStep(t)
  \/ \E w \in Workers : WorkerStep(w) \/ WorkerDies(w)
  \/ \E c \in Clients : HandlerStep(c) \/ ClientSends(c) \/ ClientDies(c)
  \/ \E e \in Execs : BackoffElapses(e)

Spec == Init /\ [][Next]_vars

\* Threads that are running keep running, delays elapse, a dead worker is
\* restarted; nothing obliges a client to send a request.
Fairness ==
  /\ \A w \in Workers : WF_vars(EngineStep(w) \/ WorkerStep(w))
  /\ \A c \in Clients : WF_vars(EngineStep(c) \/ HandlerStep(c))
  /\ \A e \in Execs : WF_vars(BackoffElapses(e))

FairSpec == Spec /\ Fairness

-----------------------------------------------------------------------------
(* ------------------------------ properties ------------------------------- *)

\* Worker w is processing a job.
Holds(w) == pc[w] \notin {"idle", "down"}

\* dequeue "locks" a job with the worker's id: as long as a worker processes a
\* job, the row is exactly the copy the worker took, so that nobody else runs
\* the job and the blind update_job at the end overwrites nobody's change.
\* (Needs: no resume requests, and no recovery while another worker lives.)
HeldJobIsLocked ==
  \A w \in Workers : Holds(w) => /\ jobs[loc[w].exec] = job[w]
                                 /\ job[w].owner = w

\* With execution_mode HUMAN_IN_LOOP the engine runs a node at most once for
\* every APPROVED decision it saved into an approval of that very node: a saved
\* decision lets its own node pass, once, although the engine goes on from a
\* cursor it read before.  (For which gate the administrator meant the decision
\* is another question, see CallbacksDecideTheirGate.)
GatedRunsAreGranted ==
  \A e \in Execs, n \in Nodes : runs[e][n] <= grants[e][n]

\* Deaths after which a recovery has put the job of a dead worker back into the
\* queue, with the decision it carried still in its payload.
Replays == IF AuditSharesDb THEN 0 ELSE MaxCrashes - budget.crashes

\* Gated nodes run at most as often as administrators sent APPROVED for the
\* execution, through retries, repeated requests and requests that overtake a
\* running job: an approval is spent once and opens no second gate, although
\* the job keeps it in its payload, except that recovering a dead worker's job
\* may spend it again.  (Needs: one worker, no callbacks.)
NoGatePassesUnapproved == \A e \in Execs : passed[e] <= sent[e] + Replays

\* The message to the approver names the node, "Approval Required (Execution,
\* Node)", and its token the approval request of that node: the decision that
\* comes back with the token is saved for the gate it was asked for.
CallbacksDecideTheirGate ==
  \A c \in Clients :
    pc[c] = "decide" /\ loc[c].via # None => loc[c].via.id = loc[c].appr.id

\* A job reported COMPLETED belongs to an execution that is COMPLETED.
CompletedJobCompletedExecution ==
  \A e \in Execs :
    jobs[e] # None /\ jobs[e].status = "COMPLETED" => execs[e].status = "COMPLETED"

\* A suspended job can be resumed: its execution is RUNNING and waits at a gate
\* whose approval nobody has decided yet.
SuspendedIsResumable ==
  \A e \in Execs :
    jobs[e] # None /\ jobs[e].status = "RUNNING" /\ jobs[e].owner = HIL =>
      /\ execs[e].status = "RUNNING"
      /\ \E a \in approvals[e] :
           IsLatest(a, e) /\ a.decision = None /\ a.node = execs[e].node

\* Cycle protection counts across pauses and resumes: one attempt of an
\* execution never begins more than max_nodes_executed nodes.
CycleBound == \A e \in Execs : rows[e] <= MaxNodes

\* Once a gate of an execution was rejected, no node of it runs again.
RejectionIsFinal ==
  [][\A e \in Execs :
       (\E a \in approvals[e] : a.decision = "REJECTED") => runs'[e] = runs[e]]_vars

\* The jobs table behaves as the abstract job life cycle.
Lifecycle == INSTANCE JobLifecycle WITH
  status  <- [e \in Execs |-> IF jobs[e] = None THEN "ABSENT" ELSE jobs[e].status],
  attempt <- [e \in Execs |-> IF jobs[e] = None THEN 0 ELSE jobs[e].attempt]

ImplementsLifecycle == Lifecycle!Spec

\* Every submitted job reaches a final status, through failures and crashes.
Final(e) == jobs[e] # None /\ jobs[e].status \in {"COMPLETED", "FAILED", "CANCELLED"}
EveryJobSettles == \A e \in Execs : (jobs[e] # None) ~> Final(e)
=============================================================================
