-------------------------- MODULE JobRuntimeProofs --------------------------
(***************************************************************************)
(* Proofs about JobRuntime, for any number of executions, workers and      *)
(* request threads, any graph and any bounds.                              *)
(*                                                                         *)
(*   TypeCorrect  TypeOK is inductive: besides the types it says what a    *)
(*                thread must have read before it gets to where it is.     *)
(*   GatesHold    GateInv counts the threads that carry a permission: runs *)
(*                and carried permissions together never exceed the        *)
(*                decisions the engine saved.                              *)
(*   LockHolds    LockInv adds to HeldJobIsLocked that a held job is       *)
(*                RUNNING, that no request handler is about to overwrite a *)
(*                row, and that a job exists only for an execution that    *)
(*                does.                                                    *)
(*   LifecycleHolds  the refinement of JobLifecycle, from LockInv and      *)
(*                AttemptInv, which bounds the attempts of waiting jobs.   *)
(*   NoJobIsStranded  a RUNNING job always names a worker that has it, or  *)
(*                is suspended: what EveryJobSettles needs and fairness    *)
(*                cannot give.                                             *)
(*   ExecutionsRunAlone  no two threads are inside the engine with the     *)
(*                same execution, from LockInv.                            *)
(*   NodeRunsBounded  every thread that is in the engine may add one run   *)
(*                beyond the limit, and no more: NodesInv gives each of    *)
(*                them a ticket.                                           *)
(*   CyclesBounded  with workers apart the count of the node runs is       *)
(*                never out of date, and the limit is exact.               *)
(*   SuspendedJobsWait, CompletionsAgree                                   *)
(*                CalmInv says what the tables hold at each place a        *)
(*                worker can be at, when nobody else touches them.         *)
(*   RejectionsAreFinal  RejectionInv adds that the job of a rejected      *)
(*                execution is a resume job whose latest approval is       *)
(*                decided, and where its worker can be; RecordsInv that    *)
(*                a job exists only for an execution that does.            *)
(*   ApprovalsAreSpentOnce  SpendInv adds up where an approval can be on   *)
(*                its way from the administrator to the node it lets pass. *)
(*                                                                         *)
(* Each has one lemma for the steps of the engine, the workers and the     *)
(* request handlers.                                                       *)
(***************************************************************************)
EXTENDS JobRuntime, FiniteSetTheorems, TLAPS


\* Thread t moves to l with locals x and job copy j that fit l: all threads stay
\* well formed.
LEMMA MoveThread ==
  ASSUME ThreadsOK, NEW t \in Threads,
         NEW l \in Locations, NEW x \in Local, NEW j \in Job \cup {None},
         Consistent(t, l, x, j),
         pc' = [pc EXCEPT ![t] = l],
         loc' = [loc EXCEPT ![t] = x],
         job' = [job EXCEPT ![t] = j]
  PROVE  ThreadsOK'
<1>1. pc' \in [Threads -> Locations] /\ loc' \in [Threads -> Local]
      /\ job' \in [Threads -> Job \cup {None}]
  BY DEF ThreadsOK
<1>2. ASSUME NEW u \in Threads PROVE Consistent(u, pc'[u], loc'[u], job'[u])
  <2>1. CASE u = t
    <3>1. pc'[u] = l /\ loc'[u] = x /\ job'[u] = j
      BY <2>1 DEF ThreadsOK
    <3>. QED BY <2>1, <3>1
  <2>2. CASE u # t
    <3>1. pc'[u] = pc[u] /\ loc'[u] = loc[u] /\ job'[u] = job[u]
      BY <2>2 DEF ThreadsOK
    <3>2. Consistent(u, pc[u], loc[u], job[u])
      BY DEF ThreadsOK
    <3>. QED BY <3>1, <3>2
  <2>. QED BY <2>1, <2>2
<1>3. (\A u \in Threads : Consistent(u, pc[u], loc[u], job[u]))'
  BY <1>2 DEF Consistent
<1>. QED BY <1>1, <1>3 DEF ThreadsOK

\* The same for a step that leaves the job copies alone.
LEMMA StepThread ==
  ASSUME ThreadsOK, NEW t \in Threads,
         NEW l \in Locations, NEW x \in Local,
         Consistent(t, l, x, job[t]),
         pc' = [pc EXCEPT ![t] = l],
         loc' = [loc EXCEPT ![t] = x],
         job' = job
  PROVE  ThreadsOK'
<1>1. job' = [job EXCEPT ![t] = job[t]] /\ job[t] \in Job \cup {None}
  BY DEF ThreadsOK
<1>. QED BY <1>1, MoveThread

\* A thread that leaves the engine: a worker to settle, a handler to its caller.
LEMMA LeaveThread ==
  ASSUME Assumptions, ThreadsOK, NEW t \in Threads, pc[t] \notin {"idle", "down"},
         NEW r \in Outcome,
         LeaveEngine(t, r), job' = job
  PROVE  ThreadsOK'
<1>0. Consistent(t, pc[t], loc[t], job[t])
  BY DEF ThreadsOK
<1>1. CASE t \in Workers /\ Goto(t, "settle")
        /\ loc' = [loc EXCEPT ![t] = [NoLocal EXCEPT !.exec = loc[t].exec, !.result = r]]
  <2> DEFINE x == [NoLocal EXCEPT !.exec = loc[t].exec, !.result = r]
  <2>1. loc[t].exec \in Execs /\ job[t] \in Job
    BY <1>0, <1>1 DEF Consistent
  <2>2. x \in Local /\ x.exec = loc[t].exec /\ x.result = r
    BY <2>1 DEF Local, NoLocal
  <2>3. Consistent(t, "settle", x, job[t])
    BY <1>1, <2>1, <2>2 DEF Consistent, WorkerOnly, ClientOnly, AtNode
  <2>. QED BY <1>1, <2>2, <2>3, StepThread DEF Goto, Locations
<1>2. CASE t \in Clients /\ Goto(t, "idle") /\ loc' = [loc EXCEPT ![t] = NoLocal]
  <2>1. NoLocal \in Local
    BY DEF Local, NoLocal
  <2>2. Consistent(t, "idle", NoLocal, job[t])
    BY <1>2 DEF Consistent, WorkerOnly, ClientOnly, AtNode
  <2>. QED BY <1>2, <2>1, <2>2, StepThread DEF Goto, Locations
<1>. QED BY <1>1, <1>2 DEF LeaveEngine

\* Saving the cursor, and beginning an execution, tell the thread a node.
LEMMA CursorSaved ==
  ASSUME ThreadsOK, NEW t \in Threads, SaveCursor(t)
  PROVE  /\ loc'[t] = [loc[t] EXCEPT !.cursor = loc[t].node]
         /\ loc'[t].exec = loc[t].exec /\ loc'[t].node = loc[t].node
         /\ loc'[t].count = loc[t].count /\ loc'[t].bypass = loc[t].bypass
         /\ \A u \in Threads \ {t} : loc'[u] = loc[u]
<1>1. loc \in [Threads -> Local] /\ loc[t] \in Local
  BY DEF ThreadsOK
<1>2. loc' = [loc EXCEPT ![t] = [loc[t] EXCEPT !.cursor = loc[t].node]]
  BY <1>1 DEF SaveCursor
<1>. QED BY <1>1, <1>2 DEF Local

LEMMA ExecutionBegun ==
  ASSUME ThreadsOK, NEW w \in Workers, BeginExecution(w)
  PROVE  /\ loc'[w].exec = loc[w].exec /\ loc'[w].bypass = loc[w].bypass
         /\ \A u \in Threads \ {w} : loc'[u] = loc[u]
<1>1. loc \in [Threads -> Local] /\ w \in Threads /\ loc[w] \in Local
  BY DEF ThreadsOK, Threads
<1>2. loc' = [loc EXCEPT ![w] = [loc[w] EXCEPT !.node = EntryNode, !.cursor = EntryNode]]
  BY <1>1 DEF BeginExecution
<1>. QED BY <1>1, <1>2 DEF Local

\* A thread that is done with its job or request.
LEMMA FinishThread ==
  ASSUME Assumptions, ThreadsOK, NEW t \in Threads, Finish(t)
  PROVE  ThreadsOK'
<1>1. NoLocal \in Local
  BY DEF Local, NoLocal
<1>2. Consistent(t, "idle", NoLocal, None)
  BY DEF Consistent, WorkerOnly, ClientOnly, AtNode
<1>. QED BY <1>1, <1>2, MoveThread DEF Finish, Goto, Locations

-----------------------------------------------------------------------------
(* The steps of the engine. *)

\* Every step of the engine keeps the threads well formed.
LEMMA EngineThreads ==
  ASSUME Assumptions, TypeOK, NEW t \in Threads, EngineStep(t)
  PROVE  ThreadsOK'
<1> DEFINE x == loc[t]
           e == loc[t].exec
<1>a. ThreadsOK /\ x \in Local /\ job[t] \in Job \cup {None}
  BY DEF TypeOK, ThreadsOK
<1>b. Consistent(t, pc[t], x, job[t])
  BY DEF TypeOK, ThreadsOK
<1>c. loc = [loc EXCEPT ![t] = x]
  BY DEF TypeOK, ThreadsOK
<1> USE DEF Goto, Locations, WorkerOnly, ClientOnly, AtNode
<1>1. CASE ScanNodeRuns(t)
  <2> DEFINE y == [x EXCEPT !.count = rows[e]]
  <2>1. e \in Execs /\ rows[e] \in Nat
    BY <1>b, <1>1 DEF Consistent, ScanNodeRuns, TypeOK, TablesOK
  <2>2. y \in Local /\ y.exec = e /\ y.node = x.node
    BY <1>a, <2>1 DEF Local
  <2>3. Consistent(t, "step", y, job[t])
    BY <1>b, <1>1, <2>2 DEF ScanNodeRuns, Consistent
  <2>. QED BY <1>a, <1>1, <2>2, <2>3, StepThread DEF ScanNodeRuns
<1>2. CASE SaveCursor(t)
  <2> DEFINE y == [x EXCEPT !.cursor = x.node]
  <2>1. y \in Local /\ y.exec = e /\ y.node = x.node
    BY <1>a DEF Local
  <2>2. Consistent(t, "gate", y, job[t])
    BY <1>b, <1>2, <2>1 DEF SaveCursor, Consistent
  <2>. QED BY <1>a, <1>2, <2>1, <2>2, StepThread DEF SaveCursor
<1>3. CASE PauseForApproval(t)
  <2> DEFINE a == [id |-> gates[e] + 1, node |-> x.node, decision |-> None]
             y == [x EXCEPT !.appr = a]
  <2>1. e \in Execs /\ x.node \in Nodes /\ gates[e] \in Nat
    BY <1>b, <1>3 DEF Consistent, PauseForApproval, TypeOK, TablesOK
  <2>2. a \in Approval
    BY <2>1 DEF Approval
  <2>3. y \in Local /\ y.exec = e /\ y.node = x.node /\ y.appr = a
    BY <1>a, <2>2 DEF Local
  <2>4. Consistent(t, "ask", y, job[t])
    BY <1>b, <1>3, <2>2, <2>3 DEF PauseForApproval, Consistent
  <2>. QED BY <1>a, <1>3, <2>3, <2>4, StepThread DEF PauseForApproval
<1>4. CASE BeginNode(t)
  <2>1. Consistent(t, "run", x, job[t])
    BY <1>b, <1>4 DEF BeginNode, Consistent
  <2>. QED BY <1>a, <1>c, <1>4, <2>1, StepThread DEF BeginNode
<1>5. CASE FollowEdge(t)
  <2>1. PICK m \in Targets(x.node) :
          loc' = [loc EXCEPT ![t].node = m, ![t].bypass = None, ![t].count = @ + 1]
    BY <1>5 DEF FollowEdge
  <2> DEFINE y == [x EXCEPT !.node = m, !.bypass = None, !.count = @ + 1]
  <2>2. m \in Nodes /\ x.count + 1 \in Nat
    BY <1>a DEF Targets, Local
  <2>3. y \in Local /\ y.exec = e /\ y.node = m
    BY <1>a, <2>2 DEF Local
  <2>4. Consistent(t, "step", y, job[t])
    BY <1>b, <1>5, <2>2, <2>3 DEF FollowEdge, Consistent
  <2>5. loc' = [loc EXCEPT ![t] = y]
    BY <2>1, <1>a DEF ThreadsOK
  <2>. QED BY <1>a, <1>5, <2>3, <2>4, <2>5, StepThread DEF FollowEdge
<1>6. CASE ReachLeaf(t)
  <2>1. Consistent(t, "complete", x, job[t])
    BY <1>b, <1>6 DEF ReachLeaf, Consistent
  <2>. QED BY <1>a, <1>c, <1>6, <2>1, StepThread DEF ReachLeaf
<1>7. CASE NodeFails(t) \/ NoRoute(t)
  <2>1. Consistent(t, "fail", x, job[t])
    BY <1>b, <1>7 DEF NodeFails, NoRoute, Consistent
  <2>. QED BY <1>a, <1>c, <1>7, <2>1, StepThread DEF NodeFails, NoRoute
<1>8. CASE LookupExecution(t)
  <2> DEFINE n == execs[e].node
             y == [x EXCEPT !.node = n, !.cursor = n]
  <2>1. e \in Execs /\ n \in Nodes
    BY <1>b, <1>8 DEF Consistent, LookupExecution, TypeOK, TablesOK
  <2>2. y \in Local /\ y.exec = e /\ y.node = n /\ y.choice = x.choice
    BY <1>a, <2>1 DEF Local
  <2>3. Consistent(t, "approval", y, job[t])
    BY <1>b, <1>8, <2>1, <2>2 DEF LookupExecution, Consistent
  <2>4. loc' = [loc EXCEPT ![t] = y]
    BY <1>a, <1>8 DEF LookupExecution, ThreadsOK
  <2>. QED BY <1>a, <1>8, <2>2, <2>3, <2>4, StepThread DEF LookupExecution
<1>9. CASE LookupApproval(t)
  <2>1. PICK a \in approvals[e] : loc' = [loc EXCEPT ![t].appr = a]
    BY <1>9 DEF LookupApproval
  <2> DEFINE y == [x EXCEPT !.appr = a]
  <2>2. e \in Execs /\ a \in Approval
    BY <1>b, <1>9, <2>1 DEF Consistent, LookupApproval, TypeOK, TablesOK
  <2>3. y \in Local /\ y.exec = e /\ y.node = x.node /\ y.appr = a /\ y.choice = x.choice
    BY <1>a, <2>2 DEF Local
  <2>4. Consistent(t, "decide", y, job[t])
    BY <1>b, <1>9, <2>2, <2>3 DEF LookupApproval, Consistent
  <2>. QED BY <1>a, <1>9, <2>1, <2>3, <2>4, StepThread DEF LookupApproval
<1>10. CASE DecideGate(t)
  <2> DEFINE y == [x EXCEPT !.bypass = x.appr.node]
  <2>1. x.appr \in Approval /\ pc[t] = "decide" /\ job' = job
    BY <1>b, <1>10 DEF Consistent, DecideGate
  <2>2. y \in Local /\ y.exec = e /\ y.node = x.node
    BY <1>a, <2>1 DEF Local, Approval
  <2>3. CASE loc' = [loc EXCEPT ![t].bypass = x.appr.node] /\ Goto(t, "scan")
    <3>1. Consistent(t, "scan", y, job[t])
      BY <1>b, <2>1, <2>2 DEF Consistent
    <3>. QED BY <1>a, <2>1, <2>2, <2>3, <3>1, StepThread
  <2>4. CASE Goto(t, "reject") /\ UNCHANGED loc
    <3>1. Consistent(t, "reject", x, job[t])
      BY <1>b, <2>1 DEF Consistent
    <3>. QED BY <1>a, <1>c, <2>1, <2>4, <3>1, StepThread
  <2>5. CASE LeaveEngine(t, "ERROR")
    BY <1>a, <2>1, <2>5, LeaveThread DEF Outcome
  <2>. QED BY <1>10, <2>3, <2>4, <2>5 DEF DecideGate
<1>11. CASE DepthExceeded(t) \/ DenyByPolicy(t) \/ StopManual(t) \/ FailExecution(t)
            \/ RejectExecution(t)
  <2>1. LeaveEngine(t, "FAILED") /\ job' = job /\ pc[t] \notin {"idle", "down"}
    BY <1>11 DEF DepthExceeded, DenyByPolicy, StopManual, FailExecution, RejectExecution
  <2>. QED BY <1>a, <2>1, LeaveThread DEF Outcome
<1>12. CASE NotResumable(t) \/ NothingToDecide(t)
  <2>1. LeaveEngine(t, "ERROR") /\ job' = job /\ pc[t] \notin {"idle", "down"}
    BY <1>12 DEF NotResumable, NothingToDecide
  <2>. QED BY <1>a, <2>1, LeaveThread DEF Outcome
<1>13. CASE AskApprovers(t)
  <2>1. LeaveEngine(t, "PAUSED") /\ job' = job /\ pc[t] \notin {"idle", "down"}
    BY <1>13 DEF AskApprovers
  <2>. QED BY <1>a, <2>1, LeaveThread DEF Outcome
<1>14. CASE CompleteExecution(t)
  <2>1. LeaveEngine(t, "COMPLETED") /\ job' = job /\ pc[t] \notin {"idle", "down"}
    BY <1>14 DEF CompleteExecution
  <2>. QED BY <1>a, <2>1, LeaveThread DEF Outcome
<1>. QED
  BY <1>1, <1>2, <1>3, <1>4, <1>5, <1>6, <1>7, <1>8, <1>9, <1>10, <1>11, <1>12, <1>13, <1>14
     DEF EngineStep

-----------------------------------------------------------------------------
(* The steps of the workers and of the request handlers. *)

\* The row dequeue writes.
LEMMA TakenRow ==
  ASSUME Assumptions, NEW row \in Job, NEW w \in Workers
  PROVE  [row EXCEPT !.status = "RUNNING", !.owner = w, !.attempt = @ + 1] \in Job
<1>1. row.attempt + 1 \in Nat
  BY DEF Job
<1>. QED BY <1>1 DEF Job, JobStatus

\* The job dequeue picks is a row of the table.
LEMMA NextJobExists ==
  ASSUME TypeOK, NEW e \in Execs, NextJob(e)
  PROVE  jobs[e] \in Job
BY DEF TypeOK, TablesOK, NextJob, Eligible

\* So does every step of a worker.
LEMMA WorkerThreads ==
  ASSUME Assumptions, TypeOK, NEW w \in Workers, WorkerStep(w) \/ WorkerDies(w)
  PROVE  ThreadsOK'
<1> DEFINE x == loc[w]
           e == loc[w].exec
<1>0. w \in Threads
  BY DEF Threads
<1>a. ThreadsOK /\ x \in Local /\ job[w] \in Job \cup {None}
  BY <1>0 DEF TypeOK, ThreadsOK
<1>b. Consistent(w, pc[w], x, job[w])
  BY <1>0 DEF TypeOK, ThreadsOK
<1>c. loc = [loc EXCEPT ![w] = x] /\ NoLocal \in Local
  BY <1>0 DEF TypeOK, ThreadsOK, NoLocal, Local
<1> USE DEF Goto, Locations, WorkerOnly, ClientOnly, AtNode
<1>1. CASE Dequeue(w)
  <2>1. PICK f \in Execs :
          LET row == [jobs[f] EXCEPT !.status = "RUNNING", !.owner = w, !.attempt = @ + 1]
          IN /\ NextJob(f)
             /\ job' = [job EXCEPT ![w] = row]
             /\ loc' = [loc EXCEPT ![w] = [NoLocal EXCEPT !.exec = f, !.choice = row.payload]]
             /\ \/ row.payload # None /\ Goto(w, "lookup")
                \/ row.payload = None /\ Goto(w, "clear")
                \/ row.payload = None /\ Goto(w, "begin")
    BY <1>1 DEF Dequeue
  <2> DEFINE row == [jobs[f] EXCEPT !.status = "RUNNING", !.owner = w, !.attempt = @ + 1]
             y == [NoLocal EXCEPT !.exec = f, !.choice = row.payload]
  <2>2. row \in Job
    BY <2>1, NextJobExists, TakenRow
  <2>3. row.payload \in Decision \cup {None}
    BY <2>2 DEF Job
  <2>4. y \in Local /\ y.exec = f /\ y.choice = row.payload
    BY <2>3 DEF NoLocal, Local
  <2>5. ASSUME NEW l \in {"lookup", "clear", "begin"}, Goto(w, l), l = "lookup" => row.payload # None
        PROVE  ThreadsOK'
    <3>1. Consistent(w, l, y, row)
      BY <2>2, <2>3, <2>4, <2>5 DEF Consistent
    <3>2. /\ pc' = [pc EXCEPT ![w] = l]
          /\ job' = [job EXCEPT ![w] = row]
          /\ loc' = [loc EXCEPT ![w] = y]
          /\ l \in Locations /\ y \in Local /\ row \in Job \cup {None}
      BY <2>1, <2>2, <2>4, <2>5
    <3> HIDE DEF row, y, Locations, WorkerOnly, ClientOnly, AtNode, Goto
    <3>. QED BY <1>0, <1>a, <3>1, <3>2, MoveThread
  <2>. QED BY <2>1, <2>5
<1>2. CASE ClearHistory(w)
  <2>1. Consistent(w, "begin", x, job[w])
    BY <1>b, <1>2 DEF ClearHistory, Consistent
  <2>. QED BY <1>0, <1>a, <1>c, <1>2, <2>1, StepThread DEF ClearHistory
<1>3. CASE BundleMissing(w)
  <2>1. LeaveEngine(w, "ERROR") /\ job' = job /\ pc[w] \notin {"idle", "down"}
    BY <1>3 DEF BundleMissing
  <2>. QED BY <1>0, <1>a, <2>1, LeaveThread DEF Outcome
<1>4. CASE BeginExecution(w)
  <2> DEFINE y == [x EXCEPT !.node = EntryNode, !.cursor = EntryNode]
  <2>1. EntryNode \in Nodes
    BY DEF Assumptions
  <2>2. y \in Local /\ y.exec = e /\ y.node = EntryNode
    BY <1>a, <2>1 DEF Local
  <2>3. Consistent(w, "scan", y, job[w])
    BY <1>b, <1>4, <2>1, <2>2 DEF BeginExecution, Consistent
  <2>4. loc' = [loc EXCEPT ![w] = y]
    BY <1>0, <1>a, <1>4 DEF BeginExecution, ThreadsOK
  <2>. QED BY <1>0, <1>a, <1>4, <2>2, <2>3, <2>4, StepThread DEF BeginExecution
<1>5. CASE SettleJob(w)
  BY <1>0, <1>a, <1>5, FinishThread DEF SettleJob
<1>6. CASE StartWorker(w)
  <2>1. Consistent(w, "idle", x, job[w])
    BY DEF Consistent
  <2>. QED BY <1>0, <1>a, <1>c, <1>6, <2>1, StepThread DEF StartWorker
<1>7. CASE WorkerDies(w)
  <2>1. Consistent(w, "down", NoLocal, None)
    BY DEF Consistent
  <2>. QED BY <1>0, <1>a, <1>c, <1>7, <2>1, MoveThread DEF WorkerDies
<1>. QED BY <1>1, <1>2, <1>3, <1>4, <1>5, <1>6, <1>7 DEF WorkerStep

\* And every step of a request handler.
LEMMA ClientThreads ==
  ASSUME Assumptions, TypeOK, NEW c \in Clients,
         HandlerStep(c) \/ ClientSends(c) \/ ClientDies(c)
  PROVE  ThreadsOK'
<1> DEFINE x == loc[c]
           e == loc[c].exec
<1>0. c \in Threads /\ c \notin Workers
  BY DEF Threads, Assumptions
<1>a. ThreadsOK /\ x \in Local /\ job[c] \in Job \cup {None}
  BY <1>0 DEF TypeOK, ThreadsOK
<1>b. Consistent(c, pc[c], x, job[c])
  BY <1>0 DEF TypeOK, ThreadsOK
<1>c. loc = [loc EXCEPT ![c] = x] /\ NoLocal \in Local
  BY <1>0 DEF TypeOK, ThreadsOK, NoLocal, Local
<1>d. ASSUME NEW f \in Execs PROVE [x EXCEPT !.exec = f] \in Local /\ [x EXCEPT !.exec = f].exec = f
  BY <1>a DEF Local
<1> USE DEF Goto, Locations, WorkerOnly, ClientOnly, AtNode
<1>1. CASE EnqueueJob(c) \/ RequeueJob(c) \/ CancelRefused(c) \/ CancelExecution(c) \/ ClientDies(c)
  BY <1>0, <1>a, <1>1, FinishThread
     DEF EnqueueJob, RequeueJob, CancelRefused, CancelExecution, ClientDies
<1>2. CASE CancelQueued(c)
  <2>1. Consistent(c, "elookup", x, job[c])
    BY <1>0, <1>b, <1>2 DEF CancelQueued, Consistent
  <2>. QED BY <1>0, <1>a, <1>c, <1>2, <2>1, StepThread DEF CancelQueued
<1>3. CASE ReadForCancel(c)
  <2> DEFINE y == [x EXCEPT !.node = execs[e].node]
  <2>1. e \in Execs
    BY <1>b, <1>3 DEF Consistent, ReadForCancel
  <2>2. execs[e].node \in Nodes \cup {None}
    BY <1>3, <2>1 DEF ReadForCancel, TypeOK, TablesOK, Exec
  <2>3. y \in Local /\ y.exec = e
    BY <1>a, <2>2 DEF Local
  <2>4. Consistent(c, "ecancel", y, job[c])
    BY <1>0, <2>1, <2>3 DEF Consistent
  <2>. QED BY <1>0, <1>a, <1>3, <2>3, <2>4, StepThread DEF ReadForCancel
<1>4. CASE StartExecution(c)
  <2>1. PICK f \in Execs : loc' = [loc EXCEPT ![c].exec = f]
    BY <1>4 DEF StartExecution
  <2>2. Consistent(c, "enqueue", [x EXCEPT !.exec = f], job[c])
    BY <1>0, <1>d DEF Consistent
  <2>. QED BY <1>0, <1>a, <1>d, <1>4, <2>1, <2>2, StepThread DEF StartExecution
<1>5. CASE ReadJobForResume(c)
  <2>1. PICK f \in Execs, d \in Decision :
          /\ jobs[f] # None
          /\ job' = [job EXCEPT ![c] = jobs[f]]
          /\ loc' = [loc EXCEPT ![c].exec = f, ![c].choice = d]
    BY <1>5 DEF ReadJobForResume
  <2> DEFINE y == [x EXCEPT !.exec = f, !.choice = d]
  <2>2. jobs[f] \in Job
    BY <2>1 DEF TypeOK, TablesOK
  <2>3. y \in Local /\ y.exec = f /\ y.choice = d
    BY <1>a DEF Local
  <2>4. Consistent(c, "requeue", y, jobs[f])
    BY <1>0, <2>2, <2>3 DEF Consistent
  <2>5. loc' = [loc EXCEPT ![c] = y]
    BY <1>0, <1>a, <2>1 DEF ThreadsOK
  <2>. QED BY <1>0, <1>a, <1>5, <2>1, <2>2, <2>3, <2>4, <2>5, MoveThread DEF ReadJobForResume
<1>6. CASE ReceiveCancel(c)
  <2>1. PICK f \in Execs : loc' = [loc EXCEPT ![c].exec = f]
    BY <1>6 DEF ReceiveCancel
  <2>2. Consistent(c, "qcancel", [x EXCEPT !.exec = f], job[c])
    BY <1>0, <1>d DEF Consistent
  <2>. QED BY <1>0, <1>a, <1>d, <1>6, <2>1, <2>2, StepThread DEF ReceiveCancel
<1>7. CASE CancelJob(c)
  <2>1. PICK f \in Execs : loc' = [loc EXCEPT ![c].exec = f]
    BY <1>7 DEF CancelJob
  <2>2. Consistent(c, "elookup", [x EXCEPT !.exec = f], job[c])
    BY <1>0, <1>d DEF Consistent
  <2>. QED BY <1>0, <1>a, <1>d, <1>7, <2>1, <2>2, StepThread DEF CancelJob
<1>8. CASE ReceiveCallback(c)
  <2>1. PICK f \in Execs : \E r \in requests[f], d \in Decision :
          loc' = [loc EXCEPT ![c] = [NoLocal EXCEPT !.exec = f, !.choice = d, !.via = r]]
    BY <1>8 DEF ReceiveCallback
  <2>2. PICK r \in requests[f], d \in Decision :
          loc' = [loc EXCEPT ![c] = [NoLocal EXCEPT !.exec = f, !.choice = d, !.via = r]]
    BY <2>1
  <2> DEFINE y == [NoLocal EXCEPT !.exec = f, !.choice = d, !.via = r]
  <2>3. r \in Request
    BY DEF TypeOK, TablesOK
  <2>4. y \in Local /\ y.exec = f /\ y.choice = d
    BY <2>3 DEF NoLocal, Local
  <2>5. Consistent(c, "answer", y, job[c])
    BY <1>0, <2>4 DEF Consistent
  <2>. QED BY <1>0, <1>a, <1>8, <2>2, <2>4, <2>5, StepThread DEF ReceiveCallback
<1>9. CASE AnswerRequest(c)
  <2>1. Consistent(c, "lookup", x, job[c])
    BY <1>0, <1>b, <1>9 DEF AnswerRequest, Consistent
  <2>. QED BY <1>0, <1>a, <1>c, <1>9, <2>1, StepThread DEF AnswerRequest
<1>. QED BY <1>1, <1>2, <1>3, <1>4, <1>5, <1>6, <1>7, <1>8, <1>9 DEF HandlerStep, ClientSends

-----------------------------------------------------------------------------
(* The tables and the counters. *)

\* save_execution keeps the tables well formed, if a RUNNING row has a node.
LEMMA SaveTables ==
  ASSUME TablesOK, NEW t, NEW s \in ExecStatus, NEW n \in Nodes \cup {None},
         s = "RUNNING" => n \in Nodes,
         SaveExecution(t, s, n),
         UNCHANGED <<jobs, approvals, requests, gates, rows>>
  PROVE  TablesOK'
<1> DEFINE r == [status |-> s, node |-> n]
<1>1. r \in Exec /\ r.status = s /\ r.node = n
  BY DEF Exec
<1>2. execs' = [execs EXCEPT ![loc[t].exec] = r]
  BY DEF SaveExecution
<1> HIDE DEF r
<1>3. execs' \in [Execs -> Exec \cup {None}]
  BY <1>1, <1>2 DEF TablesOK
<1>4. ASSUME NEW f \in Execs, execs'[f] # None, execs'[f].status = "RUNNING"
      PROVE  execs'[f].node \in Nodes
  BY <1>1, <1>2, <1>4 DEF TablesOK
<1>. QED BY <1>3, <1>4 DEF TablesOK

\* The history variables count per execution and node.
LEMMA IncrementType ==
  ASSUME NEW f \in [Execs -> [Nodes -> Nat]], NEW e \in Execs, NEW n \in Nodes, NEW P
  PROVE  [f EXCEPT ![e][n] = IF P THEN @ + 1 ELSE @] \in [Execs -> [Nodes -> Nat]]
<1> DEFINE v == IF P THEN f[e][n] + 1 ELSE f[e][n]
<1>1. f[e] \in [Nodes -> Nat] /\ v \in Nat
  OBVIOUS
<1> HIDE DEF v
<1>2. [f[e] EXCEPT ![n] = v] \in [Nodes -> Nat]
  BY <1>1
<1>3. [f EXCEPT ![e] = [f[e] EXCEPT ![n] = v]] \in [Execs -> [Nodes -> Nat]]
  BY <1>2
<1>. QED BY <1>3 DEF v

\* Others count per execution.
LEMMA CountType ==
  ASSUME NEW f \in [Execs -> Nat], NEW e \in Execs, NEW P
  PROVE  [f EXCEPT ![e] = IF P THEN @ + 1 ELSE @] \in [Execs -> Nat]
<1> DEFINE v == IF P THEN f[e] + 1 ELSE f[e]
<1>1. v \in Nat
  OBVIOUS
<1> HIDE DEF v
<1>2. [f EXCEPT ![e] = v] \in [Execs -> Nat]
  BY <1>1
<1>. QED BY <1>2 DEF v

\* What a node that begins adds to the histories.
LEMMA CountBegun ==
  ASSUME CountersOK, NEW t \in Threads, BeginNode(t)
  PROVE  /\ rows' = [rows EXCEPT ![loc[t].exec] = @ + 1]
         /\ runs' = [runs EXCEPT ![loc[t].exec][loc[t].node] =
                       IF Mode[loc[t].exec] = "HUMAN_IN_LOOP" THEN @ + 1 ELSE @]
         /\ passed' = [passed EXCEPT ![loc[t].exec] =
                         IF Mode[loc[t].exec] = "HUMAN_IN_LOOP" THEN @ + 1 ELSE @]
         /\ UNCHANGED <<jobs, execs, approvals, requests, gates, budget, grants, sent>>
<1>1. CASE Mode[loc[t].exec] = "HUMAN_IN_LOOP"
  BY <1>1 DEF BeginNode
<1>2. CASE Mode[loc[t].exec] # "HUMAN_IN_LOOP"
  BY <1>2 DEF BeginNode, CountersOK
<1>. QED BY <1>1, <1>2

\* The engine keeps tables and counters well formed.
LEMMA EngineTables ==
  ASSUME Assumptions, TypeOK, NEW t \in Threads, EngineStep(t)
  PROVE  TablesOK' /\ CountersOK'
<1> DEFINE x == loc[t]
           e == loc[t].exec
<1>a. TablesOK /\ CountersOK /\ x \in Local
  BY DEF TypeOK, ThreadsOK
<1>b. Consistent(t, pc[t], x, job[t])
  BY DEF TypeOK, ThreadsOK
<1>c. /\ pc[t] \notin {"idle", "down"} => e \in Execs
      /\ pc[t] \in AtNode => x.node \in Nodes
      /\ pc[t] \in {"ask", "decide"} => x.appr \in Approval
  BY <1>b DEF Consistent
<1>1. CASE SaveCursor(t)
  <2>1. TablesOK'
    BY <1>a, <1>c, <1>1, SaveTables DEF SaveCursor, AtNode, ExecStatus
  <2>. QED BY <2>1, <1>a, <1>1 DEF SaveCursor, CountersOK, history
<1>2. CASE DepthExceeded(t) \/ DenyByPolicy(t) \/ StopManual(t) \/ FailExecution(t)
           \/ RejectExecution(t)
  <2>1. /\ \E n \in Nodes \cup {None} : SaveExecution(t, "FAILED", n)
        /\ UNCHANGED <<jobs, approvals, requests, gates, rows, budget, history>>
    BY <1>a, <1>2 DEF DepthExceeded, DenyByPolicy, StopManual, FailExecution, RejectExecution, Local
  <2>2. TablesOK'
    BY <1>a, <2>1, SaveTables DEF ExecStatus
  <2>. QED BY <2>1, <2>2, <1>a DEF CountersOK, history
<1>3. CASE CompleteExecution(t)
  <2>1. TablesOK'
    BY <1>a, <1>3, SaveTables DEF CompleteExecution, ExecStatus
  <2>. QED BY <2>1, <1>a, <1>3 DEF CompleteExecution, CountersOK, history
<1>4. CASE PauseForApproval(t)
  <2> DEFINE a == [id |-> gates[e] + 1, node |-> x.node, decision |-> None]
  <2>1. e \in Execs /\ gates[e] + 1 \in Nat /\ x.node \in Nodes
    BY <1>a, <1>c, <1>4 DEF PauseForApproval, TablesOK, AtNode
  <2>2. a \in Approval
    BY <2>1 DEF Approval
  <2>3. /\ approvals' = [approvals EXCEPT ![e] = @ \cup {a}]
        /\ gates' = [gates EXCEPT ![e] = @ + 1]
        /\ UNCHANGED <<jobs, execs, requests, rows, budget, history>>
    BY <1>4 DEF PauseForApproval
  <2> HIDE DEF a
  <2>. QED BY <1>a, <2>1, <2>2, <2>3 DEF TablesOK, CountersOK, history
<1>5. CASE AskApprovers(t)
  <2> DEFINE r == [id |-> x.appr.id, node |-> x.appr.node]
  <2>1. r \in Request /\ e \in Execs
    BY <1>c, <1>5 DEF AskApprovers, Approval, Request
  <2>2. /\ requests' \in {requests, [requests EXCEPT ![e] = @ \cup {r}]}
        /\ UNCHANGED <<jobs, execs, approvals, gates, rows, budget, history>>
    BY <1>5 DEF AskApprovers
  <2> HIDE DEF r
  <2>3. requests' \in [Execs -> SUBSET Request]
    BY <1>a, <2>1, <2>2 DEF TablesOK
  <2>. QED BY <1>a, <2>2, <2>3 DEF TablesOK, CountersOK, history
<1>6. CASE BeginNode(t)
  <2>1. /\ rows' = [rows EXCEPT ![e] = @ + 1]
        /\ runs' = [runs EXCEPT ![e][x.node] = IF Mode[e] = "HUMAN_IN_LOOP" THEN @ + 1 ELSE @]
        /\ passed' = [passed EXCEPT ![e] = IF Mode[e] = "HUMAN_IN_LOOP" THEN @ + 1 ELSE @]
        /\ UNCHANGED <<jobs, execs, approvals, requests, gates, budget, grants, sent>>
    BY <1>a, <1>6, CountBegun
  <2>2. e \in Execs /\ x.node \in Nodes /\ rows[e] + 1 \in Nat
    BY <1>a, <1>c, <1>6 DEF BeginNode, AtNode, TablesOK
  <2>3. rows' \in [Execs -> Nat]
    BY <1>a, <2>1, <2>2 DEF TablesOK
  <2>4. TablesOK'
    BY <1>a, <2>1, <2>3 DEF TablesOK
  <2>5. runs' \in [Execs -> [Nodes -> Nat]]
    BY <1>a, <2>1, <2>2, IncrementType DEF CountersOK
  <2>6. passed' \in [Execs -> Nat]
    BY <1>a, <2>1, <2>2, CountType DEF CountersOK
  <2>. QED BY <1>a, <2>1, <2>4, <2>5, <2>6 DEF CountersOK
<1>7. CASE DecideGate(t)
  <2> DEFINE a == x.appr
             b == [a EXCEPT !.decision = x.choice]
  <2>1. x.choice \in Decision /\ a \in Approval /\ e \in Execs
    BY <1>b, <1>c, <1>7 DEF DecideGate, Consistent
  <2>2. b \in Approval
    BY <2>1 DEF Approval
  <2>3. /\ approvals' = [approvals EXCEPT ![e] = {c \in @ : c.id # a.id} \cup {b}]
        /\ grants' = [grants EXCEPT ![e][a.node] = IF x.choice = "APPROVED" THEN @ + 1 ELSE @]
        /\ UNCHANGED <<jobs, execs, requests, gates, rows, budget, runs, sent, passed>>
    BY <1>7 DEF DecideGate
  <2>4. TablesOK'
    <3> HIDE DEF b
    <3>1. approvals' \in [Execs -> SUBSET Approval]
      BY <1>a, <2>2, <2>3 DEF TablesOK
    <3>. QED BY <1>a, <2>3, <3>1 DEF TablesOK
  <2>5. grants' \in [Execs -> [Nodes -> Nat]]
    BY <1>a, <2>1, <2>3, IncrementType DEF CountersOK, Approval
  <2>. QED BY <1>a, <2>3, <2>4, <2>5 DEF CountersOK
<1>8. CASE \/ ScanNodeRuns(t) \/ FollowEdge(t) \/ ReachLeaf(t) \/ NodeFails(t) \/ NoRoute(t)
           \/ LookupExecution(t) \/ NotResumable(t) \/ LookupApproval(t) \/ NothingToDecide(t)
  <2>1. UNCHANGED <<jobs, execs, approvals, requests, gates, rows, budget, history>>
    BY <1>8 DEF ScanNodeRuns, FollowEdge, ReachLeaf, NodeFails, NoRoute, LookupExecution,
                NotResumable, LookupApproval, NothingToDecide, tables
  <2>. QED BY <1>a, <2>1 DEF TablesOK, CountersOK, history
<1>. QED BY <1>1, <1>2, <1>3, <1>4, <1>5, <1>6, <1>7, <1>8 DEF EngineStep

\* The rows the worker and recovery write are job rows.
LEMMA SettledRow ==
  ASSUME Assumptions, NEW row \in Job, NEW r
  PROVE  Settled(row, r) \in Job
BY DEF Settled, Job, JobStatus

LEMMA RecoveredRow ==
  ASSUME Assumptions, NEW row \in Job
  PROVE  Recovered(row) \in Job
BY DEF Recovered, Job, JobStatus

\* Only the jobs table changes, in one row.
LEMMA JobTables ==
  ASSUME TypeOK, NEW e \in Execs, NEW row \in Job,
         jobs' = [jobs EXCEPT ![e] = row],
         UNCHANGED <<execs, approvals, requests, gates, rows>>
  PROVE  TablesOK'
<1>1. jobs' \in [Execs -> Job \cup {None}]
  BY DEF TypeOK, TablesOK
<1>. QED BY <1>1 DEF TypeOK, TablesOK

\* No table changes.
LEMMA SameTables ==
  ASSUME TypeOK, UNCHANGED tables
  PROVE  TablesOK'
BY DEF TypeOK, TablesOK, tables

\* Only the budget changes, by one of its counters.
LEMMA SameCounters ==
  ASSUME TypeOK, UNCHANGED history,
         budget' = budget \/ \E n \in {"requests", "crashes"} :
                               budget[n] > 0 /\ budget' = [budget EXCEPT ![n] = @ - 1]
  PROVE  CountersOK'
BY DEF TypeOK, CountersOK, history

\* The workers keep tables and counters well formed.
LEMMA WorkerTables ==
  ASSUME Assumptions, TypeOK, NEW w \in Workers, WorkerStep(w) \/ WorkerDies(w)
  PROVE  TablesOK' /\ CountersOK'
<1> DEFINE x == loc[w]
           e == loc[w].exec
<1>0. w \in Threads
  BY DEF Threads
<1>b. Consistent(w, pc[w], x, job[w])
  BY <1>0 DEF TypeOK, ThreadsOK
<1>c. pc[w] \notin {"idle", "down"} => e \in Execs /\ job[w] \in Job
  BY <1>b DEF Consistent
<1>1. CASE Dequeue(w)
  <2>1. PICK f \in Execs : NextJob(f) /\ jobs' = [jobs EXCEPT ![f] =
          [jobs[f] EXCEPT !.status = "RUNNING", !.owner = w, !.attempt = @ + 1]]
    BY <1>1 DEF Dequeue
  <2>2. [jobs[f] EXCEPT !.status = "RUNNING", !.owner = w, !.attempt = @ + 1] \in Job
    BY <2>1, NextJobExists, TakenRow
  <2>3. UNCHANGED <<execs, approvals, requests, gates, rows>>
    BY <1>1 DEF Dequeue
  <2>4. TablesOK'
    BY <2>1, <2>2, <2>3, JobTables
  <2>. QED BY <1>1, <2>4, SameCounters DEF Dequeue
<1>2. CASE ClearHistory(w)
  <2>1. rows' \in [Execs -> Nat] /\ approvals' \in [Execs -> SUBSET Approval]
    BY <1>2 DEF ClearHistory, TypeOK, TablesOK
  <2>2. TablesOK'
    BY <1>2, <2>1 DEF ClearHistory, TypeOK, TablesOK
  <2>. QED BY <1>2, <2>2, SameCounters DEF ClearHistory
<1>3. CASE BundleMissing(w)
  BY <1>3, SameTables, SameCounters DEF BundleMissing
<1>4. CASE BeginExecution(w)
  <2>1. TablesOK'
    BY <1>4, SaveTables DEF BeginExecution, TypeOK, ExecStatus, Assumptions
  <2>. QED BY <1>4, <2>1, SameCounters DEF BeginExecution
<1>5. CASE SettleJob(w)
  <2>1. e \in Execs /\ Settled(job[w], x.result) \in Job
    BY <1>c, <1>5, SettledRow DEF SettleJob
  <2>2. TablesOK'
    BY <1>5, <2>1, JobTables DEF SettleJob, UpdateJob
  <2>. QED BY <1>5, <2>2, SameCounters DEF SettleJob
<1>6. CASE StartWorker(w)
  <2>1. ASSUME NEW f \in Execs
        PROVE  (IF Orphan(f) THEN Recovered(jobs[f]) ELSE jobs[f]) \in Job \cup {None}
    BY RecoveredRow DEF Orphan, TypeOK, TablesOK
  <2>2. jobs' \in [Execs -> Job \cup {None}]
    BY <1>6, <2>1 DEF StartWorker, TypeOK, TablesOK
  <2>3. TablesOK'
    BY <1>6, <2>2 DEF StartWorker, TypeOK, TablesOK
  <2>. QED BY <1>6, <2>3, SameCounters DEF StartWorker
<1>7. CASE WorkerDies(w)
  BY <1>7, SameTables, SameCounters DEF WorkerDies
<1>. QED BY <1>1, <1>2, <1>3, <1>4, <1>5, <1>6, <1>7 DEF WorkerStep

\* The request handlers keep tables and counters well formed.
LEMMA ClientTables ==
  ASSUME Assumptions, TypeOK, NEW c \in Clients,
         HandlerStep(c) \/ ClientSends(c) \/ ClientDies(c)
  PROVE  TablesOK' /\ CountersOK'
<1> DEFINE x == loc[c]
           e == loc[c].exec
<1>0. c \in Threads
  BY DEF Threads
<1>b. Consistent(c, pc[c], x, job[c])
  BY <1>0 DEF TypeOK, ThreadsOK
<1>c. pc[c] \notin {"idle", "down"} => e \in Execs
  BY <1>b DEF Consistent
<1>1. CASE EnqueueJob(c)
  <2> DEFINE row == [status |-> "QUEUED", attempt |-> 0, owner |-> None, payload |-> None,
                     due |-> TRUE]
  <2>1. e \in Execs /\ row \in Job
    BY <1>c, <1>1 DEF EnqueueJob, Job, JobStatus
  <2>2. TablesOK'
    BY <1>1, <2>1, JobTables DEF EnqueueJob
  <2>. QED BY <1>1, <2>2, SameCounters DEF EnqueueJob
<1>2. CASE RequeueJob(c)
  <2> DEFINE row == [job[c] EXCEPT !.status = "QUEUED", !.owner = None, !.payload = x.choice,
                                   !.due = TRUE]
  <2>1. e \in Execs /\ job[c] \in Job /\ x.choice \in Decision
    BY <1>b, <1>2 DEF RequeueJob, Consistent
  <2>2. row \in Job
    BY <2>1 DEF Job, JobStatus
  <2>3. TablesOK'
    BY <1>2, <2>1, <2>2, JobTables DEF RequeueJob, UpdateJob
  <2>. QED BY <1>2, <2>3, SameCounters DEF RequeueJob
<1>3. ASSUME NEW f \in Execs, Cancellable(f), jobs' = [jobs EXCEPT ![f].status = "CANCELLED"],
             UNCHANGED <<execs, approvals, requests, gates, rows>>
      PROVE  TablesOK'
  <2>1. [jobs[f] EXCEPT !.status = "CANCELLED"] \in Job
    BY <1>3 DEF Cancellable, TypeOK, TablesOK, Job, JobStatus
  <2>. QED BY <1>3, <2>1, JobTables
<1>4. CASE CancelQueued(c)
  <2>1. TablesOK'
    BY <1>c, <1>3, <1>4, SameTables DEF CancelQueued, tables
  <2>. QED BY <1>4, <2>1, SameCounters DEF CancelQueued
<1>5. CASE CancelJob(c)
  <2>1. TablesOK'
    BY <1>3, <1>5 DEF CancelJob
  <2>. QED BY <1>5, <2>1, SameCounters DEF CancelJob, Sends
<1>6. CASE CancelExecution(c)
  <2>1. x.node \in Nodes \cup {None}
    BY <1>0 DEF TypeOK, ThreadsOK, Local
  <2>2. TablesOK'
    BY <1>6, <2>1, SaveTables DEF CancelExecution, TypeOK, ExecStatus
  <2>. QED BY <1>6, <2>2, SameCounters DEF CancelExecution
<1>7. CASE StartExecution(c)
  <2> DEFINE r == [status |-> "PENDING", node |-> None]
  <2>1. PICK f \in Execs : execs' = [execs EXCEPT ![f] = r]
    BY <1>7 DEF StartExecution
  <2>2. r \in Exec /\ r.status = "PENDING"
    BY DEF Exec, ExecStatus
  <2>3. UNCHANGED <<jobs, approvals, requests, gates, rows>>
    BY <1>7 DEF StartExecution
  <2> HIDE DEF r
  <2>4. execs' \in [Execs -> Exec \cup {None}]
    BY <2>1, <2>2 DEF TypeOK, TablesOK
  <2>5. TablesOK'
    BY <2>1, <2>2, <2>3, <2>4 DEF TypeOK, TablesOK
  <2>. QED BY <1>7, <2>5, SameCounters DEF StartExecution
<1>8. CASE AnswerRequest(c)
  <2>1. requests' = [requests EXCEPT ![e] = @ \ {x.via}]
    BY <1>8 DEF AnswerRequest
  <2>2. requests' \in [Execs -> SUBSET Request]
    BY <2>1 DEF TypeOK, TablesOK
  <2>3. TablesOK'
    BY <1>8, <2>2 DEF AnswerRequest, TypeOK, TablesOK
  <2>. QED BY <1>8, <2>3, SameCounters DEF AnswerRequest
<1>9. CASE ReceiveCancel(c)
  BY <1>9, SameTables, SameCounters DEF ReceiveCancel, Sends
<1>11. CASE ReadJobForResume(c) \/ ReceiveCallback(c)
  <2>1. PICK f \in Execs, d \in Decision : CountSent(f, d)
    BY <1>11 DEF ReadJobForResume, ReceiveCallback
  <2>2. UNCHANGED tables /\ \E op : Sends(c, op)
    BY <1>11 DEF ReadJobForResume, ReceiveCallback
  <2>3. sent' \in [Execs -> Nat]
    BY <2>1, CountType DEF CountSent, TypeOK, CountersOK
  <2>4. budget' \in [requests: Nat, crashes: Nat]
    <3>1. budget \in [requests: Nat, crashes: Nat]
      BY DEF TypeOK, CountersOK
    <3>2. budget.requests > 0 /\ budget' = [budget EXCEPT !.requests = @ - 1]
      BY <2>2 DEF Sends
    <3>. QED BY <3>1, <3>2
  <2>5. UNCHANGED <<grants, runs, passed>>
    BY <2>1 DEF CountSent
  <2>. QED BY <2>2, <2>3, <2>4, <2>5, SameTables DEF TypeOK, CountersOK
<1>10. CASE ReadForCancel(c) \/ CancelRefused(c) \/ ClientDies(c)
  BY <1>10, SameTables, SameCounters DEF ReadForCancel, CancelRefused, ClientDies
<1>. QED BY <1>1, <1>2, <1>4, <1>5, <1>6, <1>7, <1>8, <1>9, <1>10, <1>11
     DEF HandlerStep, ClientSends

\* So does a backoff delay that elapses.
LEMMA BackoffTypes ==
  ASSUME Assumptions, TypeOK, NEW e \in Execs, BackoffElapses(e)
  PROVE  TypeOK'
<1>0. jobs[e] \in Job
  BY DEF BackoffElapses, TypeOK, TablesOK
<1>1. [jobs[e] EXCEPT !.due = TRUE] \in Job
  BY <1>0 DEF Job
<1>2. TablesOK'
  BY <1>1, JobTables DEF BackoffElapses
<1>3. CountersOK'
  BY SameCounters DEF BackoffElapses
<1>4. ThreadsOK'
  BY DEF BackoffElapses, TypeOK, ThreadsOK, Consistent, locals
<1>. QED BY <1>2, <1>3, <1>4 DEF TypeOK

\* Type correctness, with what each thread must have read before it gets to
\* where it is (engine.py, worker.py and routes.py dereference it there): it is
\* inductive as it stands.
THEOREM TypeCorrect == Spec => []TypeOK
<1> USE Assumptions
<1>1. Init => TypeOK
  <2>1. Init => NoLocal \in Local /\ ThreadsOK
    BY DEF Init, NoLocal, Local, ThreadsOK, Consistent, Locations, WorkerOnly, ClientOnly, AtNode
  <2>2. Init => TablesOK /\ CountersOK
    BY DEF Assumptions, Init, TablesOK, CountersOK
  <2>. QED BY <2>1, <2>2 DEF TypeOK
<1>2. TypeOK /\ [Next]_vars => TypeOK'
  <2> SUFFICES ASSUME TypeOK, [Next]_vars PROVE TypeOK'
    OBVIOUS
  <2>1. ASSUME NEW t \in Threads, EngineStep(t) PROVE TypeOK'
    BY <2>1, EngineThreads, EngineTables DEF TypeOK
  <2>2. ASSUME NEW w \in Workers, WorkerStep(w) \/ WorkerDies(w) PROVE TypeOK'
    BY <2>2, WorkerThreads, WorkerTables DEF TypeOK
  <2>3. ASSUME NEW c \in Clients, HandlerStep(c) \/ ClientSends(c) \/ ClientDies(c) PROVE TypeOK'
    BY <2>3, ClientThreads, ClientTables DEF TypeOK
  <2>4. ASSUME NEW e \in Execs, BackoffElapses(e) PROVE TypeOK'
    BY <2>4, BackoffTypes
  <2>5. CASE UNCHANGED vars
    BY <2>5 DEF vars, TypeOK, ThreadsOK, TablesOK, CountersOK, Consistent
  <2>. QED BY <2>1, <2>2, <2>3, <2>4, <2>5 DEF Next
<1>. QED BY <1>1, <1>2, PTL DEF Spec

-----------------------------------------------------------------------------
(* No gated node runs without a grant.                                     *)
(*                                                                         *)
(* GatedRunsAreGranted is not inductive: a thread that resumes with an     *)
(* approved decision holds the right to bypass one gate, from DecideGate   *)
(* to BeginNode.  The runs of a node and the bypasses still held for it    *)
(* are together at most the grants, and only DecideGate hands out bypasses.*)

\* Threads that carry the permission to run node n of execution e once.
Bypasses(e, n) ==
  {t \in Threads : /\ pc[t] \in {"scan", "step", "gate"}
                   /\ loc[t].exec = e
                   /\ loc[t].bypass = n}

GateInv ==
  /\ \A e \in Execs, n \in Nodes : runs[e][n] + Cardinality(Bypasses(e, n)) <= grants[e][n]
  /\ \A t \in Threads : pc[t] \in {"clear", "begin"} => loc[t].bypass = None

\* Permissions are carried by finitely many threads.
LEMMA BypassesFinite ==
  ASSUME Assumptions, NEW e, NEW n
  PROVE  /\ IsFiniteSet(Bypasses(e, n)) /\ Cardinality(Bypasses(e, n)) \in Nat
         /\ IsFiniteSet(Bypasses(e, n)') /\ Cardinality(Bypasses(e, n)') \in Nat
<1>1. IsFiniteSet(Threads)
  BY FS_Union DEF Assumptions, Threads
<1>2. Bypasses(e, n) \subseteq Threads /\ Bypasses(e, n)' \subseteq Threads
  BY DEF Bypasses
<1>. QED BY <1>1, <1>2, FS_Subset, FS_CardinalityType

\* A step of thread t that hands it no bypass.
LEMMA NoNewBypass ==
  ASSUME Assumptions, ThreadsOK, GateInv, NEW t \in Threads, NEW l \in Locations, NEW x \in Local,
         pc' = [pc EXCEPT ![t] = l], loc' = [loc EXCEPT ![t] = x],
         l \in {"scan", "step", "gate"} =>
           \/ x.bypass = None
           \/ /\ pc[t] \in {"scan", "step", "gate"}
              /\ x.exec = loc[t].exec
              /\ x.bypass = loc[t].bypass,
         l \in {"clear", "begin"} => x.bypass = None
  PROVE  /\ \A e \in Execs, n \in Nodes : Bypasses(e, n)' \subseteq Bypasses(e, n)
         /\ (\A u \in Threads : pc[u] \in {"clear", "begin"} => loc[u].bypass = None)'
<1>1. /\ pc'[t] = l /\ loc'[t] = x
      /\ \A u \in Threads \ {t} : pc'[u] = pc[u] /\ loc'[u] = loc[u]
  BY DEF ThreadsOK
<1>2. ASSUME NEW e \in Execs, NEW n \in Nodes, NEW u \in Bypasses(e, n)'
      PROVE  u \in Bypasses(e, n)
  BY <1>1 DEF Bypasses, Assumptions
<1>3. ASSUME NEW u \in Threads, pc'[u] \in {"clear", "begin"} PROVE loc'[u].bypass = None
  BY <1>1, <1>3 DEF GateInv
<1>. QED BY <1>2, <1>3

\* A step that hands out no bypass and runs no gated node.
LEMMA GateInvKept ==
  ASSUME Assumptions, TypeOK, TypeOK', GateInv, runs' = runs,
         \A e \in Execs, n \in Nodes : grants'[e][n] >= grants[e][n],
         \A e \in Execs, n \in Nodes : Bypasses(e, n)' \subseteq Bypasses(e, n),
         (\A t \in Threads : pc[t] \in {"clear", "begin"} => loc[t].bypass = None)'
  PROVE  GateInv'
<1>1. ASSUME NEW e \in Execs, NEW n \in Nodes
      PROVE  (runs[e][n] + Cardinality(Bypasses(e, n)) <= grants[e][n])'
  <2> DEFINE B == Cardinality(Bypasses(e, n))
             C == Cardinality(Bypasses(e, n)')
  <2>1. C <= B /\ B \in Nat /\ C \in Nat
    BY BypassesFinite, FS_Subset
  <2>2. runs[e][n] \in Nat /\ grants[e][n] \in Nat /\ grants'[e][n] \in Nat
    BY DEF TypeOK, CountersOK
  <2>3. runs[e][n] + B <= grants[e][n] /\ grants[e][n] <= grants'[e][n]
    BY DEF GateInv
  <2> HIDE DEF B, C
  <2>4. runs[e][n] + C <= grants'[e][n]
    BY <2>1, <2>2, <2>3
  <2>. QED BY <2>4 DEF C
<1>. QED BY <1>1 DEF GateInv

\* A thread that leaves the engine forgets which gate it may pass.
LEMMA LeavingForgets ==
  ASSUME TypeOK, NEW t \in Threads, NEW r \in Outcome, LeaveEngine(t, r)
  PROVE  \E l \in {"settle", "idle"}, y \in Local :
           Goto(t, l) /\ loc' = [loc EXCEPT ![t] = y] /\ y.bypass = None
<1>1. NoLocal \in Local /\ NoLocal.bypass = None
  BY DEF Local, NoLocal
<1>2. CASE t \in Workers /\ Goto(t, "settle")
           /\ loc' = [loc EXCEPT ![t] = [NoLocal EXCEPT !.exec = loc[t].exec, !.result = r]]
  <2> DEFINE y == [NoLocal EXCEPT !.exec = loc[t].exec, !.result = r]
  <2>1. loc[t].exec \in Execs \cup {None}
    BY DEF TypeOK, ThreadsOK, Local
  <2>2. y \in Local /\ y.bypass = None
    BY <1>1, <2>1 DEF Local
  <2> HIDE DEF y
  <2>. QED BY <1>2, <2>2 DEF y
<1>3. CASE Goto(t, "idle") /\ loc' = [loc EXCEPT ![t] = NoLocal]
  BY <1>1, <1>3
<1>. QED BY <1>2, <1>3 DEF LeaveEngine

\* Engine: an approval hands out one permission, BeginNode uses it up.
LEMMA EngineGates ==
  ASSUME Assumptions, TypeOK, TypeOK', GateInv, NEW t \in Threads, EngineStep(t)
  PROVE  GateInv'
<1> DEFINE x == loc[t]
           e == loc[t].exec
<1>a. /\ ThreadsOK /\ x \in Local /\ pc[t] \in Locations
      /\ loc = [loc EXCEPT ![t] = x]
  BY DEF TypeOK, ThreadsOK
<1>b. \A f \in Execs, n \in Nodes : grants[f][n] \in Nat /\ grants[f][n] >= grants[f][n]
  BY DEF TypeOK, CountersOK
<1>c. ASSUME UNCHANGED history, NEW l \in Locations, NEW y \in Local, Goto(t, l),
             loc' = [loc EXCEPT ![t] = y], l \notin {"clear", "begin"},
             l \in {"scan", "step", "gate"} =>
               \/ y.bypass = None
               \/ /\ pc[t] \in {"scan", "step", "gate"}
                  /\ y.exec = x.exec
                  /\ y.bypass = x.bypass
      PROVE  GateInv'
  BY <1>a, <1>b, <1>c, NoNewBypass, GateInvKept DEF Goto, history
<1>d. ASSUME NEW r \in {"COMPLETED", "FAILED", "PAUSED", "ERROR"}, LeaveEngine(t, r),
             UNCHANGED runs, \A f \in Execs, n \in Nodes : grants'[f][n] >= grants[f][n],
             pc[t] \notin {"idle", "down"}
      PROVE  GateInv'
  <2>1. PICK l \in {"settle", "idle"}, y \in Local : Goto(t, l) /\ loc' = [loc EXCEPT ![t] = y]
    BY <1>d, LeavingForgets DEF Outcome
  <2>. QED BY <1>a, <1>d, <2>1, NoNewBypass, GateInvKept DEF Goto, Locations
<1>1. CASE ScanNodeRuns(t) \/ SaveCursor(t) \/ (BeginNode(t) /\ Mode[e] # "HUMAN_IN_LOOP")
  <2>1. rows[e] \in Nat
    BY <1>1 DEF TypeOK, ThreadsOK, TablesOK, Consistent, ScanNodeRuns, SaveCursor, BeginNode
  <2>2. [x EXCEPT !.count = rows[e]] \in Local
    BY <1>a, <2>1 DEF Local
  <2>3. CASE ScanNodeRuns(t)
    BY <1>a, <1>c, <2>2, <2>3 DEF ScanNodeRuns, Local, Locations
  <2>4. CASE SaveCursor(t)
    <3> DEFINE y == [x EXCEPT !.cursor = x.node]
    <3>1. y \in Local /\ y.exec = x.exec /\ y.bypass = x.bypass
      BY <1>a DEF Local
    <3>2. /\ pc[t] = "step" /\ UNCHANGED history /\ Goto(t, "gate")
          /\ loc' = [loc EXCEPT ![t] = y]
      BY <1>a, <2>4 DEF SaveCursor
    <3> HIDE DEF y
    <3>. QED BY <1>c, <3>1, <3>2 DEF Locations
  <2>5. CASE BeginNode(t) /\ Mode[e] # "HUMAN_IN_LOOP"
    <3>1. runs' = runs
      BY <2>5 DEF BeginNode, TypeOK, CountersOK
    <3>. QED BY <1>a, <1>c, <2>5, <3>1 DEF BeginNode, Locations, history
  <2>. QED BY <1>1, <2>3, <2>4, <2>5
<1>2. CASE BeginNode(t) /\ Mode[e] = "HUMAN_IN_LOOP"
  <2> DEFINE n == x.bypass
  <2>1. /\ pc[t] = "gate" /\ x.node = n /\ e \in Execs /\ n \in Nodes
        /\ runs' = [runs EXCEPT ![e][n] = @ + 1] /\ grants' = grants
        /\ pc' = [pc EXCEPT ![t] = "run"] /\ loc' = [loc EXCEPT ![t] = x]
    BY <1>2, <1>a DEF BeginNode, Goto, TypeOK, ThreadsOK, Consistent, AtNode
  <2>2. /\ \A f \in Execs, m \in Nodes : Bypasses(f, m)' \subseteq Bypasses(f, m)
        /\ (\A u \in Threads : pc[u] \in {"clear", "begin"} => loc[u].bypass = None)'
    BY <1>a, <2>1, NoNewBypass DEF Locations
  <2>3. t \in Bypasses(e, n) /\ t \notin Bypasses(e, n)'
    BY <2>1, <1>a DEF Bypasses, ThreadsOK
  <2>4. ASSUME NEW f \in Execs, NEW m \in Nodes
        PROVE  (runs[f][m] + Cardinality(Bypasses(f, m)) <= grants[f][m])'
    <3> DEFINE B == Cardinality(Bypasses(f, m))
               C == Cardinality(Bypasses(f, m)')
    <3>1. B \in Nat /\ C \in Nat /\ runs[f][m] \in Nat /\ grants[f][m] \in Nat
          /\ runs[f][m] + B <= grants[f][m]
      <4>1. B \in Nat /\ C \in Nat
        BY BypassesFinite
      <4>2. runs[f][m] \in Nat /\ grants[f][m] \in Nat
        BY DEF TypeOK, CountersOK
      <4>. QED BY <4>1, <4>2 DEF GateInv
    <3>2. CASE f = e /\ m = n
      <4>1. Bypasses(f, m)' \subseteq Bypasses(f, m) \ {t}
        <5>1. Bypasses(f, m)' \subseteq Bypasses(f, m)
          BY <2>2
        <5>2. t \notin Bypasses(f, m)'
          BY <2>1, <1>a DEF Bypasses, ThreadsOK
        <5>. QED BY <5>1, <5>2
      <4>2. C <= B - 1
        <5>1. IsFiniteSet(Bypasses(f, m)) /\ t \in Bypasses(f, m)
          BY <2>3, <3>2, BypassesFinite
        <5>2. /\ IsFiniteSet(Bypasses(f, m) \ {t})
              /\ Cardinality(Bypasses(f, m) \ {t}) = B - 1
          BY <5>1, FS_RemoveElement
        <5>. QED BY <4>1, <5>2, FS_Subset
      <4>3. runs'[f][m] = runs[f][m] + 1
        BY <2>1, <3>2 DEF TypeOK, CountersOK
      <4> HIDE DEF B, C
      <4>4. runs'[f][m] + C <= grants[f][m]
        BY <3>1, <4>2, <4>3
      <4>. QED BY <2>1, <4>4 DEF C
    <3>3. CASE f # e \/ m # n
      <4>1. C <= B
        BY <2>2, BypassesFinite, FS_Subset
      <4>2. runs'[f][m] = runs[f][m]
        BY <2>1, <3>3 DEF TypeOK, CountersOK
      <4> HIDE DEF B, C
      <4>3. runs'[f][m] + C <= grants[f][m]
        BY <3>1, <4>1, <4>2
      <4>. QED BY <2>1, <4>3 DEF C
    <3>. QED BY <3>2, <3>3
  <2>. QED BY <2>2, <2>4 DEF GateInv
<1>3. CASE DecideGate(t)
  <2> DEFINE n == x.appr.node
             y == [x EXCEPT !.bypass = n]
  <2>1. /\ pc[t] = "decide" /\ e \in Execs /\ n \in Nodes /\ runs' = runs
        /\ grants' = [grants EXCEPT ![e][n] = IF x.choice = "APPROVED" THEN @ + 1 ELSE @]
    BY <1>3 DEF DecideGate, TypeOK, ThreadsOK, Consistent, Approval
  <2>2. ASSUME NEW f \in Execs, NEW m \in Nodes
        PROVE  /\ grants'[f][m] >= grants[f][m]
               /\ f = e /\ m = n /\ x.choice = "APPROVED" => grants'[f][m] = grants[f][m] + 1
    <3>1. grants[f][m] \in Nat /\ grants \in [Execs -> [Nodes -> Nat]]
      BY DEF TypeOK, CountersOK
    <3>2. grants'[f][m] = IF f = e /\ m = n /\ x.choice = "APPROVED"
                          THEN grants[f][m] + 1 ELSE grants[f][m]
      BY <2>1, <3>1
    <3>. QED BY <3>1, <3>2
  <2>3. CASE LeaveEngine(t, "ERROR")
    BY <1>d, <2>1, <2>2, <2>3
  <2>4. CASE Goto(t, "reject") /\ UNCHANGED loc
    <3>1. /\ \A f \in Execs, m \in Nodes : Bypasses(f, m)' \subseteq Bypasses(f, m)
          /\ (\A u \in Threads : pc[u] \in {"clear", "begin"} => loc[u].bypass = None)'
      BY <1>a, <2>4, NoNewBypass DEF Goto, Locations
    <3>. QED BY <2>1, <2>2, <3>1, GateInvKept
  <2>5. CASE x.choice = "APPROVED" /\ Goto(t, "scan") /\ loc' = [loc EXCEPT ![t] = y]
    <3>1. y \in Local /\ y.exec = e /\ y.bypass = n
      BY <1>a, <2>1 DEF Local
    <3> HIDE DEF y
    <3>2. /\ pc'[t] = "scan" /\ loc'[t] = y
          /\ \A u \in Threads \ {t} : pc'[u] = pc[u] /\ loc'[u] = loc[u]
      BY <1>a, <2>5 DEF Goto, ThreadsOK
    <3>3. ASSUME NEW u \in Threads, pc'[u] \in {"clear", "begin"} PROVE loc'[u].bypass = None
      BY <3>2, <3>3 DEF GateInv
    <3>4. ASSUME NEW f \in Execs, NEW m \in Nodes
          PROVE  (runs[f][m] + Cardinality(Bypasses(f, m)) <= grants[f][m])'
      <4> DEFINE B == Cardinality(Bypasses(f, m))
                 C == Cardinality(Bypasses(f, m)')
      <4>1. B \in Nat /\ C \in Nat /\ runs[f][m] \in Nat /\ grants[f][m] \in Nat
            /\ grants'[f][m] \in Nat /\ runs[f][m] + B <= grants[f][m]
        BY BypassesFinite DEF TypeOK, CountersOK, GateInv
      <4>2. CASE f = e /\ m = n
        <5>1. Bypasses(f, m)' \subseteq Bypasses(f, m) \cup {t}
          BY <3>2 DEF Bypasses
        <5>2. IsFiniteSet(Bypasses(f, m) \cup {t})
              /\ Cardinality(Bypasses(f, m) \cup {t}) \in {B, B + 1}
          BY BypassesFinite, FS_AddElement
        <5>3. C <= B + 1
          BY <4>1, <5>1, <5>2, FS_Subset
        <5>4. grants'[f][m] = grants[f][m] + 1
          BY <2>2, <2>5, <4>2
        <5> HIDE DEF B, C
        <5>5. runs[f][m] + C <= grants'[f][m]
          BY <4>1, <5>3, <5>4
        <5>. QED BY <2>1, <5>5 DEF C
      <4>3. CASE f # e \/ m # n
        <5>1. Bypasses(f, m)' \subseteq Bypasses(f, m)
          BY <3>1, <3>2, <4>3 DEF Bypasses
        <5>2. C <= B
          BY <5>1, BypassesFinite, FS_Subset
        <5>3. grants'[f][m] >= grants[f][m]
          BY <2>2
        <5> HIDE DEF B, C
        <5>4. runs[f][m] + C <= grants'[f][m]
          BY <4>1, <5>2, <5>3
        <5>. QED BY <2>1, <5>4 DEF C
      <4>. QED BY <4>2, <4>3
    <3>. QED BY <3>3, <3>4 DEF GateInv
  <2>. QED BY <1>3, <2>3, <2>4, <2>5 DEF DecideGate
<1>4. CASE PauseForApproval(t)
  <2> DEFINE a == [id |-> gates[e] + 1, node |-> x.node, decision |-> None]
             y == [x EXCEPT !.appr = a]
  <2>1. e \in Execs /\ x.node \in Nodes /\ gates[e] + 1 \in Nat
    BY <1>4 DEF PauseForApproval, TypeOK, ThreadsOK, TablesOK, Consistent, AtNode
  <2>2. a \in Approval
    BY <2>1 DEF Approval
  <2>3. y \in Local
    BY <1>a, <2>2 DEF Local
  <2>4. UNCHANGED history /\ Goto(t, "ask") /\ loc' = [loc EXCEPT ![t] = y]
    BY <1>4 DEF PauseForApproval
  <2> HIDE DEF y
  <2>. QED BY <1>c, <2>3, <2>4 DEF Locations
<1>5. CASE FollowEdge(t)
  <2>1. PICK m \in Nodes :
          loc' = [loc EXCEPT ![t].node = m, ![t].bypass = None, ![t].count = @ + 1]
    BY <1>5 DEF FollowEdge, Targets
  <2> DEFINE y == [x EXCEPT !.node = m, !.bypass = None, !.count = @ + 1]
  <2>2. x.count + 1 \in Nat
    BY <1>a DEF Local
  <2>3. y \in Local /\ y.bypass = None
    BY <1>a, <2>2 DEF Local
  <2>4. loc' = [loc EXCEPT ![t] = y]
    BY <1>a, <2>1 DEF ThreadsOK
  <2>5. UNCHANGED history /\ Goto(t, "step")
    BY <1>5 DEF FollowEdge
  <2> HIDE DEF y
  <2>. QED BY <1>c, <2>3, <2>4, <2>5 DEF Locations
<1>6. CASE ReachLeaf(t) \/ NodeFails(t) \/ NoRoute(t)
  <2>1. PICK l \in {"complete", "fail"} : UNCHANGED history /\ UNCHANGED loc /\ Goto(t, l)
    BY <1>6 DEF ReachLeaf, NodeFails, NoRoute
  <2>. QED BY <1>a, <1>c, <2>1 DEF Locations
<1>7. CASE LookupExecution(t) \/ LookupApproval(t)
  <2>1. /\ UNCHANGED history
        /\ \E l \in {"approval", "decide"} : Goto(t, l)
        /\ \E y \in Local : loc' = [loc EXCEPT ![t] = y]
    <3>1. CASE LookupExecution(t)
      <4>1. [x EXCEPT !.node = execs[e].node, !.cursor = execs[e].node] \in Local
        BY <1>a, <3>1 DEF LookupExecution, TypeOK, ThreadsOK, TablesOK, Consistent, Local
      <4>2. loc' = [loc EXCEPT ![t] = [x EXCEPT !.node = execs[e].node, !.cursor = execs[e].node]]
        BY <1>a, <3>1 DEF LookupExecution, ThreadsOK
      <4>. QED BY <3>1, <4>1, <4>2 DEF LookupExecution
    <3>2. CASE LookupApproval(t)
      <4>1. PICK a \in Approval : loc' = [loc EXCEPT ![t].appr = a]
        BY <3>2 DEF LookupApproval, TypeOK, ThreadsOK, TablesOK, Consistent
      <4>2. [x EXCEPT !.appr = a] \in Local
        BY <1>a DEF Local
      <4>. QED BY <3>2, <4>1, <4>2 DEF LookupApproval
    <3>. QED BY <1>7, <3>1, <3>2
  <2>2. PICK l \in {"approval", "decide"}, y \in Local : Goto(t, l) /\ loc' = [loc EXCEPT ![t] = y]
    BY <2>1
  <2>3. l \in Locations \ {"clear", "begin", "scan", "step", "gate"}
    BY DEF Locations
  <2>. QED BY <1>c, <2>1, <2>2, <2>3
<1>8. CASE \/ DepthExceeded(t) \/ DenyByPolicy(t) \/ StopManual(t) \/ FailExecution(t)
           \/ RejectExecution(t) \/ NotResumable(t) \/ NothingToDecide(t) \/ AskApprovers(t)
           \/ CompleteExecution(t)
  <2>1. /\ pc[t] \notin {"idle", "down"} /\ UNCHANGED history
        /\ \E r \in {"COMPLETED", "FAILED", "PAUSED", "ERROR"} : LeaveEngine(t, r)
    BY <1>8 DEF DepthExceeded, DenyByPolicy, StopManual, FailExecution, RejectExecution,
                NotResumable, NothingToDecide, AskApprovers, CompleteExecution
  <2>2. PICK r \in {"COMPLETED", "FAILED", "PAUSED", "ERROR"} : LeaveEngine(t, r)
    BY <2>1
  <2>3. UNCHANGED runs /\ \A f \in Execs, n \in Nodes : grants'[f][n] >= grants[f][n]
    BY <1>b, <2>1 DEF history
  <2>. QED BY <1>d, <2>1, <2>2, <2>3
<1>9. CASE ScanNodeRuns(t) \/ SaveCursor(t) \/ BeginNode(t)
  <2>1. CASE Mode[e] = "HUMAN_IN_LOOP"
    BY <1>1, <1>2, <1>9, <2>1
  <2>2. CASE Mode[e] # "HUMAN_IN_LOOP"
    BY <1>1, <1>9, <2>2
  <2>. QED BY <2>1, <2>2
<1>. QED BY <1>3, <1>4, <1>5, <1>6, <1>7, <1>8, <1>9 DEF EngineStep

\* Workers never hand out a permission; a resumed job starts without one.
LEMMA WorkerGates ==
  ASSUME Assumptions, TypeOK, TypeOK', GateInv, NEW w \in Workers, WorkerStep(w) \/ WorkerDies(w)
  PROVE  GateInv'
<1> DEFINE x == loc[w]
<1>a. /\ ThreadsOK /\ x \in Local /\ pc[w] \in Locations /\ w \in Threads
      /\ loc = [loc EXCEPT ![w] = x] /\ NoLocal \in Local /\ NoLocal.bypass = None
  BY DEF TypeOK, ThreadsOK, Threads, Local, NoLocal
<1>b. /\ runs' = runs
      /\ \A f \in Execs, n \in Nodes : grants'[f][n] >= grants[f][n]
  <2>1. runs' = runs /\ grants' = grants
    BY DEF WorkerStep, Dequeue, ClearHistory, BundleMissing, BeginExecution, SettleJob,
           StartWorker, WorkerDies, history
  <2>. QED BY <2>1 DEF TypeOK, CountersOK
<1>c. ASSUME NEW l \in Locations, NEW y \in Local, Goto(w, l), loc' = [loc EXCEPT ![w] = y],
             l \in {"clear", "begin", "scan", "step", "gate"} => y.bypass = None
      PROVE  GateInv'
  BY <1>a, <1>b, <1>c, NoNewBypass, GateInvKept DEF Goto
<1>1. CASE Dequeue(w)
  <2>1. PICK l \in {"lookup", "clear", "begin"}, f \in Execs, d \in Decision \cup {None} :
          Goto(w, l) /\ loc' = [loc EXCEPT ![w] = [NoLocal EXCEPT !.exec = f, !.choice = d]]
    <3>1. PICK f \in Execs :
            LET row == [jobs[f] EXCEPT !.status = "RUNNING", !.owner = w, !.attempt = @ + 1]
            IN /\ NextJob(f)
               /\ loc' = [loc EXCEPT ![w] = [NoLocal EXCEPT !.exec = f, !.choice = row.payload]]
               /\ \E l \in {"lookup", "clear", "begin"} : Goto(w, l)
      BY <1>1 DEF Dequeue
    <3> DEFINE row == [jobs[f] EXCEPT !.status = "RUNNING", !.owner = w, !.attempt = @ + 1]
    <3>2. row \in Job
      BY <3>1, NextJobExists, TakenRow
    <3>3. row.payload \in Decision \cup {None}
      BY <3>2 DEF Job
    <3> HIDE DEF row
    <3>. QED BY <3>1, <3>3 DEF row
  <2> DEFINE y == [NoLocal EXCEPT !.exec = f, !.choice = d]
  <2>2. y \in Local /\ y.bypass = None
    BY DEF Local, NoLocal
  <2>3. l \in Locations
    BY DEF Locations
  <2> HIDE DEF y
  <2>. QED BY <1>c, <2>1, <2>2, <2>3 DEF y
<1>2. CASE ClearHistory(w)
  <2>1. pc[w] = "clear" /\ Goto(w, "begin") /\ loc' = loc
    BY <1>2 DEF ClearHistory
  <2>2. x.bypass = None
    BY <1>a, <2>1 DEF GateInv
  <2>. QED BY <1>a, <1>c, <2>1, <2>2 DEF Locations
<1>3. CASE BundleMissing(w)
  <2>1. LeaveEngine(w, "ERROR")
    BY <1>3 DEF BundleMissing
  <2>2. PICK l \in {"settle", "idle"}, y \in Local :
          Goto(w, l) /\ loc' = [loc EXCEPT ![w] = y] /\ y.bypass = None
    BY <1>a, <2>1, LeavingForgets DEF Outcome
  <2>3. l \in Locations
    BY DEF Locations
  <2>. QED BY <1>c, <2>2, <2>3
<1>4. CASE BeginExecution(w)
  <2> DEFINE y == [x EXCEPT !.node = EntryNode, !.cursor = EntryNode]
  <2>1. pc[w] = "begin" /\ Goto(w, "scan") /\ loc' = [loc EXCEPT ![w] = y]
    BY <1>a, <1>4 DEF BeginExecution, ThreadsOK
  <2>2. x.bypass = None
    BY <1>a, <2>1 DEF GateInv
  <2>3. EntryNode \in Nodes
    BY DEF Assumptions
  <2>4. y \in Local /\ y.bypass = x.bypass
    <3> HIDE DEF x
    <3>1. x \in Local
      BY <1>a DEF x
    <3>. QED BY <2>3, <3>1 DEF Local
  <2> HIDE DEF y
  <2>. QED BY <1>c, <2>1, <2>2, <2>4 DEF Locations
<1>5. CASE SettleJob(w)
  BY <1>a, <1>c, <1>5 DEF SettleJob, Finish, Locations
<1>6. CASE StartWorker(w)
  BY <1>a, <1>c, <1>6 DEF StartWorker, Locations
<1>7. CASE WorkerDies(w)
  BY <1>a, <1>c, <1>7 DEF WorkerDies, Goto, Locations
<1>. QED BY <1>1, <1>2, <1>3, <1>4, <1>5, <1>6, <1>7 DEF WorkerStep

\* Nor do request handlers.
LEMMA ClientGates ==
  ASSUME Assumptions, TypeOK, TypeOK', GateInv, NEW c \in Clients,
         HandlerStep(c) \/ ClientSends(c) \/ ClientDies(c)
  PROVE  GateInv'
<1> DEFINE x == loc[c]
           idle == {"idle", "enqueue", "requeue", "qcancel", "elookup", "ecancel", "answer", "lookup"}
<1>a. /\ ThreadsOK /\ c \in Threads
      /\ \A u \in Threads : pc[u] \in Locations /\ loc'[u] \in Local /\ pc'[u] \in Locations
  BY DEF TypeOK, ThreadsOK, Threads
<1>b. /\ runs' = runs
      /\ \A f \in Execs, n \in Nodes : grants'[f][n] >= grants[f][n]
  <2>1. runs' = runs /\ grants' = grants
    BY DEF HandlerStep, ClientSends, EnqueueJob, RequeueJob, CancelQueued, ReadForCancel,
           CancelRefused, CancelExecution, StartExecution, ReadJobForResume, ReceiveCancel,
           CancelJob, ReceiveCallback, AnswerRequest, ClientDies, CountSent, history
  <2>. QED BY <2>1 DEF TypeOK, CountersOK
<1>1. /\ pc'[c] \in idle
      /\ \A u \in Threads \ {c} : pc'[u] = pc[u] /\ loc'[u] = loc[u]
  BY <1>a DEF HandlerStep, ClientSends, EnqueueJob, RequeueJob, CancelQueued, ReadForCancel,
           CancelRefused, CancelExecution, StartExecution, ReadJobForResume, ReceiveCancel,
           CancelJob, ReceiveCallback, AnswerRequest, ClientDies, Finish, Goto, ThreadsOK
<1>2. \A f \in Execs, n \in Nodes : Bypasses(f, n)' \subseteq Bypasses(f, n)
  BY <1>1 DEF Bypasses
<1>3. ASSUME NEW u \in Threads, pc'[u] \in {"clear", "begin"} PROVE loc'[u].bypass = None
  BY <1>1, <1>3 DEF GateInv
<1>. QED BY <1>b, <1>2, <1>3, GateInvKept

\* engine.py, _run_loop and resume: a node of a HUMAN_IN_LOOP skill runs at most
\* once for every APPROVED decision the engine saved into an approval of that
\* node, for any number of workers, request threads, executions, crashes and
\* retries: the bypass a decision hands out fits its own gate only and is used
\* once.
THEOREM GatesHold == Spec => []GatedRunsAreGranted
<1> USE Assumptions
<1>1. Init => GateInv
  <2> SUFFICES ASSUME Init PROVE GateInv
    OBVIOUS
  <2>1. \A e \in Execs, n \in Nodes : Bypasses(e, n) = {} /\ runs[e][n] = 0 /\ grants[e][n] = 0
    BY DEF Init, Bypasses
  <2>2. \A t \in Threads : pc[t] = "idle"
    BY DEF Init
  <2>3. ASSUME NEW e \in Execs, NEW n \in Nodes
        PROVE  runs[e][n] + Cardinality(Bypasses(e, n)) <= grants[e][n]
    <3>1. Bypasses(e, n) = {} /\ runs[e][n] = 0 /\ grants[e][n] = 0
      BY <2>1
    <3>2. Cardinality(Bypasses(e, n)) = 0
      BY <3>1, FS_EmptySet
    <3>. QED BY <3>1, <3>2
  <2>. QED BY <2>2, <2>3 DEF GateInv
<1>2. TypeOK /\ TypeOK' /\ GateInv /\ [Next]_vars => GateInv'
  <2> SUFFICES ASSUME TypeOK, TypeOK', GateInv, [Next]_vars PROVE GateInv'
    OBVIOUS
  <2>1. ASSUME NEW t \in Threads, EngineStep(t) PROVE GateInv'
    BY <2>1, EngineGates
  <2>2. ASSUME NEW w \in Workers, WorkerStep(w) \/ WorkerDies(w) PROVE GateInv'
    BY <2>2, WorkerGates
  <2>3. ASSUME NEW c \in Clients, HandlerStep(c) \/ ClientSends(c) \/ ClientDies(c) PROVE GateInv'
    BY <2>3, ClientGates
  <2>4. ASSUME UNCHANGED <<pc, loc, runs, grants>> PROVE GateInv'
    BY <2>4 DEF GateInv, Bypasses
  <2>5. ASSUME NEW e \in Execs, BackoffElapses(e) PROVE GateInv'
    BY <2>4, <2>5 DEF BackoffElapses, locals, history
  <2>6. CASE UNCHANGED vars
    BY <2>4, <2>6 DEF vars
  <2>. QED BY <2>1, <2>2, <2>3, <2>5, <2>6 DEF Next
<1>3. TypeOK /\ GateInv => GatedRunsAreGranted
  <2> SUFFICES ASSUME TypeOK, GateInv, NEW e \in Execs, NEW n \in Nodes
               PROVE  runs[e][n] <= grants[e][n]
    BY DEF GatedRunsAreGranted
  <2>1. runs[e][n] + Cardinality(Bypasses(e, n)) <= grants[e][n]
    BY DEF GateInv
  <2>. QED BY <2>1, BypassesFinite DEF TypeOK, CountersOK
<1>. QED BY <1>1, <1>2, <1>3, TypeCorrect, PTL DEF Spec

-----------------------------------------------------------------------------
(* A held job is locked.                                                   *)
(*                                                                         *)
(* dequeue hands a row only to the worker that turned it RUNNING, and every *)
(* other statement on the jobs table looks for QUEUED, RETRYING or absent   *)
(* rows, with two exceptions: the resume route, which overwrites whatever   *)
(* it read, and recovery, which does not look whether the owner lives.      *)

\* Recovery cannot hit a live worker: it never commits (the audit repository
\* shares the database file), nothing is ever restarted, or there is one worker.
RecoveryIsHarmless ==
  AuditSharesDb \/ MaxCrashes = 0 \/ \A v, w \in Workers : v = w

LockInv ==
  /\ \A w \in Workers : Holds(w) =>
       jobs[loc[w].exec] = job[w] /\ job[w].owner = w /\ job[w].status = "RUNNING"
  /\ \A c \in Clients : pc[c] # "requeue"
  /\ \A c \in Clients : pc[c] = "enqueue" =>
       jobs[loc[c].exec] = None /\ execs[loc[c].exec] # None
  /\ \A c, d \in Clients :
       pc[c] = "enqueue" /\ pc[d] = "enqueue" /\ loc[c].exec = loc[d].exec => c = d
  /\ \A e \in Execs : execs[e] = None => jobs[e] = None
  /\ MaxCrashes = 0 => budget.crashes = 0 /\ \A w \in Workers : pc[w] # "down"

\* What a step of thread t may do besides touching the jobs table: keep its
\* job and its execution; nobody unsaves an execution.
Keeps(t) ==
  /\ job' = job
  /\ \A u \in Threads \ {t} : pc'[u] = pc[u] /\ loc'[u] = loc[u]
  /\ \A e \in Execs : execs'[e] = None => execs[e] = None
  /\ budget' = budget

\* A step of the engine touches no job and no other thread.
LEMMA EngineKeeps ==
  ASSUME Assumptions, TypeOK, TypeOK', NEW t \in Threads, EngineStep(t)
  PROVE  /\ jobs' = jobs /\ Keeps(t)
         /\ pc'[t] \notin {"down", "enqueue", "requeue"}
         /\ t \in Workers => Holds(t) /\ loc'[t].exec = loc[t].exec
<1> DEFINE x == loc[t]
<1>a. /\ ThreadsOK /\ x \in Local /\ pc[t] \in Locations
      /\ x.node \in Nodes \cup {None} /\ x.cursor \in Nodes \cup {None}
  BY DEF TypeOK, ThreadsOK, Local
<1>b. ASSUME NEW s \in ExecStatus, NEW n \in Nodes \cup {None}, SaveExecution(t, s, n)
      PROVE  \A e \in Execs : execs'[e] = None => execs[e] = None
  <2>1. execs' = [execs EXCEPT ![x.exec] = [status |-> s, node |-> n]]
    BY <1>b DEF SaveExecution
  <2> DEFINE r == [status |-> s, node |-> n]
  <2>2. r \in Exec /\ r # None
    BY DEF Exec, Assumptions
  <2> HIDE DEF r
  <2>. QED BY <2>1, <2>2 DEF r, TypeOK, TablesOK
<1>c. ASSUME NEW r, LeaveEngine(t, r)
      PROVE  /\ \A u \in Threads \ {t} : pc'[u] = pc[u] /\ loc'[u] = loc[u]
             /\ pc'[t] \in {"settle", "idle"}
             /\ t \in Workers => loc'[t].exec = x.exec
  <2>1. CASE /\ t \in Workers /\ Goto(t, "settle")
             /\ loc' = [loc EXCEPT ![t] = [NoLocal EXCEPT !.exec = loc[t].exec, !.result = r]]
    BY <1>a, <2>1 DEF Goto, ThreadsOK, NoLocal
  <2>2. CASE t \in Clients /\ Goto(t, "idle") /\ loc' = [loc EXCEPT ![t] = NoLocal]
    BY <1>a, <2>2 DEF Goto, ThreadsOK, Assumptions
  <2>. QED BY <1>c, <2>1, <2>2 DEF LeaveEngine
<1>d. ASSUME NEW l, Goto(t, l)
      PROVE  /\ \A u \in Threads \ {t} : pc'[u] = pc[u]
             /\ pc'[t] = l
  BY <1>a, <1>d DEF Goto, ThreadsOK
<1>1. jobs' = jobs /\ job' = job /\ budget' = budget /\ pc[t] \notin {"idle", "down"}
  BY DEF EngineStep, ScanNodeRuns, DepthExceeded, SaveCursor, DenyByPolicy, StopManual,
         PauseForApproval, AskApprovers, BeginNode, FollowEdge, ReachLeaf, NodeFails, NoRoute,
         FailExecution, CompleteExecution, LookupExecution, NotResumable, LookupApproval,
         NothingToDecide, DecideGate, RejectExecution, tables
<1>2. CASE \/ DepthExceeded(t) \/ DenyByPolicy(t) \/ StopManual(t) \/ FailExecution(t)
           \/ RejectExecution(t) \/ CompleteExecution(t)
  <2>1. /\ \E r : LeaveEngine(t, r)
        /\ \E s \in ExecStatus, n \in Nodes \cup {None} : SaveExecution(t, s, n)
    BY <1>a, <1>2 DEF DepthExceeded, DenyByPolicy, StopManual, FailExecution, RejectExecution,
                CompleteExecution, ExecStatus
  <2>. QED BY <1>1, <1>b, <1>c, <2>1 DEF Keeps, Holds
<1>3. CASE SaveCursor(t)
  <2>1. /\ Goto(t, "gate") /\ SaveExecution(t, "RUNNING", x.node)
        /\ loc'[t].exec = x.exec /\ \A u \in Threads \ {t} : loc'[u] = loc[u]
    BY <1>a, <1>3, CursorSaved DEF SaveCursor
  <2>2. \A e \in Execs : execs'[e] = None => execs[e] = None
    BY <1>a, <1>b, <2>1 DEF ExecStatus
  <2>. QED BY <1>1, <1>d, <2>1, <2>2 DEF Keeps, Holds
<1>4. CASE AskApprovers(t) \/ NotResumable(t) \/ NothingToDecide(t)
  <2>1. execs' = execs /\ \E r : LeaveEngine(t, r)
    BY <1>4 DEF AskApprovers, NotResumable, NothingToDecide, tables
  <2>. QED BY <1>1, <1>c, <2>1 DEF Keeps, Holds
<1>5. CASE \/ ScanNodeRuns(t) \/ PauseForApproval(t) \/ BeginNode(t) \/ ReachLeaf(t)
           \/ NodeFails(t) \/ NoRoute(t)
  <2>1. /\ execs' = execs
        /\ \E l \in {"step", "ask", "run", "complete", "fail"} : Goto(t, l)
    BY <1>5 DEF ScanNodeRuns, PauseForApproval, BeginNode, ReachLeaf, NodeFails, NoRoute, tables
  <2>2. /\ \A u \in Threads \ {t} : loc'[u] = loc[u]
        /\ loc'[t].exec = x.exec
    BY <1>5, <1>a DEF ScanNodeRuns, PauseForApproval, BeginNode, ReachLeaf, NodeFails, NoRoute,
                      ThreadsOK, Local
  <2>. QED BY <1>1, <1>d, <2>1, <2>2 DEF Keeps, Holds
<1>6. CASE FollowEdge(t) \/ LookupExecution(t) \/ LookupApproval(t)
  <2>1. /\ execs' = execs
        /\ \E l \in {"step", "approval", "decide"} : Goto(t, l)
    BY <1>6 DEF FollowEdge, LookupExecution, LookupApproval, tables
  <2>2. /\ \A u \in Threads \ {t} : loc'[u] = loc[u]
        /\ loc'[t].exec = x.exec
    <3>1. CASE FollowEdge(t)
      <4>1. PICK m : loc' = [loc EXCEPT ![t].node = m, ![t].bypass = None, ![t].count = @ + 1]
        BY <3>1 DEF FollowEdge
      <4>2. loc' = [loc EXCEPT ![t] = [x EXCEPT !.node = m, !.bypass = None, !.count = @ + 1]]
        BY <4>1, <1>a DEF ThreadsOK
      <4>. QED BY <4>2, <1>a DEF ThreadsOK, Local
    <3>2. CASE LookupExecution(t)
      BY <3>2, <1>a DEF LookupExecution, ThreadsOK, Local
    <3>3. CASE LookupApproval(t)
      <4>1. PICK a : loc' = [loc EXCEPT ![t].appr = a]
        BY <3>3 DEF LookupApproval
      <4>. QED BY <4>1, <1>a DEF ThreadsOK, Local
    <3>. QED BY <1>6, <3>1, <3>2, <3>3
  <2>. QED BY <1>1, <1>d, <2>1, <2>2 DEF Keeps, Holds
<1>7. CASE DecideGate(t)
  <2>1. execs' = execs
    BY <1>7 DEF DecideGate
  <2>2. CASE LeaveEngine(t, "ERROR")
    BY <1>1, <1>c, <2>1, <2>2 DEF Keeps, Holds
  <2>3. CASE Goto(t, "reject") /\ UNCHANGED loc
    BY <1>1, <1>d, <2>1, <2>3 DEF Keeps, Holds
  <2>4. CASE Goto(t, "scan") /\ loc' = [loc EXCEPT ![t].bypass = x.appr.node]
    <3>1. /\ \A u \in Threads \ {t} : loc'[u] = loc[u]
          /\ loc'[t].exec = x.exec
      BY <1>a, <2>4 DEF ThreadsOK, Local
    <3>. QED BY <1>1, <1>d, <2>1, <2>4, <3>1 DEF Keeps, Holds
  <2>. QED BY <1>7, <2>2, <2>3, <2>4 DEF DecideGate
<1>. QED BY <1>2, <1>3, <1>4, <1>5, <1>6, <1>7 DEF EngineStep

\* Steps of the engine keep LockInv.
LEMMA EngineLocks ==
  ASSUME Assumptions, TypeOK, TypeOK', LockInv, NEW t \in Threads, EngineStep(t)
  PROVE  LockInv'
<1>1. /\ jobs' = jobs /\ Keeps(t)
      /\ pc'[t] \notin {"down", "enqueue", "requeue"}
      /\ t \in Workers => Holds(t) /\ loc'[t].exec = loc[t].exec
  BY EngineKeeps
<1>2. ASSUME NEW w \in Workers, Holds(w)'
      PROVE  (jobs[loc[w].exec] = job[w] /\ job[w].owner = w /\ job[w].status = "RUNNING")'
  <2>1. Holds(w) /\ loc'[w].exec = loc[w].exec
    BY <1>1, <1>2 DEF Keeps, Holds, Threads
  <2>. QED BY <1>1, <2>1 DEF Keeps, LockInv
<1>3. (\A c \in Clients : pc[c] # "requeue")'
  BY <1>1 DEF Keeps, LockInv, Threads
<1>4. ASSUME NEW c \in Clients, pc'[c] = "enqueue"
      PROVE  pc[c] = "enqueue" /\ loc'[c] = loc[c] /\ loc[c].exec \in Execs
  BY <1>1, <1>4 DEF Keeps, Threads, TypeOK, ThreadsOK, Consistent
<1>5. ASSUME NEW c \in Clients, pc'[c] = "enqueue"
      PROVE  jobs'[loc'[c].exec] = None /\ execs'[loc'[c].exec] # None
  <2>1. jobs[loc[c].exec] = None /\ execs[loc[c].exec] # None
    BY <1>4, <1>5 DEF LockInv
  <2>. QED BY <1>1, <1>4, <1>5, <2>1 DEF Keeps
<1>6. (\A c, d \in Clients :
        pc[c] = "enqueue" /\ pc[d] = "enqueue" /\ loc[c].exec = loc[d].exec => c = d)'
  BY <1>4 DEF LockInv
<1>7. (\A e \in Execs : execs[e] = None => jobs[e] = None)'
  BY <1>1 DEF LockInv, Keeps
<1>8. (MaxCrashes = 0 => budget.crashes = 0 /\ \A w \in Workers : pc[w] # "down")'
  BY <1>1 DEF LockInv, Keeps, Threads
<1>. QED BY <1>2, <1>3, <1>5, <1>6, <1>7, <1>8 DEF LockInv

\* The execution of a job a worker holds.
LEMMA HeldExec ==
  ASSUME TypeOK, NEW v \in Workers, Holds(v)
  PROVE  loc[v].exec \in Execs
BY DEF Threads, Holds, TypeOK, ThreadsOK, Consistent

\* A row that waits in the queue, or is absent, is nobody's.
LEMMA WaitingIsFree ==
  ASSUME Assumptions, TypeOK, LockInv, NEW e \in Execs,
         jobs[e] = None \/ jobs[e].status # "RUNNING"
  PROVE  \A w \in Workers : Holds(w) => loc[w].exec # e
BY DEF LockInv, TypeOK, ThreadsOK, Consistent, Assumptions, Threads, Holds

\* The parts of LockInv about the request handlers, after a step of a worker.
LEMMA HandlersUndisturbed ==
  ASSUME Assumptions, TypeOK, LockInv,
         \A c \in Clients : pc'[c] = pc[c] /\ loc'[c] = loc[c],
         \A e \in Execs : jobs[e] = None => jobs'[e] = None,
         \A e \in Execs : execs'[e] = None => execs[e] = None
  PROVE  /\ (\A c \in Clients : pc[c] # "requeue")'
         /\ (\A c \in Clients : pc[c] = "enqueue" =>
               jobs[loc[c].exec] = None /\ execs[loc[c].exec] # None)'
         /\ (\A c, d \in Clients :
               pc[c] = "enqueue" /\ pc[d] = "enqueue" /\ loc[c].exec = loc[d].exec => c = d)'
         /\ (\A e \in Execs : execs[e] = None => jobs[e] = None)'
<1>1. ASSUME NEW c \in Clients, pc'[c] = "enqueue"
      PROVE  jobs'[loc'[c].exec] = None /\ execs'[loc'[c].exec] # None
  <2>1. pc[c] = "enqueue" /\ loc[c].exec \in Execs
    BY <1>1 DEF TypeOK, ThreadsOK, Consistent, Threads
  <2>2. jobs[loc[c].exec] = None /\ execs[loc[c].exec] # None
    BY <2>1 DEF LockInv
  <2>3. loc'[c] = loc[c]
    OBVIOUS
  <2>. QED BY <2>1, <2>2, <2>3
<1>2. /\ (\A c \in Clients : pc[c] # "requeue")'
      /\ (\A c, d \in Clients :
            pc[c] = "enqueue" /\ pc[d] = "enqueue" /\ loc[c].exec = loc[d].exec => c = d)'
  BY DEF LockInv
<1>3. (\A e \in Execs : execs[e] = None => jobs[e] = None)'
  BY DEF LockInv
<1>. QED BY <1>1, <1>2, <1>3

\* Steps of the workers keep LockInv: dequeue takes rows nobody holds, and
\* recovery is harmless.
LEMMA WorkerLocks ==
  ASSUME Assumptions, TypeOK, TypeOK', LockInv, RecoveryIsHarmless,
         NEW w \in Workers, WorkerStep(w) \/ WorkerDies(w)
  PROVE  LockInv'
<1> DEFINE x == loc[w]
           e == loc[w].exec
           Locked(v) == jobs[loc[v].exec] = job[v] /\ job[v].owner = v /\ job[v].status = "RUNNING"
           Handlers == /\ \A c \in Clients : pc'[c] = pc[c] /\ loc'[c] = loc[c]
                       /\ \A f \in Execs : jobs[f] = None => jobs'[f] = None
                       /\ \A f \in Execs : execs'[f] = None => execs[f] = None
<1>a. /\ ThreadsOK /\ w \in Threads /\ w \notin Clients /\ Clients \subseteq Threads
      /\ Workers \subseteq Threads
  BY DEF TypeOK, Threads, Assumptions
<1>b. pc[w] \notin {"idle", "down"} => e \in Execs /\ job[w] \in Job
  BY <1>a DEF ThreadsOK, Consistent
<1>c. \A u \in Threads \ {w} : pc'[u] = pc[u] /\ loc'[u] = loc[u] /\ job'[u] = job[u]
  BY <1>a DEF WorkerStep, Dequeue, ClearHistory, BundleMissing, BeginExecution, SettleJob,
        StartWorker, WorkerDies, Finish, Goto, LeaveEngine, ThreadsOK
<1>d. (MaxCrashes = 0 => budget.crashes = 0 /\ \A v \in Workers : pc[v] # "down")'
  <2> SUFFICES ASSUME MaxCrashes = 0 PROVE (budget.crashes = 0 /\ \A v \in Workers : pc[v] # "down")'
    OBVIOUS
  <2>1. budget.crashes = 0 /\ \A v \in Workers : pc[v] # "down"
    BY DEF LockInv
  <2>2. ~WorkerDies(w)
    BY <2>1 DEF WorkerDies
  <2>3. budget' = budget /\ pc'[w] # "down"
    BY <2>2, <1>a DEF WorkerStep, Dequeue, ClearHistory, BundleMissing, BeginExecution, SettleJob,
        StartWorker, Finish, Goto, LeaveEngine, ThreadsOK
  <2>. QED BY <1>a, <1>c, <2>1, <2>3
<1>e. ASSUME Handlers, \A v \in Workers : Holds(v)' => Locked(v)' PROVE LockInv'
  BY <1>d, <1>e, HandlersUndisturbed DEF LockInv
<1>f. ASSUME jobs' = jobs, NEW v \in Workers \ {w}, Holds(v)' PROVE Locked(v)'
  BY <1>a, <1>c, <1>f DEF LockInv, Holds
<1>1. CASE Dequeue(w)
  <2>1. PICK f \in Execs :
          LET row == [jobs[f] EXCEPT !.status = "RUNNING", !.owner = w, !.attempt = @ + 1]
          IN /\ NextJob(f)
             /\ jobs' = [jobs EXCEPT ![f] = row]
             /\ job' = [job EXCEPT ![w] = row]
             /\ loc' = [loc EXCEPT ![w] = [NoLocal EXCEPT !.exec = f, !.choice = row.payload]]
             /\ execs' = execs
    BY <1>1 DEF Dequeue
  <2> DEFINE row == [jobs[f] EXCEPT !.status = "RUNNING", !.owner = w, !.attempt = @ + 1]
  <2>2. jobs[f] \in Job /\ jobs[f].status # "RUNNING" /\ jobs[f] # None
    BY <2>1, NextJobExists DEF NextJob, Eligible
  <2>3. row.owner = w /\ row.status = "RUNNING"
    BY <2>2 DEF Job
  <2>4. Locked(w)'
    <3>1. jobs'[f] = row /\ job'[w] = row /\ loc'[w].exec = f
      BY <2>1, <1>a DEF ThreadsOK, NoLocal, TypeOK, TablesOK
    <3>. QED BY <2>3, <3>1
  <2>5. \A v \in Workers : Holds(v) => loc[v].exec # f
    BY <2>2, WaitingIsFree
  <2>6. ASSUME NEW v \in Workers \ {w}, Holds(v)' PROVE Locked(v)'
    <3>1. jobs' = [jobs EXCEPT ![f] = row] /\ v \in Workers /\ v # w
      BY <2>1
    <3> HIDE DEF row
    <3>2. pc'[v] = pc[v] /\ loc'[v] = loc[v] /\ job'[v] = job[v]
      BY <1>a, <1>c, <3>1
    <3>3. Holds(v) /\ loc[v].exec # f
      BY <2>5, <2>6, <3>1, <3>2 DEF Holds
    <3>4. jobs'[loc[v].exec] = jobs[loc[v].exec]
      BY <3>1, <3>3, HeldExec DEF TypeOK, TablesOK
    <3>. QED BY <3>1, <3>2, <3>3, <3>4 DEF LockInv
  <2>7. Handlers
    BY <1>a, <1>c, <2>1, <2>2 DEF TypeOK, TablesOK
  <2> HIDE DEF Locked, Handlers
  <2>. QED BY <1>e, <2>4, <2>6, <2>7
<1>2. CASE ClearHistory(w) \/ BeginExecution(w) \/ BundleMissing(w)
  <2>1. /\ jobs' = jobs /\ job' = job /\ Holds(w) /\ loc'[w].exec = e
    <3>1. CASE ClearHistory(w)
      BY <3>1 DEF ClearHistory, Holds
    <3>2. CASE BeginExecution(w)
      BY <3>2, <1>a DEF BeginExecution, ThreadsOK, Local, Holds
    <3>3. CASE BundleMissing(w)
      <4>1. loc' = [loc EXCEPT ![w] = [NoLocal EXCEPT !.exec = e, !.result = "ERROR"]]
        BY <3>3, <1>a DEF BundleMissing, LeaveEngine
      <4>2. loc'[w].exec = e
        BY <4>1, <1>a DEF ThreadsOK, NoLocal
      <4>. QED BY <3>3, <4>2 DEF BundleMissing, Holds, tables
    <3>. QED BY <1>2, <3>1, <3>2, <3>3
  <2>2. Locked(w)'
    BY <2>1 DEF LockInv
  <2>3. \A f \in Execs : execs'[f] = None => execs[f] = None
    <3>1. CASE ClearHistory(w) \/ BundleMissing(w)
      BY <3>1 DEF ClearHistory, BundleMissing, tables
    <3>2. CASE BeginExecution(w)
      <4> DEFINE r == [status |-> "RUNNING", node |-> EntryNode]
      <4>1. r \in Exec /\ r # None
        BY DEF Exec, ExecStatus, Assumptions
      <4>2. execs' = [execs EXCEPT ![e] = r]
        BY <3>2 DEF BeginExecution, SaveExecution
      <4> HIDE DEF r
      <4>. QED BY <4>1, <4>2 DEF TypeOK, TablesOK
    <3>. QED BY <1>2, <3>1, <3>2
  <2>4. Handlers
    BY <1>a, <1>c, <2>1, <2>3
  <2> HIDE DEF Locked, Handlers
  <2>. QED BY <1>e, <1>f, <2>1, <2>2, <2>4
<1>3. CASE SettleJob(w)
  <2>1. /\ jobs' = [jobs EXCEPT ![e] = Settled(job[w], x.result)] /\ e \in Execs
        /\ execs' = execs /\ pc'[w] = "idle" /\ Holds(w)
    BY <1>3, <1>a, <1>b DEF SettleJob, UpdateJob, Finish, Goto, ThreadsOK, Holds
  <2>2. jobs[e] = job[w] /\ job[w].owner = w /\ jobs[e] # None
    BY <2>1, <1>b DEF LockInv, Holds, Assumptions
  <2>3. \A v \in Workers \ {w} : Holds(v) => loc[v].exec # e
    BY <2>2 DEF LockInv
  <2>4. ASSUME NEW v \in Workers \ {w}, Holds(v)' PROVE Locked(v)'
    <3>1. v \in Workers /\ v # w
      OBVIOUS
    <3>2. pc'[v] = pc[v] /\ loc'[v] = loc[v] /\ job'[v] = job[v]
      BY <1>a, <1>c, <3>1
    <3>3. Holds(v) /\ loc[v].exec # e
      BY <2>3, <2>4, <3>1, <3>2 DEF Holds
    <3>4. jobs' = [jobs EXCEPT ![e] = Settled(job[w], x.result)]
      BY <2>1
    <3>5. jobs'[loc[v].exec] = jobs[loc[v].exec]
      BY <3>1, <3>3, <3>4, HeldExec DEF TypeOK, TablesOK
    <3>. QED BY <3>1, <3>2, <3>3, <3>5 DEF LockInv
  <2>5. Handlers
    BY <1>a, <1>c, <2>1, <2>2 DEF TypeOK, TablesOK
  <2>6. ~Holds(w)'
    BY <2>1 DEF Holds
  <2> HIDE DEF Locked, Handlers
  <2>. QED BY <1>e, <2>4, <2>5, <2>6
<1>4. CASE StartWorker(w)
  <2>1. pc[w] = "down" /\ pc'[w] = "idle" /\ execs' = execs
    BY <1>4, <1>a DEF StartWorker, Goto, ThreadsOK
  <2>2. Handlers
    BY <1>4, <1>a, <1>c, <2>1 DEF StartWorker, Orphan
  <2>3. \/ jobs' = jobs
        \/ \A v \in Workers \ {w} : FALSE
    BY <1>4, <2>1 DEF RecoveryIsHarmless, StartWorker, LockInv
  <2>4. \A v \in Workers : Holds(v)' => Locked(v)'
    <3>1. ~Holds(w)'
      BY <2>1 DEF Holds
    <3> HIDE DEF Locked
    <3>. QED BY <1>f, <2>3, <3>1
  <2> HIDE DEF Locked, Handlers
  <2>. QED BY <1>e, <2>2, <2>4
<1>5. CASE WorkerDies(w)
  <2>1. jobs' = jobs /\ execs' = execs /\ pc'[w] = "down"
    BY <1>5, <1>a DEF WorkerDies, tables, ThreadsOK
  <2>2. Handlers
    BY <1>a, <1>c, <2>1
  <2>3. ~Holds(w)'
    BY <2>1 DEF Holds
  <2> HIDE DEF Locked, Handlers
  <2>. QED BY <1>e, <1>f, <2>1, <2>2, <2>3
<1>. QED BY <1>1, <1>2, <1>3, <1>4, <1>5 DEF WorkerStep

LEMMA ClientLocks ==
  ASSUME Assumptions, TypeOK, TypeOK', LockInv, "resume" \notin Ops,
         NEW c \in Clients, HandlerStep(c) \/ ClientSends(c) \/ ClientDies(c)
  PROVE  LockInv'
<1> DEFINE e == loc[c].exec
           Locked(v) == jobs[loc[v].exec] = job[v] /\ job[v].owner = v /\ job[v].status = "RUNNING"
           Waits(d) == jobs[loc[d].exec] = None /\ execs[loc[d].exec] # None
           Distinct == \A b, d \in Clients :
             pc[b] = "enqueue" /\ pc[d] = "enqueue" /\ loc[b].exec = loc[d].exec => b = d
           Known == \A f \in Execs : execs[f] = None => jobs[f] = None
           Calls == {"idle", "qcancel", "elookup", "ecancel", "answer", "lookup"}
<1>a. /\ ThreadsOK /\ c \in Threads /\ c \notin Workers /\ Clients \subseteq Threads
      /\ Workers \subseteq Threads
  BY DEF TypeOK, Threads, Assumptions
<1>b. \A u \in Threads \ {c} : pc'[u] = pc[u] /\ loc'[u] = loc[u] /\ job'[u] = job[u]
  BY <1>a DEF HandlerStep, ClientSends, EnqueueJob, RequeueJob, CancelQueued, ReadForCancel,
           CancelRefused, CancelExecution, StartExecution, ReadJobForResume, ReceiveCancel,
           CancelJob, ReceiveCallback, AnswerRequest, ClientDies, Finish, Goto, ThreadsOK
<1>c. (MaxCrashes = 0 => budget.crashes = 0 /\ \A w \in Workers : pc[w] # "down")'
  <2> SUFFICES ASSUME MaxCrashes = 0 PROVE (budget.crashes = 0 /\ \A w \in Workers : pc[w] # "down")'
    OBVIOUS
  <2>1. budget.crashes = 0 /\ \A v \in Workers : pc[v] # "down"
    BY DEF LockInv
  <2>2. ~ClientDies(c)
    BY <2>1 DEF ClientDies
  <2>3. budget' = budget \/ budget' = [budget EXCEPT !.requests = @ - 1]
    BY <2>2 DEF HandlerStep, ClientSends, EnqueueJob, RequeueJob, CancelQueued, ReadForCancel,
           CancelRefused, CancelExecution, StartExecution, ReadJobForResume, ReceiveCancel,
           CancelJob, ReceiveCallback, AnswerRequest, Sends
  <2>4. budget'.crashes = budget.crashes
    BY <2>3 DEF TypeOK, CountersOK
  <2>. QED BY <1>a, <1>b, <2>1, <2>4
<1>d. ASSUME \A v \in Workers : Holds(v) => jobs'[loc[v].exec] = jobs[loc[v].exec],
             \A d \in Clients : pc'[d] = "enqueue" => Waits(d)',
             pc'[c] # "requeue", Distinct', Known'
      PROVE  LockInv'
  <2>1. ASSUME NEW v \in Workers, Holds(v)' PROVE Locked(v)'
    <3>1. pc'[v] = pc[v] /\ loc'[v] = loc[v] /\ job'[v] = job[v]
      BY <1>a, <1>b
    <3>2. Holds(v)
      BY <2>1, <3>1 DEF Holds
    <3>. QED BY <1>d, <3>1, <3>2 DEF LockInv
  <2>2. (\A d \in Clients : pc[d] # "requeue")'
    BY <1>a, <1>b, <1>d DEF LockInv
  <2>. QED BY <1>c, <1>d, <2>1, <2>2 DEF LockInv
<1>e. ASSUME jobs' = jobs, \A f \in Execs : execs'[f] = None => execs[f] = None, pc'[c] \in Calls
      PROVE  LockInv'
  <2>1. ASSUME NEW d \in Clients, pc'[d] = "enqueue"
        PROVE  pc[d] = "enqueue" /\ loc'[d] = loc[d] /\ Waits(d)'
    <3>1. pc[d] = "enqueue" /\ loc'[d] = loc[d] /\ loc[d].exec \in Execs
      BY <1>a, <1>b, <1>e, <2>1 DEF ThreadsOK, Consistent
    <3>2. jobs[loc[d].exec] = None /\ execs[loc[d].exec] # None
      BY <3>1 DEF LockInv
    <3>. QED BY <1>e, <3>1, <3>2
  <2>2. Distinct'
    BY <2>1 DEF LockInv
  <2>3. Known'
    BY <1>e DEF LockInv
  <2> HIDE DEF Distinct, Known, Waits
  <2>. QED BY <1>d, <1>e, <2>1, <2>2, <2>3
<1>1. CASE CancelQueued(c) \/ CancelJob(c)
  <2>1. pc'[c] = "elookup" /\ execs' = execs
        /\ (jobs' = jobs \/ \E f \in Execs : Cancellable(f) /\ jobs' = [jobs EXCEPT ![f].status = "CANCELLED"])
    BY <1>1, <1>a DEF CancelQueued, CancelJob, Goto, ThreadsOK, Consistent
  <2>2. CASE jobs' = jobs
    BY <1>e, <2>1, <2>2
  <2>3. ASSUME NEW f \in Execs, Cancellable(f), jobs' = [jobs EXCEPT ![f].status = "CANCELLED"]
        PROVE  LockInv'
    <3>1. jobs[f] # None /\ jobs[f].status # "RUNNING"
      BY <2>3 DEF Cancellable
    <3>2. \A g \in Execs : g # f => jobs'[g] = jobs[g]
      BY <2>3 DEF TypeOK, TablesOK
    <3>3. \A v \in Workers : Holds(v) => jobs'[loc[v].exec] = jobs[loc[v].exec]
      BY <3>1, <3>2, WaitingIsFree, HeldExec
    <3>4. ASSUME NEW d \in Clients, pc'[d] = "enqueue"
          PROVE  pc[d] = "enqueue" /\ loc'[d] = loc[d] /\ Waits(d)'
      <4>1. pc[d] = "enqueue" /\ loc'[d] = loc[d] /\ loc[d].exec \in Execs
        BY <1>a, <1>b, <2>1, <3>4 DEF ThreadsOK, Consistent
      <4>2. jobs[loc[d].exec] = None /\ execs[loc[d].exec] # None
        BY <4>1 DEF LockInv
      <4>. QED BY <2>1, <3>1, <3>2, <4>1, <4>2
    <3>5. Distinct'
      BY <3>4 DEF LockInv
    <3>6. Known'
      BY <2>1, <3>1, <3>2 DEF LockInv
    <3> HIDE DEF Distinct, Known, Waits
    <3>. QED BY <1>d, <2>1, <3>3, <3>4, <3>5, <3>6
  <2>. QED BY <2>1, <2>2, <2>3
<1>2. CASE EnqueueJob(c)
  <2>1. PICK row : jobs' = [jobs EXCEPT ![e] = row]
    BY <1>2 DEF EnqueueJob
  <2>2. /\ pc[c] = "enqueue" /\ pc'[c] = "idle" /\ execs' = execs /\ e \in Execs
        /\ jobs[e] = None /\ execs[e] # None
    BY <1>2, <1>a DEF EnqueueJob, Finish, Goto, ThreadsOK, Consistent, LockInv
  <2>3. \A g \in Execs : g # e => jobs'[g] = jobs[g]
    BY <2>1 DEF TypeOK, TablesOK
  <2>4. \A v \in Workers : Holds(v) => jobs'[loc[v].exec] = jobs[loc[v].exec]
    BY <2>2, <2>3, WaitingIsFree, HeldExec
  <2>5. ASSUME NEW d \in Clients, pc'[d] = "enqueue"
        PROVE  pc[d] = "enqueue" /\ loc'[d] = loc[d] /\ Waits(d)'
    <3>1. d # c /\ pc[d] = "enqueue" /\ loc'[d] = loc[d] /\ loc[d].exec \in Execs
      BY <1>a, <1>b, <2>2, <2>5 DEF ThreadsOK, Consistent
    <3>2. jobs[loc[d].exec] = None /\ execs[loc[d].exec] # None /\ loc[d].exec # e
      BY <2>2, <3>1 DEF LockInv
    <3>. QED BY <2>2, <2>3, <3>1, <3>2
  <2>6. Distinct'
    BY <2>5 DEF LockInv
  <2>7. Known'
    BY <2>2, <2>3 DEF LockInv
  <2> HIDE DEF Distinct, Known, Waits
  <2>. QED BY <1>d, <2>2, <2>4, <2>5, <2>6, <2>7
<1>3. CASE StartExecution(c)
  <2> DEFINE r == [status |-> "PENDING", node |-> None]
  <2>1. PICK f \in Execs :
          /\ execs[f] = None /\ execs' = [execs EXCEPT ![f] = r]
          /\ loc' = [loc EXCEPT ![c].exec = f]
    BY <1>3 DEF StartExecution
  <2>2. r # None
    <3>1. r \in Exec
      BY DEF Exec, ExecStatus
    <3> HIDE DEF r
    <3>. QED BY <3>1 DEF Assumptions
  <2> HIDE DEF r
  <2>3. jobs' = jobs /\ pc'[c] = "enqueue" /\ loc'[c].exec = f
    BY <1>3, <1>a, <2>1 DEF StartExecution, Goto, ThreadsOK, Local
  <2>4. execs'[f] # None /\ \A g \in Execs : g # f => execs'[g] = execs[g]
    BY <2>1, <2>2 DEF TypeOK, TablesOK
  <2>5. jobs[f] = None
    BY <2>1 DEF LockInv
  <2>6. ASSUME NEW d \in Clients, pc'[d] = "enqueue", d # c
        PROVE  pc[d] = "enqueue" /\ loc'[d] = loc[d] /\ loc[d].exec # f /\ Waits(d)'
    <3>1. pc[d] = "enqueue" /\ loc'[d] = loc[d] /\ loc[d].exec \in Execs
      BY <1>a, <1>b, <2>6 DEF ThreadsOK, Consistent
    <3>2. jobs[loc[d].exec] = None /\ execs[loc[d].exec] # None
      BY <3>1 DEF LockInv
    <3>. QED BY <2>1, <2>3, <2>4, <3>1, <3>2
  <2>7. \A d \in Clients : pc'[d] = "enqueue" => Waits(d)'
    BY <2>3, <2>4, <2>5, <2>6
  <2>8. Distinct'
    BY <2>3, <2>6 DEF LockInv
  <2>9. Known'
    BY <2>3, <2>4 DEF LockInv
  <2> HIDE DEF Distinct, Known, Waits
  <2>. QED BY <1>d, <2>3, <2>7, <2>8, <2>9
<1>4. CASE RequeueJob(c) \/ ReadJobForResume(c)
  BY <1>4 DEF RequeueJob, ReadJobForResume, Sends, LockInv
<1>5. CASE CancelExecution(c)
  <2> DEFINE r == [status |-> "CANCELLED", node |-> loc[c].node]
  <2>1. r # None
    <3>1. r \in Exec
      BY <1>a DEF ThreadsOK, Local, Exec, ExecStatus
    <3> HIDE DEF r
    <3>. QED BY <3>1 DEF Assumptions
  <2>2. jobs' = jobs /\ pc'[c] = "idle" /\ execs' = [execs EXCEPT ![e] = r]
    BY <1>5, <1>a DEF CancelExecution, SaveExecution, Finish, Goto, ThreadsOK
  <2> HIDE DEF r
  <2>3. \A f \in Execs : execs'[f] = None => execs[f] = None
    BY <2>1, <2>2 DEF TypeOK, TablesOK
  <2>. QED BY <1>e, <2>2, <2>3
<1>6. CASE ReadForCancel(c) \/ CancelRefused(c) \/ ReceiveCancel(c) \/ ClientDies(c)
                                                              \/ ReceiveCallback(c) \/ AnswerRequest(c)
  <2>1. jobs' = jobs /\ execs' = execs /\ pc'[c] \in Calls
    BY <1>6, <1>a DEF ReadForCancel, CancelRefused, ReceiveCancel, ReceiveCallback, AnswerRequest, ClientDies,
                      Finish, Goto, ThreadsOK, tables
  <2>. QED BY <1>e, <2>1
<1>. QED BY <1>1, <1>2, <1>3, <1>4, <1>5, <1>6 DEF HandlerStep, ClientSends

LEMMA LockInvHolds ==
  ASSUME "resume" \notin Ops, RecoveryIsHarmless
  PROVE  Spec => []LockInv
<1> USE Assumptions
<1>1. Init => LockInv
  BY DEF Init, LockInv, Holds, Threads
<1>2. TypeOK /\ TypeOK' /\ LockInv /\ [Next]_vars => LockInv'
  <2> SUFFICES ASSUME TypeOK, TypeOK', LockInv, [Next]_vars PROVE LockInv'
    OBVIOUS
  <2>1. ASSUME NEW t \in Threads, EngineStep(t) PROVE LockInv'
    BY <2>1, EngineLocks
  <2>2. ASSUME NEW w \in Workers, WorkerStep(w) \/ WorkerDies(w) PROVE LockInv'
    BY <2>2, WorkerLocks
  <2>3. ASSUME NEW c \in Clients, HandlerStep(c) \/ ClientSends(c) \/ ClientDies(c) PROVE LockInv'
    BY <2>3, ClientLocks
  <2>4. ASSUME NEW e \in Execs, BackoffElapses(e) PROVE LockInv'
    <3>1. /\ jobs' = [jobs EXCEPT ![e].due = TRUE] /\ jobs[e] # None /\ jobs[e].status # "RUNNING"
          /\ UNCHANGED <<execs, pc, loc, job, budget>>
      BY <2>4 DEF BackoffElapses, locals
    <3>2. \A g \in Execs : g # e => jobs'[g] = jobs[g]
      BY <3>1 DEF TypeOK, TablesOK
    <3>3. \A v \in Workers : Holds(v) => jobs'[loc[v].exec] = jobs[loc[v].exec]
      BY <3>1, <3>2, WaitingIsFree, HeldExec
    <3>4. \A d \in Clients : pc[d] = "enqueue" => loc[d].exec \in Execs /\ loc[d].exec # e
      BY <3>1 DEF LockInv, TypeOK, ThreadsOK, Consistent, Threads
    <3>5. \A f \in Execs : execs[f] = None => f # e
      BY <3>1 DEF LockInv
    <3>. QED BY <3>1, <3>2, <3>3, <3>4, <3>5 DEF LockInv, Holds
  <2>5. CASE UNCHANGED vars
    BY <2>5 DEF vars, LockInv, Holds
  <2>. QED BY <2>1, <2>2, <2>3, <2>4, <2>5 DEF Next
<1>. QED BY <1>1, <1>2, TypeCorrect, PTL DEF Spec

\* queue.py, dequeue, "locks" a job for one worker: while the worker processes
\* it, nobody else holds or changes its row, so the blind update_job at the end
\* loses nothing.  For any number of jobs, requests and crashes, provided nobody
\* sends resume requests and recovery cannot hit a live worker.
THEOREM LockHolds ==
  ASSUME "resume" \notin Ops, RecoveryIsHarmless
  PROVE  Spec => []HeldJobIsLocked
<1>1. LockInv => HeldJobIsLocked
  BY DEF LockInv, HeldJobIsLocked
<1>. QED BY <1>1, LockInvHolds, PTL

-----------------------------------------------------------------------------
(* JobRuntime implements JobLifecycle under the assumptions of LockHolds:  *)
(* since the row of a held job is the worker's copy, what the worker       *)
(* settles is a step from RUNNING.  AttemptInv bounds the attempts.        *)

InQueue(r) == r.status \in {"QUEUED", "RETRYING"}

AttemptOK(r) == r.attempt <= MaxAttempts /\ (InQueue(r) => r.attempt < MaxAttempts)

AttemptInv == \A e \in Execs : jobs[e] # None => AttemptOK(jobs[e])

\* What a step may do to the row r of a job, s being the row afterwards.
RowStep(r, s) ==
  \/ s = r
  \/ r = None /\ s # None /\ s.status = "QUEUED" /\ s.attempt = 0
  \/ /\ r # None /\ s # None /\ InQueue(r)
     /\ s.status = "RUNNING" /\ s.attempt = r.attempt + 1
  \/ /\ r # None /\ s # None /\ s.attempt = r.attempt
     /\ \/ s.status = r.status
        \/ InQueue(r) /\ s.status = "CANCELLED"
        \/ r.status = "RUNNING" /\ s.status = "COMPLETED"
        \/ r.status = "RUNNING" /\ InQueue(s) /\ r.attempt < MaxAttempts
        \/ r.status = "RUNNING" /\ s.status = "FAILED" /\ r.attempt >= MaxAttempts

LEMMA KeptAttempts ==
  ASSUME NEW r, NEW s, r # None, r.attempt \in Nat, MaxAttempts \in Nat, AttemptOK(r),
         RowStep(r, s)
  PROVE  AttemptOK(s)
<1>1. CASE InQueue(r) /\ s.status = "RUNNING" /\ s.attempt = r.attempt + 1
  BY <1>1 DEF AttemptOK, InQueue
<1>2. CASE s.attempt = r.attempt /\ (InQueue(s) => InQueue(r) \/ r.attempt < MaxAttempts)
  BY <1>2 DEF AttemptOK
<1>. QED BY <1>1, <1>2 DEF RowStep, InQueue

\* Steps of this form keep AttemptInv and are steps of the abstract life cycle.
LEMMA RowStepsRefine ==
  ASSUME Assumptions, TypeOK, TypeOK', AttemptInv, \A e \in Execs : RowStep(jobs[e], jobs'[e])
  PROVE  AttemptInv' /\ Lifecycle!Next
<1>1. ASSUME NEW e \in Execs, jobs[e] # None
      PROVE  /\ jobs[e].attempt \in Nat /\ MaxAttempts \in Nat /\ AttemptOK(jobs[e])
             /\ jobs[e].status # "ABSENT"
  BY <1>1 DEF Assumptions, TypeOK, TablesOK, Job, JobStatus, AttemptInv
<1>2. ASSUME NEW e \in Execs, jobs'[e] # None PROVE AttemptOK(jobs'[e])
  <2>1. CASE jobs[e] = None
    BY <1>2, <2>1 DEF RowStep, AttemptOK, InQueue, Assumptions
  <2>2. CASE jobs[e] # None
    BY <1>1, <1>2, <2>2, KeptAttempts
  <2>. QED BY <2>1, <2>2
<1>3. ASSUME NEW e \in Execs
      PROVE  Lifecycle!JobStep(e) \/ Lifecycle!Stays(e)
  <2> DEFINE r == jobs[e]
             s == jobs'[e]
  <2>1. CASE r = None /\ s = None
    <3>1. Lifecycle!Stays(e)
      BY <2>1 DEF Lifecycle!Stays, Lifecycle!Becomes
    <3>. QED BY <3>1
  <2>2. CASE r = None /\ s # None /\ s.status = "QUEUED" /\ s.attempt = 0
    <3>1. Lifecycle!Submit(e)
      BY <2>2 DEF Lifecycle!Submit, Lifecycle!Becomes
    <3>. QED BY <3>1 DEF Lifecycle!JobStep
  <2>3. CASE r # None /\ s # None
    <3>1. r.attempt \in Nat /\ MaxAttempts \in Nat /\ AttemptOK(r)
      BY <1>1, <2>3
    <3>2. CASE s.status = r.status /\ s.attempt = r.attempt
      <4>1. Lifecycle!Stays(e)
        BY <2>3, <3>2 DEF Lifecycle!Stays, Lifecycle!Becomes
      <4>. QED BY <4>1
    <3>3. CASE InQueue(r) /\ s.status = "RUNNING" /\ s.attempt = r.attempt + 1
      <4>1. r.attempt < MaxAttempts
        BY <3>1, <3>3 DEF AttemptOK
      <4>2. Lifecycle!Take(e)
        BY <2>3, <3>3, <4>1 DEF InQueue, Lifecycle!Take, Lifecycle!Becomes
      <4>. QED BY <4>2 DEF Lifecycle!JobStep
    <3>4. CASE InQueue(r) /\ s.status = "CANCELLED" /\ s.attempt = r.attempt
      <4>1. Lifecycle!Withdraw(e)
        BY <2>3, <3>4 DEF InQueue, Lifecycle!Withdraw, Lifecycle!Becomes
      <4>. QED BY <4>1 DEF Lifecycle!JobStep
    <3>5. CASE r.status = "RUNNING" /\ s.status = "COMPLETED" /\ s.attempt = r.attempt
      <4>1. Lifecycle!Complete(e)
        BY <2>3, <3>5 DEF Lifecycle!Complete, Lifecycle!Becomes
      <4>. QED BY <4>1 DEF Lifecycle!JobStep
    <3>6. CASE r.status = "RUNNING" /\ InQueue(s) /\ r.attempt < MaxAttempts /\ s.attempt = r.attempt
      <4>1. Lifecycle!PutBack(e)
        BY <2>3, <3>6 DEF InQueue, Lifecycle!PutBack, Lifecycle!Becomes
      <4>. QED BY <4>1 DEF Lifecycle!JobStep
    <3>7. CASE r.status = "RUNNING" /\ s.status = "FAILED" /\ r.attempt >= MaxAttempts
               /\ s.attempt = r.attempt
      <4>1. r.attempt = MaxAttempts
        BY <3>1, <3>7 DEF AttemptOK
      <4>2. Lifecycle!GiveUp(e)
        BY <2>3, <3>7, <4>1 DEF Lifecycle!GiveUp, Lifecycle!Becomes
      <4>. QED BY <4>2 DEF Lifecycle!JobStep
    <3>8. RowStep(r, s)
      OBVIOUS
    <3> HIDE DEF r, s
    <3>. QED BY <2>3, <3>2, <3>3, <3>4, <3>5, <3>6, <3>7, <3>8 DEF RowStep
  <2>4. \/ r = None /\ s = None
        \/ r = None /\ s # None /\ s.status = "QUEUED" /\ s.attempt = 0
        \/ r # None /\ s # None
    <3>1. RowStep(r, s)
      OBVIOUS
    <3> HIDE DEF r, s
    <3>. QED BY <3>1 DEF RowStep
  <2>. QED BY <2>1, <2>2, <2>3, <2>4
<1>4. Lifecycle!Next
  <2>1. DOMAIN [f \in Execs |-> IF jobs[f] = None THEN "ABSENT" ELSE jobs[f].status]' = Execs
    OBVIOUS
  <2>2. DOMAIN [f \in Execs |-> IF jobs[f] = None THEN 0 ELSE jobs[f].attempt]' = Execs
    OBVIOUS
  <2>. QED BY <1>3, <2>1, <2>2 DEF Lifecycle!Next
<1>. QED BY <1>2, <1>4 DEF AttemptInv

\* A row of another job stays as it is.
LEMMA OneRow ==
  ASSUME TypeOK, NEW e \in Execs, NEW s, jobs' = [jobs EXCEPT ![e] = s], RowStep(jobs[e], s)
  PROVE  \A f \in Execs : RowStep(jobs[f], jobs'[f])
BY DEF TypeOK, TablesOK, RowStep

\* Steps of the workers, which only settle rows they hold.
LEMMA WorkerRows ==
  ASSUME Assumptions, TypeOK, LockInv, NEW w \in Workers, WorkerStep(w) \/ WorkerDies(w)
  PROVE  \A e \in Execs : RowStep(jobs[e], jobs'[e])
<1>1. CASE Dequeue(w)
  <2>1. PICK f \in Execs : /\ NextJob(f)
                           /\ jobs' = [jobs EXCEPT ![f] =
                                [jobs[f] EXCEPT !.status = "RUNNING", !.owner = w, !.attempt = @ + 1]]
    BY <1>1 DEF Dequeue
  <2>2. PICK s : s = [jobs[f] EXCEPT !.status = "RUNNING", !.owner = w, !.attempt = @ + 1]
    OBVIOUS
  <2>3. jobs[f] \in Job /\ jobs[f] # None /\ InQueue(jobs[f])
    BY <2>1, NextJobExists DEF NextJob, Eligible, InQueue
  <2>4. s.status = "RUNNING" /\ s.attempt = jobs[f].attempt + 1 /\ s \in Job
    <3>1. PICK n \in Nat : n = jobs[f].attempt + 1
      BY <2>3 DEF Job
    <3>2. s = [jobs[f] EXCEPT !.status = "RUNNING", !.owner = w, !.attempt = n]
      BY <2>2, <3>1
    <3>. QED BY <2>3, <3>1, <3>2 DEF Job, JobStatus
  <2>5. RowStep(jobs[f], s)
    BY <2>3, <2>4 DEF RowStep, Assumptions
  <2>. QED BY <2>1, <2>2, <2>5, OneRow
<1>2. CASE SettleJob(w)
  <2> DEFINE e == loc[w].exec
             r == loc[w].result
  <2>1. /\ jobs' = [jobs EXCEPT ![e] = Settled(job[w], r)] /\ e \in Execs
        /\ job[w] \in Job /\ jobs[e] = job[w] /\ jobs[e].status = "RUNNING" /\ jobs[e] # None
    BY <1>2 DEF SettleJob, UpdateJob, Holds, LockInv, TypeOK, ThreadsOK, Consistent, Threads,
                Assumptions
  <2>2. PICK s : s = Settled(job[w], r)
    OBVIOUS
  <2>3. s \in Job /\ s.attempt = job[w].attempt
    BY <2>1, <2>2, <1>2 DEF Settled, Job, JobStatus
  <2>4. \/ s.status \in {"COMPLETED", "RUNNING"}
        \/ s.status = "RETRYING" /\ job[w].attempt < MaxAttempts
        \/ s.status = "FAILED" /\ job[w].attempt >= MaxAttempts
    <3>1. job[w].attempt \in Nat /\ MaxAttempts \in Nat
      BY <2>1 DEF Job, Assumptions
    <3>2. r \in {"COMPLETED", "PAUSED", "FAILED", "ERROR"}
      BY <1>2 DEF SettleJob, TypeOK, ThreadsOK, Consistent, Threads, Outcome
    <3>3. CASE r \in {"COMPLETED", "PAUSED"}
      BY <2>1, <2>2, <3>3 DEF Settled, Job
    <3>4. CASE r \in {"FAILED", "ERROR"}
      BY <2>1, <2>2, <3>1, <3>4 DEF Settled, Job
    <3>. QED BY <3>2, <3>3, <3>4
  <2>5. RowStep(jobs[e], s)
    BY <2>1, <2>3, <2>4 DEF RowStep, InQueue, Assumptions
  <2>. QED BY <2>1, <2>2, <2>5, OneRow
<1>3. CASE StartWorker(w)
  <2> SUFFICES ASSUME NEW e \in Execs, jobs'[e] # jobs[e] PROVE RowStep(jobs[e], jobs'[e])
    BY DEF RowStep
  <2>1. jobs'[e] = Recovered(jobs[e]) /\ jobs[e] # None /\ jobs[e].status = "RUNNING"
    BY <1>3 DEF StartWorker, Orphan
  <2>2. jobs[e] \in Job /\ jobs[e].attempt \in Nat
    BY <2>1 DEF TypeOK, TablesOK, Job
  <2>3. PICK s : s = Recovered(jobs[e])
    OBVIOUS
  <2>4. s \in Job /\ s.attempt = jobs[e].attempt
    BY <2>2, <2>3 DEF Recovered, Job, JobStatus
  <2>5. \/ s.status = "QUEUED" /\ jobs[e].attempt < MaxAttempts
        \/ s.status = "FAILED" /\ jobs[e].attempt >= MaxAttempts
    BY <2>2, <2>3 DEF Recovered, Job, Assumptions
  <2>. QED BY <2>1, <2>3, <2>4, <2>5 DEF RowStep, InQueue, Assumptions
<1>4. CASE ClearHistory(w) \/ BundleMissing(w) \/ BeginExecution(w) \/ WorkerDies(w)
  BY <1>4 DEF ClearHistory, BundleMissing, BeginExecution, WorkerDies, tables, RowStep
<1>. QED BY <1>1, <1>2, <1>3, <1>4 DEF WorkerStep

\* Steps of the request handlers: a job is submitted once, and cancelled only
\* while it waits.
LEMMA ClientRows ==
  ASSUME Assumptions, TypeOK, LockInv, "resume" \notin Ops,
         NEW c \in Clients, HandlerStep(c) \/ ClientSends(c) \/ ClientDies(c)
  PROVE  \A e \in Execs : RowStep(jobs[e], jobs'[e])
<1>1. CASE EnqueueJob(c)
  <2>1. PICK s : s = [status |-> "QUEUED", attempt |-> 0, owner |-> None, payload |-> None,
                      due |-> TRUE]
    OBVIOUS
  <2>2. jobs' = [jobs EXCEPT ![loc[c].exec] = s]
    BY <1>1, <2>1 DEF EnqueueJob
  <2>3. jobs[loc[c].exec] = None /\ loc[c].exec \in Execs
    BY <1>1 DEF EnqueueJob, LockInv, TypeOK, ThreadsOK, Consistent, Threads
  <2>4. s \in Job /\ s.status = "QUEUED" /\ s.attempt = 0
    BY <2>1 DEF Job, JobStatus
  <2>5. RowStep(jobs[loc[c].exec], s)
    BY <2>3, <2>4 DEF RowStep, Assumptions
  <2>. QED BY <2>2, <2>3, <2>5, OneRow
<1>2. CASE CancelQueued(c) \/ CancelJob(c)
  <2>1. CASE jobs' = jobs
    BY <2>1 DEF RowStep
  <2>2. ASSUME NEW f \in Execs, Cancellable(f), jobs' = [jobs EXCEPT ![f].status = "CANCELLED"]
        PROVE  \A e \in Execs : RowStep(jobs[e], jobs'[e])
    <3>1. jobs[f] # None /\ InQueue(jobs[f]) /\ jobs[f] \in Job
      BY <2>2 DEF Cancellable, InQueue, TypeOK, TablesOK
    <3>2. PICK s : s = [jobs[f] EXCEPT !.status = "CANCELLED"]
      OBVIOUS
    <3>3. s \in Job /\ s.status = "CANCELLED" /\ s.attempt = jobs[f].attempt
      BY <3>1, <3>2 DEF Job, JobStatus
    <3>4. RowStep(jobs[f], s)
      BY <3>1, <3>3 DEF RowStep, Assumptions
    <3>. QED BY <2>2, <3>2, <3>4, OneRow
  <2>. QED BY <1>2, <2>1, <2>2 DEF CancelQueued, CancelJob, TypeOK, ThreadsOK, Consistent, Threads
<1>3. CASE RequeueJob(c) \/ ReadJobForResume(c)
  BY <1>3 DEF RequeueJob, ReadJobForResume, Sends, LockInv
<1>4. CASE \/ StartExecution(c) \/ ReceiveCancel(c) \/ ReceiveCallback(c) \/ ClientDies(c)
           \/ ReadForCancel(c) \/ CancelRefused(c) \/ CancelExecution(c) \/ AnswerRequest(c)
  BY <1>4 DEF StartExecution, ReceiveCancel, ReceiveCallback, ClientDies, ReadForCancel,
              CancelRefused, CancelExecution, AnswerRequest, tables, RowStep
<1>. QED BY <1>1, <1>2, <1>3, <1>4 DEF HandlerStep, ClientSends

\* queue.py and worker.py keep the promise of JobLifecycle: a job is submitted
\* once, attempted at most max_attempts times, withdrawn only while it waits,
\* given up only when its attempts are used, and never leaves a final status.
\* For any number of workers, jobs, requests and crashes, as in LockHolds.
THEOREM LifecycleHolds ==
  ASSUME "resume" \notin Ops, RecoveryIsHarmless
  PROVE  Spec => ImplementsLifecycle
<1> USE Assumptions
<1>1. Init => AttemptInv /\ Lifecycle!Init
  BY DEF Init, AttemptInv, Lifecycle!Init
<1>2. TypeOK /\ TypeOK' /\ LockInv /\ AttemptInv /\ [Next]_vars
        => AttemptInv' /\ [Lifecycle!Next]_(Lifecycle!abstractVars)
  <2> SUFFICES ASSUME TypeOK, TypeOK', LockInv, AttemptInv, [Next]_vars
               PROVE  AttemptInv' /\ Lifecycle!Next
    OBVIOUS
  <2>1. \A e \in Execs : RowStep(jobs[e], jobs'[e])
    <3>1. ASSUME NEW t \in Threads, EngineStep(t) PROVE \A e \in Execs : RowStep(jobs[e], jobs'[e])
      BY <3>1, EngineKeeps DEF RowStep
    <3>2. ASSUME NEW w \in Workers, WorkerStep(w) \/ WorkerDies(w)
          PROVE  \A e \in Execs : RowStep(jobs[e], jobs'[e])
      BY <3>2, WorkerRows
    <3>3. ASSUME NEW c \in Clients, HandlerStep(c) \/ ClientSends(c) \/ ClientDies(c)
          PROVE  \A e \in Execs : RowStep(jobs[e], jobs'[e])
      BY <3>3, ClientRows
    <3>4. ASSUME NEW f \in Execs, BackoffElapses(f)
          PROVE  \A e \in Execs : RowStep(jobs[e], jobs'[e])
      <4>1. jobs[f] # None /\ jobs[f] \in Job /\ jobs' = [jobs EXCEPT ![f].due = TRUE]
        BY <3>4 DEF BackoffElapses, TypeOK, TablesOK
      <4>2. PICK s : s = [jobs[f] EXCEPT !.due = TRUE]
        OBVIOUS
      <4>3. s \in Job /\ s.status = jobs[f].status /\ s.attempt = jobs[f].attempt
        BY <4>1, <4>2 DEF Job
      <4>4. RowStep(jobs[f], s)
        BY <4>1, <4>3 DEF RowStep, Assumptions
      <4>. QED BY <4>1, <4>2, <4>4, OneRow
    <3>5. CASE UNCHANGED vars
      BY <3>5 DEF vars, RowStep
    <3>. QED BY <3>1, <3>2, <3>3, <3>4, <3>5 DEF Next
  <2>. QED BY <2>1, RowStepsRefine
<1>. QED BY <1>1, <1>2, TypeCorrect, LockInvHolds, PTL DEF Spec, ImplementsLifecycle, Lifecycle!Spec

-----------------------------------------------------------------------------
(* No job is stranded: the safety half of EveryJobSettles.                 *)
(*                                                                         *)
(* A RUNNING row that is not suspended always names the worker that is at  *)
(* work on it, or one that is down and will recover it when it starts.     *)
(* Recovery must be able to commit: with the audit log in the same file a  *)
(* job whose worker died stays RUNNING for ever.                           *)

RecoveryCommits == ~AuditSharesDb \/ MaxCrashes = 0

\* A worker is at work on the job of e, or is down with it.
Served(e) ==
  \E w \in Workers : /\ jobs[e].owner = w
                     /\ pc[w] = "down" \/ (Holds(w) /\ loc[w].exec = e)

\* What the job of e may wait for.
Suspended(e) == jobs[e] # None /\ jobs[e].status = "RUNNING" /\ jobs[e].owner = HIL
BackingOff(e) == jobs[e] # None /\ jobs[e].status = "RETRYING" /\ ~jobs[e].due

NoJobStranded ==
  \A e \in Execs : jobs[e] # None =>
    Final(e) \/ Eligible(e) \/ BackingOff(e) \/ Suspended(e) \/ Served(e)

QueuedIsDue(e) == jobs[e] # None /\ jobs[e].status = "QUEUED" => jobs[e].due

ServedInv ==
  /\ \A e \in Execs : QueuedIsDue(e) /\ (Orphan(e) => Served(e))
  /\ MaxCrashes = 0 => budget.crashes = 0 /\ \A w \in Workers : pc[w] # "down"

\* The budget of a run without crashes, and the workers that are not down.
LEMMA NobodyDies ==
  ASSUME Assumptions, TypeOK, ServedInv, [Next]_vars
  PROVE  (MaxCrashes = 0 => budget.crashes = 0 /\ \A w \in Workers : pc[w] # "down")'
<1> SUFFICES ASSUME MaxCrashes = 0 PROVE budget'.crashes = 0 /\ \A w \in Workers : pc'[w] # "down"
  OBVIOUS
<1>a. budget.crashes = 0 /\ \A w \in Workers : pc[w] # "down"
  BY DEF ServedInv
<1>b. pc \in [Threads -> Locations] /\ budget \in [requests: Nat, crashes: Nat]
  BY DEF TypeOK, ThreadsOK, CountersOK
<1>1. ASSUME NEW t \in Threads, EngineStep(t) PROVE budget' = budget /\ \E l : l # "down" /\ Goto(t, l)
  BY <1>1 DEF EngineStep, ScanNodeRuns, DepthExceeded, SaveCursor, DenyByPolicy, StopManual,
         PauseForApproval, AskApprovers, BeginNode, FollowEdge, ReachLeaf, NodeFails, NoRoute,
         FailExecution, CompleteExecution, LookupExecution, NotResumable, LookupApproval,
         NothingToDecide, DecideGate, RejectExecution, LeaveEngine
<1>2. ASSUME NEW w \in Workers, WorkerStep(w) \/ WorkerDies(w)
      PROVE  budget' = budget /\ \E l : l # "down" /\ Goto(w, l)
  <2>1. ~WorkerDies(w)
    BY <1>a DEF WorkerDies
  <2>. QED BY <1>2, <2>1 DEF WorkerStep, Dequeue, ClearHistory, BundleMissing, BeginExecution, SettleJob,
        StartWorker, Finish, LeaveEngine
<1>3. ASSUME NEW c \in Clients, HandlerStep(c) \/ ClientSends(c) \/ ClientDies(c)
      PROVE  /\ budget' = budget \/ budget' = [budget EXCEPT !.requests = @ - 1]
             /\ \E l : l # "down" /\ Goto(c, l)
  <2>1. ~ClientDies(c)
    BY <1>a DEF ClientDies
  <2>. QED BY <1>3, <2>1 DEF HandlerStep, ClientSends, EnqueueJob, RequeueJob, CancelQueued, ReadForCancel,
           CancelRefused, CancelExecution, StartExecution, ReadJobForResume, ReceiveCancel,
           CancelJob, ReceiveCallback, AnswerRequest, Sends, Finish
<1>4. ASSUME \/ UNCHANGED <<pc, budget>>
             \/ \E t \in Threads : \E l : l # "down" /\ Goto(t, l) /\ budget'.crashes = 0
      PROVE  budget'.crashes = 0 /\ \A w \in Workers : pc'[w] # "down"
  BY <1>4, <1>a, <1>b DEF Goto, Threads
<1>5. ASSUME NEW e \in Execs, BackoffElapses(e) PROVE UNCHANGED <<pc, budget>>
  BY <1>5 DEF BackoffElapses, locals
<1>6. budget' = budget \/ budget' = [budget EXCEPT !.requests = @ - 1] => budget'.crashes = 0
  BY <1>a, <1>b
<1>7. CASE UNCHANGED vars
  BY <1>4, <1>7 DEF vars
<1>. QED BY <1>1, <1>2, <1>3, <1>4, <1>5, <1>6, <1>7 DEF Next, Threads

\* A worker inside the engine stays with its job when it takes a step.
LEMMA EngineStays ==
  ASSUME Assumptions, TypeOK, TypeOK', NEW w \in Workers, EngineStep(w)
  PROVE  Holds(w)'
<1>1. w \in Threads /\ w \notin Clients /\ pc \in [Threads -> Locations]
  BY DEF Threads, Assumptions, TypeOK, ThreadsOK
<1>2. \E l \in {"settle", "scan", "step", "gate", "ask", "run", "complete", "fail", "approval", "decide", "reject"} :
        Goto(w, l)
  BY <1>1 DEF EngineStep, ScanNodeRuns, DepthExceeded, SaveCursor, DenyByPolicy, StopManual,
         PauseForApproval, AskApprovers, BeginNode, FollowEdge, ReachLeaf, NodeFails, NoRoute,
         FailExecution, CompleteExecution, LookupExecution, NotResumable, LookupApproval,
         NothingToDecide, DecideGate, RejectExecution, LeaveEngine
<1>. QED BY <1>1, <1>2 DEF Goto, Holds

\* A step after which every row is served, unless it is taken out of the hands of
\* the workers.
LEMMA ServedStep ==
  ASSUME ServedInv,
         (MaxCrashes = 0 => budget.crashes = 0 /\ \A w \in Workers : pc[w] # "down")',
         \A e \in Execs : \/ jobs'[e] = jobs[e] /\ (Orphan(e) => Served(e)')
                          \/ QueuedIsDue(e)' /\ ~Orphan(e)'
                          \/ QueuedIsDue(e)' /\ Served(e)'
  PROVE  ServedInv'
BY DEF ServedInv, QueuedIsDue, Orphan

\* Rows that are not touched stay served when no worker leaves one behind.
LEMMA StillServed ==
  ASSUME Assumptions, TypeOK, ServedInv, NEW e \in Execs, jobs'[e] = jobs[e], Orphan(e),
         \A w \in Workers : \/ pc'[w] = pc[w] /\ loc'[w] = loc[w]
                            \/ pc'[w] = "down"
                            \/ pc[w] = "idle"
                            \/ Holds(w) /\ loc[w].exec # e
                            \/ Holds(w)' /\ loc'[w].exec = loc[w].exec /\ pc[w] # "down"
  PROVE  Served(e)'
<1>1. PICK w \in Workers : /\ jobs[e].owner = w
                           /\ pc[w] = "down" \/ (Holds(w) /\ loc[w].exec = e)
  BY DEF ServedInv, Served
<1>2. jobs'[e].owner = w
  BY <1>1
<1>3. pc'[w] = "down" \/ (Holds(w)' /\ loc'[w].exec = e)
  BY <1>1 DEF Holds
<1>. QED BY <1>2, <1>3 DEF Served

LEMMA WorkerServes ==
  ASSUME Assumptions, RecoveryCommits, TypeOK, TypeOK', ServedInv, NEW w \in Workers,
         WorkerStep(w) \/ WorkerDies(w),
         (MaxCrashes = 0 => budget.crashes = 0 /\ \A v \in Workers : pc[v] # "down")'
  PROVE  ServedInv'
<1> DEFINE e == loc[w].exec
<1>a. /\ w \in Threads /\ w \notin Clients /\ Workers \subseteq Threads /\ ThreadsOK /\ None # HIL /\ w # HIL
      /\ jobs \in [Execs -> Job \cup {None}] /\ None \notin Job
  BY DEF Threads, Assumptions, TypeOK, TablesOK
<1>b. \A u \in Threads \ {w} : pc'[u] = pc[u] /\ loc'[u] = loc[u]
  BY <1>a DEF WorkerStep, Dequeue, ClearHistory, BundleMissing, BeginExecution, SettleJob,
        StartWorker, WorkerDies, Finish, Goto, LeaveEngine, ThreadsOK
<1>1. CASE Dequeue(w)
  <2>1. PICK f \in Execs :
          LET row == [jobs[f] EXCEPT !.status = "RUNNING", !.owner = w, !.attempt = @ + 1]
          IN  /\ Eligible(f)
              /\ jobs' = [jobs EXCEPT ![f] = row]
              /\ loc' = [loc EXCEPT ![w] = [NoLocal EXCEPT !.exec = f, !.choice = row.payload]]
    BY <1>1 DEF Dequeue, NextJob
  <2>2. jobs[f] \in Job
    BY <1>a, <2>1 DEF Eligible
  <2>3. PICK row : row = [jobs[f] EXCEPT !.status = "RUNNING", !.owner = w, !.attempt = @ + 1]
    OBVIOUS
  <2>4. row.status = "RUNNING" /\ row.owner = w
    BY <2>2, <2>3 DEF Job
  <2>5. jobs'[f] = row /\ \A g \in Execs \ {f} : jobs'[g] = jobs[g]
    BY <1>a, <2>1, <2>3
  <2>6. loc'[w].exec = f
    BY <1>a, <2>1 DEF ThreadsOK, NoLocal
  <2>7. pc[w] = "idle" /\ pc'[w] \in {"lookup", "clear", "begin"}
    BY <1>1, <1>a DEF Dequeue, Goto, ThreadsOK
  <2>8. QueuedIsDue(f)' /\ Served(f)'
    BY <2>4, <2>5, <2>6, <2>7 DEF QueuedIsDue, Served, Holds
  <2>9. ASSUME NEW g \in Execs \ {f}, Orphan(g) PROVE Served(g)'
    BY <1>a, <1>b, <2>5, <2>7, <2>9, StillServed
  <2>. QED BY <2>5, <2>8, <2>9, ServedStep
<1>2. CASE ClearHistory(w) \/ BeginExecution(w) \/ BundleMissing(w)
  <2>1. /\ jobs' = jobs /\ loc'[w].exec = e /\ pc[w] # "down" /\ pc'[w] \in {"begin", "scan", "settle"}
    <3>1. CASE ClearHistory(w)
      BY <1>a, <3>1 DEF ClearHistory, Goto, ThreadsOK
    <3>2. CASE BeginExecution(w)
      <4>1. Goto(w, "scan") /\ jobs' = jobs /\ pc[w] = "begin"
        BY <3>2 DEF BeginExecution
      <4>2. loc'[w].exec = e
        BY <1>a, <3>2, ExecutionBegun
      <4>. QED BY <1>a, <4>1, <4>2 DEF Goto, ThreadsOK
    <3>3. CASE BundleMissing(w)
      <4>1. /\ loc' = [loc EXCEPT ![w] = [NoLocal EXCEPT !.exec = e, !.result = "ERROR"]]
            /\ Goto(w, "settle") /\ jobs' = jobs /\ pc[w] = "begin"
        BY <1>a, <3>3 DEF BundleMissing, LeaveEngine, tables
      <4>2. loc'[w].exec = e
        BY <1>a, <4>1 DEF ThreadsOK, NoLocal
      <4>. QED BY <1>a, <4>1, <4>2 DEF Goto, ThreadsOK
    <3>. QED BY <1>2, <3>1, <3>2, <3>3
  <2>2. Holds(w)'
    BY <2>1 DEF Holds
  <2>3. ASSUME NEW g \in Execs, Orphan(g) PROVE Served(g)'
    BY <1>a, <1>b, <2>1, <2>2, <2>3, StillServed
  <2>. QED BY <2>1, <2>3, ServedStep
<1>3. CASE SettleJob(w)
  <2>1. PICK row : row = Settled(job[w], loc[w].result)
    OBVIOUS
  <2>2. pc[w] = "settle" /\ jobs' = [jobs EXCEPT ![e] = row] /\ e \in Execs /\ job[w] \in Job
    BY <1>3, <1>a, <2>1 DEF SettleJob, UpdateJob, ThreadsOK, Consistent
  <2>3. \/ row.status \in {"COMPLETED", "RETRYING", "FAILED"}
        \/ row.status = "RUNNING" /\ row.owner = HIL
    BY <2>1, <2>2 DEF Settled, Job
  <2>4. jobs'[e] = row /\ \A g \in Execs : g # e => jobs'[g] = jobs[g]
    BY <1>a, <2>2
  <2>6. Holds(w)
    BY <2>2 DEF Holds
  <2>7. ASSUME NEW g \in Execs, g # e, Orphan(g) PROVE Served(g)'
    BY <1>a, <1>b, <2>4, <2>6, <2>7, StillServed
  <2>8. ASSUME NEW g \in Execs
        PROVE  \/ jobs'[g] = jobs[g] /\ (Orphan(g) => Served(g)')
               \/ QueuedIsDue(g)' /\ ~Orphan(g)'
    <3>1. CASE g = e
      BY <2>3, <2>4, <3>1 DEF QueuedIsDue, Orphan
    <3>2. CASE g # e
      BY <2>4, <2>7, <3>2
    <3>. QED BY <3>1, <3>2
  <2>. QED BY <2>8, ServedStep
<1>4. CASE StartWorker(w)
  <2>1. ~AuditSharesDb
    BY <1>4 DEF StartWorker, RecoveryCommits, ServedInv
  <2>2. jobs' = [g \in Execs |-> IF Orphan(g) THEN Recovered(jobs[g]) ELSE jobs[g]]
    BY <1>4, <2>1 DEF StartWorker
  <2>3. ASSUME NEW g \in Execs
        PROVE  \/ jobs'[g] = jobs[g] /\ (Orphan(g) => Served(g)')
               \/ QueuedIsDue(g)' /\ ~Orphan(g)'
    <3>1. CASE Orphan(g)
      <4>1. jobs[g] \in Job /\ jobs'[g] = Recovered(jobs[g])
        BY <1>a, <2>2, <3>1 DEF Orphan
      <4>2. PICK row : row = Recovered(jobs[g])
        OBVIOUS
      <4>3. (row.status = "QUEUED" /\ row.due) \/ row.status = "FAILED"
        BY <4>1, <4>2 DEF Recovered, Job
      <4>4. jobs'[g] = row
        BY <4>1, <4>2
      <4>. QED BY <4>3, <4>4 DEF QueuedIsDue, Orphan
    <3>2. CASE ~Orphan(g)
      BY <2>2, <3>2
    <3>. QED BY <3>1, <3>2
  <2>. QED BY <2>3, ServedStep
<1>5. CASE WorkerDies(w)
  <2>1. jobs' = jobs /\ pc'[w] = "down"
    BY <1>5, <1>a DEF WorkerDies, ThreadsOK, tables
  <2>2. ASSUME NEW g \in Execs, Orphan(g) PROVE Served(g)'
    BY <1>a, <1>b, <2>1, <2>2, StillServed
  <2>. QED BY <2>1, <2>2, ServedStep
<1>. QED BY <1>1, <1>2, <1>3, <1>4, <1>5 DEF WorkerStep

\* Request handlers write rows that are queued and due, or cancelled.
LEMMA ClientServes ==
  ASSUME Assumptions, TypeOK, TypeOK', ServedInv, NEW c \in Clients,
         HandlerStep(c) \/ ClientSends(c) \/ ClientDies(c),
         (MaxCrashes = 0 => budget.crashes = 0 /\ \A v \in Workers : pc[v] # "down")'
  PROVE  ServedInv'
<1>a. /\ c \in Threads /\ c \notin Workers /\ Workers \subseteq Threads /\ ThreadsOK
      /\ jobs \in [Execs -> Job \cup {None}] /\ None \notin Job
  BY DEF Threads, Assumptions, TypeOK, TablesOK
<1>b. \A u \in Workers : pc'[u] = pc[u] /\ loc'[u] = loc[u]
  BY <1>a DEF HandlerStep, ClientSends, EnqueueJob, RequeueJob, CancelQueued, ReadForCancel,
           CancelRefused, CancelExecution, StartExecution, ReadJobForResume, ReceiveCancel,
           CancelJob, ReceiveCallback, AnswerRequest, ClientDies, Finish, Goto, ThreadsOK
<1>c. ASSUME NEW g \in Execs, jobs'[g] = jobs[g], Orphan(g) PROVE Served(g)'
  BY <1>b, <1>c, StillServed
<1>d. ASSUME NEW f \in Execs, NEW row, jobs' = [jobs EXCEPT ![f] = row],
             (row.status = "QUEUED" /\ row.due) \/ row.status = "CANCELLED"
      PROVE  ServedInv'
  <2>1. jobs'[f] = row /\ \A g \in Execs \ {f} : jobs'[g] = jobs[g]
    BY <1>a, <1>d
  <2>2. QueuedIsDue(f)' /\ ~Orphan(f)'
    BY <1>d, <2>1 DEF QueuedIsDue, Orphan
  <2>. QED BY <1>c, <2>1, <2>2, ServedStep
<1>1. CASE EnqueueJob(c)
  <2>1. PICK row : row = [status |-> "QUEUED", attempt |-> 0, owner |-> None, payload |-> None, due |-> TRUE]
    OBVIOUS
  <2>2. loc[c].exec \in Execs /\ jobs' = [jobs EXCEPT ![loc[c].exec] = row]
    BY <1>1, <1>a, <2>1 DEF EnqueueJob, ThreadsOK, Consistent
  <2>3. row.status = "QUEUED" /\ row.due
    BY <2>1
  <2>. QED BY <1>d, <2>2, <2>3
<1>2. CASE RequeueJob(c)
  <2>1. PICK row : row = [job[c] EXCEPT !.status = "QUEUED", !.owner = None,
                                        !.payload = loc[c].choice, !.due = TRUE]
    OBVIOUS
  <2>2. loc[c].exec \in Execs /\ job[c] \in Job /\ jobs' = [jobs EXCEPT ![loc[c].exec] = row]
    BY <1>2, <1>a, <2>1 DEF RequeueJob, UpdateJob, ThreadsOK, Consistent
  <2>3. row.status = "QUEUED" /\ row.due
    BY <2>1, <2>2 DEF Job
  <2>. QED BY <1>d, <2>2, <2>3
<1>3. CASE CancelQueued(c) \/ CancelJob(c)
  <2>1. \/ jobs' = jobs
        \/ \E f \in Execs : Cancellable(f) /\ jobs' = [jobs EXCEPT ![f] = [jobs[f] EXCEPT !.status = "CANCELLED"]]
    <3>1. CASE CancelJob(c)
      BY <1>a, <3>1 DEF CancelJob
    <3>2. CASE CancelQueued(c)
      BY <1>a, <3>2 DEF CancelQueued, ThreadsOK, Consistent
    <3>. QED BY <1>3, <3>1, <3>2
  <2>2. CASE jobs' = jobs
    BY <1>c, <2>2, ServedStep
  <2>3. CASE \E f \in Execs : Cancellable(f) /\ jobs' = [jobs EXCEPT ![f] = [jobs[f] EXCEPT !.status = "CANCELLED"]]
    <3>1. PICK f \in Execs : Cancellable(f) /\ jobs' = [jobs EXCEPT ![f] = [jobs[f] EXCEPT !.status = "CANCELLED"]]
      BY <2>3
    <3>2. PICK row : row = [jobs[f] EXCEPT !.status = "CANCELLED"]
      OBVIOUS
    <3>3. jobs[f] \in Job
      BY <1>a, <3>1 DEF Cancellable
    <3>4. row.status = "CANCELLED"
      BY <3>2, <3>3 DEF Job
    <3>. QED BY <1>d, <3>1, <3>2, <3>4
  <2>. QED BY <2>1, <2>2, <2>3
<1>4. CASE \/ ReadForCancel(c) \/ CancelRefused(c) \/ CancelExecution(c) \/ StartExecution(c)
           \/ ReadJobForResume(c) \/ ReceiveCancel(c) \/ ReceiveCallback(c) \/ AnswerRequest(c) \/ ClientDies(c)
  <2>1. jobs' = jobs
    BY <1>4 DEF ReadForCancel, CancelRefused, CancelExecution, StartExecution, ReadJobForResume,
                ReceiveCancel, ReceiveCallback, AnswerRequest, ClientDies, tables
  <2>. QED BY <1>c, <2>1, ServedStep
<1>. QED BY <1>1, <1>2, <1>3, <1>4 DEF HandlerStep, ClientSends

LEMMA ServedHolds ==
  ASSUME RecoveryCommits
  PROVE  Spec => []ServedInv
<1> USE Assumptions
<1>1. Init => ServedInv
  BY DEF Init, ServedInv, QueuedIsDue, Orphan, Threads
<1>2. TypeOK /\ TypeOK' /\ ServedInv /\ [Next]_vars => ServedInv'
  <2> SUFFICES ASSUME TypeOK, TypeOK', ServedInv, [Next]_vars PROVE ServedInv'
    OBVIOUS
  <2>0. (MaxCrashes = 0 => budget.crashes = 0 /\ \A w \in Workers : pc[w] # "down")'
    BY NobodyDies
  <2>1. ASSUME NEW t \in Threads, EngineStep(t) PROVE ServedInv'
    <3>1. /\ jobs' = jobs /\ \A u \in Threads \ {t} : pc'[u] = pc[u] /\ loc'[u] = loc[u]
          /\ t \in Workers => Holds(t) /\ Holds(t)' /\ loc'[t].exec = loc[t].exec
      BY <2>1, EngineKeeps, EngineStays DEF Keeps
    <3>2. ASSUME NEW e \in Execs, Orphan(e) PROVE Served(e)'
      BY <3>1, <3>2, StillServed DEF Threads, Holds
    <3>. QED BY <2>0, <3>1, <3>2, ServedStep
  <2>2. ASSUME NEW w \in Workers, WorkerStep(w) \/ WorkerDies(w) PROVE ServedInv'
    BY <2>0, <2>2, WorkerServes
  <2>3. ASSUME NEW c \in Clients, HandlerStep(c) \/ ClientSends(c) \/ ClientDies(c) PROVE ServedInv'
    BY <2>0, <2>3, ClientServes
  <2>4. ASSUME NEW e \in Execs, BackoffElapses(e) PROVE ServedInv'
    <3>1. /\ jobs' = [jobs EXCEPT ![e].due = TRUE] /\ jobs[e] # None /\ jobs[e].status = "RETRYING"
          /\ UNCHANGED <<pc, loc>>
      BY <2>4 DEF BackoffElapses, locals
    <3>2. jobs[e] \in Job /\ jobs \in [Execs -> Job \cup {None}]
      BY <3>1 DEF TypeOK, TablesOK
    <3>3. jobs'[e].status = "RETRYING" /\ \A g \in Execs \ {e} : jobs'[g] = jobs[g]
      BY <3>1, <3>2 DEF Job
    <3>4. QueuedIsDue(e)' /\ ~Orphan(e)'
      BY <3>3 DEF QueuedIsDue, Orphan
    <3>5. ASSUME NEW g \in Execs \ {e}, Orphan(g) PROVE Served(g)'
      BY <3>1, <3>3, <3>5, StillServed
    <3>. QED BY <2>0, <3>3, <3>4, <3>5, ServedStep
  <2>5. CASE UNCHANGED vars
    BY <2>5 DEF vars, ServedInv, QueuedIsDue, Orphan, Served, Holds
  <2>. QED BY <2>1, <2>2, <2>3, <2>4, <2>5 DEF Next
<1>. QED BY <1>1, <1>2, TypeCorrect, PTL DEF Spec

\* worker.py and queue.py: at any moment a job is finished, can be dequeued, waits
\* for its backoff or for an administrator, or has a worker that is at work on it
\* or is down and will recover it.  For any requests, crashes and recoveries that
\* hit live workers, provided recovery can commit.
THEOREM NoJobIsStranded ==
  ASSUME RecoveryCommits
  PROVE  Spec => []NoJobStranded
<1>1. TypeOK /\ ServedInv => NoJobStranded
  <2> SUFFICES ASSUME TypeOK, ServedInv, NEW e \in Execs, jobs[e] # None
               PROVE  Final(e) \/ Eligible(e) \/ BackingOff(e) \/ Suspended(e) \/ Served(e)
    BY DEF NoJobStranded
  <2>1. jobs[e] \in Job
    BY DEF TypeOK, TablesOK
  <2>2. jobs[e].status \in JobStatus /\ jobs[e].due \in BOOLEAN
    BY <2>1 DEF Job
  <2>3. QueuedIsDue(e) /\ (Orphan(e) => Served(e))
    BY DEF ServedInv
  <2>. QED BY <2>2, <2>3 DEF Final, Eligible, BackingOff, Suspended, Orphan, QueuedIsDue, JobStatus
<1>. QED BY <1>1, ServedHolds, TypeCorrect, Assumptions, PTL

-----------------------------------------------------------------------------
(* Who is inside the engine, and how often it begins a node.               *)
(*                                                                         *)
(* Workers enter the engine with a job, request threads by a callback.     *)
(* Each counts the node runs of its execution once, on entry, and then in  *)
(* a local variable; what it may still begin are its tickets.              *)

EngineLocations == {"lookup", "approval", "decide", "reject", "scan", "step", "gate",
                    "ask", "run", "complete", "fail"}
InEngine(t) == pc[t] \in EngineLocations

\* The threads that can ever be inside the engine.
Engines == IF "callback" \in Ops THEN Threads ELSE Workers
EnginesInv == \A t \in Threads : InEngine(t) \/ pc[t] = "answer" => t \in Engines

\* Where a thread counts node runs.
Counting == {"step", "gate", "run"}

\* What a step of the engine does to the node runs and to their count.
LEMMA EngineCounts ==
  ASSUME Assumptions, TypeOK, TypeOK', NEW t \in Threads, EngineStep(t)
  PROVE  /\ InEngine(t)
         /\ \A u \in Threads \ {t} : pc'[u] = pc[u] /\ loc'[u] = loc[u]
         /\ \/ rows' = rows /\ pc'[t] \notin Counting
            \/ /\ rows' = rows /\ pc[t] = "scan" /\ pc'[t] = "step"
               /\ loc'[t].exec = loc[t].exec /\ loc'[t].count = rows[loc[t].exec]
            \/ /\ rows' = rows /\ pc[t] = "step" /\ pc'[t] = "gate"
               /\ loc'[t].exec = loc[t].exec /\ loc'[t].count = loc[t].count
               /\ loc[t].count < MaxNodes
            \/ /\ rows' = rows /\ pc[t] = "run" /\ pc'[t] = "step"
               /\ loc'[t].exec = loc[t].exec /\ loc'[t].count = loc[t].count + 1
            \/ /\ rows' = [rows EXCEPT ![loc[t].exec] = @ + 1]
               /\ pc[t] = "gate" /\ pc'[t] = "run" /\ loc'[t] = loc[t]
<1>a. ThreadsOK /\ loc[t] \in Local
  BY DEF TypeOK, ThreadsOK
<1>b. \A u \in Threads \ {t} : pc'[u] = pc[u] /\ loc'[u] = loc[u]
  BY EngineKeeps DEF Keeps
<1>c. InEngine(t)
  BY DEF InEngine, EngineLocations, EngineStep, ScanNodeRuns, DepthExceeded, SaveCursor, DenyByPolicy,
         StopManual, PauseForApproval, AskApprovers, BeginNode, FollowEdge, ReachLeaf, NodeFails, NoRoute,
         FailExecution, CompleteExecution, LookupExecution, NotResumable, LookupApproval,
         NothingToDecide, DecideGate, RejectExecution
<1>d. ASSUME NEW l \in Locations, Goto(t, l) PROVE pc'[t] = l
  BY <1>a, <1>d DEF Goto, ThreadsOK
<1>1. CASE ScanNodeRuns(t)
  <2>1. loc' = [loc EXCEPT ![t] = [loc[t] EXCEPT !.count = rows[loc[t].exec]]]
    BY <1>a, <1>1 DEF ScanNodeRuns, ThreadsOK
  <2>2. loc'[t].exec = loc[t].exec /\ loc'[t].count = rows[loc[t].exec]
    BY <1>a, <2>1 DEF ThreadsOK, Local
  <2>3. rows' = rows /\ pc[t] = "scan" /\ pc'[t] = "step"
    BY <1>d, <1>1 DEF ScanNodeRuns, tables, Locations
  <2>. QED BY <1>b, <1>c, <2>2, <2>3
<1>2. CASE SaveCursor(t)
  <2>1. /\ rows' = rows /\ pc[t] = "step" /\ pc'[t] = "gate"
        /\ loc'[t].exec = loc[t].exec /\ loc'[t].count = loc[t].count
        /\ loc[t].count < MaxNodes
    BY <1>a, <1>d, <1>2, CursorSaved DEF SaveCursor, Locations
  <2>. QED BY <1>b, <1>c, <2>1
<1>3. CASE FollowEdge(t)
  <2>1. PICK m : loc' = [loc EXCEPT ![t].node = m, ![t].bypass = None, ![t].count = @ + 1]
    BY <1>3 DEF FollowEdge
  <2>2. loc' = [loc EXCEPT ![t] = [loc[t] EXCEPT !.node = m, !.bypass = None, !.count = @ + 1]]
    BY <1>a, <2>1 DEF ThreadsOK
  <2>3. loc'[t].exec = loc[t].exec /\ loc'[t].count = loc[t].count + 1
    BY <1>a, <2>2 DEF ThreadsOK, Local
  <2>4. rows' = rows /\ pc[t] = "run" /\ pc'[t] = "step"
    BY <1>d, <1>3 DEF FollowEdge, tables, Locations
  <2>. QED BY <1>b, <1>c, <2>3, <2>4
<1>4. CASE BeginNode(t)
  <2>1. /\ rows' = [rows EXCEPT ![loc[t].exec] = @ + 1]
        /\ pc[t] = "gate" /\ pc'[t] = "run" /\ loc' = loc
    BY <1>d, <1>4 DEF BeginNode, Locations
  <2>. QED BY <1>b, <1>c, <2>1
<1>5. CASE ~(ScanNodeRuns(t) \/ SaveCursor(t) \/ FollowEdge(t) \/ BeginNode(t))
  <2>1. rows' = rows /\ \E l \in Locations \ Counting : Goto(t, l)
    BY <1>5 DEF EngineStep, DepthExceeded, DenyByPolicy, StopManual, PauseForApproval, AskApprovers,
         ReachLeaf, NodeFails, NoRoute, FailExecution, CompleteExecution, LookupExecution, NotResumable,
         LookupApproval, NothingToDecide, DecideGate, RejectExecution, LeaveEngine, tables,
         Locations, Counting
  <2>. QED BY <1>b, <1>c, <1>d, <2>1
<1>. QED BY <1>1, <1>2, <1>3, <1>4, <1>5

\* What the other steps do to them: a retried execution loses its node runs.
Aside(t) ==
  /\ \A u \in Threads \ {t} : pc'[u] = pc[u] /\ loc'[u] = loc[u]
  /\ pc'[t] \notin Counting
  /\ \/ rows' = rows
     \/ /\ t \in Workers /\ pc[t] = "clear" /\ loc'[t] = loc[t]
        /\ rows' = [rows EXCEPT ![loc[t].exec] = 0]

LEMMA OthersCount ==
  ASSUME Assumptions, TypeOK, TypeOK', [Next]_vars
  PROVE  \/ \E t \in Threads : EngineStep(t)
         \/ UNCHANGED <<pc, loc, rows>>
         \/ \E t \in Threads : Aside(t)
<1>a. ThreadsOK /\ Workers \subseteq Threads /\ Clients \subseteq Threads
  BY DEF TypeOK, Threads
<1>1. ASSUME NEW w \in Workers, WorkerStep(w) \/ WorkerDies(w) PROVE Aside(w)
  <2>0. w \in Threads /\ w \notin Clients
    BY <1>a DEF Assumptions
  <2>1. \A u \in Threads \ {w} : pc'[u] = pc[u] /\ loc'[u] = loc[u]
    BY <1>a, <1>1, <2>0 DEF WorkerStep, Dequeue, ClearHistory, BundleMissing, BeginExecution, SettleJob,
          StartWorker, WorkerDies, Finish, Goto, LeaveEngine, ThreadsOK
  <2>2. pc'[w] \notin Counting
    BY <1>a, <1>1, <2>0 DEF WorkerStep, Dequeue, ClearHistory, BundleMissing, BeginExecution, SettleJob,
          StartWorker, WorkerDies, Finish, Goto, LeaveEngine, ThreadsOK, Counting
  <2>3. \/ rows' = rows
        \/ pc[w] = "clear" /\ loc' = loc /\ rows' = [rows EXCEPT ![loc[w].exec] = 0]
    BY <1>1 DEF WorkerStep, Dequeue, ClearHistory, BundleMissing, BeginExecution, SettleJob,
          StartWorker, WorkerDies, tables
  <2>. QED BY <2>1, <2>2, <2>3 DEF Aside
<1>2. ASSUME NEW c \in Clients, HandlerStep(c) \/ ClientSends(c) \/ ClientDies(c) PROVE Aside(c)
  <2>1. rows' = rows
    BY <1>2 DEF HandlerStep, ClientSends, EnqueueJob, RequeueJob, CancelQueued, ReadForCancel,
           CancelRefused, CancelExecution, StartExecution, ReadJobForResume, ReceiveCancel,
           CancelJob, ReceiveCallback, AnswerRequest, Sends, ClientDies, tables
  <2>2. /\ \A u \in Threads \ {c} : pc'[u] = pc[u]
        /\ pc'[c] \notin Counting
    BY <1>a, <1>2 DEF HandlerStep, ClientSends, EnqueueJob, RequeueJob, CancelQueued, ReadForCancel,
           CancelRefused, CancelExecution, StartExecution, ReadJobForResume, ReceiveCancel,
           CancelJob, ReceiveCallback, AnswerRequest, Sends, ClientDies, Finish, Goto, ThreadsOK, Counting
  <2>3. \A u \in Threads \ {c} : loc'[u] = loc[u]
    <3>1. CASE ReadJobForResume(c)
      <4>1. PICK f \in Execs, d \in Decision : loc' = [loc EXCEPT ![c].exec = f, ![c].choice = d]
        BY <3>1 DEF ReadJobForResume
      <4>2. loc' = [loc EXCEPT ![c] = [loc[c] EXCEPT !.exec = f, !.choice = d]]
        BY <1>a, <4>1 DEF ThreadsOK
      <4>. QED BY <1>a, <4>2 DEF ThreadsOK
    <3>2. CASE ~ReadJobForResume(c)
      BY <1>a, <1>2, <3>2 DEF HandlerStep, ClientSends, EnqueueJob, RequeueJob, CancelQueued,
           ReadForCancel, CancelRefused, CancelExecution, StartExecution, ReceiveCancel,
           CancelJob, ReceiveCallback, AnswerRequest, ClientDies, Finish, ThreadsOK
    <3>. QED BY <3>1, <3>2
  <2>. QED BY <2>1, <2>2, <2>3 DEF Aside
<1>3. ASSUME NEW e \in Execs, BackoffElapses(e) PROVE UNCHANGED <<pc, loc, rows>>
  BY <1>3 DEF BackoffElapses, locals
<1>. QED BY <1>a, <1>1, <1>2, <1>3 DEF Next, vars

\* Only the threads in Engines get into the engine.
LEMMA EnginesStay ==
  ASSUME Assumptions, TypeOK, TypeOK', EnginesInv, [Next]_vars
  PROVE  EnginesInv'
<1>a. ThreadsOK /\ Workers \subseteq Threads /\ Clients \subseteq Threads /\ Workers \cap Clients = {}
  BY DEF TypeOK, Threads, Assumptions
<1> SUFFICES ASSUME "callback" \notin Ops, NEW c \in Clients
             PROVE  ~(InEngine(c)' \/ pc'[c] = "answer")
  BY DEF EnginesInv, Engines, Threads, InEngine
<1>b. ~InEngine(c) /\ pc[c] # "answer" /\ c \notin Workers
  BY <1>a DEF EnginesInv, Engines
<1>1. ASSUME pc'[c] = pc[c] PROVE ~(InEngine(c)' \/ pc'[c] = "answer")
  BY <1>1, <1>b DEF InEngine
<1>2. ASSUME NEW t \in Threads, EngineStep(t) PROVE pc'[c] = pc[c]
  BY <1>2, <1>a, <1>b, EngineCounts
<1>3. ASSUME NEW w \in Workers, WorkerStep(w) \/ WorkerDies(w) PROVE pc'[c] = pc[c]
  BY <1>a, <1>b, <1>3 DEF WorkerStep, Dequeue, ClearHistory, BundleMissing, BeginExecution, SettleJob,
        StartWorker, WorkerDies, Finish, Goto, LeaveEngine, ThreadsOK
<1>4. ASSUME NEW d \in Clients, HandlerStep(d) \/ ClientSends(d) \/ ClientDies(d)
      PROVE  \/ pc'[c] = pc[c]
             \/ pc'[c] \in {"idle", "enqueue", "requeue", "qcancel", "elookup", "ecancel"}
  <2>1. CASE d = c
    BY <1>a, <1>b, <1>4, <2>1 DEF HandlerStep, ClientSends, EnqueueJob, RequeueJob, CancelQueued, ReadForCancel,
           CancelRefused, CancelExecution, StartExecution, ReadJobForResume, ReceiveCancel,
           CancelJob, ReceiveCallback, AnswerRequest, Sends, ClientDies, Finish, Goto, ThreadsOK
  <2>2. CASE d # c
    BY <1>a, <1>4, <2>2 DEF HandlerStep, ClientSends, EnqueueJob, RequeueJob, CancelQueued, ReadForCancel,
           CancelRefused, CancelExecution, StartExecution, ReadJobForResume, ReceiveCancel,
           CancelJob, ReceiveCallback, AnswerRequest, Sends, ClientDies, Finish, Goto, ThreadsOK
  <2>. QED BY <2>1, <2>2
<1>5. CASE UNCHANGED vars
  BY <1>1, <1>5 DEF vars
<1>6. ASSUME NEW e \in Execs, BackoffElapses(e) PROVE pc'[c] = pc[c]
  BY <1>6 DEF BackoffElapses, locals
<1>. QED BY <1>1, <1>2, <1>3, <1>4, <1>5, <1>6 DEF Next, InEngine, EngineLocations

LEMMA EnginesHold == Spec => []EnginesInv
<1>1. Init => EnginesInv
  BY DEF Init, EnginesInv, InEngine, EngineLocations
<1>2. TypeOK /\ TypeOK' /\ EnginesInv /\ [Next]_vars => EnginesInv'
  BY EnginesStay, Assumptions
<1>. QED BY <1>1, <1>2, TypeCorrect, PTL DEF Spec

\* Two workers never hold the same execution.
Apart ==
  \A v, w \in Workers : Holds(v) /\ Holds(w) /\ loc[v].exec = loc[w].exec => v = w

LEMMA LockedApart == ASSUME LockInv PROVE Apart
BY DEF LockInv, Apart

\* queue.py, dequeue, locks a job so that nobody else runs it: two threads are
\* never inside the engine with the same execution, so that everything the engine
\* does for an execution (its cursor, its approvals, its actions) happens in one
\* sequence.  For any number of jobs, workers, cancellations and crashes, provided
\* nobody sends resume requests or callbacks and recovery cannot hit a live worker.
THEOREM ExecutionsRunAlone ==
  ASSUME {"resume", "callback"} \cap Ops = {}, RecoveryIsHarmless
  PROVE  Spec => [](\A t, u \in Threads :
                      InEngine(t) /\ InEngine(u) /\ loc[t].exec = loc[u].exec => t = u)
<1> DEFINE Alone == \A t, u \in Threads :
                      InEngine(t) /\ InEngine(u) /\ loc[t].exec = loc[u].exec => t = u
<1>1. LockInv /\ EnginesInv => Alone
  <2> SUFFICES ASSUME LockInv, EnginesInv, NEW t \in Threads, NEW u \in Threads,
                      InEngine(t), InEngine(u), loc[t].exec = loc[u].exec
               PROVE  t = u
    OBVIOUS
  <2>1. t \in Workers /\ u \in Workers
    BY DEF EnginesInv, Engines
  <2>2. Holds(t) /\ Holds(u)
    BY DEF InEngine, EngineLocations, Holds
  <2>. QED BY <2>1, <2>2, LockedApart DEF Apart
<1>2. Spec => []LockInv
  BY LockInvHolds
<1>. QED BY <1>1, <1>2, EnginesHold, PTL

-----------------------------------------------------------------------------
(* Node runs.  With several threads inside the engine for one execution    *)
(* (two resumes, a callback that races a worker, a recovered job) each of  *)
(* them goes on with its own count; the tickets they hold bound what they  *)
(* begin together.                                                         *)

\* Thread t may still begin its i-th node.
Open(t, i) ==
  \/ pc[t] \in {"step", "gate"} /\ loc[t].count < i
  \/ pc[t] = "run" /\ loc[t].count + 1 < i

Tickets(e) == {p \in Engines \X (1 .. MaxNodes) : loc[p[1]].exec = e /\ Open(p[1], p[2])}

MostNodes == Cardinality(Engines) * MaxNodes

NodesInv ==
  /\ EnginesInv
  /\ \A t \in Threads : pc[t] = "gate" => loc[t].count < MaxNodes
  /\ \A e \in Execs : rows[e] + Cardinality(Tickets(e)) <= MostNodes

LEMMA EnginesFinite ==
  ASSUME Assumptions
  PROVE  /\ IsFiniteSet(Engines) /\ Engines \subseteq Threads /\ Cardinality(Engines) \in Nat
         /\ IsFiniteSet(Engines \X (1 .. MaxNodes)) /\ MostNodes \in Nat
         /\ Cardinality(Engines \X (1 .. MaxNodes)) = MostNodes
<1>1. IsFiniteSet(Threads)
  BY FS_Union DEF Threads, Assumptions
<1>2. Engines \subseteq Threads
  BY DEF Engines, Threads
<1>3. IsFiniteSet(Engines)
  BY <1>1, <1>2, FS_Subset
<1>4. Cardinality(Engines) \in Nat
  BY <1>3, FS_CardinalityType
<1>5. IsFiniteSet(1 .. MaxNodes) /\ Cardinality(1 .. MaxNodes) = MaxNodes
  BY FS_Interval DEF Assumptions
<1>6. /\ IsFiniteSet(Engines \X (1 .. MaxNodes))
      /\ Cardinality(Engines \X (1 .. MaxNodes)) = Cardinality(Engines) * Cardinality(1 .. MaxNodes)
  BY <1>3, <1>5, FS_Product
<1>7. Cardinality(Engines \X (1 .. MaxNodes)) \in Nat
  BY <1>6, FS_CardinalityType
<1>. QED BY <1>2, <1>3, <1>4, <1>5, <1>6, <1>7 DEF MostNodes

LEMMA TicketsFinite ==
  ASSUME Assumptions, NEW e
  PROVE  /\ IsFiniteSet(Tickets(e)) /\ Cardinality(Tickets(e)) \in Nat
         /\ IsFiniteSet(Tickets(e)') /\ Cardinality(Tickets(e)') \in Nat
<1>1. Tickets(e) \subseteq Engines \X (1 .. MaxNodes)
  BY DEF Tickets
<1>2. Tickets(e)' \subseteq Engines \X (1 .. MaxNodes)
  BY DEF Tickets
<1>. QED BY <1>1, <1>2, EnginesFinite, FS_Subset, FS_CardinalityType

\* Nothing begins and nobody gets a ticket.
LEMMA NoNewTicket ==
  ASSUME Assumptions, TypeOK, NodesInv, NEW e \in Execs,
         rows'[e] = rows[e] \/ rows'[e] = 0, Tickets(e)' \subseteq Tickets(e)
  PROVE  (rows[e] + Cardinality(Tickets(e)) <= MostNodes)'
<1> DEFINE B == Cardinality(Tickets(e))
           C == Cardinality(Tickets(e)')
<1>1. B \in Nat /\ C \in Nat /\ C <= B
  BY TicketsFinite, FS_Subset
<1>2. rows[e] \in Nat /\ MostNodes \in Nat
  BY EnginesFinite DEF TypeOK, TablesOK
<1>3. rows[e] + B <= MostNodes
  BY DEF NodesInv
<1>4. rows'[e] + C <= MostNodes
  <2> HIDE DEF B, C
  <2>. QED BY <1>1, <1>2, <1>3
<1>. QED BY <1>4 DEF MostNodes

\* Only thread t moves: the tickets that are new are its own.
LEMMA OwnTickets ==
  ASSUME Assumptions, NEW t \in Threads, NEW e,
         \A u \in Threads \ {t} : pc'[u] = pc[u] /\ loc'[u] = loc[u],
         NEW p \in Tickets(e)'
  PROVE  \/ p \in Tickets(e)
         \/ p[1] = t /\ loc'[t].exec = e /\ Open(t, p[2])'
<1>1. p \in Engines \X (1 .. MaxNodes) /\ loc'[p[1]].exec = e /\ Open(p[1], p[2])'
  BY DEF Tickets
<1>2. p[1] \in Threads
  BY <1>1, EnginesFinite
<1>3. CASE p[1] # t
  <2>1. pc'[p[1]] = pc[p[1]] /\ loc'[p[1]] = loc[p[1]]
    BY <1>2, <1>3
  <2>. QED BY <1>1, <2>1 DEF Tickets, Open
<1>4. CASE p[1] = t
  BY <1>1, <1>4
<1>. QED BY <1>3, <1>4

LEMMA NodesStep ==
  ASSUME Assumptions, TypeOK, TypeOK', NodesInv, EnginesInv', [Next]_vars
  PROVE  NodesInv'
<1>a. rows \in [Execs -> Nat] /\ MaxNodes \in Nat \ {0}
  BY DEF TypeOK, TablesOK, Assumptions
<1>1. ASSUME NEW t \in Threads, EngineStep(t) PROVE NodesInv'
  <2> DEFINE e == loc[t].exec
  <2>a. /\ InEngine(t) /\ t \in Engines /\ e \in Execs
        /\ \A u \in Threads \ {t} : pc'[u] = pc[u] /\ loc'[u] = loc[u]
        /\ loc[t].count \in Nat
    BY <1>1, EngineCounts DEF NodesInv, EnginesInv, InEngine, EngineLocations, TypeOK, ThreadsOK, Consistent, Local
  <2>b. ASSUME pc'[t] = "gate" => loc'[t].count < MaxNodes,
               \A f \in Execs : (rows[f] + Cardinality(Tickets(f)) <= MostNodes)'
        PROVE  NodesInv'
    BY <2>a, <2>b DEF NodesInv
  <2>c. ASSUME \A f \in Execs : Tickets(f)' \subseteq Tickets(f), rows' = rows
        PROVE  \A f \in Execs : (rows[f] + Cardinality(Tickets(f)) <= MostNodes)'
    BY <2>c, NoNewTicket
  <2>1. CASE rows' = rows /\ pc'[t] \notin Counting
    <3>1. ASSUME NEW f \in Execs PROVE Tickets(f)' \subseteq Tickets(f)
      BY <2>1, <2>a, OwnTickets DEF Open, Counting
    <3>. QED BY <2>1, <2>b, <2>c, <3>1 DEF Counting
  <2>2. CASE /\ rows' = rows /\ pc[t] = "step" /\ pc'[t] = "gate"
             /\ loc'[t].exec = loc[t].exec /\ loc'[t].count = loc[t].count
             /\ loc[t].count < MaxNodes
    <3>1. ASSUME NEW f \in Execs, NEW p \in Tickets(f)' PROVE p \in Tickets(f)
      <4>1. CASE p[1] = t /\ loc'[t].exec = f /\ Open(t, p[2])'
        <5>1. Open(t, p[2]) /\ loc[t].exec = f
          BY <2>2, <4>1 DEF Open
        <5>2. p \in Engines \X (1 .. MaxNodes)
          BY <3>1 DEF Tickets
        <5>. QED BY <4>1, <5>1, <5>2 DEF Tickets
      <4>. QED BY <2>a, <3>1, <4>1, OwnTickets
    <3>. QED BY <2>2, <2>b, <2>c, <3>1
  <2>3. CASE /\ rows' = rows /\ pc[t] = "run" /\ pc'[t] = "step"
             /\ loc'[t].exec = loc[t].exec /\ loc'[t].count = loc[t].count + 1
    <3>1. ASSUME NEW f \in Execs, NEW p \in Tickets(f)' PROVE p \in Tickets(f)
      <4>1. CASE p[1] = t /\ loc'[t].exec = f /\ Open(t, p[2])'
        <5>1. Open(t, p[2]) /\ loc[t].exec = f
          BY <2>3, <4>1 DEF Open
        <5>2. p \in Engines \X (1 .. MaxNodes)
          BY <3>1 DEF Tickets
        <5>. QED BY <4>1, <5>1, <5>2 DEF Tickets
      <4>. QED BY <2>a, <3>1, <4>1, OwnTickets
    <3>. QED BY <2>3, <2>b, <2>c, <3>1
  <2>4. CASE /\ rows' = [rows EXCEPT ![loc[t].exec] = @ + 1]
             /\ pc[t] = "gate" /\ pc'[t] = "run" /\ loc'[t] = loc[t]
    <3> DEFINE q == <<t, loc[t].count + 1>>
    <3>1. loc[t].count < MaxNodes
      BY <2>4 DEF NodesInv
    <3>2. q \in Tickets(e)
      <4>1. loc[t].count + 1 \in 1 .. MaxNodes /\ loc[t].count < loc[t].count + 1
        BY <1>a, <2>a, <3>1
      <4>2. Open(t, loc[t].count + 1)
        BY <2>4, <4>1 DEF Open
      <4>. QED BY <2>a, <4>1, <4>2 DEF Tickets
    <3>3. ASSUME NEW f \in Execs, NEW p \in Tickets(f)' PROVE p \in Tickets(f) /\ p # q
      <4>1. CASE p[1] = t
        <5>1. p \in Engines \X (1 .. MaxNodes) /\ loc'[t].exec = f /\ Open(t, p[2])'
          BY <3>3, <4>1 DEF Tickets
        <5>2. loc[t].count + 1 < p[2] /\ loc[t].exec = f
          BY <2>4, <5>1 DEF Open
        <5>3. p[2] \in Nat
          BY <5>1
        <5>4. loc[t].count < p[2] /\ p[2] # loc[t].count + 1
          BY <2>a, <5>2, <5>3
        <5>5. Open(t, p[2])
          BY <2>4, <5>4 DEF Open
        <5>6. p \in Tickets(f)
          BY <4>1, <5>1, <5>2, <5>5 DEF Tickets
        <5>. QED BY <5>4, <5>6
      <4>2. CASE p[1] # t
        <5>1. p \in Tickets(f)
          BY <2>a, <3>3, <4>2, OwnTickets
        <5>. QED BY <4>2, <5>1
      <4>. QED BY <4>1, <4>2
    <3>4. ASSUME NEW f \in Execs, f # e PROVE (rows[f] + Cardinality(Tickets(f)) <= MostNodes)'
      <4>1. rows'[f] = rows[f] /\ Tickets(f)' \subseteq Tickets(f)
        BY <1>a, <2>4, <3>3, <3>4
      <4>. QED BY <4>1, NoNewTicket
    <3>5. (rows[e] + Cardinality(Tickets(e)) <= MostNodes)'
      <4> PICK f \in Execs : f = e
        BY <2>a
      <4> DEFINE B == Cardinality(Tickets(f))
                 C == Cardinality(Tickets(f)')
      <4>1. IsFiniteSet(Tickets(f)) /\ B \in Nat /\ C \in Nat
        BY TicketsFinite
      <4>2. Cardinality(Tickets(f) \ {q}) = B - 1 /\ IsFiniteSet(Tickets(f) \ {q})
        BY <3>2, <4>1, FS_RemoveElement
      <4>3. Tickets(f)' \subseteq Tickets(f) \ {q}
        BY <3>3
      <4>4. C <= B - 1
        BY <4>2, <4>3, FS_Subset
      <4>5. rows'[f] = rows[f] + 1 /\ rows[f] \in Nat /\ MostNodes \in Nat
        BY <1>a, <2>4, EnginesFinite
      <4>6. rows[f] + B <= MostNodes
        BY DEF NodesInv
      <4>7. rows'[f] + C <= MostNodes
        <5> HIDE DEF B, C
        <5>. QED BY <4>1, <4>4, <4>5, <4>6
      <4>8. f = loc'[t].exec
        BY <2>4
      <4>. QED BY <4>7, <4>8, <2>4 DEF MostNodes
    <3>6. \A f \in Execs : (rows[f] + Cardinality(Tickets(f)) <= MostNodes)'
      <4> SUFFICES ASSUME NEW f \in Execs PROVE (rows[f] + Cardinality(Tickets(f)) <= MostNodes)'
        OBVIOUS
      <4>1. CASE f = e
        BY <2>4, <3>5, <4>1
      <4>. QED BY <3>4, <4>1
    <3>. QED BY <2>4, <2>b, <3>6
  <2>5. CASE /\ rows' = rows /\ pc[t] = "scan" /\ pc'[t] = "step"
             /\ loc'[t].exec = loc[t].exec /\ loc'[t].count = rows[loc[t].exec]
    <3>1. ASSUME NEW f \in Execs, f # e \/ ~(rows[e] <= MaxNodes)
          PROVE  (rows[f] + Cardinality(Tickets(f)) <= MostNodes)'
      <4>1. ASSUME NEW p \in Tickets(f)' PROVE p \in Tickets(f)
        <5>1. CASE p[1] = t /\ loc'[t].exec = f /\ Open(t, p[2])'
          <6>1. f = e /\ rows[e] < p[2] /\ p[2] \in 1 .. MaxNodes
            BY <2>5, <4>1, <5>1 DEF Open, Tickets
          <6>2. rows[e] <= MaxNodes
            <7>1. \A i, j, k \in Nat : i < j /\ j <= k => i <= k
              OBVIOUS
            <7>2. rows[e] \in Nat /\ p[2] \in Nat /\ p[2] <= MaxNodes
              BY <1>a, <2>a, <6>1
            <7>. QED BY <1>a, <6>1, <7>1, <7>2
          <6>. QED BY <3>1, <6>1, <6>2
        <5>. QED BY <2>a, <4>1, <5>1, OwnTickets
      <4>. QED BY <2>5, <4>1, NoNewTicket
    <3>2. ASSUME rows[e] <= MaxNodes, NEW f \in Execs, f = e
          PROVE  (rows[f] + Cardinality(Tickets(f)) <= MostNodes)'
      <4> DEFINE All == Engines \X (1 .. MaxNodes)
                 Begun == {t} \X (1 .. rows[f])
      <4>1. rows[f] \in Nat /\ rows[f] <= MaxNodes
        BY <1>a, <3>2
      <4>2. Begun \subseteq All
        BY <1>a, <2>a, <4>1
      <4>3. IsFiniteSet(Begun) /\ Cardinality(Begun) = rows[f]
        <5>1. IsFiniteSet(1 .. rows[f]) /\ Cardinality(1 .. rows[f]) = rows[f]
          <6>1. \A k \in Nat : IsFiniteSet(1 .. k) /\ Cardinality(1 .. k) = k
            <7> SUFFICES ASSUME NEW k \in Nat PROVE IsFiniteSet(1 .. k) /\ Cardinality(1 .. k) = k
              OBVIOUS
            <7>1. 1 \in Int /\ k \in Int /\ (IF 1 > k THEN 0 ELSE k - 1 + 1) = k
              OBVIOUS
            <7>. QED BY <7>1, FS_Interval
          <6>. QED BY <4>1, <6>1
        <5>2. IsFiniteSet({t}) /\ Cardinality({t}) = 1
          BY FS_Singleton
        <5>3. IsFiniteSet(Begun) /\ Cardinality(Begun) = Cardinality({t}) * Cardinality(1 .. rows[f])
          BY <5>1, <5>2, FS_Product
        <5>. QED BY <4>1, <5>1, <5>2, <5>3
      <4>4. Tickets(f)' \subseteq All \ Begun
        <5> SUFFICES ASSUME NEW p \in Tickets(f)', p \in Begun PROVE FALSE
          BY DEF Tickets
        <5>1. p[1] = t /\ p[2] <= rows[f] /\ p[2] \in Nat
          BY <4>1
        <5>2. Open(t, p[2])'
          BY <5>1 DEF Tickets
        <5>. QED BY <2>5, <3>2, <4>1, <5>1, <5>2 DEF Open
      <4>5. /\ IsFiniteSet(All \ Begun)
            /\ Cardinality(All \ Begun) = Cardinality(All) - Cardinality(Begun)
        <5>1. All \cap Begun = Begun
          BY <4>2
        <5>2. /\ IsFiniteSet(All \ Begun)
              /\ Cardinality(All \ Begun) = Cardinality(All) - Cardinality(All \cap Begun)
          BY EnginesFinite, FS_Difference
        <5>. QED BY <5>1, <5>2
      <4> DEFINE C == Cardinality(Tickets(f)')
                 D == Cardinality(All \ Begun)
      <4>6. C <= D /\ C \in Nat
        BY <4>4, <4>5, FS_Subset, TicketsFinite
      <4>7. D = MostNodes - rows[f] /\ MostNodes \in Nat
        BY <4>3, <4>5, EnginesFinite
      <4>8. rows'[f] + C <= MostNodes
        <5> HIDE DEF C, D
        <5>. QED BY <2>5, <4>1, <4>6, <4>7
      <4>. QED BY <4>8 DEF MostNodes
    <3>3. \A f \in Execs : (rows[f] + Cardinality(Tickets(f)) <= MostNodes)'
      BY <1>a, <2>a, <3>1, <3>2
    <3>. QED BY <2>5, <2>b, <3>3
  <2>. QED BY <1>1, <2>1, <2>2, <2>3, <2>4, <2>5, EngineCounts
<1>2. ASSUME NEW t \in Threads, Aside(t) PROVE NodesInv'
  <2>1. ASSUME NEW f \in Execs PROVE Tickets(f)' \subseteq Tickets(f)
    BY <1>2, OwnTickets DEF Open, Counting, Aside
  <2>2. \A f \in Execs : rows'[f] = rows[f] \/ rows'[f] = 0
    BY <1>a, <1>2 DEF Aside
  <2>3. \A f \in Execs : (rows[f] + Cardinality(Tickets(f)) <= MostNodes)'
    BY <2>1, <2>2, NoNewTicket
  <2>4. (\A u \in Threads : pc[u] = "gate" => loc[u].count < MaxNodes)'
    BY <1>2 DEF Aside, Counting, NodesInv
  <2>. QED BY <2>3, <2>4 DEF NodesInv
<1>3. CASE UNCHANGED <<pc, loc, rows>>
  <2>1. \A f \in Execs : Tickets(f)' = Tickets(f)
    BY <1>3 DEF Tickets, Open
  <2>2. \A f \in Execs : (rows[f] + Cardinality(Tickets(f)) <= MostNodes)'
    BY <1>3, <2>1, NoNewTicket
  <2>. QED BY <1>3, <2>2 DEF NodesInv
<1>. QED BY <1>1, <1>2, <1>3, OthersCount

\* engine.py, cycle protection, when it is at its worst: every thread that may be
\* inside the engine counts the node runs of its execution once, on entry, and
\* trusts its own count from then on.  So max_nodes_executed is not a bound on the
\* node runs of an execution, but max_nodes_executed for each worker (and each
\* request thread, if callbacks are sent) is: for any requests, retries, crashes
\* and recoveries, without any assumption.
THEOREM NodeRunsBounded ==
  Spec => [](\A e \in Execs : rows[e] <= Cardinality(Engines) * MaxNodes)
<1>1. Init => NodesInv
  <2> SUFFICES ASSUME Init PROVE NodesInv
    OBVIOUS
  <2>1. \A t \in Threads : pc[t] = "idle"
    BY DEF Init
  <2>2. EnginesInv
    BY <2>1 DEF EnginesInv, InEngine, EngineLocations
  <2>3. ASSUME NEW e \in Execs PROVE rows[e] + Cardinality(Tickets(e)) <= MostNodes
    <3>1. Tickets(e) = {}
      <4>1. \A p \in Engines \X (1 .. MaxNodes) : pc[p[1]] = "idle"
        BY <2>1, EnginesFinite, Assumptions
      <4>. QED BY <4>1 DEF Tickets, Open
    <3>2. Cardinality(Tickets(e)) = 0
      BY <3>1, FS_EmptySet
    <3>3. rows[e] = 0 /\ MostNodes \in Nat
      BY EnginesFinite, Assumptions DEF Init
    <3>. QED BY <3>2, <3>3
  <2>. QED BY <2>1, <2>2, <2>3 DEF NodesInv
<1>2. TypeOK /\ TypeOK' /\ NodesInv /\ [Next]_vars => NodesInv'
  <2> SUFFICES ASSUME TypeOK, TypeOK', NodesInv, [Next]_vars PROVE NodesInv'
    OBVIOUS
  <2>1. EnginesInv'
    BY EnginesStay, Assumptions DEF NodesInv
  <2>. QED BY <2>1, NodesStep, Assumptions
<1>3. TypeOK /\ NodesInv => \A e \in Execs : rows[e] <= Cardinality(Engines) * MaxNodes
  <2> SUFFICES ASSUME TypeOK, NodesInv, NEW e \in Execs PROVE rows[e] <= MostNodes
    BY DEF MostNodes
  <2>1. /\ rows[e] \in Nat /\ Cardinality(Tickets(e)) \in Nat /\ MostNodes \in Nat
        /\ rows[e] + Cardinality(Tickets(e)) <= MostNodes
    BY TicketsFinite, EnginesFinite, Assumptions DEF NodesInv, TypeOK, TablesOK
  <2>2. \A i, j, k \in Nat : i + j <= k => i <= k
    OBVIOUS
  <2>. QED BY <2>1, <2>2
<1>. QED BY <1>1, <1>2, <1>3, TypeCorrect, PTL DEF Spec

-----------------------------------------------------------------------------
(* The bound of a single thread: as long as no other thread is inside the  *)
(* engine with the same execution, the count is never out of date.         *)

\* No two workers ever run the same execution: there is one, or jobs stay locked.
WorkersApart ==
  (\A v, w \in Workers : v = w) \/ ("resume" \notin Ops /\ RecoveryIsHarmless)

LEMMA ApartHolds == ASSUME WorkersApart PROVE Spec => []Apart
<1>1. CASE \A v, w \in Workers : v = w
  <2>1. Apart
    BY <1>1 DEF Apart
  <2>. QED BY <2>1, PTL
<1>2. CASE "resume" \notin Ops /\ RecoveryIsHarmless
  <2>1. Spec => []LockInv
    BY <1>2, LockInvHolds
  <2>2. LockInv => Apart
    BY LockedApart
  <2>. QED BY <2>1, <2>2, PTL
<1>. QED BY <1>1, <1>2 DEF WorkersApart

Counted(w) ==
  /\ pc[w] \in {"step", "gate"} => loc[w].count = rows[loc[w].exec]
  /\ pc[w] = "gate" => loc[w].count < MaxNodes
  /\ pc[w] = "run" => loc[w].count + 1 = rows[loc[w].exec]

CycleInv ==
  /\ \A e \in Execs : rows[e] <= MaxNodes
  /\ \A w \in Workers : Counted(w)

LEMMA CycleStep ==
  ASSUME Assumptions, "callback" \notin Ops, TypeOK, TypeOK', EnginesInv, Apart, CycleInv, [Next]_vars
  PROVE  CycleInv'
<1>a. /\ rows \in [Execs -> Nat] /\ MaxNodes \in Nat \ {0} /\ Workers \subseteq Threads
      /\ \A t \in Workers : pc[t] \notin {"idle", "down"} => loc[t].exec \in Execs
  BY DEF TypeOK, TablesOK, ThreadsOK, Consistent, Assumptions, Threads
\* The worker that did not move, while the rows of another execution change.
<1>b. ASSUME NEW t \in Workers, Holds(t), NEW v \in Workers \ {t},
             pc'[v] = pc[v] /\ loc'[v] = loc[v],
             \A f \in Execs : f # loc[t].exec => rows'[f] = rows[f]
      PROVE  Counted(v)'
  <2>1. CASE Holds(v)
    <3>1. loc[v].exec # loc[t].exec /\ loc[v].exec \in Execs
      BY <1>a, <1>b, <2>1 DEF Apart, Holds
    <3>2. rows'[loc[v].exec] = rows[loc[v].exec]
      BY <1>b, <3>1
    <3>3. Counted(v)
      BY DEF CycleInv
    <3>. QED BY <1>b, <3>2, <3>3 DEF Counted
  <2>2. CASE ~Holds(v)
    BY <1>b, <2>2 DEF Counted, Holds
  <2>. QED BY <2>1, <2>2
<1>1. ASSUME NEW t \in Threads, EngineStep(t) PROVE CycleInv'
  <2> DEFINE e == loc[t].exec
  <2>1. InEngine(t) /\ \A u \in Threads \ {t} : pc'[u] = pc[u] /\ loc'[u] = loc[u]
    BY <1>1, EngineCounts
  <2>2. t \in Workers /\ Holds(t) /\ e \in Execs /\ Counted(t) /\ loc[t].count \in Nat
    <3>1. t \in Workers
      BY <2>1 DEF EnginesInv, Engines
    <3>2. Holds(t)
      BY <2>1 DEF InEngine, EngineLocations, Holds
    <3>. QED BY <1>a, <3>1, <3>2 DEF CycleInv, Holds, TypeOK, ThreadsOK, Local
  <2>3. /\ \A f \in Execs : f # e => rows'[f] = rows[f]
        /\ rows'[e] = rows[e] \/ (pc[t] = "gate" /\ rows'[e] = rows[e] + 1)
        /\ Counted(t)'
    <3>1. CASE rows' = rows /\ pc'[t] \notin Counting
      BY <3>1 DEF Counted, Counting
    <3>2. CASE /\ rows' = rows /\ pc[t] = "scan" /\ pc'[t] = "step"
               /\ loc'[t].exec = loc[t].exec /\ loc'[t].count = rows[loc[t].exec]
      BY <3>2 DEF Counted
    <3>3. CASE /\ rows' = rows /\ pc[t] = "step" /\ pc'[t] = "gate"
               /\ loc'[t].exec = loc[t].exec /\ loc'[t].count = loc[t].count
               /\ loc[t].count < MaxNodes
      BY <2>2, <3>3 DEF Counted
    <3>4. CASE /\ rows' = rows /\ pc[t] = "run" /\ pc'[t] = "step"
               /\ loc'[t].exec = loc[t].exec /\ loc'[t].count = loc[t].count + 1
      BY <2>2, <3>4 DEF Counted
    <3>5. CASE /\ rows' = [rows EXCEPT ![loc[t].exec] = @ + 1]
               /\ pc[t] = "gate" /\ pc'[t] = "run" /\ loc'[t] = loc[t]
      <4>1. rows'[e] = rows[e] + 1 /\ \A f \in Execs : f # e => rows'[f] = rows[f]
        BY <1>a, <2>2, <3>5
      <4>. QED BY <2>2, <3>5, <4>1 DEF Counted
    <3>. QED BY <1>1, <3>1, <3>2, <3>3, <3>4, <3>5, EngineCounts
  <2>4. ASSUME NEW v \in Workers PROVE Counted(v)'
    <3>1. CASE v = t
      BY <2>3, <3>1
    <3>2. CASE v # t
      BY <1>a, <1>b, <2>1, <2>2, <2>3, <3>2
    <3>. QED BY <3>1, <3>2
  <2>5. ASSUME NEW f \in Execs PROVE rows'[f] <= MaxNodes
    <3>1. rows[f] <= MaxNodes /\ rows[f] \in Nat
      BY <1>a DEF CycleInv
    <3>2. CASE rows'[f] = rows[f]
      BY <3>1, <3>2
    <3>3. CASE f = e /\ pc[t] = "gate" /\ rows'[e] = rows[e] + 1
      <4>1. loc[t].count = rows[e] /\ loc[t].count < MaxNodes
        BY <2>2, <3>3 DEF Counted
      <4>. QED BY <1>a, <2>2, <3>3, <4>1
    <3>. QED BY <2>3, <3>2, <3>3
  <2>. QED BY <2>4, <2>5 DEF CycleInv
<1>2. ASSUME NEW t \in Threads, Aside(t) PROVE CycleInv'
  <2>1. CASE rows' = rows
    <3>1. ASSUME NEW v \in Workers PROVE Counted(v)'
      <4>1. Counted(v) /\ v \in Threads
        BY <1>a DEF CycleInv
      <4>. QED BY <1>2, <2>1, <4>1 DEF Aside, Counted, Counting
    <3>. QED BY <2>1, <3>1 DEF CycleInv
  <2>2. CASE t \in Workers /\ pc[t] = "clear" /\ rows' = [rows EXCEPT ![loc[t].exec] = 0]
    <3>1. Holds(t) /\ loc[t].exec \in Execs
      BY <1>a, <2>2 DEF Holds
    <3>2. /\ \A f \in Execs : f # loc[t].exec => rows'[f] = rows[f]
          /\ rows'[loc[t].exec] = 0
      BY <1>a, <2>2, <3>1
    <3>3. ASSUME NEW v \in Workers PROVE Counted(v)'
      <4>1. CASE v = t
        BY <1>2, <4>1 DEF Aside, Counted, Counting
      <4>2. CASE v # t
        <5>1. pc'[v] = pc[v] /\ loc'[v] = loc[v]
          BY <1>2, <1>a, <4>2 DEF Aside
        <5>. QED BY <1>b, <2>2, <3>1, <3>2, <4>2, <5>1
      <4>. QED BY <4>1, <4>2
    <3>4. \A f \in Execs : rows'[f] <= MaxNodes
      BY <1>a, <3>2 DEF CycleInv
    <3>. QED BY <3>3, <3>4 DEF CycleInv
  <2>. QED BY <1>2, <2>1, <2>2 DEF Aside
<1>3. CASE UNCHANGED <<pc, loc, rows>>
  BY <1>3 DEF CycleInv, Counted
<1>. QED BY <1>1, <1>2, <1>3, OthersCount

\* engine.py, cycle protection: executed_count is counted again from the rows
\* after every pause, so no attempt of an execution begins more than
\* max_nodes_executed nodes.  For any graph, jobs, retries, crashes and
\* cancellations, provided no callbacks are sent and no two workers run one
\* execution: there is one worker, or (without resume requests, and with a
\* harmless recovery) dequeue keeps them apart.
THEOREM CyclesBounded ==
  ASSUME "callback" \notin Ops, WorkersApart
  PROVE  Spec => []CycleBound
<1>1. Init => CycleInv
  BY Assumptions DEF Init, CycleInv, Counted, Threads
<1>2. TypeOK /\ TypeOK' /\ EnginesInv /\ Apart /\ CycleInv /\ [Next]_vars => CycleInv'
  BY CycleStep, Assumptions
<1>3. CycleInv => CycleBound
  BY DEF CycleInv, CycleBound
<1>4. Spec => []Apart
  BY ApartHolds
<1>. QED BY <1>1, <1>2, <1>3, <1>4, EnginesHold, TypeCorrect, PTL DEF Spec

-----------------------------------------------------------------------------
(* Nobody but the worker that holds a job touches its execution and its    *)
(* approvals.  What the worker knows at each place (Doing) is then enough  *)
(* for suspended jobs and for completed ones.                              *)

\* One worker, and no requests but starts and resumes.
OneWorker == \A v, w \in Workers : v = w
Solo == OneWorker /\ Ops \subseteq {"resume"}

\* Or any number of them that recovery does not disturb, and jobs are cancelled.
Calm == Solo \/ (Ops \subseteq {"cancelJob"} /\ RecoveryIsHarmless)

\* What keeps the threads out of each other's way.
Guarded == Apart /\ ("cancelJob" \in Ops => LockInv)

LEMMA GuardedHolds == ASSUME Calm PROVE Spec => []Guarded
<1>1. CASE Solo
  <2>1. Guarded
    BY <1>1 DEF Solo, OneWorker, Guarded, Apart
  <2>. QED BY <2>1, PTL
<1>2. CASE Ops \subseteq {"cancelJob"} /\ RecoveryIsHarmless
  <2>1. "resume" \notin Ops
    BY <1>2
  <2>2. Spec => []LockInv
    BY <1>2, <2>1, LockInvHolds
  <2>3. LockInv => Guarded
    BY LockedApart DEF Guarded
  <2>. QED BY <2>2, <2>3, PTL
<1>. QED BY <1>1, <1>2 DEF Calm

Waiting(e) ==
  /\ execs[e].status = "RUNNING"
  /\ \E a \in approvals[e] : IsLatest(a, e) /\ a.decision = None /\ a.node = execs[e].node

Doing(w) ==
  /\ pc[w] = "gate" => execs[loc[w].exec] = [status |-> "RUNNING", node |-> loc[w].node]
  /\ pc[w] = "ask" => Waiting(loc[w].exec)
  /\ pc[w] = "decide" => loc[w].appr.id <= gates[loc[w].exec]
  /\ pc[w] = "settle" /\ loc[w].result = "PAUSED" => Waiting(loc[w].exec)
  /\ pc[w] = "settle" /\ loc[w].result = "COMPLETED" => execs[loc[w].exec].status = "COMPLETED"

\* The row of a job that is being processed.
NotSettled(e) == jobs[e] # None => jobs[e].status # "COMPLETED" /\ jobs[e].owner # HIL

SettledRight(e) ==
  jobs[e] # None =>
    /\ execs[e] # None
    /\ jobs[e].status = "COMPLETED" => execs[e].status = "COMPLETED"
    /\ jobs[e].status = "RUNNING" /\ jobs[e].owner = HIL => Waiting(e)

GatesNumbered(e) == \A a \in approvals[e] : a.id <= gates[e]

\* Where a request handler can be, and what it has seen.
Calling(c) ==
  /\ pc[c] \in {"idle", "enqueue", "requeue", "elookup", "ecancel"}
  /\ pc[c] # "idle" => execs[loc[c].exec] # None
  /\ pc[c] = "requeue" => "resume" \in Ops
  /\ pc[c] \in {"elookup", "ecancel"} =>
       "cancelJob" \in Ops /\ jobs[loc[c].exec] # None /\ jobs[loc[c].exec].status = "CANCELLED"

CalmInv ==
  /\ \A c \in Clients : Calling(c)
  /\ \A w \in Workers : Holds(w) => /\ Doing(w) /\ NotSettled(loc[w].exec)
                                    /\ execs[loc[w].exec] # None
  /\ \A e \in Execs : SettledRight(e) /\ GatesNumbered(e)

\* A worker that does not move still knows what it knew, when its rows stay.
LEMMA StillKnown ==
  ASSUME TypeOK, CalmInv, NEW v \in Workers, Holds(v)', pc'[v] = pc[v], loc'[v] = loc[v],
         NEW e \in Execs, e = loc[v].exec,
         execs'[e] = execs[e], approvals'[e] = approvals[e], gates'[e] = gates[e],
         NotSettled(e) => NotSettled(e)'
  PROVE  Doing(v)' /\ NotSettled(loc[v].exec)' /\ execs'[loc'[v].exec] # None
<1>1. Holds(v)
  BY DEF Holds
<1>2. Doing(v) /\ NotSettled(e) /\ execs[e] # None
  BY <1>1 DEF CalmInv
<1>3. e = loc'[v].exec
  OBVIOUS
<1>4. Doing(v)'
  BY <1>2, <1>3 DEF Doing, Waiting, IsLatest
<1>5. NotSettled(e)'
  BY <1>2
<1>6. NotSettled(loc[v].exec)'
  BY <1>3, <1>5 DEF NotSettled
<1>. QED BY <1>2, <1>3, <1>4, <1>6

\* A handler that does not move, when the rows it has seen stay.
LEMMA StillCalling ==
  ASSUME TypeOK, CalmInv, NEW c \in Clients, pc'[c] = pc[c], loc'[c] = loc[c],
         pc[c] # "idle" => execs'[loc[c].exec] # None,
         "cancelJob" \in Ops /\ jobs[loc[c].exec] # None /\ jobs[loc[c].exec].status = "CANCELLED" =>
           jobs'[loc[c].exec] = jobs[loc[c].exec]
  PROVE  Calling(c)'
<1>1. Calling(c)
  BY DEF CalmInv
<1>. QED BY <1>1 DEF Calling

\* A step of worker w that touches nothing but its own execution.
LEMMA CalmMove ==
  ASSUME Assumptions, Calm, Guarded, Guarded', TypeOK, TypeOK', CalmInv, NEW w \in Workers, NEW e \in Execs,
         Holds(w), loc[w].exec = e, loc'[w].exec = e, jobs' = jobs,
         \A u \in Threads \ {w} : pc'[u] = pc[u] /\ loc'[u] = loc[u],
         \A f \in Execs \ {e} : /\ execs'[f] = execs[f] /\ approvals'[f] = approvals[f]
                                /\ gates'[f] = gates[f],
         execs'[e] # None, GatesNumbered(e)', Doing(w)'
  PROVE  CalmInv'
<1>1. (\A c \in Clients : c \in Threads \ {w}) /\ Workers \subseteq Threads
  BY DEF Threads, Assumptions
<1>2. ASSUME NEW c \in Clients PROVE Calling(c)'
  <2>1. pc'[c] = pc[c] /\ loc'[c] = loc[c]
    BY <1>1
  <2>2. pc[c] # "idle" => loc[c].exec \in Execs /\ execs[loc[c].exec] # None
    BY <1>1 DEF CalmInv, Calling, TypeOK, ThreadsOK, Consistent
  <2>. QED BY <2>1, <2>2, StillCalling
<1>3. ASSUME NEW v \in Workers, Holds(v)'
      PROVE  Doing(v)' /\ NotSettled(loc[v].exec)' /\ execs'[loc'[v].exec] # None
  <2>1. CASE v = w
    <3>1. NotSettled(e)
      BY DEF CalmInv
    <3>2. NotSettled(loc[w].exec)'
      BY <3>1 DEF NotSettled
    <3>. QED BY <2>1, <3>2
  <2>2. CASE v # w
    <3>1. pc'[v] = pc[v] /\ loc'[v] = loc[v]
      BY <1>1, <2>2
    <3>2. Holds(v)
      BY <1>3, <3>1 DEF Holds
    <3>3. PICK f \in Execs : f = loc[v].exec
      BY <3>2, HeldExec
    <3>4. f # e
      BY <2>2, <3>2, <3>3 DEF Guarded, Apart
    <3>5. NotSettled(f) => NotSettled(f)'
      BY DEF NotSettled
    <3>. QED BY <1>3, <3>1, <3>3, <3>4, <3>5, StillKnown
  <2>. QED BY <2>1, <2>2
<1>4. ASSUME NEW f \in Execs PROVE SettledRight(f)' /\ GatesNumbered(f)'
  <2>1. CASE f = e
    <3>1. NotSettled(e)
      BY DEF CalmInv
    <3>. QED BY <2>1, <3>1 DEF SettledRight, NotSettled
  <2>2. CASE f # e
    <3>1. SettledRight(f) /\ GatesNumbered(f)
      BY DEF CalmInv
    <3>2. execs'[f] = execs[f] /\ approvals'[f] = approvals[f] /\ gates'[f] = gates[f]
      BY <2>2
    <3>3. Waiting(f) => Waiting(f)'
      BY <3>2 DEF Waiting, IsLatest
    <3>. QED BY <3>1, <3>2, <3>3 DEF SettledRight, GatesNumbered
  <2>. QED BY <2>1, <2>2
<1>. QED BY <1>2, <1>3, <1>4 DEF CalmInv

\* What a worker that leaves the engine knows afterwards.
LEMMA CalmLeaves ==
  ASSUME Assumptions, TypeOK, NEW w \in Workers, NEW r, LeaveEngine(w, r),
         r = "PAUSED" => Waiting(loc[w].exec)',
         r = "COMPLETED" => execs'[loc[w].exec].status = "COMPLETED"
  PROVE  Doing(w)'
<1>1. w \in Threads /\ w \notin Clients
  BY DEF Threads, Assumptions
<1>2. Goto(w, "settle") /\ loc' = [loc EXCEPT ![w] = [NoLocal EXCEPT !.exec = loc[w].exec, !.result = r]]
  BY <1>1 DEF LeaveEngine
<1>3. pc'[w] = "settle" /\ loc'[w].exec = loc[w].exec /\ loc'[w].result = r
  BY <1>1, <1>2 DEF Goto, NoLocal, TypeOK, ThreadsOK
<1>. QED BY <1>3 DEF Doing, Waiting, IsLatest

\* execs after a save of the thread's copy, when the copy's node is a node or None.
LEMMA CalmSave ==
  ASSUME Assumptions, TypeOK, NEW t \in Threads, loc[t].exec \in Execs,
         NEW s \in ExecStatus, NEW n \in Nodes \cup {None}, SaveExecution(t, s, n)
  PROVE  /\ execs'[loc[t].exec] = [status |-> s, node |-> n]
         /\ execs'[loc[t].exec] # None
         /\ \A f \in Execs \ {loc[t].exec} : execs'[f] = execs[f]
<1>1. [status |-> s, node |-> n] \in Exec
  BY DEF Exec
<1>. QED BY <1>1 DEF SaveExecution, TypeOK, TablesOK, Assumptions

LEMMA EngineCalm ==
  ASSUME Assumptions, Calm, Guarded, Guarded', TypeOK, TypeOK', CalmInv, NEW t \in Threads, EngineStep(t)
  PROVE  CalmInv'
<1> DEFINE x == loc[t]
           e == loc[t].exec
<1>a. /\ jobs' = jobs /\ Keeps(t)
      /\ t \in Workers => Holds(t) /\ loc'[t].exec = e
  BY EngineKeeps
<1>b. t \in Workers
  <2>1. pc[t] \notin {"idle", "enqueue", "requeue", "elookup", "ecancel"}
    BY DEF EngineStep, ScanNodeRuns, DepthExceeded, SaveCursor, DenyByPolicy, StopManual,
           PauseForApproval, AskApprovers, BeginNode, FollowEdge, ReachLeaf, NodeFails, NoRoute,
           FailExecution, CompleteExecution, LookupExecution, NotResumable, LookupApproval,
           NothingToDecide, DecideGate, RejectExecution
  <2>. QED BY <2>1 DEF CalmInv, Calling, Threads
<1>c. /\ e \in Execs /\ x \in Local /\ x.node \in Nodes \cup {None} /\ execs[e] # None
      /\ Doing(t) /\ GatesNumbered(e) /\ gates[e] \in Nat
  <2>1. e \in Execs /\ x \in Local
    BY <1>a, <1>b, HeldExec DEF TypeOK, ThreadsOK
  <2>. QED BY <1>a, <1>b, <2>1 DEF CalmInv, TypeOK, TablesOK, Local
<1>d. \A u \in Threads \ {t} : pc'[u] = pc[u] /\ loc'[u] = loc[u]
  BY <1>a DEF Keeps
<1>e. ASSUME \A f \in Execs \ {e} : /\ execs'[f] = execs[f] /\ approvals'[f] = approvals[f]
                                    /\ gates'[f] = gates[f],
             execs'[e] # None, GatesNumbered(e)', Doing(t)'
      PROVE  CalmInv'
  BY <1>a, <1>b, <1>c, <1>d, <1>e, CalmMove
<1>f. ASSUME NEW l \in Locations, Goto(t, l) PROVE pc'[t] = l
  BY <1>f DEF Goto, TypeOK, ThreadsOK
<1>1. CASE \/ DepthExceeded(t) \/ DenyByPolicy(t) \/ StopManual(t) \/ FailExecution(t) \/ RejectExecution(t)
  <2>1. /\ \E n \in Nodes \cup {None} : SaveExecution(t, "FAILED", n)
        /\ LeaveEngine(t, "FAILED") /\ UNCHANGED <<approvals, gates>>
    BY <1>c, <1>1 DEF Local, DepthExceeded, DenyByPolicy, StopManual, FailExecution, RejectExecution
  <2>2. Doing(t)'
    BY <1>b, <2>1, CalmLeaves
  <2>3. execs'[e] # None /\ \A f \in Execs \ {e} : execs'[f] = execs[f]
    BY <1>c, <2>1, CalmSave DEF ExecStatus
  <2>. QED BY <1>a, <1>b, <1>c, <1>e, <2>1, <2>2, <2>3 DEF GatesNumbered
<1>2. CASE CompleteExecution(t)
  <2>1. /\ SaveExecution(t, "COMPLETED", None) /\ LeaveEngine(t, "COMPLETED")
        /\ UNCHANGED <<approvals, gates>>
    BY <1>2 DEF CompleteExecution
  <2>2. /\ execs'[e] = [status |-> "COMPLETED", node |-> None] /\ execs'[e] # None
        /\ \A f \in Execs \ {e} : execs'[f] = execs[f]
    BY <1>c, <2>1, CalmSave DEF ExecStatus
  <2>3. Doing(t)'
    BY <1>b, <2>1, <2>2, CalmLeaves
  <2>. QED BY <1>a, <1>b, <1>c, <1>e, <2>1, <2>2, <2>3 DEF GatesNumbered
<1>3. CASE SaveCursor(t)
  <2>1. /\ SaveExecution(t, "RUNNING", x.node) /\ pc'[t] = "gate"
        /\ loc'[t].exec = e /\ loc'[t].node = x.node /\ pc[t] = "step"
        /\ UNCHANGED <<approvals, gates>>
    BY <1>3, <1>f, CursorSaved DEF SaveCursor, Locations, TypeOK
  <2>2. /\ execs'[e] = [status |-> "RUNNING", node |-> x.node] /\ execs'[e] # None
        /\ \A f \in Execs \ {e} : execs'[f] = execs[f]
    BY <1>c, <2>1, CalmSave DEF ExecStatus
  <2>3. Doing(t)'
    BY <1>c, <2>1, <2>2 DEF Doing
  <2>. QED BY <1>c, <1>e, <2>1, <2>2, <2>3 DEF GatesNumbered
<1>4. CASE NotResumable(t) \/ NothingToDecide(t)
  <2>1. LeaveEngine(t, "ERROR") /\ UNCHANGED tables
    BY <1>4 DEF NotResumable, NothingToDecide
  <2>2. Doing(t)'
    BY <1>b, <2>1, CalmLeaves
  <2>. QED BY <1>a, <1>b, <1>c, <1>e, <2>1, <2>2 DEF GatesNumbered, tables
<1>5. CASE ScanNodeRuns(t) \/ FollowEdge(t) \/ ReachLeaf(t) \/ NodeFails(t) \/ NoRoute(t) \/ LookupExecution(t)
  <2>1. pc'[t] \in {"step", "complete", "fail", "approval"} /\ UNCHANGED tables
    BY <1>5, <1>f DEF ScanNodeRuns, FollowEdge, ReachLeaf, NodeFails, NoRoute, LookupExecution, Locations
  <2>2. Doing(t)'
    BY <2>1 DEF Doing
  <2>. QED BY <1>a, <1>b, <1>c, <1>e, <2>1, <2>2 DEF GatesNumbered, tables
<1>6. CASE BeginNode(t)
  <2>1. pc'[t] = "run" /\ UNCHANGED <<execs, approvals, gates>>
    BY <1>6, <1>f DEF BeginNode, Locations
  <2>2. Doing(t)'
    BY <2>1 DEF Doing
  <2>. QED BY <1>a, <1>b, <1>c, <1>e, <2>1, <2>2 DEF GatesNumbered
<1>7. CASE PauseForApproval(t)
  <2>1. PICK a : a = [id |-> gates[e] + 1, node |-> x.node, decision |-> None]
    OBVIOUS
  <2>2. /\ pc[t] = "gate" /\ pc'[t] = "ask"
        /\ approvals' = [approvals EXCEPT ![e] = @ \cup {a}]
        /\ gates' = [gates EXCEPT ![e] = @ + 1]
        /\ execs' = execs
    BY <1>7, <1>f, <2>1 DEF PauseForApproval, Locations
  <2>3. /\ approvals'[e] = approvals[e] \cup {a} /\ gates'[e] = gates[e] + 1
        /\ \A f \in Execs \ {e} : approvals'[f] = approvals[f] /\ gates'[f] = gates[f]
    BY <1>c, <2>2 DEF TypeOK, TablesOK
  <2>4. \A b \in approvals[e] : b.id \in Nat /\ b.id <= gates[e]
    BY <1>c DEF GatesNumbered, TypeOK, TablesOK, Approval
  <2>5. a.id = gates[e] + 1 /\ a.decision = None /\ a.node = x.node
    BY <2>1
  <2>6. \A b \in approvals'[e] : b.id <= gates'[e] /\ b.id <= a.id
    BY <1>c, <2>3, <2>4, <2>5
  <2>7. execs'[e] = [status |-> "RUNNING", node |-> x.node]
    BY <1>c, <2>2 DEF Doing
  <2>8. Waiting(e)'
    <3>1. e = loc'[t].exec
      BY <1>a, <1>b
    <3>. QED BY <2>3, <2>5, <2>6, <2>7, <3>1 DEF Waiting, IsLatest
  <2>9. Doing(t)'
    BY <1>a, <1>b, <2>2, <2>8 DEF Doing
  <2>10. GatesNumbered(e)'
    BY <1>a, <1>b, <2>6 DEF GatesNumbered
  <2>. QED BY <1>c, <1>e, <2>2, <2>3, <2>9, <2>10
<1>8. CASE AskApprovers(t)
  <2>1. pc[t] = "ask" /\ LeaveEngine(t, "PAUSED") /\ UNCHANGED <<execs, approvals, gates>>
    BY <1>8 DEF AskApprovers
  <2>2. Waiting(e)'
    BY <1>a, <1>b, <1>c, <2>1 DEF Doing, Waiting, IsLatest
  <2>3. Doing(t)'
    BY <1>b, <2>1, <2>2, CalmLeaves
  <2>. QED BY <1>a, <1>b, <1>c, <1>e, <2>1, <2>3 DEF GatesNumbered
<1>9. CASE LookupApproval(t)
  <2>1. PICK a \in approvals[e] : loc' = [loc EXCEPT ![t].appr = a]
    BY <1>9 DEF LookupApproval
  <2>2. loc'[t].appr = a
    BY <1>c, <2>1 DEF TypeOK, ThreadsOK, Local
  <2>3. pc'[t] = "decide" /\ UNCHANGED tables
    BY <1>9, <1>f DEF LookupApproval, Locations
  <2>4. a.id <= gates[e]
    BY <1>c DEF GatesNumbered
  <2>5. Doing(t)'
    BY <1>a, <1>b, <2>2, <2>3, <2>4 DEF Doing, tables
  <2>. QED BY <1>a, <1>b, <1>c, <1>e, <2>3, <2>5 DEF GatesNumbered, tables
<1>10. CASE DecideGate(t)
  <2>1. /\ pc[t] = "decide" /\ UNCHANGED <<execs, gates>>
        /\ approvals' = [approvals EXCEPT
             ![e] = {b \in @ : b.id # x.appr.id} \cup {[x.appr EXCEPT !.decision = x.choice]}]
    BY <1>10 DEF DecideGate
  <2>2. x.appr \in Approval /\ x.appr.id <= gates[e]
    BY <1>c, <2>1 DEF Doing, TypeOK, ThreadsOK, Consistent, AtNode
  <2>3. PICK a : a = [x.appr EXCEPT !.decision = x.choice]
    OBVIOUS
  <2>4. a.id <= gates[e]
    BY <2>2, <2>3 DEF Approval
  <2>5. /\ approvals'[e] = {b \in approvals[e] : b.id # x.appr.id} \cup {a}
        /\ \A f \in Execs \ {e} : approvals'[f] = approvals[f]
    BY <1>c, <2>1, <2>3 DEF TypeOK, TablesOK
  <2>6. GatesNumbered(e)'
    BY <1>a, <1>b, <1>c, <2>1, <2>4, <2>5 DEF GatesNumbered
  <2>7. Doing(t)'
    <3>1. CASE pc'[t] \in {"scan", "reject"}
      BY <3>1 DEF Doing
    <3>2. CASE LeaveEngine(t, "ERROR")
      BY <1>b, <3>2, CalmLeaves
    <3>. QED BY <1>10, <1>f, <3>1, <3>2 DEF DecideGate, Locations
  <2>. QED BY <1>c, <1>e, <2>1, <2>5, <2>6, <2>7
<1>. QED BY <1>1, <1>2, <1>3, <1>4, <1>5, <1>6, <1>7, <1>8, <1>9, <1>10 DEF EngineStep

\* A step of somebody else: rows are added, handed to the queue or cancelled.
LEMMA CalmAside ==
  ASSUME Assumptions, Calm, Guarded, TypeOK, CalmInv,
         \A w \in Workers : pc'[w] = pc[w] /\ loc'[w] = loc[w],
         UNCHANGED <<approvals, gates>>,
         \A f \in Execs :
           \/ jobs'[f] = jobs[f] /\ (execs[f] # None => execs'[f] = execs[f])
           \/ /\ execs[f] # None /\ execs'[f] = execs[f]
              /\ jobs'[f].status \in {"QUEUED", "RETRYING", "CANCELLED"}
              /\ jobs'[f].owner = HIL => jobs[f] # None /\ jobs[f].owner = HIL
           \/ /\ "cancelJob" \in Ops /\ execs'[f] # None
              /\ jobs'[f] = jobs[f] /\ jobs[f] # None /\ jobs[f].status = "CANCELLED",
         \A c \in Clients : Calling(c)'
  PROVE  CalmInv'
<1>1. ASSUME NEW w \in Workers, Holds(w)'
      PROVE  Doing(w)' /\ NotSettled(loc[w].exec)' /\ execs'[loc'[w].exec] # None
  <2>1. pc'[w] = pc[w] /\ loc'[w] = loc[w]
    OBVIOUS
  <2>2. Holds(w)
    BY <1>1, <2>1 DEF Holds
  <2>3. PICK e \in Execs : e = loc[w].exec
    BY <2>2, HeldExec
  <2>4. execs[e] # None /\ NotSettled(e)
    BY <2>2, <2>3 DEF CalmInv
  <2>5. "cancelJob" \in Ops => jobs[e].status = "RUNNING"
    BY <2>2, <2>3 DEF Guarded, LockInv
  <2>6. /\ execs'[e] = execs[e]
        /\ \/ jobs'[e] = jobs[e]
           \/ /\ jobs'[e].status \in {"QUEUED", "RETRYING", "CANCELLED"}
              /\ jobs'[e].owner = HIL => jobs[e] # None /\ jobs[e].owner = HIL
    BY <2>4, <2>5
  <2>7. NotSettled(e)'
    BY <2>4, <2>6 DEF NotSettled
  <2>. QED BY <1>1, <2>1, <2>3, <2>6, <2>7, StillKnown
<1>2. ASSUME NEW f \in Execs PROVE SettledRight(f)' /\ GatesNumbered(f)'
  <2>1. SettledRight(f) /\ GatesNumbered(f)
    BY DEF CalmInv
  <2>2. execs'[f] = execs[f] => (Waiting(f) => Waiting(f)')
    BY DEF Waiting, IsLatest
  <2>3. SettledRight(f)'
    <3>1. CASE jobs'[f] = jobs[f] /\ (execs[f] # None => execs'[f] = execs[f])
      BY <2>1, <2>2, <3>1 DEF SettledRight
    <3>2. CASE execs[f] # None /\ execs'[f] = execs[f] /\ jobs'[f].status \in {"QUEUED", "RETRYING", "CANCELLED"}
      BY <3>2 DEF SettledRight
    <3>3. CASE execs'[f] # None /\ jobs'[f] = jobs[f] /\ jobs[f].status = "CANCELLED"
      BY <3>3 DEF SettledRight
    <3>. QED BY <3>1, <3>2, <3>3
  <2>. QED BY <2>1, <2>3 DEF GatesNumbered
<1>. QED BY <1>1, <1>2 DEF CalmInv

\* A step after which worker w holds nothing.
LEMMA CalmRests ==
  ASSUME Assumptions, Calm, Guarded, TypeOK, CalmInv, NEW w \in Workers,
         pc'[w] \in {"idle", "down"},
         \A u \in Threads \ {w} : pc'[u] = pc[u] /\ loc'[u] = loc[u],
         UNCHANGED <<execs, approvals, gates>>,
         \A f \in Execs : \/ jobs'[f] = jobs[f]
                          \/ Holds(w) /\ f = loc[w].exec
                          \/ Orphan(f) /\ NotSettled(f)',
         \A f \in Execs : SettledRight(f)'
  PROVE  CalmInv'
<1>1. (\A c \in Clients : c \in Threads \ {w}) /\ Workers \subseteq Threads
  BY DEF Threads, Assumptions
<1>2. ASSUME NEW c \in Clients PROVE Calling(c)'
  <2>1. pc'[c] = pc[c] /\ loc'[c] = loc[c]
    BY <1>1
  <2>2. CASE pc[c] = "idle"
    BY <2>1, <2>2 DEF Calling
  <2>3. CASE pc[c] # "idle"
    <3>1. PICK f \in Execs : f = loc[c].exec
      BY <1>1, <2>3 DEF CalmInv, Calling, TypeOK, ThreadsOK, Consistent
    <3>2. execs[f] # None
      BY <2>3, <3>1 DEF CalmInv, Calling
    <3>3. "cancelJob" \in Ops /\ jobs[f] # None /\ jobs[f].status = "CANCELLED" => jobs'[f] = jobs[f]
      <4>1. "cancelJob" \in Ops /\ Holds(w) => jobs[loc[w].exec].status = "RUNNING"
        BY DEF Guarded, LockInv
      <4>. QED BY <4>1 DEF Orphan
    <3>. QED BY <2>1, <3>1, <3>2, <3>3, StillCalling
  <2>. QED BY <2>2, <2>3
<1>3. ASSUME NEW v \in Workers, Holds(v)'
      PROVE  Doing(v)' /\ NotSettled(loc[v].exec)' /\ execs'[loc'[v].exec] # None
  <2>1. v # w
    BY <1>3 DEF Holds
  <2>2. pc'[v] = pc[v] /\ loc'[v] = loc[v]
    BY <1>1, <2>1
  <2>3. Holds(v)
    BY <1>3, <2>2 DEF Holds
  <2>4. PICK f \in Execs : f = loc[v].exec
    BY <2>3, HeldExec
  <2>5. Holds(w) => f # loc[w].exec
    BY <2>1, <2>3, <2>4 DEF Guarded, Apart
  <2>6. NotSettled(f) => NotSettled(f)'
    BY <2>5 DEF NotSettled
  <2>. QED BY <1>3, <2>2, <2>4, <2>6, StillKnown
<1>4. ASSUME NEW f \in Execs PROVE SettledRight(f)' /\ GatesNumbered(f)'
  BY DEF CalmInv, GatesNumbered
<1>. QED BY <1>2, <1>3, <1>4 DEF CalmInv

LEMMA WorkerCalm ==
  ASSUME Assumptions, Calm, Guarded, Guarded', TypeOK, TypeOK', CalmInv, NEW w \in Workers,
         WorkerStep(w) \/ WorkerDies(w)
  PROVE  CalmInv'
<1> DEFINE e == loc[w].exec
<1>a. /\ w \in Threads /\ w \notin Clients /\ Clients \subseteq Threads /\ Workers \subseteq Threads
      /\ ThreadsOK /\ loc[w] \in Local /\ None # HIL /\ w # HIL /\ w # None
  BY DEF Threads, Assumptions, TypeOK, ThreadsOK
<1>b. Holds(w) => /\ e \in Execs /\ execs[e] # None /\ Doing(w) /\ NotSettled(e) /\ job[w] \in Job
                  /\ GatesNumbered(e)
  <2>1. Holds(w) => e \in Execs /\ job[w] \in Job
    BY <1>a, HeldExec DEF Holds, ThreadsOK, Consistent
  <2>. QED BY <2>1 DEF CalmInv
<1>c. \A f \in Execs : SettledRight(f)
  BY DEF CalmInv
<1>1. CASE Dequeue(w)
  <2>1. PICK f \in Execs :
          LET row == [jobs[f] EXCEPT !.status = "RUNNING", !.owner = w, !.attempt = @ + 1]
          IN  /\ Eligible(f)
              /\ jobs' = [jobs EXCEPT ![f] = row]
              /\ loc' = [loc EXCEPT ![w] = [NoLocal EXCEPT !.exec = f, !.choice = row.payload]]
    BY <1>1 DEF Dequeue, NextJob
  <2>2. jobs[f] \in Job /\ jobs[f] # None
    BY <2>1 DEF Eligible, TypeOK, TablesOK
  <2>3. PICK row : row = [jobs[f] EXCEPT !.status = "RUNNING", !.owner = w, !.attempt = @ + 1]
    OBVIOUS
  <2>4. row.status = "RUNNING" /\ row.owner = w
    BY <2>2, <2>3 DEF Job
  <2>5. jobs'[f] = row /\ \A g \in Execs \ {f} : jobs'[g] = jobs[g]
    BY <2>1, <2>3 DEF TypeOK, TablesOK
  <2>6. loc'[w].exec = f
    BY <1>a, <2>1 DEF ThreadsOK, NoLocal
  <2>7. /\ pc'[w] \in {"lookup", "clear", "begin"}
        /\ \A u \in Threads \ {w} : pc'[u] = pc[u] /\ loc'[u] = loc[u]
    BY <1>1, <1>a, <2>1 DEF Dequeue, Goto, ThreadsOK
  <2>8. execs[f] # None
    BY <1>c, <2>2 DEF SettledRight
  <2>9. UNCHANGED <<execs, approvals, gates>>
    BY <1>1 DEF Dequeue
  <2>10. Doing(w)'
    BY <2>7 DEF Doing
  <2>11. NotSettled(f)'
    BY <1>a, <2>4, <2>5 DEF NotSettled
  <2>12. NotSettled(loc[w].exec)'
    BY <2>6, <2>11 DEF NotSettled
  <2>13. ASSUME NEW g \in Execs PROVE SettledRight(g)' /\ GatesNumbered(g)'
    <3>1. SettledRight(g)'
      <4>1. CASE g = f
        BY <1>a, <2>4, <2>5, <2>8, <2>9, <4>1 DEF SettledRight
      <4>2. CASE g # f
        BY <1>c, <2>5, <2>9, <4>2 DEF SettledRight, Waiting, IsLatest
      <4>. QED BY <4>1, <4>2
    <3>. QED BY <2>9, <3>1 DEF CalmInv, GatesNumbered
  <2>14. ASSUME NEW v \in Workers, Holds(v)'
         PROVE  Doing(v)' /\ NotSettled(loc[v].exec)' /\ execs'[loc'[v].exec] # None
    <3>1. CASE v = w
      BY <2>6, <2>8, <2>9, <2>10, <2>12, <3>1
    <3>2. CASE v # w
      <4>1. pc'[v] = pc[v] /\ loc'[v] = loc[v]
        BY <1>a, <2>7, <3>2
      <4>2. Holds(v) /\ Holds(w)'
        BY <2>7, <2>14, <4>1 DEF Holds
      <4>3. PICK g \in Execs : g = loc[v].exec
        BY <4>2, HeldExec
      <4>4. g # f
        BY <2>6, <2>14, <3>2, <4>1, <4>2, <4>3 DEF Guarded, Apart
      <4>5. NotSettled(g) => NotSettled(g)'
        BY <2>5, <4>4 DEF NotSettled
      <4>. QED BY <2>9, <2>14, <4>1, <4>3, <4>5, StillKnown
    <3>. QED BY <3>1, <3>2
  <2>15. ASSUME NEW c \in Clients PROVE Calling(c)'
    <3>1. pc'[c] = pc[c] /\ loc'[c] = loc[c]
      BY <1>a, <2>7
    <3>2. CASE pc[c] = "idle"
      BY <3>1, <3>2 DEF Calling
    <3>3. CASE pc[c] # "idle"
      <4>1. PICK g \in Execs : g = loc[c].exec
        BY <1>a, <3>3 DEF CalmInv, Calling, ThreadsOK, Consistent
      <4>2. jobs[g] # None /\ jobs[g].status = "CANCELLED" => jobs'[g] = jobs[g]
        BY <2>1, <2>5 DEF Eligible
      <4>3. execs[g] # None
        BY <3>3, <4>1 DEF CalmInv, Calling
      <4>. QED BY <2>9, <3>1, <4>1, <4>2, <4>3, StillCalling
    <3>. QED BY <3>2, <3>3
  <2>. QED BY <2>13, <2>14, <2>15 DEF CalmInv
<1>2. CASE ClearHistory(w)
  <2>1. /\ pc[w] = "clear" /\ pc'[w] = "begin" /\ loc' = loc /\ jobs' = jobs /\ UNCHANGED <<execs, gates>>
        /\ approvals' = [approvals EXCEPT ![e] = {}]
        /\ \A u \in Threads \ {w} : pc'[u] = pc[u] /\ loc'[u] = loc[u]
    BY <1>2, <1>a DEF ClearHistory, Goto, ThreadsOK
  <2>2. Holds(w)
    BY <2>1 DEF Holds
  <2>3. approvals'[e] = {} /\ \A f \in Execs \ {e} : approvals'[f] = approvals[f]
    BY <1>b, <2>1, <2>2 DEF TypeOK, TablesOK
  <2>4. GatesNumbered(e)'
    BY <2>1, <2>3 DEF GatesNumbered
  <2>5. Doing(w)'
    BY <2>1 DEF Doing
  <2>. QED BY <1>b, <2>1, <2>2, <2>3, <2>4, <2>5, CalmMove
<1>3. CASE BundleMissing(w)
  <2>1. pc[w] = "begin" /\ LeaveEngine(w, "ERROR") /\ UNCHANGED tables
    BY <1>3 DEF BundleMissing
  <2>2. Doing(w)'
    BY <2>1, CalmLeaves
  <2>3. loc'[w].exec = e /\ \A u \in Threads \ {w} : pc'[u] = pc[u] /\ loc'[u] = loc[u]
    <3>1. /\ pc' = [pc EXCEPT ![w] = "settle"]
          /\ loc' = [loc EXCEPT ![w] = [NoLocal EXCEPT !.exec = loc[w].exec, !.result = "ERROR"]]
      BY <1>a, <2>1 DEF LeaveEngine, Goto
    <3>. QED BY <1>a, <3>1 DEF ThreadsOK, NoLocal
  <2>4. Holds(w)
    BY <2>1 DEF Holds
  <2>5. GatesNumbered(e)'
    BY <1>b, <2>1, <2>3, <2>4 DEF GatesNumbered, tables
  <2>. QED BY <1>b, <2>1, <2>2, <2>3, <2>4, <2>5, CalmMove DEF tables
<1>4. CASE BeginExecution(w)
  <2>1. /\ pc[w] = "begin" /\ pc'[w] = "scan" /\ SaveExecution(w, "RUNNING", EntryNode)
        /\ jobs' = jobs /\ UNCHANGED <<approvals, gates>>
        /\ loc'[w].exec = e /\ \A u \in Threads \ {w} : pc'[u] = pc[u] /\ loc'[u] = loc[u]
    BY <1>4, <1>a DEF BeginExecution, Goto, ThreadsOK, Local
  <2>2. Holds(w)
    BY <2>1 DEF Holds
  <2>3. execs'[e] # None /\ \A f \in Execs \ {e} : execs'[f] = execs[f]
    BY <1>a, <1>b, <2>1, <2>2, CalmSave DEF ExecStatus, Assumptions
  <2>4. GatesNumbered(e)'
    BY <1>b, <2>1, <2>2 DEF GatesNumbered
  <2>5. Doing(w)'
    BY <2>1 DEF Doing
  <2>. QED BY <1>b, <2>1, <2>2, <2>3, <2>4, <2>5, CalmMove
<1>5. CASE SettleJob(w)
  <2>1. PICK row : row = Settled(job[w], loc[w].result)
    OBVIOUS
  <2>2. /\ pc[w] = "settle" /\ pc'[w] = "idle" /\ jobs' = [jobs EXCEPT ![e] = row]
        /\ UNCHANGED <<execs, approvals, gates>>
        /\ \A u \in Threads \ {w} : pc'[u] = pc[u] /\ loc'[u] = loc[u]
    BY <1>5, <1>a, <2>1 DEF SettleJob, UpdateJob, Finish, Goto, ThreadsOK
  <2>3. Holds(w)
    BY <2>2 DEF Holds
  <2>4. /\ row.status = "COMPLETED" => loc[w].result = "COMPLETED"
        /\ row.status = "RUNNING" => loc[w].result = "PAUSED"
    BY <1>b, <2>1, <2>3 DEF Settled, Job
  <2>5. /\ row.status = "COMPLETED" => execs[e].status = "COMPLETED"
        /\ row.status = "RUNNING" => Waiting(e)
    BY <1>b, <2>2, <2>3, <2>4 DEF Doing
  <2>6. jobs'[e] = row /\ \A f \in Execs \ {e} : jobs'[f] = jobs[f]
    BY <1>b, <2>2, <2>3 DEF TypeOK, TablesOK
  <2>7. PICK x \in Execs : x = e
    BY <1>b, <2>3
  <2>8. ASSUME NEW f \in Execs PROVE SettledRight(f)'
    <3>1. Waiting(f) => Waiting(f)'
      BY <2>2 DEF Waiting, IsLatest
    <3>2. CASE f = x
      BY <1>b, <2>2, <2>3, <2>5, <2>6, <2>7, <3>1, <3>2 DEF SettledRight
    <3>3. CASE f # x
      BY <1>c, <2>2, <2>6, <2>7, <3>1, <3>3 DEF SettledRight
    <3>. QED BY <3>2, <3>3
  <2>9. \A f \in Execs : jobs'[f] = jobs[f] \/ (Holds(w) /\ f = e)
    BY <2>3, <2>6
  <2>. QED BY <2>2, <2>8, <2>9, CalmRests
<1>6. CASE StartWorker(w) \/ WorkerDies(w)
  <2>1. /\ pc'[w] \in {"idle", "down"} /\ UNCHANGED <<execs, approvals, gates>>
        /\ \A u \in Threads \ {w} : pc'[u] = pc[u] /\ loc'[u] = loc[u]
    BY <1>6, <1>a DEF StartWorker, WorkerDies, Goto, ThreadsOK, tables
  <2>2. ASSUME NEW f \in Execs
        PROVE  jobs'[f] = jobs[f] \/ (Orphan(f) /\ NotSettled(f)' /\ jobs'[f].status \in {"QUEUED", "FAILED"})
    <3>1. \/ jobs'[f] = jobs[f]
          \/ Orphan(f) /\ jobs'[f] = Recovered(jobs[f])
      BY <1>6 DEF StartWorker, WorkerDies, tables, TypeOK, TablesOK
    <3>2. CASE Orphan(f) /\ jobs'[f] = Recovered(jobs[f])
      <4>1. jobs[f] \in Job /\ jobs[f].owner # HIL
        BY <3>2 DEF Orphan, TypeOK, TablesOK
      <4>2. PICK row : row = Recovered(jobs[f])
        OBVIOUS
      <4>3. row.status \in {"QUEUED", "FAILED"} /\ row.owner # HIL
        BY <1>a, <4>1, <4>2 DEF Recovered, Job
      <4>4. jobs'[f] = row
        BY <3>2, <4>2
      <4>. QED BY <3>2, <4>3, <4>4 DEF NotSettled
    <3>. QED BY <3>1, <3>2
  <2>3. ASSUME NEW f \in Execs PROVE SettledRight(f)'
    <3>1. Waiting(f) => Waiting(f)'
      BY <2>1 DEF Waiting, IsLatest
    <3>2. SettledRight(f) /\ (Orphan(f) => execs[f] # None)
      BY <1>c DEF SettledRight, Orphan
    <3>. QED BY <2>1, <2>2, <3>1, <3>2 DEF SettledRight
  <2>. QED BY <2>1, <2>2, <2>3, CalmRests
<1>. QED BY <1>1, <1>2, <1>3, <1>4, <1>5, <1>6 DEF WorkerStep

LEMMA ClientCalm ==
  ASSUME Assumptions, Calm, Guarded, Guarded', TypeOK, TypeOK', CalmInv, NEW c \in Clients,
         HandlerStep(c) \/ ClientSends(c) \/ ClientDies(c)
  PROVE  CalmInv'
<1> DEFINE e == loc[c].exec
<1>a. /\ c \in Threads /\ c \notin Workers /\ Clients \subseteq Threads /\ Workers \subseteq Threads
      /\ ThreadsOK /\ loc[c] \in Local /\ None # HIL
  BY DEF Threads, Assumptions, TypeOK, ThreadsOK
<1>b. \A d \in Clients : pc[d] # "idle" => loc[d].exec \in Execs
  BY <1>a DEF CalmInv, Calling, ThreadsOK, Consistent
<1>c. \A d \in Clients : Calling(d)
  BY DEF CalmInv
\* The other handlers, when no execution disappears and no cancelled job changes.
<1>d. ASSUME NEW d \in Clients \ {c}, pc'[d] = pc[d], loc'[d] = loc[d],
             \A f \in Execs : execs[f] # None => execs'[f] # None,
             \A f \in Execs : "cancelJob" \in Ops /\ jobs[f] # None /\ jobs[f].status = "CANCELLED" =>
                             jobs'[f] = jobs[f]
      PROVE  Calling(d)'
  <2>1. CASE pc[d] = "idle"
    BY <1>d, <2>1 DEF Calling
  <2>2. CASE pc[d] # "idle"
    <3>1. PICK f \in Execs : f = loc[d].exec
      BY <1>b, <2>2
    <3>2. execs'[f] # None
      BY <1>c, <1>d, <2>2, <3>1 DEF Calling
    <3>. QED BY <1>d, <3>1, <3>2, StillCalling
  <2>. QED BY <2>1, <2>2
<1>e. "resume" \in Ops => "cancelJob" \notin Ops
  BY DEF Calm, Solo
<1>1. CASE EnqueueJob(c) \/ RequeueJob(c)
  <2>1. PICK row : /\ row.status = "QUEUED" /\ row.owner = None
                   /\ jobs' = [jobs EXCEPT ![e] = row]
    <3>1. CASE EnqueueJob(c)
      BY <3>1 DEF EnqueueJob
    <3>2. CASE RequeueJob(c)
      <4>1. job[c] \in Job
        BY <1>a, <3>2 DEF RequeueJob, ThreadsOK, Consistent
      <4>2. PICK r : r = [job[c] EXCEPT !.status = "QUEUED", !.owner = None,
                                        !.payload = loc[c].choice, !.due = TRUE]
        OBVIOUS
      <4>3. r.status = "QUEUED" /\ r.owner = None
        BY <4>1, <4>2 DEF Job
      <4>. QED BY <3>2, <4>2, <4>3 DEF RequeueJob, UpdateJob
    <3>. QED BY <1>1, <3>1, <3>2
  <2>2. /\ pc[c] # "idle" /\ pc'[c] = "idle" /\ UNCHANGED <<execs, approvals, gates>>
        /\ \A u \in Threads \ {c} : pc'[u] = pc[u] /\ loc'[u] = loc[u]
    BY <1>1, <1>a DEF EnqueueJob, RequeueJob, Finish, Goto, ThreadsOK
  <2>3. /\ e \in Execs /\ execs[e] # None /\ jobs'[e] = row
        /\ \A f \in Execs \ {e} : jobs'[f] = jobs[f]
    BY <1>b, <1>c, <2>1, <2>2 DEF Calling, TypeOK, TablesOK
  <2>4. ASSUME NEW d \in Clients PROVE Calling(d)'
    <3>1. CASE d = c
      BY <2>2, <3>1 DEF Calling
    <3>2. CASE d # c
      <4>1. "cancelJob" \in Ops => jobs[e] = None
        <5>1. CASE EnqueueJob(c)
          BY <5>1 DEF EnqueueJob, Guarded, LockInv
        <5>2. CASE RequeueJob(c)
          BY <1>c, <1>e, <5>2 DEF RequeueJob, Calling
        <5>. QED BY <1>1, <5>1, <5>2
      <4>. QED BY <1>a, <1>d, <2>2, <2>3, <3>2, <4>1
    <3>. QED BY <3>1, <3>2
  <2>5. \A f \in Execs : \/ jobs'[f] = jobs[f]
                         \/ /\ execs[f] # None
                            /\ jobs'[f].status \in {"QUEUED", "RETRYING", "CANCELLED"}
                            /\ jobs'[f].owner = HIL => jobs[f] # None /\ jobs[f].owner = HIL
    BY <1>a, <2>1, <2>3
  <2>6. \A v \in Workers : pc'[v] = pc[v] /\ loc'[v] = loc[v]
    BY <1>a, <2>2
  <2>. QED BY <2>2, <2>4, <2>5, <2>6, CalmAside
<1>2. CASE StartExecution(c)
  <2>1. PICK f \in Execs :
          /\ execs[f] = None
          /\ execs' = [execs EXCEPT ![f] = [status |-> "PENDING", node |-> None]]
          /\ loc' = [loc EXCEPT ![c].exec = f]
    BY <1>2 DEF StartExecution
  <2>2. /\ pc'[c] = "enqueue" /\ loc'[c].exec = f /\ UNCHANGED <<jobs, approvals, gates>>
        /\ \A u \in Threads \ {c} : pc'[u] = pc[u] /\ loc'[u] = loc[u]
    BY <1>2, <1>a, <2>1 DEF StartExecution, Goto, ThreadsOK, Local
  <2>3. PICK r : r = [status |-> "PENDING", node |-> None]
    OBVIOUS
  <2>4. r \in Exec
    BY <2>3 DEF Exec, ExecStatus
  <2>5. r # None
    BY <2>4 DEF Assumptions
  <2>6. execs'[f] # None /\ \A g \in Execs \ {f} : execs'[g] = execs[g]
    BY <2>1, <2>3, <2>5 DEF TypeOK, TablesOK
  <2>7. ASSUME NEW d \in Clients PROVE Calling(d)'
    <3>1. CASE d = c
      BY <2>2, <2>6, <3>1 DEF Calling
    <3>2. CASE d # c
      BY <1>a, <1>d, <2>1, <2>2, <2>6, <3>2
    <3>. QED BY <3>1, <3>2
  <2>8. \A g \in Execs : execs[g] # None => execs'[g] = execs[g]
    BY <2>1, <2>6
  <2>9. \A v \in Workers : pc'[v] = pc[v] /\ loc'[v] = loc[v]
    BY <1>a, <2>2
  <2>. QED BY <2>2, <2>7, <2>8, <2>9, CalmAside
<1>3. CASE ReadJobForResume(c)
  <2>1. PICK f \in Execs, d \in Decision :
          jobs[f] # None /\ loc' = [loc EXCEPT ![c].exec = f, ![c].choice = d]
    BY <1>3 DEF ReadJobForResume
  <2>2. loc' = [loc EXCEPT ![c] = [loc[c] EXCEPT !.exec = f, !.choice = d]]
    BY <1>a, <2>1 DEF ThreadsOK
  <2>3. /\ pc'[c] = "requeue" /\ loc'[c].exec = f /\ UNCHANGED tables
        /\ \A u \in Threads \ {c} : pc'[u] = pc[u] /\ loc'[u] = loc[u]
    <3>1. loc'[c].exec = f
      BY <1>a, <2>2 DEF ThreadsOK, Local
    <3>2. \A u \in Threads \ {c} : loc'[u] = loc[u]
      BY <1>a, <2>2 DEF ThreadsOK
    <3>. QED BY <3>1, <3>2, <1>3, <1>a DEF ReadJobForResume, Goto, ThreadsOK
  <2>4. execs[f] # None
    BY <2>1 DEF CalmInv, SettledRight
  <2>5. ASSUME NEW u \in Clients PROVE Calling(u)'
    <3>1. CASE u = c
      BY <1>3, <2>3, <2>4, <3>1 DEF Calling, ReadJobForResume, Sends, tables
    <3>2. CASE u # c
      BY <1>a, <1>d, <2>3, <3>2 DEF tables
    <3>. QED BY <3>1, <3>2
  <2>6. \A v \in Workers : pc'[v] = pc[v] /\ loc'[v] = loc[v]
    BY <1>a, <2>3
  <2>. QED BY <2>3, <2>5, <2>6, CalmAside DEF tables
<1>4. CASE ClientDies(c) \/ CancelRefused(c)
  <2>1. /\ pc'[c] = "idle" /\ UNCHANGED tables
        /\ \A u \in Threads \ {c} : pc'[u] = pc[u] /\ loc'[u] = loc[u]
    BY <1>4, <1>a DEF ClientDies, CancelRefused, Finish, Goto, ThreadsOK
  <2>2. ASSUME NEW u \in Clients PROVE Calling(u)'
    <3>1. CASE u = c
      BY <2>1, <3>1 DEF Calling
    <3>2. CASE u # c
      BY <1>a, <1>d, <2>1, <3>2 DEF tables
    <3>. QED BY <3>1, <3>2
  <2>3. \A v \in Workers : pc'[v] = pc[v] /\ loc'[v] = loc[v]
    BY <1>a, <2>1
  <2>. QED BY <2>1, <2>2, <2>3, CalmAside DEF tables
<1>5. CASE CancelJob(c)
  <2>1. PICK f \in Execs :
          /\ Cancellable(f)
          /\ jobs' = [jobs EXCEPT ![f].status = "CANCELLED"]
          /\ loc' = [loc EXCEPT ![c].exec = f]
    BY <1>5 DEF CancelJob
  <2>2. jobs[f] \in Job /\ jobs[f].status # "CANCELLED" /\ jobs[f] # None /\ execs[f] # None
    BY <2>1 DEF Cancellable, TypeOK, TablesOK, CalmInv, SettledRight
  <2>3. PICK row : row = [jobs[f] EXCEPT !.status = "CANCELLED"]
    OBVIOUS
  <2>4. row \in Job /\ row.status = "CANCELLED" /\ row.owner = jobs[f].owner
    BY <2>2, <2>3 DEF Job, JobStatus
  <2>5. jobs'[f] = row /\ \A g \in Execs \ {f} : jobs'[g] = jobs[g]
    BY <2>1, <2>3 DEF TypeOK, TablesOK
  <2>6. row # None
    BY <2>4 DEF Assumptions
  <2>7. /\ pc'[c] = "elookup" /\ loc'[c].exec = f /\ UNCHANGED <<execs, approvals, gates>>
        /\ "cancelJob" \in Ops
        /\ \A u \in Threads \ {c} : pc'[u] = pc[u] /\ loc'[u] = loc[u]
    BY <1>5, <1>a, <2>1 DEF CancelJob, Sends, Goto, ThreadsOK, Local
  <2>8. ASSUME NEW u \in Clients PROVE Calling(u)'
    <3>1. CASE u = c
      BY <2>2, <2>4, <2>5, <2>6, <2>7, <3>1 DEF Calling
    <3>2. CASE u # c
      BY <1>a, <1>d, <2>2, <2>5, <2>7, <3>2
    <3>. QED BY <3>1, <3>2
  <2>9. \A v \in Workers : pc'[v] = pc[v] /\ loc'[v] = loc[v]
    BY <1>a, <2>7
  <2>. QED BY <2>2, <2>4, <2>5, <2>7, <2>8, <2>9, CalmAside
<1>6. CASE ReadForCancel(c)
  <2>1. /\ pc[c] = "elookup" /\ pc'[c] = "ecancel" /\ UNCHANGED tables
        /\ loc'[c].exec = e
        /\ \A u \in Threads \ {c} : pc'[u] = pc[u] /\ loc'[u] = loc[u]
    BY <1>6, <1>a DEF ReadForCancel, Goto, ThreadsOK, Local
  <2>2. ASSUME NEW u \in Clients PROVE Calling(u)'
    <3>1. CASE u = c
      BY <1>c, <2>1, <3>1 DEF Calling, tables
    <3>2. CASE u # c
      BY <1>a, <1>d, <2>1, <3>2 DEF tables
    <3>. QED BY <3>1, <3>2
  <2>3. \A v \in Workers : pc'[v] = pc[v] /\ loc'[v] = loc[v]
    BY <1>a, <2>1
  <2>. QED BY <2>1, <2>2, <2>3, CalmAside DEF tables
<1>7. CASE CancelExecution(c)
  <2>1. /\ pc[c] = "ecancel" /\ pc'[c] = "idle" /\ UNCHANGED <<jobs, approvals, gates>>
        /\ SaveExecution(c, "CANCELLED", loc[c].node)
        /\ \A u \in Threads \ {c} : pc'[u] = pc[u] /\ loc'[u] = loc[u]
    BY <1>7, <1>a DEF CancelExecution, Finish, Goto, ThreadsOK
  <2>2. e \in Execs /\ loc[c].node \in Nodes \cup {None}
    BY <1>a, <1>b, <2>1 DEF Local
  <2>3. execs'[e] # None /\ \A f \in Execs \ {e} : execs'[f] = execs[f]
    BY <1>a, <2>1, <2>2, CalmSave DEF ExecStatus
  <2>4. "cancelJob" \in Ops /\ jobs[e] # None /\ jobs[e].status = "CANCELLED"
    BY <1>c, <2>1 DEF Calling
  <2>5. ASSUME NEW u \in Clients PROVE Calling(u)'
    <3>1. CASE u = c
      BY <2>1, <3>1 DEF Calling
    <3>2. CASE u # c
      <4>1. \A f \in Execs : execs[f] # None => execs'[f] # None
        BY <2>3
      <4>. QED BY <1>a, <1>d, <2>1, <3>2, <4>1
    <3>. QED BY <3>1, <3>2
  <2>6. \A v \in Workers : pc'[v] = pc[v] /\ loc'[v] = loc[v]
    BY <1>a, <2>1
  <2>7. ASSUME NEW f \in Execs
        PROVE  \/ jobs'[f] = jobs[f] /\ (execs[f] # None => execs'[f] = execs[f])
               \/ /\ "cancelJob" \in Ops /\ execs'[f] # None
                  /\ jobs'[f] = jobs[f] /\ jobs[f] # None /\ jobs[f].status = "CANCELLED"
    <3>1. CASE f = e
      BY <2>1, <2>3, <2>4, <3>1
    <3>2. CASE f # e
      BY <2>1, <2>3, <3>2
    <3>. QED BY <3>1, <3>2
  <2>. QED BY <2>1, <2>5, <2>6, <2>7, CalmAside
<1>8. CASE ReceiveCancel(c) \/ ReceiveCallback(c)
  BY <1>8 DEF ReceiveCancel, ReceiveCallback, Sends, Calm, Solo
<1>9. CASE CancelQueued(c) \/ AnswerRequest(c)
  BY <1>9 DEF CancelQueued, AnswerRequest, CalmInv, Calling
<1>. QED BY <1>1, <1>2, <1>3, <1>4, <1>5, <1>6, <1>7, <1>8, <1>9 DEF HandlerStep, ClientSends

LEMMA CalmHolds == ASSUME Assumptions, Calm PROVE Spec => []CalmInv
<1>1. Init => CalmInv
  <2> SUFFICES ASSUME Init PROVE CalmInv
    OBVIOUS
  <2>1. \A c \in Clients : pc[c] = "idle"
    BY DEF Init, Threads
  <2>2. \A w \in Workers : ~Holds(w)
    BY DEF Init, Threads, Holds
  <2>3. \A e \in Execs : SettledRight(e) /\ GatesNumbered(e)
    BY DEF Init, SettledRight, GatesNumbered, Assumptions
  <2>. QED BY <2>1, <2>2, <2>3 DEF CalmInv, Calling
<1>2. Guarded /\ Guarded' /\ TypeOK /\ TypeOK' /\ CalmInv /\ [Next]_vars => CalmInv'
  <2> SUFFICES ASSUME Guarded, Guarded', TypeOK, TypeOK', CalmInv, [Next]_vars PROVE CalmInv'
    OBVIOUS
  <2>1. ASSUME NEW t \in Threads, EngineStep(t) PROVE CalmInv'
    BY <2>1, EngineCalm
  <2>2. ASSUME NEW w \in Workers, WorkerStep(w) \/ WorkerDies(w) PROVE CalmInv'
    BY <2>2, WorkerCalm
  <2>3. ASSUME NEW c \in Clients, HandlerStep(c) \/ ClientSends(c) \/ ClientDies(c) PROVE CalmInv'
    BY <2>3, ClientCalm
  <2>4. ASSUME NEW e \in Execs, BackoffElapses(e) PROVE CalmInv'
    <3>1. /\ jobs' = [jobs EXCEPT ![e] = [jobs[e] EXCEPT !.due = TRUE]]
          /\ jobs[e] # None /\ jobs[e] \in Job /\ jobs[e].status = "RETRYING"
          /\ UNCHANGED <<execs, approvals, gates, pc, loc>>
      BY <2>4 DEF BackoffElapses, locals, TypeOK, TablesOK
    <3>2. PICK row : row = [jobs[e] EXCEPT !.due = TRUE]
      OBVIOUS
    <3>3. row.status = "RETRYING" /\ row.owner = jobs[e].owner
      BY <3>1, <3>2 DEF Job
    <3>4. jobs'[e] = row /\ \A f \in Execs \ {e} : jobs'[f] = jobs[f]
      BY <3>1, <3>2 DEF TypeOK, TablesOK
    <3>5. execs[e] # None
      BY <3>1 DEF CalmInv, SettledRight
    <3>6. \A f \in Execs : \/ jobs'[f] = jobs[f]
                           \/ /\ execs[f] # None
                              /\ jobs'[f].status \in {"QUEUED", "RETRYING", "CANCELLED"}
                              /\ jobs'[f].owner = HIL => jobs[f] # None /\ jobs[f].owner = HIL
      BY <3>1, <3>3, <3>4, <3>5
    <3>7. ASSUME NEW c \in Clients PROVE Calling(c)'
      <4>1. Calling(c) /\ (pc[c] # "idle" => loc[c].exec \in Execs)
        BY DEF CalmInv, Calling, TypeOK, ThreadsOK, Consistent, Threads
      <4>2. jobs[e].status # "CANCELLED"
        BY <3>1
      <4>. QED BY <3>1, <3>4, <4>1, <4>2 DEF Calling
    <3>. QED BY <3>1, <3>6, <3>7, CalmAside
  <2>5. CASE UNCHANGED vars
    BY <2>5 DEF vars, CalmInv, Calling, Holds, Doing, Waiting, IsLatest, NotSettled, SettledRight, GatesNumbered
  <2>. QED BY <2>1, <2>2, <2>3, <2>4, <2>5 DEF Next
<1>3. Spec => []Guarded
  BY GuardedHolds
<1>. QED BY <1>1, <1>2, <1>3, TypeCorrect, PTL DEF Spec

\* worker.py, HIL_SUSPENDED: a suspended job waits at an undecided gate of the
\* node its RUNNING execution stands at, so a resume finds what it needs (one
\* worker that serves starts and resumes, or any workers, job cancellations and
\* a harmless recovery: Calm).
THEOREM SuspendedJobsWait ==
  ASSUME Calm
  PROVE  Spec => []SuspendedIsResumable
<1>1. CalmInv => SuspendedIsResumable
  BY DEF CalmInv, SuspendedIsResumable, SettledRight, Waiting
<1>. QED BY <1>1, CalmHolds, Assumptions, PTL

\* worker.py, _process_job: a job is only reported COMPLETED when its execution
\* is, whatever is resumed, retried or killed in between (under Calm as well).
THEOREM CompletionsAgree ==
  ASSUME Calm
  PROVE  Spec => []CompletedJobCompletedExecution
<1>1. CalmInv => CompletedJobCompletedExecution
  BY DEF CalmInv, CompletedJobCompletedExecution, SettledRight
<1>. QED BY <1>1, CalmHolds, Assumptions, PTL

-----------------------------------------------------------------------------
(* Every job, and everything that is about to become one, has an execution. *)

RecordsInv ==
  /\ \A e \in Execs : jobs[e] # None => execs[e] # None
  /\ \A w \in Workers : Holds(w) => execs[loc[w].exec] # None
  /\ \A c \in Clients : pc[c] \in {"enqueue", "requeue"} => execs[loc[c].exec] # None

\* A step that unsaves no execution, and gives jobs to executions that exist only.
LEMMA RecordsKept ==
  ASSUME TypeOK, RecordsInv,
         \A e \in Execs : execs'[e] = None => execs[e] = None,
         \A e \in Execs : jobs'[e] # None => jobs[e] # None \/ execs[e] # None,
         \A w \in Workers : Holds(w)' =>
           \/ Holds(w) /\ loc'[w].exec = loc[w].exec
           \/ loc'[w].exec \in Execs /\ jobs[loc'[w].exec] # None,
         \A c \in Clients : pc'[c] \in {"enqueue", "requeue"} =>
           \/ pc[c] \in {"enqueue", "requeue"} /\ loc'[c].exec = loc[c].exec
           \/ loc'[c].exec \in Execs /\ execs'[loc'[c].exec] # None
  PROVE  RecordsInv'
<1>1. ASSUME NEW e \in Execs, jobs'[e] # None PROVE execs'[e] # None
  BY <1>1 DEF RecordsInv
<1>2. ASSUME NEW w \in Workers, Holds(w)' PROVE execs'[loc'[w].exec] # None
  <2>1. CASE Holds(w) /\ loc'[w].exec = loc[w].exec
    BY <2>1, HeldExec DEF RecordsInv
  <2>2. CASE loc'[w].exec \in Execs /\ jobs[loc'[w].exec] # None
    BY <2>2 DEF RecordsInv
  <2>. QED BY <1>2, <2>1, <2>2
<1>3. ASSUME NEW c \in Clients, pc'[c] \in {"enqueue", "requeue"} PROVE execs'[loc'[c].exec] # None
  <2>1. CASE pc[c] \in {"enqueue", "requeue"} /\ loc'[c].exec = loc[c].exec
    <3>1. loc[c].exec \in Execs
      BY <2>1 DEF TypeOK, ThreadsOK, Consistent, Threads
    <3>. QED BY <2>1, <3>1 DEF RecordsInv
  <2>. QED BY <1>3, <2>1
<1>. QED BY <1>1, <1>2, <1>3 DEF RecordsInv

\* A save of thread t's copy.
LEMMA SavedRecord ==
  ASSUME Assumptions, TypeOK, NEW t \in Threads, NEW s \in ExecStatus, NEW n \in Nodes \cup {None},
         SaveExecution(t, s, n)
  PROVE  \A e \in Execs : execs'[e] = None => execs[e] = None
<1>1. [status |-> s, node |-> n] \in Exec
  BY DEF Exec
<1>2. PICK r \in Exec : r = [status |-> s, node |-> n]
  BY <1>1
<1>3. execs' = [execs EXCEPT ![loc[t].exec] = r] /\ r # None
  BY <1>2 DEF SaveExecution, Assumptions
<1>. QED BY <1>3 DEF TypeOK, TablesOK

LEMMA RecordsHold == Spec => []RecordsInv
<1> USE Assumptions
<1>1. Init => RecordsInv
  BY DEF Init, RecordsInv, Holds, Threads
<1>2. TypeOK /\ TypeOK' /\ RecordsInv /\ [Next]_vars => RecordsInv'
  <2> SUFFICES ASSUME TypeOK, TypeOK', RecordsInv, [Next]_vars PROVE RecordsInv'
    OBVIOUS
  <2>a. /\ ThreadsOK /\ Workers \subseteq Threads /\ Clients \subseteq Threads
        /\ \A w \in Workers : w \notin Clients
        /\ \A c \in Clients : c \notin Workers
    BY DEF TypeOK, Threads, Assumptions
  <2>1. ASSUME NEW t \in Threads, EngineStep(t) PROVE RecordsInv'
    <3>1. /\ jobs' = jobs /\ Keeps(t)
          /\ pc'[t] \notin {"down", "enqueue", "requeue"}
          /\ t \in Workers => Holds(t) /\ loc'[t].exec = loc[t].exec
      BY <2>1, EngineKeeps
    <3>2. \A w \in Workers : Holds(w)' => Holds(w) /\ loc'[w].exec = loc[w].exec
      BY <2>a, <3>1 DEF Keeps, Holds
    <3>3. \A c \in Clients : pc'[c] \in {"enqueue", "requeue"} =>
            pc[c] \in {"enqueue", "requeue"} /\ loc'[c].exec = loc[c].exec
      BY <2>a, <3>1 DEF Keeps
    <3>. QED BY <3>1, <3>2, <3>3, RecordsKept DEF Keeps
  <2>2. ASSUME NEW w \in Workers, WorkerStep(w) \/ WorkerDies(w) PROVE RecordsInv'
    <3>1. \A u \in Threads \ {w} : pc'[u] = pc[u] /\ loc'[u] = loc[u]
      BY <2>a, <2>2 DEF WorkerStep, Dequeue, ClearHistory, BundleMissing, BeginExecution, SettleJob,
            StartWorker, WorkerDies, Finish, Goto, LeaveEngine, ThreadsOK
    <3>2. \A c \in Clients : pc'[c] = pc[c] /\ loc'[c] = loc[c]
      BY <2>a, <3>1
    <3>3. \A e \in Execs : execs'[e] = None => execs[e] = None
      <4>1. CASE BeginExecution(w)
        BY <2>a, <4>1, SavedRecord DEF BeginExecution, ExecStatus
      <4>2. CASE ~BeginExecution(w)
        BY <2>2, <4>2 DEF WorkerStep, Dequeue, ClearHistory, BundleMissing, SettleJob,
            StartWorker, WorkerDies, tables
      <4>. QED BY <4>1, <4>2
    <3>4. ASSUME \A e \in Execs : jobs'[e] # None => jobs[e] # None \/ execs[e] # None,
                 Holds(w)' => \/ Holds(w) /\ loc'[w].exec = loc[w].exec
                              \/ loc'[w].exec \in Execs /\ jobs[loc'[w].exec] # None
          PROVE  RecordsInv'
      <4>1. ASSUME NEW v \in Workers, Holds(v)'
            PROVE  \/ Holds(v) /\ loc'[v].exec = loc[v].exec
                   \/ loc'[v].exec \in Execs /\ jobs[loc'[v].exec] # None
        <5>1. CASE v = w
          BY <3>4, <4>1, <5>1
        <5>2. CASE v # w
          BY <2>a, <3>1, <4>1, <5>2 DEF Holds
        <5>. QED BY <5>1, <5>2
      <4>. QED BY <3>2, <3>3, <3>4, <4>1, RecordsKept
    <3>5. CASE Dequeue(w)
      <4>1. PICK f \in Execs :
              LET row == [jobs[f] EXCEPT !.status = "RUNNING", !.owner = w, !.attempt = @ + 1]
              IN  /\ Eligible(f)
                  /\ jobs' = [jobs EXCEPT ![f] = row]
                  /\ loc' = [loc EXCEPT ![w] = [NoLocal EXCEPT !.exec = f, !.choice = row.payload]]
        BY <3>5 DEF Dequeue, NextJob
      <4>2. loc'[w].exec = f /\ jobs[f] # None
        BY <2>a, <4>1 DEF ThreadsOK, NoLocal, Eligible
      <4>3. \A e \in Execs : jobs'[e] # None => jobs[e] # None
        BY <4>1, <4>2 DEF TypeOK, TablesOK
      <4>. QED BY <3>4, <4>2, <4>3
    <3>6. CASE SettleJob(w)
      <4>1. /\ pc[w] = "settle" /\ pc'[w] = "idle"
            /\ \E row : jobs' = [jobs EXCEPT ![loc[w].exec] = row]
        BY <2>a, <3>6 DEF SettleJob, UpdateJob, Finish, Goto, ThreadsOK
      <4>2. execs[loc[w].exec] # None /\ ~Holds(w)'
        BY <4>1 DEF RecordsInv, Holds
      <4>3. \A e \in Execs : jobs'[e] # None => jobs[e] # None \/ execs[e] # None
        BY <4>1, <4>2 DEF TypeOK, TablesOK
      <4>. QED BY <3>4, <4>2, <4>3
    <3>7. CASE ClearHistory(w)
      <4>1. pc[w] = "clear" /\ loc' = loc /\ jobs' = jobs
        BY <3>7 DEF ClearHistory
      <4>. QED BY <3>4, <4>1 DEF Holds
    <3>8. CASE BeginExecution(w)
      <4>1. pc[w] = "begin" /\ jobs' = jobs
        BY <3>8 DEF BeginExecution
      <4>2. loc'[w].exec = loc[w].exec
        BY <3>8, ExecutionBegun DEF TypeOK
      <4>. QED BY <3>4, <4>1, <4>2 DEF Holds
    <3>9. CASE BundleMissing(w)
      <4>1. /\ pc[w] = "begin" /\ jobs' = jobs
            /\ loc' = [loc EXCEPT ![w] = [NoLocal EXCEPT !.exec = loc[w].exec, !.result = "ERROR"]]
        BY <2>a, <3>9 DEF BundleMissing, LeaveEngine, tables
      <4>2. loc'[w].exec = loc[w].exec
        BY <2>a, <4>1 DEF ThreadsOK, NoLocal
      <4>. QED BY <3>4, <4>1, <4>2 DEF Holds
    <3>10. CASE StartWorker(w) \/ WorkerDies(w)
      <4>1. /\ pc'[w] \in {"idle", "down"}
            /\ \/ jobs' = jobs
               \/ jobs' = [e \in Execs |-> IF Orphan(e) THEN Recovered(jobs[e]) ELSE jobs[e]]
        BY <2>a, <3>10 DEF StartWorker, WorkerDies, Goto, ThreadsOK, tables
      <4>2. \A e \in Execs : jobs'[e] # None => jobs[e] # None
        BY <4>1 DEF Orphan
      <4>. QED BY <3>4, <4>1, <4>2 DEF Holds
    <3>. QED BY <2>2, <3>5, <3>6, <3>7, <3>8, <3>9, <3>10 DEF WorkerStep
  <2>3. ASSUME NEW c \in Clients, HandlerStep(c) \/ ClientSends(c) \/ ClientDies(c) PROVE RecordsInv'
    <3>1. ASSUME \A u \in Threads \ {c} : pc'[u] = pc[u] /\ loc'[u] = loc[u],
                 \A e \in Execs : execs'[e] = None => execs[e] = None,
                 \A e \in Execs : jobs'[e] # None => jobs[e] # None \/ execs[e] # None,
                 \/ pc'[c] \notin {"enqueue", "requeue"}
                 \/ loc'[c].exec \in Execs /\ execs'[loc'[c].exec] # None
          PROVE  RecordsInv'
      <4>1. \A w \in Workers : Holds(w)' => Holds(w) /\ loc'[w].exec = loc[w].exec
        BY <2>a, <3>1 DEF Holds
      <4>2. ASSUME NEW d \in Clients, pc'[d] \in {"enqueue", "requeue"}
            PROVE  \/ pc[d] \in {"enqueue", "requeue"} /\ loc'[d].exec = loc[d].exec
                   \/ loc'[d].exec \in Execs /\ execs'[loc'[d].exec] # None
        <5>1. CASE d = c
          BY <3>1, <4>2, <5>1
        <5>2. CASE d # c
          BY <2>a, <3>1, <4>2, <5>2
        <5>. QED BY <5>1, <5>2
      <4>. QED BY <3>1, <4>1, <4>2, RecordsKept
    <3>2. CASE EnqueueJob(c) \/ RequeueJob(c)
      <4>1. /\ pc[c] \in {"enqueue", "requeue"} /\ pc'[c] = "idle" /\ execs' = execs
            /\ \A u \in Threads \ {c} : pc'[u] = pc[u] /\ loc'[u] = loc[u]
            /\ \E row : jobs' = [jobs EXCEPT ![loc[c].exec] = row]
        BY <2>a, <3>2 DEF EnqueueJob, RequeueJob, UpdateJob, Finish, Goto, ThreadsOK
      <4>2. execs[loc[c].exec] # None
        BY <4>1 DEF RecordsInv
      <4>3. \A e \in Execs : jobs'[e] # None => jobs[e] # None \/ execs[e] # None
        BY <4>1, <4>2 DEF TypeOK, TablesOK
      <4>. QED BY <3>1, <4>1, <4>3
    <3>3. CASE StartExecution(c)
      <4>1. PICK f \in Execs :
              /\ execs' = [execs EXCEPT ![f] = [status |-> "PENDING", node |-> None]]
              /\ loc' = [loc EXCEPT ![c].exec = f]
        BY <3>3 DEF StartExecution
      <4>2. PICK r \in Exec : r = [status |-> "PENDING", node |-> None]
        BY DEF Exec, ExecStatus
      <4>3. r # None
        BY DEF Assumptions
      <4>4. execs'[f] # None /\ \A e \in Execs : execs'[e] = None => execs[e] = None
        BY <4>1, <4>2, <4>3 DEF TypeOK, TablesOK
      <4>5. /\ loc'[c].exec = f /\ jobs' = jobs
            /\ \A u \in Threads \ {c} : pc'[u] = pc[u] /\ loc'[u] = loc[u]
        BY <2>a, <3>3, <4>1 DEF StartExecution, Goto, ThreadsOK, Local
      <4>. QED BY <3>1, <4>4, <4>5
    <3>4. CASE ReadJobForResume(c)
      <4>1. PICK f \in Execs, d \in Decision :
              jobs[f] # None /\ loc' = [loc EXCEPT ![c].exec = f, ![c].choice = d]
        BY <3>4 DEF ReadJobForResume
      <4>2. loc' = [loc EXCEPT ![c] = [loc[c] EXCEPT !.exec = f, !.choice = d]]
        BY <2>a, <4>1 DEF ThreadsOK
      <4>3. /\ loc'[c].exec = f
            /\ \A u \in Threads \ {c} : loc'[u] = loc[u]
        BY <2>a, <4>2 DEF ThreadsOK, Local
      <4>4. UNCHANGED <<jobs, execs>> /\ \A u \in Threads \ {c} : pc'[u] = pc[u]
        <5>1. Goto(c, "requeue") /\ UNCHANGED tables
          BY <3>4 DEF ReadJobForResume
        <5>. QED BY <2>a, <5>1 DEF Goto, ThreadsOK, tables
      <4>5. execs[f] # None
        BY <4>1 DEF RecordsInv
      <4>. QED BY <3>1, <4>3, <4>4, <4>5
    <3>5. CASE CancelQueued(c) \/ CancelJob(c)
      <4>1. /\ pc'[c] = "elookup" /\ execs' = execs
            /\ \A u \in Threads \ {c} : pc'[u] = pc[u] /\ loc'[u] = loc[u]
            /\ \/ jobs' = jobs
               \/ \E f \in Execs : Cancellable(f) /\ jobs' = [jobs EXCEPT ![f].status = "CANCELLED"]
        BY <2>a, <3>5 DEF CancelQueued, CancelJob, Goto, ThreadsOK, Consistent
      <4>2. \A e \in Execs : jobs'[e] # None => jobs[e] # None
        BY <4>1 DEF Cancellable, TypeOK, TablesOK
      <4>. QED BY <3>1, <4>1, <4>2
    <3>6. CASE CancelExecution(c)
      <4>1. /\ pc[c] = "ecancel" /\ pc'[c] = "idle" /\ jobs' = jobs
            /\ SaveExecution(c, "CANCELLED", loc[c].node)
            /\ \A u \in Threads \ {c} : pc'[u] = pc[u] /\ loc'[u] = loc[u]
        BY <2>a, <3>6 DEF CancelExecution, Finish, Goto, ThreadsOK
      <4>2. loc[c].node \in Nodes \cup {None}
        BY <2>a DEF ThreadsOK, Local
      <4>3. \A e \in Execs : execs'[e] = None => execs[e] = None
        BY <2>a, <4>1, <4>2, SavedRecord DEF ExecStatus
      <4>. QED BY <3>1, <4>1, <4>3
    <3>7. CASE \/ ReadForCancel(c) \/ CancelRefused(c) \/ AnswerRequest(c)
               \/ ReceiveCancel(c) \/ ReceiveCallback(c) \/ ClientDies(c)
      <4>1. /\ pc'[c] \notin {"enqueue", "requeue"} /\ UNCHANGED <<jobs, execs>>
            /\ \A u \in Threads \ {c} : pc'[u] = pc[u] /\ loc'[u] = loc[u]
        BY <2>a, <3>7 DEF ReadForCancel, CancelRefused, AnswerRequest, ReceiveCancel, ReceiveCallback,
                          ClientDies, Finish, Goto, ThreadsOK, tables
      <4>. QED BY <3>1, <4>1
    <3>. QED BY <2>3, <3>2, <3>3, <3>4, <3>5, <3>6, <3>7 DEF HandlerStep, ClientSends
  <2>4. ASSUME NEW e \in Execs, BackoffElapses(e) PROVE RecordsInv'
    <3>1. /\ jobs[e] # None /\ UNCHANGED <<execs, pc, loc>>
          /\ \E row : jobs' = [jobs EXCEPT ![e] = row]
      BY <2>4 DEF BackoffElapses, locals, TypeOK, TablesOK
    <3>2. \A f \in Execs : jobs'[f] # None => jobs[f] # None
      BY <3>1 DEF TypeOK, TablesOK
    <3>. QED BY <3>1, <3>2 DEF RecordsInv, Holds
  <2>5. CASE UNCHANGED vars
    BY <2>5 DEF vars, RecordsInv, Holds
  <2>. QED BY <2>1, <2>2, <2>3, <2>4, <2>5 DEF Next
<1>. QED BY <1>1, <1>2, TypeCorrect, PTL DEF Spec

-----------------------------------------------------------------------------
(* Rejections, with one worker and requests of every kind but callbacks,   *)
(* which resume an execution in a thread of their own: once a gate was     *)
(* rejected the latest approval of the execution is decided, and its job   *)
(* can only be resumed, so that a worker never gets past the approval.     *)

NoCallbacks == "callback" \notin Ops

Rejected(e) == \E a \in approvals[e] : a.decision = "REJECTED"

RefusedRight(e) ==
  Rejected(e) => /\ jobs[e] # None /\ jobs[e].payload # None
                 /\ \A a \in approvals[e] : IsLatest(a, e) => a.decision # None

Deciding(w) ==
  /\ jobs[loc[w].exec] # None
  /\ job[w].payload # None => jobs[loc[w].exec].payload # None
  /\ pc[w] \in {"lookup", "approval", "decide"} => job[w].payload # None
  /\ pc[w] = "decide" => IsLatest(loc[w].appr, loc[w].exec)
  /\ Rejected(loc[w].exec) => /\ pc[w] \in {"lookup", "approval", "reject", "settle"}
                              /\ job[w].payload # None

Requesting(c) ==
  /\ pc[c] = "requeue" => jobs[loc[c].exec] # None
  /\ pc[c] = "enqueue" =>
       /\ jobs[loc[c].exec] = None
       /\ \A d \in Clients \ {c} : pc[d] = "enqueue" => loc[d].exec # loc[c].exec

RejectionInv ==
  /\ \A e \in Execs : RefusedRight(e)
  /\ \A w \in Workers : Holds(w) => Deciding(w)
  /\ \A c \in Clients : Requesting(c)

\* A step of the worker that adds and removes no job.
LEMMA WorkerMoves ==
  ASSUME Assumptions, OneWorker, TypeOK, RejectionInv, NEW w \in Workers,
         \A c \in Clients : pc'[c] = pc[c] /\ loc'[c] = loc[c],
         \A f \in Execs : jobs'[f] = None <=> jobs[f] = None,
         \A f \in Execs : RefusedRight(f)', Holds(w)' => Deciding(w)'
  PROVE  RejectionInv'
<1>1. ASSUME NEW c \in Clients PROVE Requesting(c)'
  <2>1. pc[c] \in {"enqueue", "requeue"} => loc[c].exec \in Execs
    BY DEF TypeOK, ThreadsOK, Consistent, Threads
  <2>2. Requesting(c)
    BY DEF RejectionInv
  <2>. QED BY <2>1, <2>2 DEF Requesting
<1>2. \A v \in Workers : Holds(v)' => Deciding(v)'
  BY DEF OneWorker
<1>. QED BY <1>1, <1>2 DEF RejectionInv

\* A step of somebody else: no approval changes, and no job that was resumed is
\* made one that is executed from the start.
LEMMA OthersMove ==
  ASSUME Assumptions, TypeOK, RejectionInv,
         \A w \in Workers : pc'[w] = pc[w] /\ loc'[w] = loc[w] /\ job'[w] = job[w],
         UNCHANGED approvals,
         \A f \in Execs : \/ jobs'[f] = jobs[f]
                          \/ /\ jobs'[f] # None
                             /\ jobs[f] # None /\ jobs[f].payload # None => jobs'[f].payload # None,
         \A c \in Clients : Requesting(c)'
  PROVE  RejectionInv'
<1>1. ASSUME NEW f \in Execs PROVE RefusedRight(f)'
  <2>1. RefusedRight(f)
    BY DEF RejectionInv
  <2>. QED BY <2>1 DEF RefusedRight, Rejected, IsLatest
<1>2. ASSUME NEW w \in Workers, Holds(w)' PROVE Deciding(w)'
  <2>1. Holds(w)
    BY <1>2 DEF Holds
  <2>2. Deciding(w) /\ loc[w].exec \in Execs
    BY <2>1, HeldExec DEF RejectionInv
  <2>3. PICK e \in Execs : e = loc[w].exec
    BY <2>2
  <2>4. jobs[e] # None /\ jobs'[e] # None
        /\ (job[w].payload # None => jobs'[e].payload # None)
    BY <2>2, <2>3 DEF Deciding
  <2>5. /\ Rejected(e)' <=> Rejected(e)
        /\ \A a : IsLatest(a, e) => IsLatest(a, e)'
    BY DEF Rejected, IsLatest
  <2>6. /\ pc'[w] = pc[w] /\ loc'[w] = loc[w] /\ job'[w] = job[w]
        /\ pc[w] \in {"lookup", "approval", "decide"} => job[w].payload # None
        /\ pc[w] = "decide" => IsLatest(loc[w].appr, e)
        /\ Rejected(e) => pc[w] \in {"lookup", "approval", "reject", "settle"} /\ job[w].payload # None
    BY <2>2, <2>3 DEF Deciding
  <2>7. Rejected(loc[w].exec)' <=> Rejected(e)'
    BY <2>3, <2>6 DEF Rejected
  <2>8. pc[w] = "decide" => IsLatest(loc[w].appr, loc[w].exec)'
    BY <2>3, <2>5, <2>6 DEF IsLatest
  <2>. QED BY <2>3, <2>4, <2>5, <2>6, <2>7, <2>8 DEF Deciding
<1>. QED BY <1>1, <1>2 DEF RejectionInv

LEMMA EngineRejections ==
  ASSUME Assumptions, OneWorker, NoCallbacks, TypeOK, TypeOK', EnginesInv, RejectionInv,
         NEW t \in Threads, EngineStep(t)
  PROVE  RejectionInv'
<1> DEFINE e == loc[t].exec
<1>b. t \in Workers /\ jobs' = jobs /\ Keeps(t) /\ Holds(t) /\ loc'[t].exec = e
  <2>1. InEngine(t)
    BY EngineCounts
  <2>2. t \in Workers
    BY <2>1 DEF EnginesInv, Engines, NoCallbacks
  <2>. QED BY <2>2, EngineKeeps
<1>c. /\ e \in Execs /\ Deciding(t) /\ RefusedRight(e) /\ job' = job
      /\ \A c \in Clients : pc'[c] = pc[c] /\ loc'[c] = loc[c]
      /\ \A f \in Execs : RefusedRight(f)
  <2>1. t \notin Clients
    BY <1>b DEF Assumptions
  <2>. QED BY <1>b, <2>1, HeldExec DEF RejectionInv, Keeps, Threads
<1>d. ASSUME \A f \in Execs \ {e} : approvals'[f] = approvals[f], RefusedRight(e)', Deciding(t)'
      PROVE  RejectionInv'
  <2>1. ASSUME NEW f \in Execs PROVE RefusedRight(f)'
    <3>1. CASE f = e
      BY <1>b, <1>d, <3>1 DEF RefusedRight, Rejected, IsLatest
    <3>2. CASE f # e
      <4>1. RefusedRight(f) /\ approvals'[f] = approvals[f] /\ jobs'[f] = jobs[f]
        BY <1>b, <1>c, <1>d, <3>2
      <4>. QED BY <4>1 DEF RefusedRight, Rejected, IsLatest
    <3>. QED BY <3>1, <3>2
  <2>. QED BY <1>b, <1>c, <1>d, <2>1, WorkerMoves
<1>e. ASSUME UNCHANGED approvals, Deciding(t)' PROVE RejectionInv'
  <2>1. RefusedRight(e)'
    BY <1>b, <1>c, <1>e DEF RefusedRight, Rejected, IsLatest
  <2>. QED BY <1>d, <1>e, <2>1
<1>f. ASSUME NEW l \in Locations, Goto(t, l) PROVE pc'[t] = l
  BY <1>f DEF Goto, TypeOK, ThreadsOK
<1>g. ASSUME NEW r, LeaveEngine(t, r) PROVE pc'[t] = "settle"
  BY <1>b, <1>c, <1>g DEF LeaveEngine, Goto, TypeOK, ThreadsOK, Assumptions
<1>1. CASE \/ ScanNodeRuns(t) \/ DepthExceeded(t) \/ SaveCursor(t) \/ DenyByPolicy(t) \/ StopManual(t)
           \/ AskApprovers(t) \/ BeginNode(t) \/ FollowEdge(t) \/ ReachLeaf(t) \/ NodeFails(t)
           \/ NoRoute(t) \/ FailExecution(t) \/ CompleteExecution(t)
  <2>1. /\ pc[t] \in {"scan", "step", "gate", "ask", "run", "fail", "complete"}
        /\ UNCHANGED approvals
    BY <1>1 DEF ScanNodeRuns, DepthExceeded, SaveCursor, DenyByPolicy, StopManual, AskApprovers,
                BeginNode, FollowEdge, ReachLeaf, NodeFails, NoRoute, FailExecution,
                CompleteExecution, tables
  <2>2. pc'[t] \in {"step", "gate", "run", "complete", "fail", "settle"}
    BY <1>1, <1>f, <1>g DEF ScanNodeRuns, DepthExceeded, SaveCursor, DenyByPolicy, StopManual,
                AskApprovers, BeginNode, FollowEdge, ReachLeaf, NodeFails, NoRoute, FailExecution,
                CompleteExecution, Locations
  <2>3. ~Rejected(e)
    BY <1>c, <2>1 DEF Deciding
  <2>4. Deciding(t)'
    BY <1>b, <1>c, <2>1, <2>2, <2>3 DEF Deciding, Rejected
  <2>. QED BY <1>e, <2>1, <2>4
<1>2. CASE LookupExecution(t)
  <2>1. pc[t] = "lookup" /\ pc'[t] = "approval" /\ UNCHANGED approvals
    BY <1>2, <1>f DEF LookupExecution, Locations, tables
  <2>2. Deciding(t)'
    BY <1>b, <1>c, <2>1 DEF Deciding, Rejected
  <2>. QED BY <1>e, <2>1, <2>2
<1>3. CASE NotResumable(t) \/ NothingToDecide(t) \/ RejectExecution(t)
  <2>1. pc'[t] = "settle" /\ UNCHANGED approvals
    BY <1>3, <1>g DEF NotResumable, NothingToDecide, RejectExecution, tables
  <2>2. Deciding(t)'
    BY <1>b, <1>c, <2>1 DEF Deciding, Rejected
  <2>. QED BY <1>e, <2>1, <2>2
<1>4. CASE LookupApproval(t)
  <2>1. PICK a \in approvals[e] : IsLatest(a, e) /\ a.decision = None /\ loc' = [loc EXCEPT ![t].appr = a]
    BY <1>4 DEF LookupApproval
  <2>2. loc'[t].appr = a
    BY <1>c, <2>1 DEF TypeOK, ThreadsOK, Local
  <2>3. pc[t] = "approval" /\ pc'[t] = "decide" /\ UNCHANGED approvals
    BY <1>4, <1>f DEF LookupApproval, Locations, tables
  <2>4. ~Rejected(e)
    BY <1>c, <2>1 DEF RefusedRight
  <2>5. IsLatest(a, e)'
    BY <2>1, <2>3 DEF IsLatest
  <2>6. Deciding(t)'
    BY <1>b, <1>c, <2>2, <2>3, <2>4, <2>5 DEF Deciding, Rejected, IsLatest
  <2>. QED BY <1>e, <2>3, <2>6
<1>5. CASE PauseForApproval(t)
  <2>1. PICK a : a = [id |-> gates[e] + 1, node |-> loc[t].node, decision |-> None]
    OBVIOUS
  <2>2. /\ pc[t] = "gate" /\ pc'[t] = "ask"
        /\ approvals' = [approvals EXCEPT ![e] = @ \cup {a}]
    BY <1>5, <1>f, <2>1 DEF PauseForApproval, Locations
  <2>3. /\ approvals'[e] = approvals[e] \cup {a} /\ a.decision # "REJECTED"
        /\ \A f \in Execs \ {e} : approvals'[f] = approvals[f]
    BY <1>c, <2>1, <2>2 DEF TypeOK, TablesOK, Assumptions, Decision
  <2>4. ~Rejected(e)
    BY <1>c, <2>2 DEF Deciding
  <2>5. ~Rejected(e)'
    BY <1>b, <2>3, <2>4 DEF Rejected
  <2>6. Deciding(t)'
    BY <1>b, <1>c, <2>2, <2>5 DEF Deciding, Rejected
  <2>7. RefusedRight(e)'
    BY <1>b, <2>5 DEF RefusedRight, Rejected
  <2>. QED BY <1>d, <2>3, <2>6, <2>7
<1>6. CASE DecideGate(t)
  <2>1. PICK b : b = loc[t].appr
    OBVIOUS
  <2>2. PICK a : a = [b EXCEPT !.decision = loc[t].choice]
    OBVIOUS
  <2>3. /\ pc[t] = "decide"
        /\ approvals' = [approvals EXCEPT ![e] = {x \in @ : x.id # b.id} \cup {a}]
    BY <1>6, <2>1, <2>2 DEF DecideGate
  <2>4. /\ b \in Approval /\ loc[t].choice \in Decision /\ IsLatest(b, e) /\ ~Rejected(e)
        /\ job[t].payload # None
    BY <1>c, <2>1, <2>3 DEF Deciding, TypeOK, ThreadsOK, Consistent
  <2>5. a.id = b.id /\ a.decision = loc[t].choice /\ a.decision # None
    BY <2>2, <2>4 DEF Approval, Assumptions
  <2>6. /\ approvals'[e] = {x \in approvals[e] : x.id # b.id} \cup {a}
        /\ \A f \in Execs \ {e} : approvals'[f] = approvals[f]
    BY <1>c, <2>3 DEF TypeOK, TablesOK
  <2>7. \A x \in approvals[e] : x.id \in Nat /\ b.id \in Nat /\ x.id <= b.id
    <3>1. approvals[e] \subseteq Approval
      BY <1>c DEF TypeOK, TablesOK
    <3>2. \A x \in Approval : x.id \in Nat
      BY DEF Approval
    <3>. QED BY <2>4, <3>1, <3>2 DEF IsLatest
  <2>8. ASSUME NEW x \in approvals'[e], \A y \in approvals'[e] : y.id <= x.id PROVE x = a
    BY <2>5, <2>6, <2>7, <2>8
  <2>9. pc'[t] \in {"scan", "reject", "settle"} /\ (pc'[t] = "scan" => loc[t].choice = "APPROVED")
    BY <1>6, <1>f, <1>g DEF DecideGate, Locations
  <2>10. Rejected(e)' => pc'[t] \in {"reject", "settle"}
    BY <1>b, <2>4, <2>5, <2>6, <2>9 DEF Rejected
  <2>11. Deciding(t)'
    BY <1>b, <1>c, <2>4, <2>9, <2>10 DEF Deciding, Rejected
  <2>12. jobs'[e] # None /\ jobs'[e].payload # None
    BY <1>b, <1>c, <2>4 DEF Deciding
  <2>13. \A x \in approvals'[e] : IsLatest(x, e)' => x.decision # None
    BY <1>b, <2>5, <2>8 DEF IsLatest
  <2>14. RefusedRight(e)'
    BY <1>b, <2>12, <2>13 DEF RefusedRight, IsLatest
  <2>. QED BY <1>d, <2>6, <2>11, <2>14
<1>. QED BY <1>1, <1>2, <1>3, <1>4, <1>5, <1>6 DEF EngineStep

LEMMA WorkerRejections ==
  ASSUME Assumptions, OneWorker, TypeOK, TypeOK', RejectionInv, NEW w \in Workers,
         WorkerStep(w) \/ WorkerDies(w)
  PROVE  RejectionInv'
<1> DEFINE e == loc[w].exec
<1>a. /\ w \in Threads /\ w \notin Clients /\ Clients \subseteq Threads /\ Workers \subseteq Threads
      /\ ThreadsOK /\ loc[w] \in Local /\ jobs \in [Execs -> Job \cup {None}] /\ None \notin Job
  BY DEF Threads, Assumptions, TypeOK, ThreadsOK, TablesOK
<1>b. Holds(w) => e \in Execs /\ job[w] \in Job /\ Deciding(w)
  <2>1. Holds(w) => e \in Execs /\ job[w] \in Job
    BY <1>a, HeldExec DEF Holds, ThreadsOK, Consistent
  <2>. QED BY <2>1 DEF RejectionInv
<1>c. \A f \in Execs : RefusedRight(f)
  BY DEF RejectionInv
<1>d. ASSUME \A c \in Clients : pc'[c] = pc[c] /\ loc'[c] = loc[c], UNCHANGED approvals,
             \A f \in Execs : /\ jobs'[f] = None <=> jobs[f] = None
                              /\ Rejected(f) => jobs'[f].payload # None,
             Holds(w)' => Deciding(w)'
      PROVE  RejectionInv'
  <2>1. ASSUME NEW f \in Execs PROVE RefusedRight(f)'
    BY <1>c, <1>d DEF RefusedRight, Rejected, IsLatest
  <2>. QED BY <1>d, <2>1, WorkerMoves
<1>e. ASSUME NEW l \in Locations, Goto(w, l)
      PROVE  pc'[w] = l /\ \A c \in Clients : pc'[c] = pc[c]
  BY <1>a, <1>e DEF Goto, ThreadsOK
<1>1. CASE Dequeue(w)
  <2>1. PICK f \in Execs :
          LET row == [jobs[f] EXCEPT !.status = "RUNNING", !.owner = w, !.attempt = @ + 1]
          IN  /\ Eligible(f)
              /\ jobs' = [jobs EXCEPT ![f] = row]
              /\ job' = [job EXCEPT ![w] = row]
              /\ loc' = [loc EXCEPT ![w] = [NoLocal EXCEPT !.exec = f, !.choice = row.payload]]
              /\ \/ row.payload # None /\ Goto(w, "lookup")
                 \/ row.payload = None /\ row.attempt > 1 /\ Goto(w, "clear")
                 \/ row.payload = None /\ row.attempt <= 1 /\ Goto(w, "begin")
    BY <1>1 DEF Dequeue, NextJob
  <2>2. jobs[f] \in Job /\ jobs[f] # None
    BY <1>a, <2>1 DEF Eligible
  <2>3. PICK row : row = [jobs[f] EXCEPT !.status = "RUNNING", !.owner = w, !.attempt = @ + 1]
    OBVIOUS
  <2>4. row \in Job /\ row.payload = jobs[f].payload
    BY <2>2, <2>3, TakenRow DEF Job
  <2>5. /\ jobs'[f] = row /\ \A g \in Execs \ {f} : jobs'[g] = jobs[g]
        /\ job'[w] = row
    BY <1>a, <2>1, <2>3 DEF ThreadsOK
  <2>6. loc'[w].exec = f /\ \A c \in Clients : loc'[c] = loc[c]
    BY <1>a, <2>1 DEF ThreadsOK, NoLocal
  <2>7. /\ pc'[w] \in {"lookup", "clear", "begin"} /\ (row.payload # None <=> pc'[w] = "lookup")
        /\ \A c \in Clients : pc'[c] = pc[c]
    BY <1>e, <2>1, <2>3 DEF Locations
  <2>8. UNCHANGED approvals
    BY <1>1 DEF Dequeue
  <2>9. Rejected(f) => row.payload # None
    BY <1>c, <2>4 DEF RefusedRight
  <2>10. Deciding(w)'
    BY <1>a, <2>4, <2>5, <2>6, <2>7, <2>8, <2>9 DEF Deciding, Rejected
  <2>11. \A g \in Execs : /\ jobs'[g] = None <=> jobs[g] = None
                          /\ Rejected(g) => jobs'[g].payload # None
    BY <1>a, <1>c, <2>2, <2>4, <2>5 DEF RefusedRight
  <2>. QED BY <1>d, <2>6, <2>7, <2>8, <2>10, <2>11
<1>2. CASE ClearHistory(w)
  <2>1. /\ pc[w] = "clear" /\ pc'[w] = "begin" /\ UNCHANGED <<loc, job, jobs>>
        /\ approvals' = [approvals EXCEPT ![e] = {}]
        /\ \A c \in Clients : pc'[c] = pc[c]
    BY <1>2, <1>e DEF ClearHistory, Locations
  <2>2. Holds(w)
    BY <2>1 DEF Holds
  <2>3. approvals'[e] = {} /\ \A f \in Execs \ {e} : approvals'[f] = approvals[f]
    BY <1>b, <2>1, <2>2 DEF TypeOK, TablesOK
  <2>4. ~Rejected(e)'
    BY <2>1, <2>3 DEF Rejected
  <2>5. Deciding(w)'
    BY <1>b, <2>1, <2>2, <2>4 DEF Deciding, Rejected
  <2>6. ASSUME NEW f \in Execs PROVE RefusedRight(f)'
    <3>1. CASE f = e
      BY <2>1, <2>4, <3>1 DEF RefusedRight, Rejected
    <3>2. CASE f # e
      <4>1. RefusedRight(f) /\ approvals'[f] = approvals[f]
        BY <1>c, <2>3, <3>2
      <4>. QED BY <2>1, <4>1 DEF RefusedRight, Rejected, IsLatest
    <3>. QED BY <3>1, <3>2
  <2>. QED BY <2>1, <2>5, <2>6, WorkerMoves
<1>3. CASE BundleMissing(w) \/ BeginExecution(w)
  <2>1. /\ pc[w] = "begin" /\ pc'[w] \in {"scan", "settle"} /\ loc'[w].exec = e
        /\ UNCHANGED <<job, jobs, approvals>>
        /\ \A c \in Clients : pc'[c] = pc[c] /\ loc'[c] = loc[c]
    <3>1. CASE BundleMissing(w)
      <4>1. /\ Goto(w, "settle") /\ pc[w] = "begin" /\ UNCHANGED <<job, jobs, approvals>>
            /\ loc' = [loc EXCEPT ![w] = [NoLocal EXCEPT !.exec = loc[w].exec, !.result = "ERROR"]]
        BY <1>a, <3>1 DEF BundleMissing, LeaveEngine, tables
      <4>. QED BY <1>a, <1>e, <4>1 DEF ThreadsOK, NoLocal, Locations
    <3>2. CASE BeginExecution(w)
      <4>1. /\ Goto(w, "scan") /\ pc[w] = "begin" /\ UNCHANGED <<job, jobs, approvals>>
        BY <3>2 DEF BeginExecution
      <4>. QED BY <1>a, <1>e, <3>2, <4>1, ExecutionBegun DEF Locations
    <3>. QED BY <1>3, <3>1, <3>2
  <2>2. Holds(w)
    BY <2>1 DEF Holds
  <2>3. ~Rejected(e)
    BY <1>b, <2>1, <2>2 DEF Deciding
  <2>4. Deciding(w)'
    BY <1>b, <2>1, <2>2, <2>3 DEF Deciding, Rejected
  <2>5. \A f \in Execs : Rejected(f) => jobs'[f].payload # None
    BY <1>c, <2>1 DEF RefusedRight
  <2>. QED BY <1>d, <2>1, <2>4, <2>5
<1>4. CASE SettleJob(w)
  <2>1. PICK row : row = Settled(job[w], loc[w].result)
    OBVIOUS
  <2>2. /\ pc[w] = "settle" /\ pc'[w] = "idle" /\ jobs' = [jobs EXCEPT ![e] = row]
        /\ UNCHANGED approvals
        /\ \A c \in Clients : pc'[c] = pc[c] /\ loc'[c] = loc[c]
    BY <1>4, <1>a, <2>1 DEF SettleJob, UpdateJob, Finish, Goto, ThreadsOK
  <2>3. Holds(w) /\ ~Holds(w)'
    BY <2>2 DEF Holds
  <2>4. row \in Job
    <3>1. jobs'[e] = row /\ jobs'[e] \in Job \cup {None}
      BY <1>b, <2>2, <2>3 DEF TypeOK, TablesOK
    <3>2. \A s \in JobStatus, d \in BOOLEAN, o \in Workers \cup {None, HIL} :
            /\ [job[w] EXCEPT !.status = s] \in Job
            /\ [job[w] EXCEPT !.status = s, !.owner = o] \in Job
            /\ [job[w] EXCEPT !.status = s, !.due = d] \in Job
      BY <1>b, <2>3 DEF Job
    <3>. QED BY <2>1, <3>2 DEF Settled, JobStatus
  <2>5. row.payload = job[w].payload
    BY <1>b, <2>1, <2>3 DEF Settled, Job
  <2>6. jobs'[e] = row /\ \A f \in Execs \ {e} : jobs'[f] = jobs[f]
    BY <1>a, <1>b, <2>2, <2>3
  <2>7. jobs[e] # None /\ (Rejected(e) => row.payload # None)
    BY <1>b, <2>3, <2>5 DEF Deciding
  <2>8. PICK g \in Execs : g = e
    BY <1>b, <2>3
  <2>9. \A f \in Execs : /\ jobs'[f] = None <=> jobs[f] = None
                         /\ Rejected(f) => jobs'[f].payload # None
    BY <1>a, <1>c, <2>4, <2>6, <2>7, <2>8 DEF RefusedRight
  <2>. QED BY <1>d, <2>2, <2>3, <2>9
<1>5. CASE StartWorker(w) \/ WorkerDies(w)
  <2>1. /\ pc'[w] \in {"idle", "down"} /\ UNCHANGED approvals
        /\ \A c \in Clients : pc'[c] = pc[c] /\ loc'[c] = loc[c]
    BY <1>5, <1>a DEF StartWorker, WorkerDies, Goto, ThreadsOK, tables
  <2>2. ASSUME NEW f \in Execs
        PROVE  /\ jobs'[f] = None <=> jobs[f] = None
               /\ Rejected(f) => jobs'[f].payload # None
    <3>1. \/ jobs'[f] = jobs[f]
          \/ Orphan(f) /\ jobs'[f] = Recovered(jobs[f])
      BY <1>5, <1>a DEF StartWorker, WorkerDies, tables
    <3>2. CASE jobs'[f] = jobs[f]
      BY <1>c, <3>2 DEF RefusedRight
    <3>3. CASE Orphan(f) /\ jobs'[f] = Recovered(jobs[f])
      <4>1. jobs[f] \in Job /\ jobs[f] # None
        BY <1>a, <3>3 DEF Orphan
      <4>2. jobs'[f] # None /\ jobs'[f].payload = jobs[f].payload
        <5>1. jobs'[f] \in Job
          BY <3>3, <4>1, RecoveredRow
        <5>2. \/ jobs'[f] = [jobs[f] EXCEPT !.status = "QUEUED", !.owner = None, !.due = TRUE]
              \/ jobs'[f] = [jobs[f] EXCEPT !.status = "FAILED"]
          BY <3>3 DEF Recovered
        <5>3. jobs'[f].payload = jobs[f].payload
          BY <4>1, <5>2 DEF Job
        <5>. QED BY <1>a, <5>1, <5>3
      <4>. QED BY <1>c, <4>1, <4>2 DEF RefusedRight
    <3>. QED BY <3>1, <3>2, <3>3
  <2>3. ~Holds(w)'
    BY <2>1 DEF Holds
  <2>. QED BY <1>d, <2>1, <2>2, <2>3
<1>. QED BY <1>1, <1>2, <1>3, <1>4, <1>5 DEF WorkerStep

LEMMA ClientRejections ==
  ASSUME Assumptions, NoCallbacks, TypeOK, TypeOK', EnginesInv, RecordsInv, RejectionInv, NEW c \in Clients,
         HandlerStep(c) \/ ClientSends(c) \/ ClientDies(c)
  PROVE  RejectionInv'
<1> DEFINE e == loc[c].exec
<1>a. /\ c \in Threads /\ c \notin Workers /\ Clients \subseteq Threads /\ Workers \subseteq Threads
      /\ ThreadsOK /\ loc[c] \in Local /\ jobs \in [Execs -> Job \cup {None}]
      /\ None \notin Job /\ None \notin Decision
  BY DEF Threads, Assumptions, TypeOK, ThreadsOK, TablesOK
<1>b. \A d \in Clients : /\ Requesting(d)
                         /\ pc[d] # "idle" => loc[d].exec \in Execs
                         /\ pc[d] \in {"enqueue", "requeue"} => execs[loc[d].exec] # None
  <2>1. ASSUME NEW d \in Clients, pc[d] # "idle" PROVE loc[d].exec \in Execs
    <3>1. pc[d] # "down"
      BY <1>a, <2>1 DEF ThreadsOK, Consistent, WorkerOnly, Assumptions
    <3>. QED BY <1>a, <2>1, <3>1 DEF ThreadsOK, Consistent
  <2>. QED BY <2>1 DEF RecordsInv, RejectionInv
\* A request that adds no job, or only changes the status of one.
<1>c. ASSUME pc'[c] \notin {"enqueue", "requeue"}, UNCHANGED approvals,
             \A u \in Threads \ {c} : pc'[u] = pc[u] /\ loc'[u] = loc[u] /\ job'[u] = job[u],
             \A f \in Execs : \/ jobs'[f] = jobs[f]
                              \/ /\ jobs[f] # None /\ jobs'[f] # None
                                 /\ jobs'[f].payload = jobs[f].payload
      PROVE  RejectionInv'
  <2>1. ASSUME NEW d \in Clients PROVE Requesting(d)'
    <3>1. CASE d = c
      BY <1>c, <3>1 DEF Requesting
    <3>2. CASE d # c
      <4>1. pc'[d] = pc[d] /\ loc'[d] = loc[d] /\ Requesting(d)
        BY <1>a, <1>b, <1>c, <3>2
      <4>2. pc[d] \in {"enqueue", "requeue"} =>
              (jobs'[loc[d].exec] = None <=> jobs[loc[d].exec] = None)
        BY <1>b, <1>c
      <4>3. pc[d] = "enqueue" => \A u \in Clients \ {d} : pc'[u] = "enqueue" => loc'[u].exec # loc[d].exec
        BY <1>a, <1>c, <4>1 DEF Requesting
      <4>. QED BY <4>1, <4>2, <4>3 DEF Requesting
    <3>. QED BY <3>1, <3>2
  <2>2. \A v \in Workers : pc'[v] = pc[v] /\ loc'[v] = loc[v] /\ job'[v] = job[v]
    BY <1>a, <1>c
  <2>3. \A f \in Execs : \/ jobs'[f] = jobs[f]
                         \/ /\ jobs'[f] # None
                            /\ jobs[f] # None /\ jobs[f].payload # None => jobs'[f].payload # None
    BY <1>c
  <2>. QED BY <1>c, <2>1, <2>2, <2>3, OthersMove
<1>1. CASE EnqueueJob(c) \/ RequeueJob(c)
  <2>1. PICK row : /\ row # None /\ (pc[c] = "requeue" => row.payload # None)
                   /\ jobs' = [jobs EXCEPT ![e] = row]
    <3>1. CASE EnqueueJob(c)
      <4>1. PICK r : r = [status |-> "QUEUED", attempt |-> 0, owner |-> None, payload |-> None, due |-> TRUE]
        OBVIOUS
      <4>2. r \in Job
        BY <4>1 DEF Job, JobStatus
      <4>. QED BY <1>a, <3>1, <4>1, <4>2 DEF EnqueueJob
    <3>2. CASE RequeueJob(c)
      <4>1. job[c] \in Job /\ loc[c].choice \in Decision
        BY <1>a, <3>2 DEF RequeueJob, ThreadsOK, Consistent
      <4>2. PICK r : r = [job[c] EXCEPT !.status = "QUEUED", !.owner = None,
                                        !.payload = loc[c].choice, !.due = TRUE]
        OBVIOUS
      <4>3. r \in Job /\ r.payload = loc[c].choice
        BY <4>1, <4>2 DEF Job, JobStatus
      <4>. QED BY <1>a, <3>2, <4>1, <4>2, <4>3 DEF RequeueJob, UpdateJob
    <3>. QED BY <1>1, <3>1, <3>2
  <2>2. /\ pc[c] \in {"enqueue", "requeue"} /\ pc'[c] = "idle" /\ UNCHANGED approvals
        /\ \A u \in Threads \ {c} : pc'[u] = pc[u] /\ loc'[u] = loc[u] /\ job'[u] = job[u]
    BY <1>1, <1>a DEF EnqueueJob, RequeueJob, Finish, Goto, ThreadsOK
  <2>3. e \in Execs /\ jobs'[e] = row /\ \A f \in Execs \ {e} : jobs'[f] = jobs[f]
    BY <1>a, <1>b, <2>1, <2>2
  <2>4. pc[c] = "enqueue" => jobs[e] = None
    BY <1>b DEF Requesting
  <2>5. \A f \in Execs : \/ jobs'[f] = jobs[f]
                         \/ /\ jobs'[f] # None
                            /\ jobs[f] # None /\ jobs[f].payload # None => jobs'[f].payload # None
    BY <2>1, <2>2, <2>3, <2>4
  <2>6. ASSUME NEW d \in Clients PROVE Requesting(d)'
    <3>1. CASE d = c
      BY <2>2, <3>1 DEF Requesting
    <3>2. CASE d # c
      <4>1. pc'[d] = pc[d] /\ loc'[d] = loc[d] /\ Requesting(d)
        BY <1>a, <1>b, <2>2, <3>2
      <4>2. pc[d] = "requeue" => jobs'[loc[d].exec] # None
        BY <1>b, <2>1, <2>3, <4>1 DEF Requesting
      <4>3. pc[d] = "enqueue" => jobs'[loc[d].exec] = None
        <5>1. pc[d] = "enqueue" /\ pc[c] = "enqueue" => loc[d].exec # e
          BY <3>2, <4>1 DEF Requesting
        <5>2. pc[d] = "enqueue" /\ pc[c] = "requeue" => loc[d].exec # e
          BY <1>b, <4>1 DEF Requesting
        <5>. QED BY <1>b, <2>2, <2>3, <4>1, <5>1, <5>2 DEF Requesting
      <4>4. pc[d] = "enqueue" => \A u \in Clients \ {d} : pc'[u] = "enqueue" => loc'[u].exec # loc[d].exec
        BY <1>a, <2>2, <4>1 DEF Requesting
      <4>. QED BY <4>1, <4>2, <4>3, <4>4 DEF Requesting
    <3>. QED BY <3>1, <3>2
  <2>7. \A v \in Workers : pc'[v] = pc[v] /\ loc'[v] = loc[v] /\ job'[v] = job[v]
    BY <1>a, <2>2
  <2>. QED BY <2>2, <2>5, <2>6, <2>7, OthersMove
<1>2. CASE StartExecution(c)
  <2>1. PICK f \in Execs : execs[f] = None /\ loc' = [loc EXCEPT ![c].exec = f]
    BY <1>2 DEF StartExecution
  <2>2. /\ pc'[c] = "enqueue" /\ loc'[c].exec = f /\ UNCHANGED <<jobs, approvals, job>>
        /\ \A u \in Threads \ {c} : pc'[u] = pc[u] /\ loc'[u] = loc[u]
    BY <1>2, <1>a, <2>1 DEF StartExecution, Goto, ThreadsOK, Local
  <2>3. jobs[f] = None
    BY <2>1 DEF RecordsInv
  <2>4. \A d \in Clients : pc[d] \in {"enqueue", "requeue"} => loc[d].exec # f
    BY <1>b, <2>1
  <2>5. ASSUME NEW d \in Clients PROVE Requesting(d)'
    <3>1. CASE d = c
      <4>1. \A u \in Clients \ {c} : pc'[u] = "enqueue" => loc'[u].exec # f
        BY <1>a, <2>2, <2>4
      <4>. QED BY <2>2, <2>3, <3>1, <4>1 DEF Requesting
    <3>2. CASE d # c
      <4>1. pc'[d] = pc[d] /\ loc'[d] = loc[d] /\ Requesting(d)
        BY <1>a, <1>b, <2>2, <3>2
      <4>2. pc[d] = "enqueue" => \A u \in Clients \ {d} : pc'[u] = "enqueue" => loc'[u].exec # loc[d].exec
        BY <1>a, <2>2, <2>4, <4>1 DEF Requesting
      <4>. QED BY <2>2, <4>1, <4>2 DEF Requesting
    <3>. QED BY <3>1, <3>2
  <2>. QED BY <1>a, <2>2, <2>5, OthersMove
<1>3. CASE ReadJobForResume(c)
  <2>1. PICK f \in Execs, d \in Decision :
          jobs[f] # None /\ loc' = [loc EXCEPT ![c].exec = f, ![c].choice = d]
    BY <1>3 DEF ReadJobForResume
  <2>2. loc' = [loc EXCEPT ![c] = [loc[c] EXCEPT !.exec = f, !.choice = d]]
    BY <1>a, <2>1 DEF ThreadsOK
  <2>3. /\ pc'[c] = "requeue" /\ loc'[c].exec = f /\ UNCHANGED <<jobs, approvals>>
        /\ \A u \in Threads \ {c} : pc'[u] = pc[u] /\ loc'[u] = loc[u] /\ job'[u] = job[u]
    <3>1. loc'[c].exec = f
      BY <1>a, <2>2 DEF ThreadsOK, Local
    <3>2. \A u \in Threads \ {c} : loc'[u] = loc[u]
      BY <1>a, <2>2 DEF ThreadsOK
    <3>. QED BY <3>1, <3>2, <1>3, <1>a DEF ReadJobForResume, Goto, ThreadsOK, tables
  <2>4. ASSUME NEW u \in Clients PROVE Requesting(u)'
    <3>1. CASE u = c
      BY <2>1, <2>3, <3>1 DEF Requesting
    <3>2. CASE u # c
      <4>1. pc'[u] = pc[u] /\ loc'[u] = loc[u] /\ Requesting(u)
        BY <1>a, <1>b, <2>3, <3>2
      <4>2. \A x \in Clients : pc'[x] = "enqueue" => pc[x] = "enqueue" /\ loc'[x] = loc[x]
        BY <1>a, <2>3
      <4>. QED BY <2>3, <4>1, <4>2 DEF Requesting
    <3>. QED BY <3>1, <3>2
  <2>5. \A v \in Workers : pc'[v] = pc[v] /\ loc'[v] = loc[v] /\ job'[v] = job[v]
    BY <1>a, <2>3
  <2>. QED BY <2>3, <2>4, <2>5, OthersMove
<1>4. CASE ReceiveCancel(c) \/ ReadForCancel(c) \/ CancelRefused(c) \/ CancelExecution(c) \/ ClientDies(c)
  <2>1. /\ pc'[c] \notin {"enqueue", "requeue"} /\ UNCHANGED <<jobs, approvals>>
        /\ \A u \in Threads \ {c} : pc'[u] = pc[u] /\ loc'[u] = loc[u] /\ job'[u] = job[u]
    BY <1>4, <1>a DEF ReceiveCancel, ReadForCancel, CancelRefused, CancelExecution, ClientDies,
                      SaveExecution, Finish, Goto, ThreadsOK, tables
  <2>. QED BY <1>c, <2>1
<1>5. CASE CancelQueued(c) \/ CancelJob(c)
  <2>1. /\ pc'[c] = "elookup" /\ UNCHANGED approvals
        /\ \A u \in Threads \ {c} : pc'[u] = pc[u] /\ loc'[u] = loc[u] /\ job'[u] = job[u]
    BY <1>5, <1>a DEF CancelQueued, CancelJob, Goto, ThreadsOK
  <2>2. \/ jobs' = jobs
        \/ \E f : Cancellable(f) /\ jobs' = [jobs EXCEPT ![f] = [jobs[f] EXCEPT !.status = "CANCELLED"]]
    BY <1>5 DEF CancelQueued, CancelJob
  <2>3. CASE jobs' = jobs
    BY <1>c, <2>1, <2>3
  <2>4. CASE jobs' # jobs
    <3>1. PICK f : Cancellable(f) /\ jobs' = [jobs EXCEPT ![f] = [jobs[f] EXCEPT !.status = "CANCELLED"]]
      BY <2>2, <2>4
    <3>2. f \in Execs => jobs[f] \in Job
      BY <1>a, <3>1 DEF Cancellable
    <3>3. PICK row : row = [jobs[f] EXCEPT !.status = "CANCELLED"]
      OBVIOUS
    <3>4. f \in Execs => row \in Job /\ row.payload = jobs[f].payload
      BY <3>2, <3>3 DEF Job, JobStatus
    <3>5. \A g \in Execs : \/ jobs'[g] = jobs[g]
                           \/ g = f /\ jobs'[g] = row
      BY <1>a, <3>1, <3>3
    <3>6. \A g \in Execs : \/ jobs'[g] = jobs[g]
                           \/ /\ jobs[g] # None /\ jobs'[g] # None
                              /\ jobs'[g].payload = jobs[g].payload
      BY <1>a, <3>2, <3>4, <3>5
    <3>. QED BY <1>c, <2>1, <3>6
  <2>. QED BY <2>3, <2>4
<1>6. CASE ReceiveCallback(c) \/ AnswerRequest(c)
  BY <1>6, <1>a DEF ReceiveCallback, Sends, NoCallbacks, AnswerRequest, EnginesInv, Engines
<1>. QED BY <1>1, <1>2, <1>3, <1>4, <1>5, <1>6 DEF HandlerStep, ClientSends

LEMMA RejectionInvHolds == ASSUME Assumptions, OneWorker, NoCallbacks PROVE Spec => []RejectionInv
<1>1. Init => RejectionInv
  <2> SUFFICES ASSUME Init PROVE RejectionInv
    OBVIOUS
  <2>1. \A c \in Clients : pc[c] = "idle"
    BY DEF Init, Threads
  <2>2. \A w \in Workers : ~Holds(w)
    BY DEF Init, Threads, Holds
  <2>3. \A e \in Execs : ~Rejected(e)
    BY DEF Init, Rejected
  <2>. QED BY <2>1, <2>2, <2>3 DEF RejectionInv, Requesting, RefusedRight
<1>2. TypeOK /\ TypeOK' /\ EnginesInv /\ RecordsInv /\ RejectionInv /\ [Next]_vars => RejectionInv'
  <2> SUFFICES ASSUME TypeOK, TypeOK', EnginesInv, RecordsInv, RejectionInv, [Next]_vars PROVE RejectionInv'
    OBVIOUS
  <2>1. ASSUME NEW t \in Threads, EngineStep(t) PROVE RejectionInv'
    BY <2>1, EngineRejections
  <2>2. ASSUME NEW w \in Workers, WorkerStep(w) \/ WorkerDies(w) PROVE RejectionInv'
    BY <2>2, WorkerRejections
  <2>3. ASSUME NEW c \in Clients, HandlerStep(c) \/ ClientSends(c) \/ ClientDies(c) PROVE RejectionInv'
    BY <2>3, ClientRejections
  <2>4. ASSUME NEW e \in Execs, BackoffElapses(e) PROVE RejectionInv'
    <3>1. /\ jobs' = [jobs EXCEPT ![e] = [jobs[e] EXCEPT !.due = TRUE]]
          /\ jobs[e] # None /\ jobs[e] \in Job
          /\ UNCHANGED <<approvals, pc, loc, job>>
      BY <2>4 DEF BackoffElapses, locals, TypeOK, TablesOK
    <3>2. PICK row : row = [jobs[e] EXCEPT !.due = TRUE]
      OBVIOUS
    <3>3. row \in Job /\ row.payload = jobs[e].payload /\ row # None
      BY <3>1, <3>2 DEF Job, Assumptions
    <3>4. jobs'[e] = row /\ \A f \in Execs \ {e} : jobs'[f] = jobs[f]
      BY <3>1, <3>2 DEF TypeOK, TablesOK
    <3>5. \A f \in Execs : \/ jobs'[f] = jobs[f]
                           \/ /\ jobs'[f] # None
                              /\ jobs[f] # None /\ jobs[f].payload # None => jobs'[f].payload # None
      BY <3>3, <3>4
    <3>6. ASSUME NEW c \in Clients PROVE Requesting(c)'
      <4>1. pc[c] \in {"enqueue", "requeue"} => loc[c].exec \in Execs
        BY DEF TypeOK, ThreadsOK, Consistent, Threads
      <4>. QED BY <3>1, <3>3, <3>4, <4>1 DEF Requesting, RejectionInv
    <3>. QED BY <3>1, <3>5, <3>6, OthersMove
  <2>5. CASE UNCHANGED vars
    BY <2>5 DEF vars, RejectionInv, RefusedRight, Deciding, Requesting, Rejected, IsLatest, Holds
  <2>. QED BY <2>1, <2>2, <2>3, <2>4, <2>5 DEF Next
<1>. QED BY <1>1, <1>2, TypeCorrect, EnginesHold, RecordsHold, PTL DEF Spec

\* engine.py, resume: a rejection fails the execution, and neither a retry of its job
\* nor a further resume makes a node of it run again: the job stays a resume job, and
\* its latest approval is decided.
THEOREM RejectionsAreFinal ==
  ASSUME OneWorker, NoCallbacks
  PROVE  Spec => RejectionIsFinal
<1>1. TypeOK /\ TypeOK' /\ EnginesInv /\ RejectionInv /\ [Next]_vars =>
        [\A e \in Execs :
           (\E a \in approvals[e] : a.decision = "REJECTED") => runs'[e] = runs[e]]_vars
  <2> SUFFICES ASSUME TypeOK, TypeOK', EnginesInv, RejectionInv, Next, NEW e \in Execs, Rejected(e)
               PROVE  runs'[e] = runs[e]
    BY DEF Rejected
  <2>1. CASE runs' = runs
    BY <2>1
  <2>2. ASSUME NEW t \in Threads, BeginNode(t) PROVE runs'[e] = runs[e]
    <3>1. pc[t] = "gate"
      BY <2>2 DEF BeginNode
    <3>2. t \in Workers /\ Holds(t)
      BY <3>1 DEF EnginesInv, Engines, InEngine, EngineLocations, NoCallbacks, Holds
    <3>3. loc[t].exec # e
      BY <3>1, <3>2 DEF RejectionInv, Deciding
    <3>. QED BY <2>2, <3>3 DEF BeginNode, TypeOK, CountersOK
  <2>3. ASSUME NEW t \in Threads, EngineStep(t) PROVE runs' = runs \/ BeginNode(t)
    BY <2>3 DEF EngineStep, ScanNodeRuns, DepthExceeded, SaveCursor, DenyByPolicy, StopManual,
           PauseForApproval, AskApprovers, FollowEdge, ReachLeaf, NodeFails, NoRoute,
           FailExecution, CompleteExecution, LookupExecution, NotResumable, LookupApproval,
           NothingToDecide, DecideGate, RejectExecution, history
  <2>4. ASSUME NEW w \in Workers, WorkerStep(w) \/ WorkerDies(w) PROVE runs' = runs
    BY <2>4 DEF WorkerStep, WorkerDies, Dequeue, ClearHistory, BundleMissing, BeginExecution,
                SettleJob, StartWorker, history
  <2>5. ASSUME NEW c \in Clients, HandlerStep(c) \/ ClientSends(c) \/ ClientDies(c) PROVE runs' = runs
    BY <2>5 DEF HandlerStep, ClientSends, ClientDies, EnqueueJob, RequeueJob, CancelQueued,
                ReadForCancel, CancelRefused, CancelExecution, AnswerRequest, StartExecution,
                ReadJobForResume, ReceiveCancel, CancelJob, ReceiveCallback, CountSent, history
  <2>6. ASSUME NEW f \in Execs, BackoffElapses(f) PROVE runs' = runs
    BY <2>6 DEF BackoffElapses, history
  <2>. QED BY <2>1, <2>2, <2>3, <2>4, <2>5, <2>6 DEF Next
<1>2. Spec => []RejectionInv
  BY Assumptions, RejectionInvHolds
<1>. QED BY <1>1, <1>2, TypeCorrect, EnginesHold, PTL DEF Spec, RejectionIsFinal

-----------------------------------------------------------------------------
(* An approval is spent once.                                              *)
(*                                                                         *)
(* NoGatePassesUnapproved is not inductive: between the administrator and  *)
(* the node an approval travels from the request handler into the payload  *)
(* of the job, from there to the worker and, once a gate was decided, on   *)
(* as its bypass.  SpendInv adds up where it can be.  That a payload kept  *)
(* over a retry is worth nothing rests on its worker having left a decided *)
(* gate or a finished execution behind; that nobody else carries it, on    *)
(* the single worker.                                                      *)

\* Somebody waits for a decision about the latest gate; and resume would take it.
GateOpen(e) == \E a \in approvals[e] : IsLatest(a, e) /\ a.decision = None
Undecided(e) == execs[e] # None /\ execs[e].status = "RUNNING" /\ GateOpen(e)

\* Handlers that are about to write an approval into the job of e.
Sending(e) ==
  {c \in Clients : pc[c] = "requeue" /\ loc[c].exec = e /\ loc[c].choice = "APPROVED"}

Taken(e) == \E w \in Workers : Holds(w) /\ loc[w].exec = e

\* The row of e holds an approval that may still pass a gate.
RowCarries(e) ==
  /\ jobs[e] # None /\ jobs[e].payload = "APPROVED"
  /\ \/ jobs[e].status = "QUEUED"
     \/ jobs[e].status = "RETRYING" /\ Undecided(e)
     \/ Orphan(e) /\ ~AuditSharesDb /\ ~Taken(e)

\* So does worker w; so does the worker of e.
Carrying(w) ==
  \/ pc[w] = "lookup" /\ loc[w].choice = "APPROVED" /\ Undecided(loc[w].exec)
  \/ pc[w] = "approval" /\ loc[w].choice = "APPROVED" /\ GateOpen(loc[w].exec)
  \/ pc[w] = "decide" /\ loc[w].choice = "APPROVED"
  \/ pc[w] \in {"scan", "step", "gate"} /\ loc[w].bypass # None
WorkerCarries(e) == \E w \in Workers : loc[w].exec = e /\ Carrying(w)

One(P) == IF P THEN 1 ELSE 0

Balanced(e) ==
  passed[e] + Cardinality(Sending(e)) + One(RowCarries(e)) + One(WorkerCarries(e))
    <= sent[e] + Replays

SpendingOK(w) ==
  /\ Holds(w) => jobs[loc[w].exec].status # "RETRYING"
  /\ pc[w] \in {"clear", "begin"} => job[w].payload = None /\ loc[w].bypass = None
  /\ pc[w] = "settle" /\ loc[w].result \in {"FAILED", "ERROR"} /\ job[w].payload = "APPROVED" =>
       ~Undecided(loc[w].exec)

SpendInv ==
  /\ \A e \in Execs : Balanced(e)
  /\ \A w \in Workers : SpendingOK(w)

\* The terms of the balance are numbers.
LEMMA BalanceType ==
  ASSUME Assumptions, TypeOK, NEW e \in Execs
  PROVE  /\ passed[e] \in Nat /\ sent[e] \in Nat /\ Replays \in Int
         /\ IsFiniteSet(Sending(e)) /\ Cardinality(Sending(e)) \in Nat
<1>1. Sending(e) \subseteq Clients /\ IsFiniteSet(Clients)
  BY DEF Sending, Assumptions
<1>2. IsFiniteSet(Sending(e)) /\ Cardinality(Sending(e)) \in Nat
  BY <1>1, FS_Subset, FS_CardinalityType
<1>3. passed[e] \in Nat /\ sent[e] \in Nat /\ budget.crashes \in Nat
  BY DEF TypeOK, CountersOK
<1>. QED BY <1>2, <1>3 DEF Replays, Assumptions

\* A step of the worker: it carries on or passes a gate, takes over what the row
\* carried, or dies, which the replays pay for.
LEMMA WorkerBalance ==
  ASSUME Assumptions, TypeOK, TypeOK', NEW e \in Execs, Balanced(e),
         \A c \in Clients : pc'[c] = pc[c] /\ loc'[c] = loc[c],
         sent' = sent, Replays' >= Replays,
         \/ /\ passed'[e] = passed[e]
            /\ RowCarries(e)' => RowCarries(e)
            /\ WorkerCarries(e)' => WorkerCarries(e)
         \/ /\ passed'[e] = passed[e]
            /\ ~RowCarries(e)' /\ (WorkerCarries(e)' => RowCarries(e))
         \/ /\ passed'[e] = passed[e] + 1
            /\ RowCarries(e)' => RowCarries(e)
            /\ WorkerCarries(e) /\ ~WorkerCarries(e)'
         \/ /\ passed'[e] = passed[e]
            /\ Replays' = Replays + 1 /\ ~WorkerCarries(e)'
  PROVE  Balanced(e)'
<1> DEFINE S == Cardinality(Sending(e))
           R == One(RowCarries(e))
           V == One(WorkerCarries(e))
<1>1. Sending(e)' = Sending(e)
  BY DEF Sending
<1>2. /\ passed[e] \in Nat /\ sent[e] \in Nat /\ Replays \in Int /\ S \in Nat
      /\ passed'[e] \in Nat /\ Replays' \in Int
  <2>1. /\ passed[e] \in Nat /\ sent[e] \in Nat /\ Replays \in Int /\ S \in Nat
    BY BalanceType
  <2>2. budget'.crashes \in Nat /\ passed'[e] \in Nat
    BY DEF TypeOK, CountersOK
  <2>. QED BY <2>1, <2>2 DEF Replays, Assumptions
<1>3. /\ R \in {0, 1} /\ V \in {0, 1} /\ R' \in {0, 1} /\ V' \in {0, 1}
      /\ passed[e] + S + R + V <= sent[e] + Replays
  BY DEF One, Balanced
<1>4. passed'[e] + R' + V' + Replays <= passed[e] + R + V + Replays'
  BY <1>2 DEF One
<1>5. S' = S /\ sent'[e] = sent[e]
  BY <1>1
<1> HIDE DEF S, R, V
<1>6. passed'[e] + S' + R' + V' <= sent'[e] + Replays'
  BY <1>2, <1>3, <1>4, <1>5
<1>. QED BY <1>6 DEF S, R, V, Balanced

\* Engine: a decided gate turns the approval into a bypass, BeginNode uses it up.
LEMMA EngineSpends ==
  ASSUME Assumptions, OneWorker, NoCallbacks, TypeOK, TypeOK', EnginesInv, RejectionInv, SpendInv,
         NEW t \in Threads, EngineStep(t)
  PROVE  SpendInv'
<1> DEFINE e == loc[t].exec
<1>a. /\ t \in Workers /\ t \notin Clients /\ jobs' = jobs /\ Keeps(t) /\ Holds(t) /\ Holds(t)'
      /\ loc'[t].exec = e
  <2>1. InEngine(t)
    BY EngineCounts
  <2>2. t \in Workers
    BY <2>1 DEF EnginesInv, Engines, NoCallbacks
  <2>. QED BY <2>2, EngineKeeps, EngineStays DEF Assumptions
<1>b. /\ e \in Execs /\ Deciding(t) /\ SpendingOK(t) /\ job' = job /\ budget' = budget
      /\ \A c \in Clients : pc'[c] = pc[c] /\ loc'[c] = loc[c]
      /\ ThreadsOK /\ loc[t] \in Local /\ jobs[e] # None
  BY <1>a, HeldExec DEF RejectionInv, Deciding, SpendInv, Keeps, Threads, TypeOK, ThreadsOK
<1>c. sent' = sent /\ Replays' = Replays
  <2>1. sent' = sent
    BY DEF EngineStep, ScanNodeRuns, DepthExceeded, SaveCursor, DenyByPolicy, StopManual,
           PauseForApproval, AskApprovers, BeginNode, FollowEdge, ReachLeaf, NodeFails, NoRoute,
           FailExecution, CompleteExecution, LookupExecution, NotResumable, LookupApproval,
           NothingToDecide, DecideGate, RejectExecution, history
  <2>. QED BY <1>b, <2>1 DEF Replays
<1>d. ASSUME \A f \in Execs \ {e} : execs'[f] = execs[f] /\ approvals'[f] = approvals[f]
                                    /\ passed'[f] = passed[f],
             \/ passed'[e] = passed[e] /\ (Carrying(t)' => Carrying(t))
             \/ passed'[e] = passed[e] + 1 /\ Carrying(t) /\ ~Carrying(t)',
             pc'[t] \notin {"clear", "begin"},
             pc'[t] = "settle" /\ loc'[t].result \in {"FAILED", "ERROR"} => ~Undecided(e)'
      PROVE  SpendInv'
  <2>1. ASSUME NEW f \in Execs PROVE RowCarries(f)' => RowCarries(f)
    <3>1. CASE f = e
      BY <1>a, <1>b, <3>1 DEF RowCarries, SpendingOK, Taken, Orphan
    <3>2. CASE f # e
      <4>1. execs'[f] = execs[f] /\ approvals'[f] = approvals[f] /\ jobs'[f] = jobs[f]
        BY <1>a, <1>d, <3>2
      <4>2. (Undecided(f)' <=> Undecided(f)) /\ (Orphan(f)' <=> Orphan(f))
        BY <4>1 DEF Undecided, GateOpen, IsLatest, Orphan
      <4>3. ~Taken(f)
        BY <1>a, <3>2 DEF Taken, OneWorker
      <4>. QED BY <4>1, <4>2, <4>3 DEF RowCarries
    <3>. QED BY <3>1, <3>2
  <2>2. ASSUME NEW f \in Execs
        PROVE  /\ WorkerCarries(f) <=> f = e /\ Carrying(t)
               /\ WorkerCarries(f)' <=> f = e /\ Carrying(t)'
    BY <1>a DEF WorkerCarries, OneWorker
  <2>3. ASSUME NEW f \in Execs PROVE Balanced(f)'
    <3>1. Balanced(f) /\ Replays \in Int
      BY BalanceType DEF SpendInv
    <3>2. \/ /\ passed'[f] = passed[f]
             /\ WorkerCarries(f)' => WorkerCarries(f)
          \/ /\ passed'[f] = passed[f] + 1
             /\ WorkerCarries(f) /\ ~WorkerCarries(f)'
      BY <1>d, <2>2
    <3>3. Replays' >= Replays
      BY <1>c, <3>1
    <3>. QED BY <1>b, <1>c, <2>1, <3>1, <3>2, <3>3, WorkerBalance
  <2>4. SpendingOK(t)'
    BY <1>a, <1>b, <1>d DEF SpendingOK, Undecided, GateOpen, IsLatest
  <2>. QED BY <1>a, <2>3, <2>4 DEF SpendInv, OneWorker
<1>e. ASSUME UNCHANGED history, UNCHANGED approvals,
             \A f \in Execs \ {e} : execs'[f] = execs[f],
             Carrying(t)' => Carrying(t),
             pc'[t] \notin {"clear", "begin"},
             pc'[t] = "settle" /\ loc'[t].result \in {"FAILED", "ERROR"} => ~Undecided(e)'
      PROVE  SpendInv'
  BY <1>b, <1>d, <1>e DEF history
<1>f. ASSUME NEW l \in Locations, Goto(t, l) PROVE pc'[t] = l
  BY <1>f DEF Goto, TypeOK, ThreadsOK
<1>g. ASSUME NEW r, LeaveEngine(t, r)
      PROVE  pc'[t] = "settle" /\ loc'[t].result = r /\ ~Carrying(t)'
  <2>1. /\ Goto(t, "settle")
        /\ loc' = [loc EXCEPT ![t] = [NoLocal EXCEPT !.exec = loc[t].exec, !.result = r]]
    BY <1>a, <1>g DEF LeaveEngine
  <2>. QED BY <1>b, <2>1 DEF Goto, ThreadsOK, NoLocal, Carrying
<1>1. CASE ScanNodeRuns(t) \/ SaveCursor(t)
  <2>1. /\ pc[t] \in {"scan", "step"} /\ pc'[t] \in {"step", "gate"}
        /\ UNCHANGED history /\ UNCHANGED approvals
    BY <1>1, <1>f DEF ScanNodeRuns, SaveCursor, Locations, tables
  <2>2. loc'[t].bypass = loc[t].bypass
    <3>1. CASE ScanNodeRuns(t)
      BY <1>b, <3>1 DEF ScanNodeRuns, ThreadsOK, Local
    <3>2. CASE SaveCursor(t)
      BY <1>b, <3>2, CursorSaved
    <3>. QED BY <1>1, <3>1, <3>2
  <2>3. \A f \in Execs \ {e} : execs'[f] = execs[f]
    BY <1>1, <1>b DEF ScanNodeRuns, SaveCursor, SaveExecution, tables, TypeOK, TablesOK
  <2>4. Carrying(t)' => Carrying(t)
    BY <2>1, <2>2 DEF Carrying
  <2>. QED BY <1>e, <2>1, <2>3, <2>4
<1>2. CASE \/ DepthExceeded(t) \/ DenyByPolicy(t) \/ StopManual(t) \/ FailExecution(t)
           \/ RejectExecution(t) \/ CompleteExecution(t)
  <2>1. /\ \E s \in {"FAILED", "COMPLETED"}, n \in Nodes \cup {None} : SaveExecution(t, s, n)
        /\ \E r : LeaveEngine(t, r)
        /\ UNCHANGED history /\ UNCHANGED approvals
    BY <1>b, <1>2 DEF DepthExceeded, DenyByPolicy, StopManual, FailExecution, RejectExecution,
                      CompleteExecution, Local
  <2>2. PICK s \in {"FAILED", "COMPLETED"}, n \in Nodes \cup {None} : SaveExecution(t, s, n)
    BY <2>1
  <2>3. /\ execs'[e].status = s
        /\ \A f \in Execs \ {e} : execs'[f] = execs[f]
    <3>1. s \in ExecStatus
      BY DEF ExecStatus
    <3>2. execs'[e] = [status |-> s, node |-> n]
      BY <1>a, <1>b, <2>2, <3>1, CalmSave
    <3>3. \A f \in Execs \ {e} : execs'[f] = execs[f]
      BY <1>a, <1>b, <2>2, <3>1, CalmSave
    <3>. QED BY <3>2, <3>3
  <2>4. ~Undecided(e)'
    BY <1>a, <2>3 DEF Undecided
  <2>5. pc'[t] = "settle" /\ ~Carrying(t)'
    BY <1>g, <2>1
  <2>. QED BY <1>e, <2>1, <2>3, <2>4, <2>5
<1>3. CASE AskApprovers(t) \/ ReachLeaf(t) \/ NodeFails(t) \/ NoRoute(t)
  <2>1. UNCHANGED history /\ UNCHANGED <<approvals, execs>>
    BY <1>3 DEF AskApprovers, ReachLeaf, NodeFails, NoRoute, tables
  <2>2. \/ pc'[t] \in {"complete", "fail"}
        \/ pc'[t] = "settle" /\ loc'[t].result = "PAUSED"
    BY <1>3, <1>f, <1>g DEF AskApprovers, ReachLeaf, NodeFails, NoRoute, Locations
  <2>3. ~Carrying(t)'
    BY <2>2 DEF Carrying
  <2>. QED BY <1>e, <2>1, <2>2, <2>3
<1>4. CASE FollowEdge(t)
  <2>1. PICK m : loc' = [loc EXCEPT ![t].node = m, ![t].bypass = None, ![t].count = @ + 1]
    BY <1>4 DEF FollowEdge
  <2>2. loc'[t].bypass = None
    BY <1>b, <2>1 DEF ThreadsOK, Local
  <2>3. pc'[t] = "step" /\ UNCHANGED history /\ UNCHANGED <<approvals, execs>>
    BY <1>4, <1>f DEF FollowEdge, Locations, tables
  <2>4. ~Carrying(t)'
    BY <2>2, <2>3 DEF Carrying
  <2>. QED BY <1>e, <2>3, <2>4
<1>5. CASE PauseForApproval(t)
  <2>1. pc'[t] = "ask" /\ UNCHANGED history /\ UNCHANGED execs
    BY <1>5, <1>f DEF PauseForApproval, Locations
  <2>2. \A f \in Execs \ {e} : approvals'[f] = approvals[f]
    BY <1>5 DEF PauseForApproval, TypeOK, TablesOK
  <2>3. ~Carrying(t)'
    BY <2>1 DEF Carrying
  <2>. QED BY <1>b, <1>d, <2>1, <2>2, <2>3 DEF history
<1>6. CASE BeginNode(t)
  <2>1. /\ pc[t] = "gate" /\ pc'[t] = "run" /\ UNCHANGED <<approvals, execs>>
        /\ loc[t].node = loc[t].bypass \/ Mode[e] = "AUTO"
        /\ passed' = [passed EXCEPT ![e] = IF Mode[e] = "HUMAN_IN_LOOP" THEN @ + 1 ELSE @]
    BY <1>6, <1>f, CountBegun DEF BeginNode, Locations, TypeOK
  <2>2. ~Carrying(t)'
    BY <2>1 DEF Carrying
  <2>3. Mode[e] = "HUMAN_IN_LOOP" => Carrying(t)
    <3>1. loc[t].node # None
      BY <1>b, <2>1 DEF ThreadsOK, Consistent, AtNode, Assumptions
    <3>. QED BY <2>1, <3>1 DEF Carrying
  <2>4. /\ \A f \in Execs \ {e} : passed'[f] = passed[f]
        /\ passed'[e] = IF Mode[e] = "HUMAN_IN_LOOP" THEN passed[e] + 1 ELSE passed[e]
    BY <1>b, <2>1 DEF TypeOK, CountersOK
  <2>. QED BY <1>d, <2>1, <2>2, <2>3, <2>4
<1>7. CASE LookupExecution(t)
  <2>1. /\ pc[t] = "lookup" /\ execs[e] # None /\ execs[e].status = "RUNNING"
        /\ pc'[t] = "approval" /\ UNCHANGED history /\ UNCHANGED <<approvals, execs>>
    BY <1>7, <1>f DEF LookupExecution, Locations, tables
  <2>2. loc' = [loc EXCEPT ![t] = [loc[t] EXCEPT !.node = execs[e].node, !.cursor = execs[e].node]]
    BY <1>b, <1>7 DEF LookupExecution, ThreadsOK
  <2>3. loc'[t].choice = loc[t].choice
    BY <1>b, <2>2 DEF ThreadsOK, Local
  <2>4. Carrying(t)' => Carrying(t)
    BY <1>a, <2>1, <2>3 DEF Carrying, Undecided, GateOpen, IsLatest
  <2>. QED BY <1>e, <2>1, <2>4
<1>8. CASE NotResumable(t) \/ NothingToDecide(t)
  <2>1. ~Undecided(e)
    BY <1>8 DEF NotResumable, NothingToDecide, Undecided, GateOpen
  <2>2. UNCHANGED history /\ UNCHANGED <<approvals, execs>> /\ LeaveEngine(t, "ERROR")
    BY <1>8 DEF NotResumable, NothingToDecide, tables
  <2>3. pc'[t] = "settle" /\ ~Carrying(t)'
    BY <1>g, <2>2
  <2>4. ~Undecided(e)'
    BY <1>a, <2>1, <2>2 DEF Undecided, GateOpen, IsLatest
  <2>. QED BY <1>e, <2>2, <2>3, <2>4
<1>9. CASE LookupApproval(t)
  <2>1. PICK a \in approvals[e] : IsLatest(a, e) /\ a.decision = None /\ loc' = [loc EXCEPT ![t].appr = a]
    BY <1>9 DEF LookupApproval
  <2>2. loc'[t].choice = loc[t].choice
    BY <1>b, <2>1 DEF ThreadsOK, Local
  <2>3. /\ pc[t] = "approval" /\ pc'[t] = "decide" /\ UNCHANGED history
        /\ UNCHANGED <<approvals, execs>>
    BY <1>9, <1>f DEF LookupApproval, Locations, tables
  <2>4. Carrying(t)' => Carrying(t)
    BY <2>1, <2>2, <2>3 DEF Carrying, GateOpen
  <2>. QED BY <1>e, <2>3, <2>4
<1>10. CASE DecideGate(t)
  <2>1. PICK b : b = loc[t].appr
    OBVIOUS
  <2>2. PICK a : a = [b EXCEPT !.decision = loc[t].choice]
    OBVIOUS
  <2>3. /\ pc[t] = "decide" /\ UNCHANGED <<execs, passed>>
        /\ approvals' = [approvals EXCEPT ![e] = {x \in @ : x.id # b.id} \cup {a}]
    BY <1>10, <2>1, <2>2 DEF DecideGate
  <2>4. b \in Approval /\ loc[t].choice \in Decision /\ IsLatest(b, e)
    BY <1>b, <2>1, <2>3 DEF Deciding, ThreadsOK, Consistent
  <2>5. a.id = b.id /\ a.decision = loc[t].choice /\ a.decision # None
    BY <2>2, <2>4 DEF Approval, Assumptions
  <2>6. /\ approvals'[e] = {x \in approvals[e] : x.id # b.id} \cup {a}
        /\ \A f \in Execs \ {e} : approvals'[f] = approvals[f]
    BY <1>b, <2>3 DEF TypeOK, TablesOK
  <2>7. \A x \in approvals[e] : x.id \in Nat /\ b.id \in Nat /\ x.id <= b.id
    <3>1. approvals[e] \subseteq Approval
      BY <1>b DEF TypeOK, TablesOK
    <3>2. \A x \in Approval : x.id \in Nat
      BY DEF Approval
    <3>. QED BY <2>4, <3>1, <3>2 DEF IsLatest
  <2>8. ASSUME NEW x \in approvals'[e], \A y \in approvals'[e] : y.id <= x.id PROVE x = a
    BY <2>5, <2>6, <2>7, <2>8
  <2>9. ~Undecided(e)'
    BY <1>a, <2>5, <2>8 DEF Undecided, GateOpen, IsLatest
  <2>10. pc'[t] \in {"scan", "reject", "settle"} /\ (pc'[t] = "scan" => loc[t].choice = "APPROVED")
    BY <1>10, <1>f, <1>g DEF DecideGate, Locations
  <2>11. Carrying(t)' => Carrying(t)
    BY <2>3, <2>10 DEF Carrying
  <2>. QED BY <1>b, <1>d, <2>3, <2>6, <2>9, <2>10, <2>11
<1>. QED BY <1>1, <1>2, <1>3, <1>4, <1>5, <1>6, <1>7, <1>8, <1>9, <1>10 DEF EngineStep

\* Worker: dequeue takes over what the row carries, a settled row carries nothing on,
\* recovery queues what an orphaned row carried.
LEMMA WorkerSpends ==
  ASSUME Assumptions, OneWorker, TypeOK, TypeOK', RejectionInv, SpendInv, NEW w \in Workers,
         WorkerStep(w) \/ WorkerDies(w)
  PROVE  SpendInv'
<1> DEFINE e == loc[w].exec
<1>a. /\ w \in Threads /\ w \notin Clients /\ Clients \subseteq Threads
      /\ ThreadsOK /\ loc[w] \in Local /\ jobs \in [Execs -> Job \cup {None}] /\ None \notin Job
  BY DEF Threads, Assumptions, TypeOK, ThreadsOK, TablesOK
<1>b. Holds(w) => e \in Execs /\ job[w] \in Job /\ Deciding(w) /\ jobs[e] # None
  <2>1. Holds(w) => e \in Execs /\ job[w] \in Job
    BY <1>a, HeldExec DEF Holds, ThreadsOK, Consistent
  <2>. QED BY <2>1 DEF RejectionInv, Deciding
<1>c. /\ SpendingOK(w) /\ \A f \in Execs : Balanced(f)
      /\ Replays \in Int
      /\ sent' = sent /\ passed' = passed
      /\ \A c \in Clients : pc'[c] = pc[c] /\ loc'[c] = loc[c]
  <2>1. Replays \in Int
    BY DEF Replays, TypeOK, CountersOK, Assumptions
  <2>2. sent' = sent /\ passed' = passed
    BY DEF WorkerStep, WorkerDies, Dequeue, ClearHistory, BundleMissing, BeginExecution,
           SettleJob, StartWorker, history
  <2>3. \A c \in Clients : pc'[c] = pc[c] /\ loc'[c] = loc[c]
    BY <1>a DEF WorkerStep, WorkerDies, Dequeue, ClearHistory, BundleMissing, BeginExecution,
           SettleJob, StartWorker, LeaveEngine, Finish, Goto, ThreadsOK
  <2>. QED BY <2>1, <2>2, <2>3 DEF SpendInv
<1>d. ASSUME Replays' >= Replays, SpendingOK(w)',
             \A f \in Execs :
               \/ /\ RowCarries(f)' => RowCarries(f)
                  /\ WorkerCarries(f)' => WorkerCarries(f)
               \/ /\ ~RowCarries(f)' /\ (WorkerCarries(f)' => RowCarries(f))
               \/ /\ Replays' = Replays + 1 /\ ~WorkerCarries(f)'
      PROVE  SpendInv'
  <2>1. ASSUME NEW f \in Execs PROVE Balanced(f)'
    <3>1. passed'[f] = passed[f] /\ Balanced(f)
      BY <1>c
    <3>. QED BY <1>c, <1>d, <3>1, WorkerBalance
  <2>. QED BY <1>d, <2>1 DEF SpendInv, OneWorker
<1>e. ASSUME NEW l \in Locations, Goto(w, l) PROVE pc'[w] = l
  BY <1>a, <1>e DEF Goto, ThreadsOK
<1>h. ASSUME UNCHANGED budget PROVE Replays' >= Replays
  <2>1. Replays' = Replays
    BY <1>h DEF Replays
  <2>. QED BY <1>c, <2>1
\* What one worker can do to the rows of other executions.
<1>f. ASSUME NEW f \in Execs, f # e \/ ~Holds(w) PROVE ~Taken(f)
  BY <1>f DEF Taken, OneWorker
<1>g. ASSUME ~Carrying(w)' PROVE \A f \in Execs : ~WorkerCarries(f)'
  BY <1>g DEF WorkerCarries, OneWorker
<1>1. CASE Dequeue(w)
  <2>1. PICK f \in Execs :
          LET row == [jobs[f] EXCEPT !.status = "RUNNING", !.owner = w, !.attempt = @ + 1]
          IN  /\ Eligible(f)
              /\ jobs' = [jobs EXCEPT ![f] = row]
              /\ job' = [job EXCEPT ![w] = row]
              /\ loc' = [loc EXCEPT ![w] = [NoLocal EXCEPT !.exec = f, !.choice = row.payload]]
              /\ \/ row.payload # None /\ Goto(w, "lookup")
                 \/ row.payload = None /\ row.attempt > 1 /\ Goto(w, "clear")
                 \/ row.payload = None /\ row.attempt <= 1 /\ Goto(w, "begin")
    BY <1>1 DEF Dequeue, NextJob
  <2>2. jobs[f] \in Job /\ jobs[f].status \in {"QUEUED", "RETRYING"}
    BY <1>a, <2>1 DEF Eligible
  <2>3. PICK row : row = [jobs[f] EXCEPT !.status = "RUNNING", !.owner = w, !.attempt = @ + 1]
    OBVIOUS
  <2>4. row.payload = jobs[f].payload /\ row.status = "RUNNING"
    BY <2>2, <2>3 DEF Job
  <2>5. jobs'[f] = row /\ job'[w] = row /\ \A g \in Execs \ {f} : jobs'[g] = jobs[g]
    BY <1>a, <2>1, <2>3 DEF ThreadsOK
  <2>6. loc'[w].exec = f /\ loc'[w].choice = row.payload /\ loc'[w].bypass = None
    BY <1>a, <2>1, <2>3 DEF ThreadsOK, NoLocal
  <2>7. pc'[w] \in {"lookup", "clear", "begin"} /\ (row.payload # None <=> pc'[w] = "lookup")
    BY <1>e, <2>1, <2>3 DEF Locations
  <2>8. UNCHANGED <<approvals, execs, budget>> /\ ~Holds(w) /\ Holds(w)'
    BY <1>1, <2>7 DEF Dequeue, Holds
  <2>9. ~RowCarries(f)'
    BY <2>4, <2>5, <2>6, <2>8 DEF RowCarries, Taken
  <2>10. WorkerCarries(f)' => RowCarries(f)
    <3>1. WorkerCarries(f)' => Carrying(w)'
      BY DEF WorkerCarries, OneWorker
    <3>2. Carrying(w)' => row.payload = "APPROVED" /\ Undecided(f)'
      BY <2>6, <2>7 DEF Carrying, Undecided, GateOpen, IsLatest
    <3>3. Undecided(f)' => Undecided(f)
      BY <2>8 DEF Undecided, GateOpen, IsLatest
    <3>. QED BY <1>a, <2>2, <2>4, <3>1, <3>2, <3>3 DEF RowCarries
  <2>11. ASSUME NEW g \in Execs, g # f
         PROVE  ~WorkerCarries(g)' /\ (RowCarries(g)' => RowCarries(g))
    <3>1. ~WorkerCarries(g)' /\ ~Taken(g)' /\ ~Taken(g)
      BY <1>f, <2>6, <2>8, <2>11 DEF WorkerCarries, Taken, OneWorker
    <3>2. Undecided(g)' <=> Undecided(g)
      BY <2>8 DEF Undecided, GateOpen, IsLatest
    <3>3. jobs'[g] = jobs[g]
      BY <2>5, <2>11
    <3>. QED BY <3>1, <3>2, <3>3 DEF RowCarries, Orphan
  <2>12. SpendingOK(w)'
    BY <2>4, <2>5, <2>6, <2>7 DEF SpendingOK
  <2>. QED BY <1>d, <1>h, <2>8, <2>9, <2>10, <2>11, <2>12
<1>2. CASE ClearHistory(w)
  <2>1. /\ pc[w] = "clear" /\ pc'[w] = "begin" /\ UNCHANGED <<loc, job, jobs, execs, budget>>
        /\ approvals' = [approvals EXCEPT ![e] = {}]
    BY <1>2, <1>e DEF ClearHistory, Locations
  <2>2. Holds(w) /\ Holds(w)'
    BY <2>1 DEF Holds
  <2>3. approvals'[e] = {} /\ \A f \in Execs \ {e} : approvals'[f] = approvals[f]
    BY <1>b, <2>1, <2>2 DEF TypeOK, TablesOK
  <2>4. ASSUME NEW f \in Execs PROVE RowCarries(f)' => RowCarries(f)
    <3>1. Undecided(f)' => Undecided(f)
      BY <2>1, <2>3 DEF Undecided, GateOpen, IsLatest
    <3>2. Taken(f)' <=> Taken(f)
      BY <2>1, <2>2 DEF Taken, OneWorker
    <3>. QED BY <2>1, <3>1, <3>2 DEF RowCarries, Orphan
  <2>5. ~Carrying(w)'
    BY <2>1 DEF Carrying
  <2>6. SpendingOK(w)'
    BY <1>c, <2>1, <2>2 DEF SpendingOK
  <2>. QED BY <1>d, <1>h, <1>g, <2>1, <2>4, <2>5, <2>6
<1>3. CASE BundleMissing(w) \/ BeginExecution(w)
  <2>1. /\ pc[w] = "begin" /\ pc'[w] \in {"scan", "settle"} /\ loc'[w].exec = e
        /\ loc'[w].bypass = None
        /\ UNCHANGED <<job, jobs, approvals, budget>>
    <3>1. CASE BundleMissing(w)
      <4>1. /\ Goto(w, "settle") /\ pc[w] = "begin" /\ UNCHANGED <<job, jobs, approvals, budget>>
            /\ loc' = [loc EXCEPT ![w] = [NoLocal EXCEPT !.exec = loc[w].exec, !.result = "ERROR"]]
        BY <1>a, <3>1 DEF BundleMissing, LeaveEngine, tables
      <4>. QED BY <1>a, <1>e, <4>1 DEF ThreadsOK, NoLocal, Locations
    <3>2. CASE BeginExecution(w)
      <4>1. /\ Goto(w, "scan") /\ pc[w] = "begin" /\ UNCHANGED <<job, jobs, approvals, budget>>
        BY <3>2 DEF BeginExecution
      <4>2. loc[w].bypass = None
        BY <1>c, <4>1 DEF SpendingOK
      <4>. QED BY <1>a, <1>e, <3>2, <4>1, <4>2, ExecutionBegun DEF Locations
    <3>. QED BY <1>3, <3>1, <3>2
  <2>2. Holds(w) /\ Holds(w)'
    BY <2>1 DEF Holds
  <2>3. \A f \in Execs \ {e} : execs'[f] = execs[f]
    BY <1>3, <1>b, <2>2 DEF BundleMissing, BeginExecution, SaveExecution, tables, TypeOK, TablesOK
  <2>4. ASSUME NEW f \in Execs PROVE RowCarries(f)' => RowCarries(f)
    <3>1. CASE f = e
      BY <1>b, <1>c, <2>1, <2>2, <3>1 DEF RowCarries, SpendingOK, Taken, Orphan
    <3>2. CASE f # e
      <4>1. execs'[f] = execs[f]
        BY <2>3, <3>2
      <4>2. Undecided(f)' <=> Undecided(f)
        BY <2>1, <4>1 DEF Undecided, GateOpen, IsLatest
      <4>3. ~Taken(f)
        BY <1>f, <3>2
      <4>. QED BY <2>1, <4>2, <4>3 DEF RowCarries, Orphan
    <3>. QED BY <3>1, <3>2
  <2>5. ~Carrying(w)'
    BY <2>1 DEF Carrying
  <2>6. SpendingOK(w)'
    BY <1>a, <1>c, <2>1, <2>2 DEF SpendingOK, Assumptions, Decision
  <2>. QED BY <1>d, <1>h, <1>g, <2>1, <2>4, <2>5, <2>6
<1>4. CASE SettleJob(w)
  <2>1. PICK row : row = Settled(job[w], loc[w].result)
    OBVIOUS
  <2>2. /\ pc[w] = "settle" /\ pc'[w] = "idle" /\ jobs' = [jobs EXCEPT ![e] = row]
        /\ UNCHANGED <<approvals, execs, budget>>
    BY <1>4, <1>a, <2>1 DEF SettleJob, UpdateJob, Finish, Goto, ThreadsOK
  <2>3. Holds(w) /\ ~Holds(w)' /\ ~Carrying(w)'
    BY <2>2 DEF Holds, Carrying
  <2>4. /\ row.payload = job[w].payload
        /\ \/ row.status \in {"COMPLETED", "FAILED"}
           \/ row.status = "RUNNING" /\ row.owner = HIL
           \/ row.status = "RETRYING" /\ loc[w].result \in {"FAILED", "ERROR"}
    BY <1>b, <2>1, <2>3 DEF Settled, Job
  <2>5. jobs'[e] = row /\ \A f \in Execs \ {e} : jobs'[f] = jobs[f]
    BY <1>a, <1>b, <2>2, <2>3
  <2>6. \A f \in Execs : Undecided(f)' <=> Undecided(f)
    BY <2>2 DEF Undecided, GateOpen, IsLatest
  <2>7. ASSUME NEW g \in Execs, g = e PROVE ~RowCarries(g)'
    <3>1. row.status = "RETRYING" /\ row.payload = "APPROVED" => ~Undecided(e)
      BY <1>c, <2>2, <2>4 DEF SpendingOK
    <3>2. jobs'[g] = row /\ (row.status = "RETRYING" /\ row.payload = "APPROVED" => ~Undecided(g)')
      BY <2>5, <2>6, <2>7, <3>1
    <3>. QED BY <2>4, <3>2 DEF RowCarries, Orphan
  <2>8. ASSUME NEW f \in Execs PROVE RowCarries(f)' => RowCarries(f)
    <3>1. CASE f = e
      BY <2>7, <3>1
    <3>2. CASE f # e
      <4>1. jobs'[f] = jobs[f] /\ ~Taken(f)
        BY <1>f, <2>5, <3>2
      <4>. QED BY <2>6, <4>1 DEF RowCarries, Orphan
    <3>. QED BY <3>1, <3>2
  <2>9. SpendingOK(w)'
    BY <2>2, <2>3 DEF SpendingOK
  <2>. QED BY <1>d, <1>h, <1>g, <2>2, <2>3, <2>8, <2>9
<1>5. CASE StartWorker(w)
  <2>1. pc[w] = "down" /\ pc'[w] = "idle" /\ UNCHANGED <<approvals, execs, loc, budget>>
    BY <1>5, <1>e DEF StartWorker, Locations
  <2>2. ~Holds(w) /\ ~Holds(w)' /\ ~Carrying(w)' /\ SpendingOK(w)'
    BY <2>1 DEF Holds, Carrying, SpendingOK
  <2>3. ASSUME NEW f \in Execs PROVE RowCarries(f)' => RowCarries(f)
    <3>1. \/ jobs'[f] = jobs[f]
          \/ Orphan(f) /\ ~AuditSharesDb /\ jobs'[f] = Recovered(jobs[f])
      BY <1>5, <1>a DEF StartWorker
    <3>2. ~Taken(f)
      BY <1>f, <2>2
    <3>3. Undecided(f)' <=> Undecided(f)
      BY <2>1 DEF Undecided, GateOpen, IsLatest
    <3>4. CASE jobs'[f] = jobs[f]
      BY <3>2, <3>3, <3>4 DEF RowCarries, Orphan
    <3>5. CASE Orphan(f) /\ ~AuditSharesDb /\ jobs'[f] = Recovered(jobs[f])
      <4>1. jobs[f] \in Job
        BY <1>a, <3>5 DEF Orphan
      <4>2. jobs'[f].payload = jobs[f].payload
        BY <3>5, <4>1 DEF Recovered, Job
      <4>. QED BY <3>2, <3>5, <4>2 DEF RowCarries, Orphan
    <3>. QED BY <3>1, <3>4, <3>5
  <2>. QED BY <1>d, <1>h, <1>g, <2>1, <2>2, <2>3
<1>6. CASE WorkerDies(w)
  <2>1. /\ pc'[w] = "down" /\ UNCHANGED <<approvals, execs, jobs>>
        /\ budget.crashes > 0 /\ budget' = [budget EXCEPT !.crashes = @ - 1]
    BY <1>6, <1>a DEF WorkerDies, tables, ThreadsOK
  <2>2. ~Holds(w)' /\ ~Carrying(w)' /\ SpendingOK(w)'
    BY <2>1 DEF Holds, Carrying, SpendingOK
  <2>3. budget'.crashes = budget.crashes - 1 /\ budget.crashes \in Nat /\ MaxCrashes \in Nat
    BY <2>1 DEF TypeOK, CountersOK, Assumptions
  <2>4. CASE AuditSharesDb
    <3>1. ASSUME NEW f \in Execs PROVE RowCarries(f)' => RowCarries(f)
      <4>1. Undecided(f)' <=> Undecided(f)
        BY <2>1 DEF Undecided, GateOpen, IsLatest
      <4>. QED BY <2>1, <2>4, <4>1 DEF RowCarries
    <3>2. Replays' = Replays
      BY <2>4 DEF Replays
    <3>. QED BY <1>c, <1>d, <1>g, <2>2, <3>1, <3>2
  <2>5. CASE ~AuditSharesDb
    <3>1. Replays' = Replays + 1
      BY <2>3, <2>5 DEF Replays
    <3>. QED BY <1>c, <1>d, <1>g, <2>2, <3>1
  <2>. QED BY <2>4, <2>5
<1>. QED BY <1>1, <1>2, <1>3, <1>4, <1>5, <1>6 DEF WorkerStep

\* A step of a request handler: it sends an approval, which counts, or hands the one it
\* carries to the row.
LEMMA RequestBalance ==
  ASSUME Assumptions, TypeOK, TypeOK', NEW e \in Execs, NEW c, Balanced(e),
         passed' = passed, Replays' >= Replays, WorkerCarries(e)' => WorkerCarries(e),
         \/ /\ sent'[e] = sent[e] /\ Sending(e)' \subseteq Sending(e)
            /\ RowCarries(e)' => RowCarries(e)
         \/ /\ sent'[e] = sent[e] /\ c \in Sending(e) /\ Sending(e)' = Sending(e) \ {c}
         \/ /\ sent'[e] = sent[e] + 1 /\ Sending(e)' \subseteq Sending(e) \cup {c}
            /\ RowCarries(e)' => RowCarries(e)
  PROVE  Balanced(e)'
<1> DEFINE S == Cardinality(Sending(e))
           R == One(RowCarries(e))
           V == One(WorkerCarries(e))
<1>1. /\ passed[e] \in Nat /\ sent[e] \in Nat /\ Replays \in Int
      /\ IsFiniteSet(Sending(e)) /\ S \in Nat
  BY BalanceType
<1>2. sent'[e] \in Nat /\ Replays' \in Int /\ Sending(e)' \subseteq Clients
  <2>1. budget'.crashes \in Nat /\ sent'[e] \in Nat
    BY DEF TypeOK, CountersOK
  <2>. QED BY <2>1 DEF Replays, Assumptions, Sending
<1>3. IsFiniteSet(Sending(e)') /\ S' \in Nat
  BY <1>2, FS_Subset, FS_CardinalityType DEF Assumptions
<1>4. /\ R \in {0, 1} /\ V \in {0, 1} /\ R' \in {0, 1} /\ V' \in {0, 1} /\ V' <= V
      /\ passed[e] + S + R + V <= sent[e] + Replays
  BY DEF One, Balanced
<1>5. S' + R' + sent[e] <= S + R + sent'[e]
  <2>1. CASE /\ sent'[e] = sent[e] /\ Sending(e)' \subseteq Sending(e)
             /\ RowCarries(e)' => RowCarries(e)
    <3>1. S' <= S
      BY <1>1, <2>1, FS_Subset
    <3>2. R' <= R
      BY <2>1 DEF One
    <3> HIDE DEF S, R
    <3>. QED BY <1>1, <1>3, <1>4, <2>1, <3>1, <3>2
  <2>2. CASE sent'[e] = sent[e] /\ c \in Sending(e) /\ Sending(e)' = Sending(e) \ {c}
    <3>1. S' = S - 1
      BY <1>1, <2>2, FS_RemoveElement
    <3> HIDE DEF S, R
    <3>. QED BY <1>1, <1>3, <1>4, <2>2, <3>1
  <2>3. CASE /\ sent'[e] = sent[e] + 1 /\ Sending(e)' \subseteq Sending(e) \cup {c}
             /\ RowCarries(e)' => RowCarries(e)
    <3>1. /\ IsFiniteSet(Sending(e) \cup {c})
          /\ Cardinality(Sending(e) \cup {c}) \in {S, S + 1}
      BY <1>1, FS_AddElement
    <3>2. S' <= Cardinality(Sending(e) \cup {c})
      BY <2>3, <3>1, FS_Subset
    <3>3. R' <= R
      BY <2>3 DEF One
    <3> DEFINE T == Cardinality(Sending(e) \cup {c})
    <3> HIDE DEF S, R, T
    <3>. QED BY <1>1, <1>3, <1>4, <2>3, <3>1, <3>2, <3>3 DEF T
  <2>. QED BY <2>1, <2>2, <2>3
<1> HIDE DEF S, R, V
<1>6. passed'[e] + S' + R' + V' <= sent'[e] + Replays'
  BY <1>1, <1>2, <1>3, <1>4, <1>5
<1>. QED BY <1>6 DEF S, R, V, Balanced

\* Requests: a resume counts as sent and writes its decision once; no other request
\* writes one, or makes an execution wait at a gate again.
LEMMA ClientSpends ==
  ASSUME Assumptions, NoCallbacks, TypeOK, TypeOK', EnginesInv, SpendInv, NEW c \in Clients,
         HandlerStep(c) \/ ClientSends(c) \/ ClientDies(c)
  PROVE  SpendInv'
<1> DEFINE e == loc[c].exec
<1>a. /\ c \in Threads /\ c \notin Workers /\ Clients \subseteq Threads /\ Workers \subseteq Threads
      /\ ThreadsOK /\ loc[c] \in Local /\ jobs \in [Execs -> Job \cup {None}]
      /\ execs \in [Execs -> Exec \cup {None}] /\ sent \in [Execs -> Nat]
      /\ None \notin Job /\ None \notin Decision
  BY DEF Threads, Assumptions, TypeOK, ThreadsOK, TablesOK, CountersOK
<1>b. /\ \A f \in Execs : Balanced(f)
      /\ \A w \in Workers : SpendingOK(w) /\ (Holds(w) => loc[w].exec \in Execs)
      /\ Replays \in Int
      /\ passed' = passed
  <2>1. Replays \in Int
    BY DEF Replays, TypeOK, CountersOK, Assumptions
  <2>2. passed' = passed
    BY DEF HandlerStep, ClientSends, ClientDies, EnqueueJob, RequeueJob, CancelQueued,
           ReadForCancel, CancelRefused, CancelExecution, AnswerRequest, StartExecution,
           ReadJobForResume, ReceiveCancel, CancelJob, ReceiveCallback, CountSent, history
  <2>. QED BY <2>1, <2>2, HeldExec DEF SpendInv
<1>c. Replays' >= Replays
  <2>1. budget'.crashes <= budget.crashes /\ budget'.crashes \in Nat /\ budget.crashes \in Nat
    <3>1. budget \in [requests: Nat, crashes: Nat] /\ budget' \in [requests: Nat, crashes: Nat]
      BY DEF TypeOK, CountersOK
    <3>2. \/ budget' = budget
          \/ budget' = [budget EXCEPT !.requests = @ - 1]
          \/ budget' = [budget EXCEPT !.crashes = @ - 1]
      BY DEF HandlerStep, ClientSends, ClientDies, EnqueueJob, RequeueJob, CancelQueued,
             ReadForCancel, CancelRefused, CancelExecution, AnswerRequest, StartExecution,
             ReadJobForResume, ReceiveCancel, CancelJob, ReceiveCallback, Sends
    <3>. QED BY <3>1, <3>2
  <2>. QED BY <2>1 DEF Replays, Assumptions
\* No row begins to back off, no execution begins to run.
<1>d. ASSUME \A u \in Threads \ {c} : pc'[u] = pc[u] /\ loc'[u] = loc[u] /\ job'[u] = job[u],
             UNCHANGED approvals,
             \A f \in Execs : \/ execs'[f] = execs[f]
                              \/ execs'[f] # None /\ execs'[f].status # "RUNNING",
             \A f \in Execs : jobs'[f] = jobs[f] \/ jobs'[f].status \in {"QUEUED", "CANCELLED"},
             \A f \in Execs :
               \/ /\ sent'[f] = sent[f] /\ Sending(f)' \subseteq Sending(f)
                  /\ \/ jobs'[f] = jobs[f]
                     \/ jobs'[f].payload # "APPROVED"
                     \/ jobs'[f].status = "CANCELLED"
               \/ /\ sent'[f] = sent[f] /\ c \in Sending(f) /\ Sending(f)' = Sending(f) \ {c}
               \/ /\ sent'[f] = sent[f] + 1 /\ Sending(f)' \subseteq Sending(f) \cup {c}
                  /\ jobs'[f] = jobs[f]
      PROVE  SpendInv'
  <2>1. ASSUME NEW w \in Workers PROVE pc'[w] = pc[w] /\ loc'[w] = loc[w] /\ job'[w] = job[w]
    BY <1>a, <1>d
  <2>2. ASSUME NEW f \in Execs PROVE (Undecided(f)' => Undecided(f)) /\ (GateOpen(f)' => GateOpen(f))
    BY <1>d DEF Undecided, GateOpen, IsLatest
  <2>3. ASSUME NEW f \in Execs PROVE WorkerCarries(f)' => WorkerCarries(f)
    <3>1. ASSUME NEW w \in Workers, loc'[w].exec = f, Carrying(w)' PROVE Carrying(w)
      BY <2>1, <2>2, <3>1 DEF Carrying, Undecided, GateOpen, IsLatest
    <3>. QED BY <2>1, <3>1 DEF WorkerCarries
  <2>4. ASSUME NEW f \in Execs, jobs'[f] = jobs[f] PROVE RowCarries(f)' => RowCarries(f)
    <3>1. Taken(f)' <=> Taken(f)
      BY <2>1 DEF Taken, Holds
    <3>. QED BY <2>2, <2>4, <3>1 DEF RowCarries, Orphan
  <2>5. ASSUME NEW f \in Execs, jobs'[f].payload # "APPROVED" \/ jobs'[f].status = "CANCELLED"
        PROVE  ~RowCarries(f)'
    BY <2>5 DEF RowCarries, Orphan
  <2>6. ASSUME NEW f \in Execs PROVE Balanced(f)'
    <3>1. Balanced(f) /\ (WorkerCarries(f)' => WorkerCarries(f))
      BY <1>b, <2>3
    <3>2. \/ /\ sent'[f] = sent[f] /\ Sending(f)' \subseteq Sending(f)
             /\ RowCarries(f)' => RowCarries(f)
          \/ /\ sent'[f] = sent[f] /\ c \in Sending(f) /\ Sending(f)' = Sending(f) \ {c}
          \/ /\ sent'[f] = sent[f] + 1 /\ Sending(f)' \subseteq Sending(f) \cup {c}
             /\ RowCarries(f)' => RowCarries(f)
      BY <1>d, <2>4, <2>5
    <3>. QED BY <1>b, <1>c, <3>1, <3>2, RequestBalance
  <2>7. ASSUME NEW w \in Workers PROVE SpendingOK(w)'
    <3>1. SpendingOK(w) /\ (Holds(w) => loc[w].exec \in Execs)
      BY <1>b
    <3>2. Holds(w)' <=> Holds(w)
      BY <2>1 DEF Holds
    <3>3. Holds(w) => jobs'[loc[w].exec].status # "RETRYING"
      BY <1>d, <3>1 DEF SpendingOK
    <3>4. pc[w] = "settle" => Holds(w)
      BY DEF Holds
    <3>5. ASSUME pc[w] = "settle", ~Undecided(loc[w].exec) PROVE ~Undecided(loc[w].exec)'
      <4>1. PICK f \in Execs : f = loc[w].exec
        BY <3>1, <3>4, <3>5
      <4>2. ~Undecided(f)'
        BY <2>2, <3>5, <4>1
      <4>. QED BY <2>1, <4>1, <4>2 DEF Undecided, GateOpen, IsLatest
    <3>. QED BY <2>1, <3>1, <3>2, <3>3, <3>5 DEF SpendingOK
  <2>. QED BY <2>6, <2>7 DEF SpendInv
\* Nobody else sends.
<1>e. ASSUME \A u \in Threads \ {c} : pc'[u] = pc[u] /\ loc'[u] = loc[u], pc'[c] # "requeue", NEW f \in Execs
      PROVE  Sending(f)' = Sending(f) \ {c}
  BY <1>a, <1>e DEF Sending
<1>f. ASSUME NEW l \in Locations, Goto(c, l)
      PROVE  pc'[c] = l /\ \A u \in Threads \ {c} : pc'[u] = pc[u]
  BY <1>a, <1>f DEF Goto, ThreadsOK
<1>g. ASSUME Finish(c)
      PROVE  /\ pc'[c] = "idle"
             /\ \A u \in Threads \ {c} : pc'[u] = pc[u] /\ loc'[u] = loc[u] /\ job'[u] = job[u]
  BY <1>a, <1>g DEF Finish, Goto, ThreadsOK
<1>1. CASE EnqueueJob(c)
  <2>1. PICK row : row = [status |-> "QUEUED", attempt |-> 0, owner |-> None, payload |-> None, due |-> TRUE]
    OBVIOUS
  <2>2. row.status = "QUEUED" /\ row.payload # "APPROVED"
    BY <1>a, <2>1 DEF Decision
  <2>3. /\ Finish(c) /\ UNCHANGED <<approvals, execs, sent>> /\ jobs' = [jobs EXCEPT ![e] = row]
    BY <1>1, <2>1 DEF EnqueueJob, history
  <2>4. \A f \in Execs : jobs'[f] = jobs[f] \/ jobs'[f] = row
    BY <1>a, <2>3
  <2>5. \A f \in Execs : Sending(f)' \subseteq Sending(f)
    BY <1>e, <1>g, <2>3
  <2>. QED BY <1>d, <1>g, <2>2, <2>3, <2>4, <2>5
<1>2. CASE RequeueJob(c)
  <2>1. job[c] \in Job /\ loc[c].choice \in Decision /\ e \in Execs /\ pc[c] = "requeue"
    BY <1>2, <1>a DEF RequeueJob, ThreadsOK, Consistent
  <2>2. PICK row : row = [job[c] EXCEPT !.status = "QUEUED", !.owner = None,
                                        !.payload = loc[c].choice, !.due = TRUE]
    OBVIOUS
  <2>3. row.status = "QUEUED" /\ row.payload = loc[c].choice
    BY <2>1, <2>2 DEF Job
  <2>4. /\ Finish(c) /\ UNCHANGED <<approvals, execs, sent>> /\ jobs' = [jobs EXCEPT ![e] = row]
    BY <1>2, <2>2 DEF RequeueJob, UpdateJob, history
  <2>5. jobs'[e] = row /\ \A f \in Execs \ {e} : jobs'[f] = jobs[f]
    BY <1>a, <2>1, <2>4
  <2>6. \A f \in Execs : Sending(f)' = Sending(f) \ {c}
    BY <1>e, <1>g, <2>4
  <2>7. loc[c].choice = "APPROVED" => c \in Sending(e)
    BY <2>1 DEF Sending
  <2>8. ASSUME NEW f \in Execs
        PROVE  \/ /\ Sending(f)' \subseteq Sending(f)
                  /\ jobs'[f] = jobs[f] \/ jobs'[f].payload # "APPROVED"
               \/ c \in Sending(f) /\ Sending(f)' = Sending(f) \ {c}
    BY <2>3, <2>5, <2>6, <2>7
  <2>9. \A f \in Execs : jobs'[f] = jobs[f] \/ jobs'[f].status \in {"QUEUED", "CANCELLED"}
    BY <2>3, <2>5
  <2>. QED BY <1>d, <1>g, <2>4, <2>8, <2>9
<1>3. CASE StartExecution(c)
  <2>1. PICK f \in Execs : /\ execs' = [execs EXCEPT ![f] = [status |-> "PENDING", node |-> None]]
                           /\ loc' = [loc EXCEPT ![c].exec = f]
    BY <1>3 DEF StartExecution
  <2>2. /\ pc'[c] = "enqueue" /\ UNCHANGED <<jobs, approvals, job, sent>>
        /\ \A u \in Threads \ {c} : pc'[u] = pc[u] /\ loc'[u] = loc[u]
    BY <1>3, <1>a, <1>f, <2>1 DEF StartExecution, ThreadsOK, Locations, history
  <2>3. PICK x : x = [status |-> "PENDING", node |-> None]
    OBVIOUS
  <2>4. x \in Exec /\ x.status # "RUNNING" /\ x # None
    BY <2>3 DEF Exec, ExecStatus, Assumptions
  <2>5. \A g \in Execs : execs'[g] = execs[g] \/ execs'[g] = x
    BY <1>a, <2>1, <2>3
  <2>6. \A g \in Execs : Sending(g)' \subseteq Sending(g)
    BY <1>e, <2>2
  <2>. QED BY <1>d, <2>2, <2>4, <2>5, <2>6
<1>4. CASE ReadJobForResume(c)
  <2>1. PICK f \in Execs, d \in Decision :
          loc' = [loc EXCEPT ![c].exec = f, ![c].choice = d] /\ CountSent(f, d)
    BY <1>4 DEF ReadJobForResume
  <2>2. loc' = [loc EXCEPT ![c] = [loc[c] EXCEPT !.exec = f, !.choice = d]]
    BY <1>a, <2>1 DEF ThreadsOK
  <2>3. /\ pc[c] = "idle" /\ pc'[c] = "requeue" /\ loc'[c].exec = f /\ loc'[c].choice = d
        /\ UNCHANGED <<jobs, approvals, execs>>
        /\ \A u \in Threads \ {c} : pc'[u] = pc[u] /\ loc'[u] = loc[u] /\ job'[u] = job[u]
    <3>1. /\ pc[c] = "idle" /\ Goto(c, "requeue") /\ UNCHANGED <<jobs, approvals, execs>>
          /\ \A u \in Threads \ {c} : job'[u] = job[u]
      BY <1>4, <1>a DEF ReadJobForResume, Sends, ThreadsOK, tables
    <3>2. /\ loc'[c].exec = f /\ loc'[c].choice = d
          /\ \A u \in Threads \ {c} : loc'[u] = loc[u]
      BY <1>a, <2>2 DEF ThreadsOK, Local
    <3>3. pc'[c] = "requeue" /\ \A u \in Threads \ {c} : pc'[u] = pc[u]
      BY <1>f, <3>1 DEF Locations
    <3>. QED BY <3>1, <3>2, <3>3
  <2>4. /\ \A g \in Execs \ {f} : sent'[g] = sent[g]
        /\ sent'[f] = IF d = "APPROVED" THEN sent[f] + 1 ELSE sent[f]
    BY <1>a, <2>1 DEF CountSent
  <2>5. ASSUME NEW g \in Execs
        PROVE  Sending(g)' = IF g = f /\ d = "APPROVED" THEN Sending(g) \cup {c} ELSE Sending(g)
    <3>1. \A u \in Clients \ {c} : u \in Sending(g)' <=> u \in Sending(g)
      BY <1>a, <2>3 DEF Sending
    <3>2. c \notin Sending(g) /\ (c \in Sending(g)' <=> g = f /\ d = "APPROVED")
      BY <2>3 DEF Sending
    <3>3. Sending(g) \subseteq Clients /\ Sending(g)' \subseteq Clients
      BY DEF Sending
    <3>. QED BY <3>1, <3>2, <3>3
  <2>6. ASSUME NEW g \in Execs
        PROVE  \/ sent'[g] = sent[g] /\ Sending(g)' \subseteq Sending(g)
               \/ sent'[g] = sent[g] + 1 /\ Sending(g)' \subseteq Sending(g) \cup {c}
    BY <2>4, <2>5
  <2>. QED BY <1>d, <2>3, <2>6
<1>5. CASE ReceiveCancel(c) \/ ReadForCancel(c) \/ CancelRefused(c) \/ ClientDies(c)
  <2>1. /\ pc'[c] # "requeue" /\ UNCHANGED <<jobs, approvals, execs, sent>>
        /\ \A u \in Threads \ {c} : pc'[u] = pc[u] /\ loc'[u] = loc[u] /\ job'[u] = job[u]
    BY <1>5, <1>a DEF ReceiveCancel, ReadForCancel, CancelRefused, ClientDies,
                      Finish, Goto, ThreadsOK, tables, history
  <2>2. \A f \in Execs : Sending(f)' \subseteq Sending(f)
    BY <1>e, <2>1
  <2>. QED BY <1>d, <2>1, <2>2
<1>6. CASE CancelExecution(c)
  <2>1. /\ Finish(c) /\ UNCHANGED <<jobs, approvals, sent>>
        /\ execs' = [execs EXCEPT ![e] = [status |-> "CANCELLED", node |-> loc[c].node]]
    BY <1>6 DEF CancelExecution, SaveExecution, history
  <2>2. PICK x : x = [status |-> "CANCELLED", node |-> loc[c].node]
    OBVIOUS
  <2>3. x \in Exec /\ x.status # "RUNNING" /\ x # None
    BY <1>a, <2>2 DEF Exec, ExecStatus, Assumptions, Local
  <2>4. \A g \in Execs : execs'[g] = execs[g] \/ execs'[g] = x
    BY <1>a, <2>1, <2>2
  <2>5. \A g \in Execs : Sending(g)' \subseteq Sending(g)
    BY <1>e, <1>g, <2>1
  <2>. QED BY <1>d, <1>g, <2>1, <2>3, <2>4, <2>5
<1>7. CASE CancelQueued(c) \/ CancelJob(c)
  <2>1. /\ pc'[c] = "elookup" /\ UNCHANGED <<approvals, execs, sent>>
        /\ \A u \in Threads \ {c} : pc'[u] = pc[u] /\ loc'[u] = loc[u] /\ job'[u] = job[u]
    BY <1>7, <1>a DEF CancelQueued, CancelJob, Goto, ThreadsOK, history
  <2>2. \/ jobs' = jobs
        \/ \E f : Cancellable(f) /\ jobs' = [jobs EXCEPT ![f] = [jobs[f] EXCEPT !.status = "CANCELLED"]]
    BY <1>7 DEF CancelQueued, CancelJob
  <2>3. \A f \in Execs : jobs'[f] = jobs[f] \/ jobs'[f].status = "CANCELLED"
    <3>1. CASE jobs' = jobs
      BY <3>1
    <3>2. CASE jobs' # jobs
      <4>1. PICK f : Cancellable(f) /\ jobs' = [jobs EXCEPT ![f] = [jobs[f] EXCEPT !.status = "CANCELLED"]]
        BY <2>2, <3>2
      <4>2. PICK row : row = [jobs[f] EXCEPT !.status = "CANCELLED"]
        OBVIOUS
      <4>3. f \in Execs => row.status = "CANCELLED"
        BY <1>a, <4>1, <4>2 DEF Cancellable, Job
      <4>4. \A g \in Execs : jobs'[g] = jobs[g] \/ (g = f /\ jobs'[g] = row)
        BY <1>a, <4>1, <4>2
      <4>. QED BY <4>3, <4>4
    <3>. QED BY <3>1, <3>2
  <2>4. \A f \in Execs : Sending(f)' \subseteq Sending(f)
    BY <1>e, <2>1
  <2>. QED BY <1>d, <2>1, <2>3, <2>4
<1>8. CASE ReceiveCallback(c) \/ AnswerRequest(c)
  BY <1>8, <1>a DEF ReceiveCallback, Sends, NoCallbacks, AnswerRequest, EnginesInv, Engines
<1>. QED BY <1>1, <1>2, <1>3, <1>4, <1>5, <1>6, <1>7, <1>8 DEF HandlerStep, ClientSends

LEMMA SpendInvHolds == ASSUME Assumptions, OneWorker, NoCallbacks PROVE Spec => []SpendInv
<1>1. Init => SpendInv
  <2> SUFFICES ASSUME Init PROVE SpendInv
    OBVIOUS
  <2>1. \A t \in Threads : pc[t] = "idle"
    BY DEF Init
  <2>2. ASSUME NEW e \in Execs PROVE Balanced(e)
    <3>1. Sending(e) = {}
      BY <2>1 DEF Sending, Threads
    <3>2. ~RowCarries(e)
      BY DEF Init, RowCarries
    <3>3. ~WorkerCarries(e)
      BY <2>1 DEF WorkerCarries, Carrying, Threads
    <3>4. Cardinality(Sending(e)) = 0
      BY <3>1, FS_EmptySet
    <3>5. Replays = 0 /\ passed[e] = 0 /\ sent[e] = 0
      BY DEF Init, Replays, Assumptions
    <3>. QED BY <3>2, <3>3, <3>4, <3>5 DEF Balanced, One
  <2>3. ASSUME NEW w \in Workers PROVE SpendingOK(w)
    BY <2>1 DEF SpendingOK, Holds, Threads
  <2>. QED BY <2>2, <2>3 DEF SpendInv
<1>2. TypeOK /\ TypeOK' /\ EnginesInv /\ RejectionInv /\ SpendInv /\ [Next]_vars => SpendInv'
  <2> SUFFICES ASSUME TypeOK, TypeOK', EnginesInv, RejectionInv, SpendInv, [Next]_vars PROVE SpendInv'
    OBVIOUS
  <2>1. ASSUME NEW t \in Threads, EngineStep(t) PROVE SpendInv'
    BY <2>1, EngineSpends
  <2>2. ASSUME NEW w \in Workers, WorkerStep(w) \/ WorkerDies(w) PROVE SpendInv'
    BY <2>2, WorkerSpends
  <2>3. ASSUME NEW c \in Clients, HandlerStep(c) \/ ClientSends(c) \/ ClientDies(c) PROVE SpendInv'
    BY <2>3, ClientSpends
  <2>4. ASSUME NEW e \in Execs, BackoffElapses(e) PROVE SpendInv'
    <3>1. /\ jobs' = [jobs EXCEPT ![e] = [jobs[e] EXCEPT !.due = TRUE]]
          /\ jobs[e] \in Job
          /\ UNCHANGED <<approvals, execs, budget, pc, loc, job, sent, passed>>
      BY <2>4 DEF BackoffElapses, locals, history, TypeOK, TablesOK
    <3>2. PICK row : row = [jobs[e] EXCEPT !.due = TRUE]
      OBVIOUS
    <3>3. row.payload = jobs[e].payload /\ row.status = jobs[e].status /\ row.owner = jobs[e].owner
          /\ jobs[e] # None
      BY <3>1, <3>2 DEF Job, Assumptions
    <3>4. jobs'[e] = row /\ \A f \in Execs \ {e} : jobs'[f] = jobs[f]
      BY <3>1, <3>2 DEF TypeOK, TablesOK
    <3>5. \A f \in Execs : Undecided(f)' <=> Undecided(f)
      BY <3>1 DEF Undecided, GateOpen, IsLatest
    <3>6. ASSUME NEW f \in Execs PROVE RowCarries(f)' => RowCarries(f)
      <4>1. Taken(f)' <=> Taken(f)
        BY <3>1 DEF Taken, Holds
      <4>2. CASE f = e
        BY <3>3, <3>4, <3>5, <4>1, <4>2 DEF RowCarries, Orphan
      <4>3. CASE f # e
        <5>1. jobs'[f] = jobs[f]
          BY <3>4, <4>3
        <5>. QED BY <3>5, <4>1, <5>1 DEF RowCarries, Orphan
      <4>. QED BY <4>2, <4>3
    <3>7. ASSUME NEW f \in Execs PROVE WorkerCarries(f)' => WorkerCarries(f)
      BY <3>1 DEF WorkerCarries, Carrying, Undecided, GateOpen, IsLatest
    <3>8. ASSUME NEW f \in Execs PROVE Balanced(f)'
      <4>1. Balanced(f) /\ Replays \in Int /\ Replays' = Replays
        BY <3>1, BalanceType DEF SpendInv, Replays
      <4>2. Replays' >= Replays /\ passed'[f] = passed[f]
        BY <3>1, <4>1
      <4>. QED BY <3>1, <3>6, <3>7, <4>1, <4>2, WorkerBalance
    <3>9. ASSUME NEW w \in Workers PROVE SpendingOK(w)'
      <4>1. SpendingOK(w) /\ (Holds(w) => loc[w].exec \in Execs)
        BY HeldExec DEF SpendInv
      <4>2. Holds(w) => jobs'[loc[w].exec].status # "RETRYING"
        BY <3>3, <3>4, <4>1 DEF SpendingOK
      <4>. QED BY <3>1, <4>1, <4>2 DEF SpendingOK, Holds, Undecided, GateOpen, IsLatest
    <3>. QED BY <3>8, <3>9 DEF SpendInv
  <2>5. CASE UNCHANGED vars
    BY <2>5 DEF vars, SpendInv, Balanced, SpendingOK, Sending, RowCarries, WorkerCarries, Carrying,
                Taken, Orphan, Undecided, GateOpen, IsLatest, Holds, Replays, One
  <2>. QED BY <2>1, <2>2, <2>3, <2>4, <2>5 DEF Next
<1>. QED BY <1>1, <1>2, TypeCorrect, EnginesHold, RejectionInvHolds, PTL DEF Spec

\* routes.py, resume_execution, worker.py, _process_job, and engine.py, resume: gated
\* nodes run at most as often as administrators sent APPROVED for the execution, through
\* retries, repeated requests and requests that overtake a running job, although the job
\* keeps the decision in its payload; only a recovery may spend a dead worker's again.
THEOREM ApprovalsAreSpentOnce ==
  ASSUME OneWorker, NoCallbacks
  PROVE  Spec => []NoGatePassesUnapproved
<1>1. TypeOK /\ SpendInv => NoGatePassesUnapproved
  <2> SUFFICES ASSUME TypeOK, SpendInv, NEW e \in Execs PROVE passed[e] <= sent[e] + Replays
    BY DEF NoGatePassesUnapproved
  <2>1. /\ passed[e] \in Nat /\ sent[e] \in Nat /\ Replays \in Int
        /\ Cardinality(Sending(e)) \in Nat
    BY Assumptions, BalanceType
  <2>2. One(RowCarries(e)) \in {0, 1} /\ One(WorkerCarries(e)) \in {0, 1} /\ Balanced(e)
    BY DEF One, SpendInv
  <2> DEFINE S == Cardinality(Sending(e))
             R == One(RowCarries(e))
             V == One(WorkerCarries(e))
  <2>3. passed[e] + S + R + V <= sent[e] + Replays
    BY <2>2 DEF Balanced
  <2> HIDE DEF S, R, V
  <2>4. S \in Nat /\ R \in {0, 1} /\ V \in {0, 1}
    BY <2>1, <2>2 DEF S, R, V
  <2>. QED BY <2>1, <2>3, <2>4
<1>2. Spec => []SpendInv
  BY Assumptions, SpendInvHolds
<1>. QED BY <1>1, <1>2, TypeCorrect, PTL
=============================================================================
