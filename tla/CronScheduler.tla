--------------------------- MODULE CronScheduler ---------------------------
(***************************************************************************)
(* The cron scheduler of RunbookMind (app/jobs/scheduler.py) and the       *)
(* routes that create and delete schedules.                                *)
(*                                                                         *)
(* Every process that serves the API has a scheduler thread.  A pass reads *)
(* the due schedules, then handles them one by one in ONE transaction of   *)
(* its own connection; the in-process lock keeps the routes of the same    *)
(* process out, SQLite's write lock keeps the other processes out.  The    *)
(* pass calls JobQueue.enqueue and the audit repository, and both write on *)
(* connections of their own: while the pass's transaction holds the write  *)
(* lock of the file they fail with "database is locked".                   *)
(*                                                                         *)
(* Time is counted in minutes.  A cron expression is the set of minutes it *)
(* matches.                                                                *)
(***************************************************************************)
EXTENDS Naturals, FiniteSets, FiniteSetsExt

CONSTANTS
  Schedules,      \* schedules that may be created
  Procs,          \* server processes
  Matches,        \* the minutes each cron expression matches
  Horizon,        \* how far get_next_run looks (one year)
  MaxLag,         \* max_schedule_lag_minutes
  AuditSharesDb,  \* the audit repository writes to the scheduler's database file
  MaxTime,        \* bound: the last minute of the clock
  MaxCrashes,     \* bound: process deaths
  None,           \* NULL
  Unborn, Deleted \* a schedule without a row: not created yet, removed

ASSUME CronAssumptions ==
  /\ Matches \in [Schedules -> SUBSET Nat]
  /\ Horizon \in Nat \ {0}
  /\ MaxLag \in Nat
  /\ AuditSharesDb \in BOOLEAN
  /\ MaxTime \in Nat
  /\ MaxCrashes \in Nat
  /\ IsFiniteSet(Procs)
  /\ None \notin Procs /\ None \notin Schedules \X Nat
  /\ {Unborn, Deleted} \cap Nat = {} /\ Unborn # Deleted

VARIABLES
  now,         \* the clock
  schedules,   \* next_run_at of the rows of the schedules table
  executions,  \* executions committed per schedule and fire
  jobs,        \* schedule_fire_id of the rows of the jobs table
  writer,      \* process whose transaction holds the write lock
  pass,        \* the pass each scheduler thread is in
  crashes      \* what is left of MaxCrashes

vars == <<now, schedules, executions, jobs, writer, pass, crashes>>

Minutes == 0..(MaxTime + Horizon)
Fires == Schedules \X Minutes

\* The rows still to handle, those triggered and those skipped so far in the
\* open transaction, the job being enqueued, and the time the pass started.
Pass == [phase: {"idle", "rows", "enqueue", "raised", "down"}, at: 0..MaxTime,
         todo: SUBSET Fires, fired: SUBSET Fires, missed: SUBSET Fires,
         job: Fires \cup {None}]

NoPass == [phase |-> "idle", at |-> 0, todo |-> {}, fired |-> {}, missed |-> {}, job |-> None]

TypeOK ==
  /\ now \in 0..MaxTime
  /\ schedules \in [Schedules -> Minutes \cup {Unborn, Deleted}]
  /\ executions \in [Fires -> Nat]
  /\ jobs \subseteq Fires
  /\ writer \in Procs \cup {None}
  /\ pass \in [Procs -> Pass]
  /\ crashes \in 0..MaxCrashes
  /\ writer # None => pass[writer].phase \in {"rows", "enqueue", "raised"}

Init ==
  /\ now = 0
  /\ schedules = [s \in Schedules |-> Unborn]
  /\ executions = [f \in Fires |-> 0]
  /\ jobs = {}
  /\ writer = None
  /\ pass = [p \in Procs |-> NoPass]
  /\ crashes = MaxCrashes

Alive(s) == schedules[s] \notin {Unborn, Deleted}

\* enabled = 1 AND next_run_at <= now; the routes never disable a schedule.
Due(f) == schedules[f[1]] = f[2] /\ f[2] <= now
DueFires == {f \in Fires : Due(f)}

\* get_next_run: the first match after t; a ValueError if there is none in a year.
Upcoming(s, t) == {m \in Matches[s] : t < m /\ m <= t + Horizon}
HasNextRun(s, t) == Upcoming(s, t) # {}
NextRun(s, t) == Min(Upcoming(s, t))

\* A route of process p may write: no pass of its process, no other transaction.
CanWrite(p) == pass[p].phase = "idle" /\ writer = None

\* create_schedule: an expression without a next run is refused.
CreateSchedule(p, s) ==
  /\ CanWrite(p)
  /\ schedules[s] = Unborn
  /\ HasNextRun(s, now)
  /\ schedules' = [schedules EXCEPT ![s] = NextRun(s, now)]
  /\ UNCHANGED <<now, executions, jobs, writer, pass, crashes>>

\* delete_schedule.
DeleteSchedule(p, s) ==
  /\ CanWrite(p)
  /\ Alive(s)
  /\ schedules' = [schedules EXCEPT ![s] = Deleted]
  /\ UNCHANGED <<now, executions, jobs, writer, pass, crashes>>

\* _evaluate_schedules: the SELECT of the due rows.
BeginPass(p) ==
  /\ pass[p].phase = "idle"
  /\ DueFires # {}
  /\ pass' = [pass EXCEPT ![p] = [NoPass EXCEPT !.phase = "rows", !.at = now, !.todo = DueFires]]
  /\ UNCHANGED <<now, schedules, executions, jobs, writer, crashes>>

\* The pass takes the next row; its first UPDATE or INSERT takes the write lock.
Handles(p, f) ==
  /\ pass[p].phase = "rows"
  /\ f \in pass[p].todo

Lag(p, f) == pass[p].at - f[2]

\* get_next_run raises.
NoNextRun(p, f) ==
  /\ Handles(p, f)
  /\ ~HasNextRun(f[1], pass[p].at)
  /\ pass' = [pass EXCEPT ![p].phase = "raised"]
  /\ UNCHANGED <<now, schedules, executions, jobs, writer, crashes>>

\* As if a lag of exactly MaxLag were a misfire already.
MissFireAtLag(p, f) ==
  /\ Handles(p, f)
  /\ HasNextRun(f[1], pass[p].at)
  /\ Lag(p, f) >= MaxLag
  /\ writer \in {None, p}
  /\ writer' = p
  /\ pass' = [pass EXCEPT ![p].todo = @ \ {f}, ![p].missed = @ \cup {f}]
  /\ UNCHANGED <<now, schedules, executions, jobs, crashes>>

\* Misfire: only next_run_at is advanced, then the audit event is written, on a
\* connection that finds the file locked if it is the same one.
MissFire(p, f) ==
  /\ Handles(p, f)
  /\ HasNextRun(f[1], pass[p].at)
  /\ Lag(p, f) > MaxLag
  /\ writer \in {None, p}
  /\ writer' = p
  /\ pass' = [pass EXCEPT ![p].todo = @ \ {f}, ![p].missed = @ \cup {f},
                          ![p].phase = IF AuditSharesDb THEN "raised" ELSE "rows"]
  /\ UNCHANGED <<now, schedules, executions, jobs, crashes>>

\* Trigger: the PENDING execution is inserted and the schedule advanced.
TriggerFire(p, f) ==
  /\ Handles(p, f)
  /\ HasNextRun(f[1], pass[p].at)
  /\ Lag(p, f) <= MaxLag
  /\ writer \in {None, p}
  /\ writer' = p
  /\ pass' = [pass EXCEPT ![p].todo = @ \ {f}, ![p].fired = @ \cup {f},
                          ![p].phase = "enqueue", ![p].job = f]
  /\ UNCHANGED <<now, schedules, executions, jobs, crashes>>

\* queue.enqueue inserts the job on a second connection, which needs the write
\* lock for itself; a second job with the same fire id is ignored, and an
\* exception of enqueue is logged and swallowed.
Enqueue(p) ==
  /\ pass[p].phase = "enqueue"
  /\ jobs' = IF writer = None THEN jobs \cup {pass[p].job} ELSE jobs
  /\ pass' = [pass EXCEPT ![p].phase = "rows", ![p].job = None]
  /\ UNCHANGED <<now, schedules, executions, writer, crashes>>

\* Another process holds the write lock for longer than the busy timeout.
LockTimeout(p) ==
  /\ pass[p].phase = "rows"
  /\ pass[p].todo # {}
  /\ writer \notin {None, p}
  /\ pass' = [pass EXCEPT ![p].phase = "raised"]
  /\ UNCHANGED <<now, schedules, executions, jobs, writer, crashes>>

\* The schedules table after the pass of p: UPDATE touches existing rows only.
Advanced(p) ==
  [s \in Schedules |->
     IF Alive(s) /\ \E f \in pass[p].fired \cup pass[p].missed : f[1] = s
       THEN NextRun(s, pass[p].at) ELSE schedules[s]]

\* As if the executions were committed and the schedules left alone.
CommitUnadvanced(p) ==
  /\ pass[p].phase = "rows"
  /\ pass[p].todo = {}
  /\ executions' = [f \in Fires |-> executions[f] + IF f \in pass[p].fired THEN 1 ELSE 0]
  /\ writer' = None
  /\ pass' = [pass EXCEPT ![p] = NoPass]
  /\ UNCHANGED <<now, schedules, jobs, crashes>>

\* As if conn.commit() were forgotten: the connection is closed with its
\* transaction open.
CommitForgotten(p) ==
  /\ pass[p].phase = "rows"
  /\ pass[p].todo = {}
  /\ writer' = None
  /\ pass' = [pass EXCEPT ![p] = NoPass]
  /\ UNCHANGED <<now, schedules, executions, jobs, crashes>>

\* conn.commit().
CommitPass(p) ==
  /\ pass[p].phase = "rows"
  /\ pass[p].todo = {}
  /\ schedules' = Advanced(p)
  /\ executions' = [f \in Fires |-> executions[f] + IF f \in pass[p].fired THEN 1 ELSE 0]
  /\ writer' = None
  /\ pass' = [pass EXCEPT ![p] = NoPass]
  /\ UNCHANGED <<now, jobs, crashes>>

\* As if the connection of a failed pass were left open, with its transaction.
RollbackUnreleased(p) ==
  /\ pass[p].phase = "raised"
  /\ pass' = [pass EXCEPT ![p] = NoPass]
  /\ UNCHANGED <<now, schedules, executions, jobs, writer, crashes>>

\* conn.rollback(): everything the pass did so far is undone.
RollbackPass(p) ==
  /\ pass[p].phase = "raised"
  /\ writer' = IF writer = p THEN None ELSE writer
  /\ pass' = [pass EXCEPT ![p] = NoPass]
  /\ UNCHANGED <<now, schedules, executions, jobs, crashes>>

\* A process dies: SQLite rolls its transaction back.
ProcessDies(p) ==
  /\ pass[p].phase # "down"
  /\ crashes > 0
  /\ crashes' = crashes - 1
  /\ writer' = IF writer = p THEN None ELSE writer
  /\ pass' = [pass EXCEPT ![p] = [NoPass EXCEPT !.phase = "down"]]
  /\ UNCHANGED <<now, schedules, executions, jobs>>

ProcessRestarts(p) ==
  /\ pass[p].phase = "down"
  /\ pass' = [pass EXCEPT ![p] = NoPass]
  /\ UNCHANGED <<now, schedules, executions, jobs, writer, crashes>>

Tick ==
  /\ now < MaxTime
  /\ now' = now + 1
  /\ UNCHANGED <<schedules, executions, jobs, writer, pass, crashes>>

PassStep(p) ==
  \/ BeginPass(p) \/ Enqueue(p) \/ LockTimeout(p) \/ CommitPass(p) \/ RollbackPass(p)
  \/ ProcessRestarts(p)
  \/ \E f \in Fires : NoNextRun(p, f) \/ MissFire(p, f) \/ TriggerFire(p, f)

Next ==
  \/ Tick
  \/ \E p \in Procs :
       \/ PassStep(p) \/ ProcessDies(p)
       \/ \E s \in Schedules : CreateSchedule(p, s) \/ DeleteSchedule(p, s)

Spec == Init /\ [][Next]_vars

\* The scheduler threads keep running; neither the clock of the model nor the
\* clients have to move.
FairSpec == Spec /\ \A p \in Procs : WF_vars(PassStep(p))

-----------------------------------------------------------------------------
\* A fire of a schedule starts at most one execution, although passes are
\* rolled back and processes die between the read and the commit.  (One process.)
OneExecutionPerFire == \A f \in Fires : executions[f] <= 1

\* With n processes a fire starts at most 1 + 2 + ... + n executions, however the
\* processes read the same due rows before they take the write lock, and however
\* stale commits put next_run_at back to a run that was executed already.
FewExecutionsPerFire ==
  \A f \in Fires : 2 * executions[f] <= Cardinality(Procs) * (Cardinality(Procs) + 1)

\* next_run_at never goes back: no pass undoes what a later one decided, and a
\* pass leaves no schedule due at the time it looked at.  (One process.)
NextRunAdvances ==
  [][\A s \in Schedules :
       Alive(s) /\ schedules'[s] # schedules[s] =>
         \/ schedules'[s] = Deleted
         \/ schedules'[s] > schedules[s] /\ \E p \in Procs : schedules'[s] > pass[p].at]_vars

\* A run is only ever dropped because it is too late: a schedule moves on either
\* with an execution for the run it leaves behind, or after the allowed lag.
NoRunSkippedInTime ==
  [][\A s \in Schedules :
       Alive(s) /\ schedules'[s] \notin {schedules[s], Deleted} =>
         executions'[<<s, schedules[s]>>] > 0 \/ now - schedules[s] > MaxLag]_vars

\* Every due run is eventually triggered, skipped or deleted.
DueRunIsHandled == \A f \in Fires : Due(f) ~> ~Due(f)

\* scheduler.py, _evaluate_schedules: "Atomic save in same lock context" and
\* "Rollback is handled by the outer block": execution, schedule and job of a
\* fire are saved together or not at all.
FireIsSavedWithItsJob == \A f \in Fires : executions[f] > 0 => f \in jobs
=============================================================================
