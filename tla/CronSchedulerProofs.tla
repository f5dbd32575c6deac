------------------------ MODULE CronSchedulerProofs ------------------------
(***************************************************************************)
(* Proofs about CronScheduler, for any schedules, cron expressions, lag    *)
(* and crashes: its types and the number of executions of a fire for any   *)
(* number of processes, and for one process what a fire may do.            *)
(*                                                                         *)
(* Several processes: the passes that read a due row execute it, and a     *)
(* stale pass may make it due again, each once (CountInv).                 *)
(*                                                                         *)
(* One process: while a pass is open no route of the process writes, so    *)
(* the rows it read are the rows it handles (Current).  A fire with an     *)
(* execution is behind next_run_at for good (Behind).                      *)
(***************************************************************************)
EXTENDS CronScheduler, WellFoundedInduction, FiniteSetTheorems, TLAPS

-----------------------------------------------------------------------------
(* get_next_run.                                                           *)

\* Every non-empty set of minutes has a first one.
LEMMA LeastExists ==
  ASSUME NEW S \in SUBSET Nat, S # {}
  PROVE  Min(S) \in S /\ \A y \in S : Min(S) <= y
<1>1. PICK x \in S : \A y \in S : ~(<<y, x>> \in OpToRel(<, Nat))
  BY NatLessThanWellFounded, WFMin, Zenon
<1>2. \A y \in S : ~(y < x)
  BY <1>1, Zenon DEF OpToRel
<1>3. \A y \in S : x <= y
  BY <1>2
<1> QED
  BY <1>3 DEF Min

\* The next run is a match of the expression after t, within the horizon.
LEMMA NextRunIsLater ==
  ASSUME NEW s \in Schedules, NEW t \in 0..MaxTime, HasNextRun(s, t)
  PROVE  NextRun(s, t) \in Minutes /\ NextRun(s, t) > t
<1>1. Upcoming(s, t) \in SUBSET Nat /\ Upcoming(s, t) # {}
  BY CronAssumptions DEF Upcoming, HasNextRun
<1>2. NextRun(s, t) \in Upcoming(s, t)
  BY <1>1, LeastExists DEF NextRun
<1>3. NextRun(s, t) \in Nat /\ t < NextRun(s, t) /\ NextRun(s, t) <= t + Horizon
  BY <1>1, <1>2 DEF Upcoming
<1> QED
  BY <1>3, CronAssumptions DEF Minutes

-----------------------------------------------------------------------------
(* Type correctness.  A row is only kept for the commit when its schedule  *)
(* has a next run.                                                         *)

PassOK(x) ==
  /\ x \in Pass
  /\ x.phase = "enqueue" => x.job \in Fires
  /\ \A f \in x.fired \cup x.missed : HasNextRun(f[1], x.at)

PassesOK == \A p \in Procs : PassOK(pass[p])

LEMMA NoPassOK == PassOK(NoPass) /\ NoPass.phase = "idle"
BY CronAssumptions DEF PassOK, NoPass, Pass

\* Process p goes on with x; the lock stays with a pass that is not over.
LEMMA PassMoves ==
  ASSUME TypeOK, PassesOK, NEW p \in Procs, NEW x, PassOK(x), pass' = [pass EXCEPT ![p] = x],
         \/ writer' = writer /\ (writer = p => x.phase \in {"rows", "enqueue", "raised"})
         \/ writer' = p /\ x.phase \in {"rows", "enqueue", "raised"}
         \/ writer' = None
         \/ writer' = writer /\ writer # p
  PROVE  /\ pass' \in [Procs -> Pass] /\ PassesOK'
         /\ writer' \in Procs \cup {None}
         /\ writer' # None => pass'[writer'].phase \in {"rows", "enqueue", "raised"}
BY DEF TypeOK, PassesOK, PassOK

\* The next_run_at of every schedule after a commit.
LEMMA AdvancedTypes ==
  ASSUME TypeOK, PassesOK, NEW p \in Procs
  PROVE  Advanced(p) \in [Schedules -> Minutes \cup {Unborn, Deleted}]
<1>1. ASSUME NEW s \in Schedules, NEW f \in pass[p].fired \cup pass[p].missed, f[1] = s
      PROVE  NextRun(s, pass[p].at) \in Minutes
  BY <1>1, NextRunIsLater DEF TypeOK, PassesOK, PassOK, Pass
<1> QED
  BY <1>1 DEF Advanced, TypeOK

\* A step of a scheduler thread.
LEMMA PassTypes ==
  ASSUME TypeOK, PassesOK, NEW p \in Procs, PassStep(p) \/ ProcessDies(p)
  PROVE  TypeOK' /\ PassesOK'
<1>0. /\ pass[p] \in Pass /\ PassOK(pass[p]) /\ p # None /\ pass \in [Procs -> Pass]
      /\ now \in 0..MaxTime /\ NoPass \in Pass
  BY NoPassOK, CronAssumptions DEF TypeOK, PassesOK, PassOK
<1>1. ASSUME UNCHANGED <<now, schedules, executions, jobs, crashes>>,
             pass' \in [Procs -> Pass], PassesOK', writer' \in Procs \cup {None},
             writer' # None => pass'[writer'].phase \in {"rows", "enqueue", "raised"}
      PROVE  TypeOK' /\ PassesOK'
  BY <1>1 DEF TypeOK
<1>2. CASE BeginPass(p)
  <2> DEFINE x == [NoPass EXCEPT !.phase = "rows", !.at = now, !.todo = DueFires]
  <2>1. x \in Pass /\ x.phase = "rows" /\ x.fired = {} /\ x.missed = {}
    BY <1>0 DEF NoPass, Pass, DueFires
  <2>2. pass' = [pass EXCEPT ![p] = x] /\ UNCHANGED <<now, schedules, executions, jobs, writer, crashes>>
    BY <1>2 DEF BeginPass
  <2> HIDE DEF x
  <2>3. PassOK(x)
    BY <2>1 DEF PassOK
  <2> QED
    BY <1>1, <2>1, <2>2, <2>3, PassMoves
<1>3. CASE Enqueue(p)
  <2> DEFINE x == [pass[p] EXCEPT !.phase = "rows", !.job = None]
  <2>1. x \in Pass /\ x.phase = "rows" /\ x.fired = pass[p].fired /\ x.missed = pass[p].missed /\ x.at = pass[p].at
    BY <1>0 DEF Pass
  <2>2. pass' = [pass EXCEPT ![p] = x] /\ UNCHANGED <<now, schedules, executions, writer, crashes>>
    BY <1>0, <1>3 DEF Enqueue
  <2>3. pass[p].job \in Fires
    BY <1>0, <1>3 DEF Enqueue, PassOK
  <2>4. jobs' \subseteq Fires
    BY <1>3, <2>3 DEF Enqueue, TypeOK
  <2> HIDE DEF x
  <2>5. PassOK(x)
    BY <1>0, <2>1 DEF PassOK
  <2>6. /\ pass' \in [Procs -> Pass] /\ PassesOK' /\ writer' \in Procs \cup {None}
        /\ writer' # None => pass'[writer'].phase \in {"rows", "enqueue", "raised"}
    BY <2>1, <2>2, <2>5, PassMoves
  <2> QED
    BY <2>2, <2>4, <2>6 DEF TypeOK
<1>4. CASE LockTimeout(p) \/ \E f \in Fires : NoNextRun(p, f)
  <2> DEFINE x == [pass[p] EXCEPT !.phase = "raised"]
  <2>1. x \in Pass /\ x.phase = "raised" /\ x.fired = pass[p].fired /\ x.missed = pass[p].missed /\ x.at = pass[p].at
    BY <1>0 DEF Pass
  <2>2. pass' = [pass EXCEPT ![p] = x] /\ UNCHANGED <<now, schedules, executions, jobs, writer, crashes>>
    BY <1>0, <1>4 DEF LockTimeout, NoNextRun
  <2> HIDE DEF x
  <2>3. PassOK(x)
    BY <1>0, <2>1 DEF PassOK
  <2> QED
    BY <1>1, <2>1, <2>2, <2>3, PassMoves
<1>5. CASE \E f \in Fires : MissFire(p, f)
  <2>1. PICK f \in Fires : MissFire(p, f)
    BY <1>5
  <2> DEFINE x == [pass[p] EXCEPT !.todo = @ \ {f}, !.missed = @ \cup {f},
                                  !.phase = IF AuditSharesDb THEN "raised" ELSE "rows"]
  <2>2. /\ x \in Pass /\ x.phase \in {"rows", "raised"} /\ x.fired = pass[p].fired
        /\ x.missed = pass[p].missed \cup {f} /\ x.at = pass[p].at
    BY <1>0 DEF Pass
  <2>3. /\ pass' = [pass EXCEPT ![p] = x] /\ UNCHANGED <<now, schedules, executions, jobs, crashes>>
        /\ writer' = p /\ HasNextRun(f[1], pass[p].at)
    BY <1>0, <2>1 DEF MissFire
  <2> HIDE DEF x
  <2>4. PassOK(x)
    BY <1>0, <2>2, <2>3 DEF PassOK
  <2> QED
    BY <1>1, <2>2, <2>3, <2>4, PassMoves
<1>6. CASE \E f \in Fires : TriggerFire(p, f)
  <2>1. PICK f \in Fires : TriggerFire(p, f)
    BY <1>6
  <2> DEFINE x == [pass[p] EXCEPT !.todo = @ \ {f}, !.fired = @ \cup {f}, !.phase = "enqueue", !.job = f]
  <2>2. /\ x \in Pass /\ x.phase = "enqueue" /\ x.job = f /\ x.fired = pass[p].fired \cup {f}
        /\ x.missed = pass[p].missed /\ x.at = pass[p].at
    BY <1>0 DEF Pass
  <2>3. /\ pass' = [pass EXCEPT ![p] = x] /\ UNCHANGED <<now, schedules, executions, jobs, crashes>>
        /\ writer' = p /\ HasNextRun(f[1], pass[p].at)
    BY <1>0, <2>1 DEF TriggerFire
  <2> HIDE DEF x
  <2>4. PassOK(x)
    BY <1>0, <2>2, <2>3 DEF PassOK
  <2> QED
    BY <1>1, <2>2, <2>3, <2>4, PassMoves
<1>7. CASE CommitPass(p)
  <2>1. /\ pass' = [pass EXCEPT ![p] = NoPass] /\ writer' = None /\ UNCHANGED <<now, jobs, crashes>>
        /\ schedules' = Advanced(p)
        /\ executions' = [f \in Fires |-> executions[f] + IF f \in pass[p].fired THEN 1 ELSE 0]
    BY <1>7 DEF CommitPass
  <2>2. schedules' \in [Schedules -> Minutes \cup {Unborn, Deleted}]
    BY <2>1, AdvancedTypes
  <2>3. executions' \in [Fires -> Nat]
    BY <2>1 DEF TypeOK
  <2>4. pass' \in [Procs -> Pass] /\ PassesOK'
    BY <2>1, NoPassOK, PassMoves
  <2> QED
    BY <2>1, <2>2, <2>3, <2>4 DEF TypeOK
<1>8. CASE RollbackPass(p) \/ ProcessRestarts(p)
  <2>1. /\ pass' = [pass EXCEPT ![p] = NoPass] /\ UNCHANGED <<now, schedules, executions, jobs, crashes>>
        /\ writer' = None \/ (writer' = writer /\ writer # p)
    BY <1>0, <1>8 DEF RollbackPass, ProcessRestarts, TypeOK
  <2> QED
    BY <1>1, <2>1, NoPassOK, PassMoves
<1>9. CASE ProcessDies(p)
  <2> DEFINE x == [NoPass EXCEPT !.phase = "down"]
  <2>1. x \in Pass /\ x.phase = "down" /\ x.fired = {} /\ x.missed = {}
    BY <1>0 DEF NoPass, Pass
  <2>2. /\ pass' = [pass EXCEPT ![p] = x] /\ UNCHANGED <<now, schedules, executions, jobs>>
        /\ writer' = None \/ (writer' = writer /\ writer # p)
        /\ crashes' \in 0..MaxCrashes
    BY <1>0, <1>9, CronAssumptions DEF ProcessDies, TypeOK
  <2> HIDE DEF x
  <2>3. PassOK(x)
    BY <2>1 DEF PassOK
  <2>4. /\ pass' \in [Procs -> Pass] /\ PassesOK' /\ writer' \in Procs \cup {None}
        /\ writer' # None => pass'[writer'].phase \in {"rows", "enqueue", "raised"}
    BY <2>1, <2>2, <2>3, PassMoves
  <2> QED
    BY <2>2, <2>4 DEF TypeOK
<1> QED
  BY <1>2, <1>3, <1>4, <1>5, <1>6, <1>7, <1>8, <1>9 DEF PassStep

LEMMA TypesStay == TypeOK /\ PassesOK /\ [Next]_vars => TypeOK' /\ PassesOK'
<1> SUFFICES ASSUME TypeOK, PassesOK, [Next]_vars PROVE TypeOK' /\ PassesOK'
  OBVIOUS
<1>1. ASSUME NEW p \in Procs, NEW s \in Schedules, CreateSchedule(p, s) \/ DeleteSchedule(p, s)
      PROVE  TypeOK' /\ PassesOK'
  <2>1. CASE CreateSchedule(p, s)
    <3>1. NextRun(s, now) \in Minutes
      BY <2>1, NextRunIsLater DEF CreateSchedule, TypeOK
    <3> QED
      BY <2>1, <3>1 DEF CreateSchedule, TypeOK, PassesOK
  <2>2. CASE DeleteSchedule(p, s)
    BY <2>2 DEF DeleteSchedule, TypeOK, PassesOK
  <2> QED
    BY <1>1, <2>1, <2>2
<1>2. CASE Tick
  BY <1>2, CronAssumptions DEF Tick, TypeOK, PassesOK
<1>3. CASE UNCHANGED vars
  BY <1>3 DEF vars, TypeOK, PassesOK
<1> QED
  BY <1>1, <1>2, <1>3, PassTypes DEF Next

LEMMA PassInvariant == Spec => [](TypeOK /\ PassesOK)
<1>1. Init => TypeOK /\ PassesOK
  BY NoPassOK, CronAssumptions DEF Init, TypeOK, PassesOK, PassOK
<1> QED
  BY <1>1, TypesStay, PTL DEF Spec

\* next_run_at is a minute within the horizon whenever a schedule has a row, and
\* the write lock belongs to a pass that is not over.
THEOREM TypeCorrect == Spec => []TypeOK
BY PassInvariant, PTL

-----------------------------------------------------------------------------
(* Several processes.                                                      *)
(*                                                                         *)
(* Two passes that read the same row both execute it, and a stale pass may *)
(* put next_run_at back to a run that other passes executed meanwhile; but *)
(* it can do so only once, since a pass that begins later looks at a later *)
(* time.  So fire f is counted against the processes that cannot reopen it *)
(* any more (Late): each reopening adds one of them, and while f is due  *)
(* each of them may execute it once.                                       *)

Handled(x) == x.todo \cup x.fired \cup x.missed

\* What a pass knows of the rows, however many processes there are.
Seen(x) ==
  /\ x.at <= now
  /\ x.phase \in {"idle", "down"} => Handled(x) = {}
  /\ \A f \in Handled(x) : f[2] <= x.at /\ schedules[f[1]] # Unborn

\* Its commit will move schedule s.
Touches(p, s) == \E g \in Handled(pass[p]) : g[1] = s

\* Processes whose commit cannot make fire f due again.
Late(f) == {p \in Procs : Touches(p, f[1]) => f[2] <= pass[p].at}

\* Processes whose commit starts an execution for f.
Carriers(f) == {p \in Procs : f \in pass[p].todo \cup pass[p].fired}

\* Processes that may still execute f before it is reopened.
Owing(f) == IF schedules[f[1]] = f[2] THEN Late(f) ELSE Carriers(f)

Counted(f) ==
  /\ now < f[2] => executions[f] = 0
  /\ f[2] <= now => 2 * (executions[f] + Cardinality(Owing(f)))
                      <= Cardinality(Late(f)) * (Cardinality(Late(f)) + 1)

CountInv ==
  /\ \A p \in Procs : Seen(pass[p])
  /\ \A f \in Fires : Counted(f)

\* The sums 1 + 2 + ... + n, doubled.
LEMMA SumsGrow ==
  ASSUME NEW m \in Nat, NEW n \in Nat, m <= n
  PROVE  m * (m + 1) <= n * (n + 1) /\ m * (m + 1) \in Nat
<1>1. m * m <= m * n /\ m * n <= n * n /\ m * m \in Nat /\ n * n \in Nat
  OBVIOUS
<1>2. m * (m + 1) = m * m + m /\ n * (n + 1) = n * n + n
  OBVIOUS
<1> QED
  BY <1>1, <1>2

LEMMA SumsStep ==
  ASSUME NEW m \in Nat, NEW n \in Nat, m + 1 <= n
  PROVE  m * (m + 1) + 2 * n <= n * (n + 1)
<1>1. m * (m + 1) <= (n - 1) * ((n - 1) + 1)
  BY SumsGrow
<1>2. (n - 1) * ((n - 1) + 1) + 2 * n = n * (n + 1)
  OBVIOUS
<1> QED
  BY <1>1, <1>2

\* An execution more, or a process more that owes one.
LEMMA Recount ==
  ASSUME NEW x \in Nat, NEW y \in Nat, NEW o \in Nat, NEW q \in Nat, NEW m \in Nat, NEW n \in Nat,
         2 * (x + o) <= m * (m + 1), m <= n,
         \/ y + q <= x + o
         \/ y = x /\ o = m /\ q <= n
         \/ y = x /\ m + 1 <= n /\ q <= n
  PROVE  2 * (y + q) <= n * (n + 1)
<1>1. m * (m + 1) <= n * (n + 1) /\ m * (m + 1) \in Nat /\ n * (n + 1) \in Nat
  BY SumsGrow
<1>2. CASE y + q <= x + o
  BY <1>1, <1>2
<1>3. CASE y = x /\ m + 1 <= n /\ q <= n
  <2>1. m * (m + 1) + 2 * n <= n * (n + 1)
    BY <1>3, SumsStep
  <2> QED
    BY <1>1, <1>3, <2>1
<1>4. CASE y = x /\ o = m /\ q <= n /\ m = n
  BY <1>1, <1>4
<1>5. m = n \/ m + 1 <= n
  OBVIOUS
<1> QED
  BY <1>2, <1>3, <1>4, <1>5

\* The counted sets are finite, and a process that owes f cannot reopen it.
LEMMA CountedSets ==
  ASSUME TypeOK, \A p \in Procs : Seen(pass[p]), NEW f \in Fires
  PROVE  /\ IsFiniteSet(Late(f)) /\ IsFiniteSet(Carriers(f)) /\ IsFiniteSet(Owing(f))
         /\ Cardinality(Late(f)) \in Nat /\ Cardinality(Carriers(f)) \in Nat
         /\ Cardinality(Owing(f)) \in Nat
         /\ Carriers(f) \subseteq Late(f) /\ Owing(f) \subseteq Late(f)
         /\ Cardinality(Carriers(f)) <= Cardinality(Late(f))
         /\ Cardinality(Owing(f)) <= Cardinality(Late(f))
<1>1. Late(f) \subseteq Procs /\ Carriers(f) \subseteq Procs
  BY DEF Late, Carriers
<1>2. Carriers(f) \subseteq Late(f)
  BY DEF Carriers, Late, Seen, Handled
<1>3. Owing(f) \subseteq Late(f)
  BY <1>2 DEF Owing
<1>4. IsFiniteSet(Late(f))
  BY <1>1, FS_Subset, CronAssumptions
<1> QED
  BY <1>2, <1>3, <1>4, FS_Subset, FS_CardinalityType

\* The count of a fire that is past, after a step.
LEMMA CountedStep ==
  ASSUME TypeOK, TypeOK', CountInv, \A p \in Procs : Seen(pass[p])', NEW f \in Fires,
         now' = now, Late(f) \subseteq Late(f)',
         f[2] <= now =>
           \/ executions'[f] = executions[f] /\ Owing(f)' \subseteq Owing(f)
           \/ executions'[f] = executions[f] /\ Owing(f) = Late(f)
           \/ executions'[f] = executions[f] /\ \E p \in Procs : p \in Late(f)' /\ p \notin Late(f)
           \/ /\ executions'[f] = executions[f] + 1
              /\ \E p \in Procs : p \in Owing(f) /\ Owing(f)' \subseteq Owing(f) \ {p},
         now < f[2] => executions'[f] = executions[f]
  PROVE  Counted(f)'
<1> DEFINE x == executions[f]
           y == executions'[f]
           o == Cardinality(Owing(f))
           q == Cardinality(Owing(f)')
           m == Cardinality(Late(f))
           n == Cardinality(Late(f)')
<1>1. x \in Nat /\ y \in Nat
  BY DEF TypeOK
<1>2. o \in Nat /\ m \in Nat /\ IsFiniteSet(Owing(f)) /\ IsFiniteSet(Late(f)) /\ o <= m
  BY CountedSets DEF CountInv
<1>3. q \in Nat /\ n \in Nat /\ IsFiniteSet(Owing(f)') /\ IsFiniteSet(Late(f)') /\ q <= n
  <2>1. Late(f)' \subseteq Procs /\ Owing(f)' \subseteq Late(f)'
    BY DEF Late, Owing, Carriers, Seen, Handled
  <2>2. IsFiniteSet(Late(f)')
    BY <2>1, FS_Subset, CronAssumptions
  <2> QED
    BY <2>1, <2>2, FS_Subset, FS_CardinalityType
<1>4. m <= n
  BY <1>3, FS_Subset
<1>5. ASSUME f[2] <= now PROVE 2 * (y + q) <= n * (n + 1)
  <2>1. 2 * (x + o) <= m * (m + 1)
    BY <1>5 DEF CountInv, Counted
  <2>2. CASE y = x /\ Owing(f)' \subseteq Owing(f)
    <3>1. q <= o
      BY <1>2, <2>2, FS_Subset
    <3> HIDE DEF x, y, o, q, m, n
    <3>2. y + q <= x + o
      BY <1>1, <1>2, <1>3, <2>2, <3>1
    <3> QED
      BY <1>1, <1>2, <1>3, <1>4, <2>1, <3>2, Recount
  <2>3. CASE y = x /\ Owing(f) = Late(f)
    <3>1. o = m
      BY <2>3
    <3> HIDE DEF x, y, o, q, m, n
    <3> QED
      BY <1>1, <1>2, <1>3, <1>4, <2>1, <2>3, <3>1, Recount
  <2>4. CASE y = x /\ \E p \in Procs : p \in Late(f)' /\ p \notin Late(f)
    <3>1. PICK p \in Procs : p \in Late(f)' /\ p \notin Late(f)
      BY <2>4
    <3>2. Late(f) \subseteq Late(f)' \ {p} /\ IsFiniteSet(Late(f)' \ {p})
          /\ Cardinality(Late(f)' \ {p}) = n - 1
      BY <1>3, <3>1, FS_RemoveElement
    <3>3. m <= n - 1
      BY <3>2, FS_Subset
    <3> HIDE DEF x, y, o, q, m, n
    <3>4. y = x /\ m + 1 <= n /\ q <= n
      BY <1>2, <1>3, <2>4, <3>3
    <3> QED
      BY <1>1, <1>2, <1>3, <1>4, <2>1, <3>4, Recount
  <2>5. CASE y = x + 1 /\ \E p \in Procs : p \in Owing(f) /\ Owing(f)' \subseteq Owing(f) \ {p}
    <3>1. PICK p \in Procs : p \in Owing(f) /\ Owing(f)' \subseteq Owing(f) \ {p}
      BY <2>5
    <3>2. IsFiniteSet(Owing(f) \ {p}) /\ Cardinality(Owing(f) \ {p}) = o - 1
      BY <1>2, <3>1, FS_RemoveElement
    <3>3. q <= o - 1
      BY <3>1, <3>2, FS_Subset
    <3> HIDE DEF x, y, o, q, m, n
    <3>4. y + q <= x + o
      BY <1>1, <1>2, <1>3, <2>5, <3>3
    <3> QED
      BY <1>1, <1>2, <1>3, <1>4, <2>1, <3>4, Recount
  <2> QED
    BY <1>5, <2>2, <2>3, <2>4, <2>5
<1>6. now < f[2] => y = 0
  BY DEF CountInv, Counted
<1> QED
  BY <1>5, <1>6 DEF Counted

\* Process p goes on with x: it keeps the time it looked at or looks now, takes
\* no row but the due ones, and saves nothing.
LEMMA PassCounts ==
  ASSUME TypeOK, TypeOK', CountInv, NEW p \in Procs, NEW x, pass' = [pass EXCEPT ![p] = x],
         UNCHANGED <<now, schedules, executions>>, Seen(x),
         x.todo \cup x.fired \subseteq pass[p].todo \cup pass[p].fired \cup DueFires,
         x.at = now \/ (x.at = pass[p].at /\ Handled(x) \subseteq Handled(pass[p])) \/ Handled(x) = {}
  PROVE  CountInv'
<1>1. pass'[p] = x /\ \A q \in Procs \ {p} : pass'[q] = pass[q]
  BY DEF TypeOK
<1>2. Seen(x)'
  BY DEF Seen
<1>3. \A q \in Procs : Seen(pass[q])'
  BY <1>1, <1>2 DEF CountInv, Seen
<1>4. ASSUME NEW f \in Fires PROVE Counted(f)'
  <2>0. now \in Nat /\ f[2] \in Nat /\ f[1] \in Schedules
    BY CronAssumptions DEF TypeOK, Fires, Minutes
  <2>1. ASSUME f[2] <= now, NEW q \in Late(f) PROVE q \in Late(f)'
    <3>1. CASE q # p
      BY <1>1, <2>1, <3>1 DEF Late, Touches
    <3>2. CASE q = p
      <4>1. CASE Handled(x) = {}
        BY <1>1, <3>2, <4>1 DEF Late, Touches
      <4>2. CASE x.at = now
        BY <1>1, <2>1, <3>2, <4>2 DEF Late
      <4>3. CASE x.at = pass[p].at /\ Handled(x) \subseteq Handled(pass[p])
        BY <1>1, <2>1, <3>2, <4>3 DEF Late, Touches
      <4> QED
        BY <4>1, <4>2, <4>3
    <3> QED
      BY <3>1, <3>2
  <2>2. CASE f[2] <= now
    <3>1. CASE schedules[f[1]] = f[2]
      BY <1>3, <1>4, <2>0, <2>1, <2>2, <3>1, CountedStep DEF Owing
    <3>2. CASE schedules[f[1]] # f[2]
      <4>1. f \notin DueFires
        BY <3>2 DEF DueFires, Due
      <4>2. Carriers(f)' \subseteq Carriers(f)
        BY <1>1, <4>1 DEF Carriers
      <4>3. Owing(f)' \subseteq Owing(f)
        BY <3>2, <4>2 DEF Owing
      <4> QED
        BY <1>3, <1>4, <2>0, <2>1, <2>2, <4>3, CountedStep
    <3> QED
      BY <3>1, <3>2
  <2>3. CASE now < f[2]
    BY <2>0, <2>3 DEF CountInv, Counted
  <2> QED
    BY <2>0, <2>2, <2>3
<1> QED
  BY <1>3, <1>4 DEF CountInv

\* A commit executes what the pass triggered and reopens no run that it handled.
LEMMA CommitCounts ==
  ASSUME TypeOK, TypeOK', PassesOK, CountInv, NEW p \in Procs, CommitPass(p)
  PROVE  CountInv'
<1>0. /\ pass[p] \in Pass /\ now \in Nat /\ pass[p].at \in 0..MaxTime /\ pass[p].at <= now /\ pass[p].todo = {}
      /\ pass[p].fired \subseteq Fires
  BY CronAssumptions DEF TypeOK, CountInv, Seen, CommitPass, Pass
<1>1. /\ pass' = [pass EXCEPT ![p] = NoPass] /\ now' = now /\ schedules' = Advanced(p)
      /\ executions' = [f \in Fires |-> executions[f] + IF f \in pass[p].fired THEN 1 ELSE 0]
  BY DEF CommitPass
<1>2. pass'[p] = NoPass /\ \A q \in Procs \ {p} : pass'[q] = pass[q]
  BY <1>1 DEF TypeOK
<1>3. ASSUME NEW s \in Schedules, schedules'[s] # schedules[s]
      PROVE  Alive(s) /\ Touches(p, s) /\ schedules'[s] \in Nat /\ schedules'[s] > pass[p].at
  <2>1. PICK f \in pass[p].fired \cup pass[p].missed : Alive(s) /\ f[1] = s
    BY <1>1, <1>3 DEF Advanced
  <2>2. NextRun(s, pass[p].at) \in Minutes /\ NextRun(s, pass[p].at) > pass[p].at
    BY <1>0, <2>1, NextRunIsLater DEF PassesOK, PassOK
  <2>3. schedules'[s] = NextRun(s, pass[p].at)
    BY <1>1, <1>3 DEF Advanced
  <2> QED
    BY <2>1, <2>2, <2>3, CronAssumptions DEF Touches, Handled, Minutes
<1>4. ASSUME NEW f \in pass[p].fired, schedules'[f[1]] = f[2] PROVE FALSE
  <2>1. f \in Fires /\ f[1] \in Schedules /\ f[2] \in Nat /\ f[2] <= pass[p].at
    BY <1>0, CronAssumptions DEF CountInv, Seen, Handled, Fires, Minutes
  <2>2. schedules'[f[1]] = schedules[f[1]]
    BY <1>0, <1>3, <1>4, <2>1
  <2>3. Alive(f[1])
    BY <1>4, <2>1, <2>2, CronAssumptions DEF Alive
  <2>4. schedules'[f[1]] = NextRun(f[1], pass[p].at)
    BY <1>1, <2>1, <2>3 DEF Advanced
  <2>5. NextRun(f[1], pass[p].at) > pass[p].at /\ NextRun(f[1], pass[p].at) \in Nat
    BY <1>0, <2>1, NextRunIsLater, CronAssumptions DEF PassesOK, PassOK, Minutes
  <2> QED
    BY <1>0, <1>4, <2>1, <2>4, <2>5
<1>5. ASSUME NEW q \in Procs PROVE Seen(pass[q])'
  <2>1. CASE q = p
    BY <1>0, <1>1, <1>2, <2>1 DEF Seen, Handled, NoPass
  <2>2. CASE q # p
    <3>1. \A f \in Handled(pass[q]) : f[1] \in Schedules /\ schedules[f[1]] # Unborn /\ f[2] <= pass[q].at
      BY DEF CountInv, Seen, TypeOK, Pass, Handled, Fires
    <3>2. \A s \in Schedules : schedules[s] # Unborn => schedules'[s] # Unborn
      BY <1>3, CronAssumptions
    <3> QED
      BY <1>1, <1>2, <2>2, <3>1, <3>2 DEF CountInv, Seen, Handled
  <2> QED
    BY <2>1, <2>2
<1>6. ASSUME NEW f \in Fires PROVE Counted(f)'
  <2>0. f[2] \in Nat /\ f[1] \in Schedules /\ executions[f] \in Nat
    BY CronAssumptions DEF TypeOK, Fires, Minutes
  <2>1. Late(f) \subseteq Late(f)' /\ p \in Late(f)'
    BY <1>2 DEF Late, Touches, Handled, NoPass
  <2>2. Carriers(f)' = Carriers(f) \ {p} /\ (p \in Carriers(f) <=> f \in pass[p].fired)
    BY <1>0, <1>2 DEF Carriers, NoPass
  <2>3. CASE f \in pass[p].fired
    <3>1. executions'[f] = executions[f] + 1 /\ f[2] <= now
      BY <1>0, <1>1, <2>0, <2>3 DEF CountInv, Seen, Handled
    <3>2. Owing(f)' = Carriers(f)'
      BY <1>4, <2>3 DEF Owing
    <3>3. p \in Owing(f) /\ Carriers(f) \subseteq Owing(f)
      BY <2>2, <2>3, CountedSets DEF Owing, CountInv
    <3>4. Owing(f)' \subseteq Owing(f) \ {p}
      BY <2>2, <3>2, <3>3
    <3> QED
      BY <1>0, <1>1, <1>5, <1>6, <2>0, <2>1, <3>1, <3>3, <3>4, CountedStep
  <2>4. CASE f \notin pass[p].fired
    <3>1. executions'[f] = executions[f] /\ Carriers(f)' = Carriers(f)
      BY <1>1, <2>0, <2>2, <2>4
    <3>2. CASE schedules[f[1]] = f[2]
      BY <1>1, <1>5, <1>6, <2>1, <3>1, <3>2, CountedStep DEF Owing
    <3>3. CASE schedules[f[1]] # f[2] /\ schedules'[f[1]] # f[2]
      <4>1. Owing(f)' \subseteq Owing(f)
        BY <3>1, <3>3 DEF Owing
      <4> QED
        BY <1>1, <1>5, <1>6, <2>1, <3>1, <4>1, CountedStep
    <3>4. CASE schedules[f[1]] # f[2] /\ schedules'[f[1]] = f[2]
      <4>1. Touches(p, f[1]) /\ f[2] > pass[p].at
        BY <1>3, <2>0, <3>4
      <4>2. p \notin Late(f)
        BY <1>0, <2>0, <4>1 DEF Late
      <4> QED
        BY <1>1, <1>5, <1>6, <2>1, <3>1, <4>2, CountedStep
    <3> QED
      BY <3>2, <3>3, <3>4
  <2> QED
    BY <2>3, <2>4
<1> QED
  BY <1>5, <1>6 DEF CountInv

\* Steps outside a commit that change schedules or the clock and reopen no past run.
LEMMA TableCounts ==
  ASSUME TypeOK, TypeOK', CountInv, UNCHANGED <<pass, executions, now>>,
         \A s \in Schedules : schedules[s] # Unborn => schedules'[s] # Unborn,
         \A f \in Fires : f[2] <= now /\ schedules'[f[1]] = f[2] => schedules[f[1]] = f[2]
  PROVE  CountInv'
<1>1. ASSUME NEW q \in Procs PROVE Seen(pass[q])'
  <2>1. \A f \in Handled(pass[q]) : f[1] \in Schedules /\ schedules[f[1]] # Unborn /\ f[2] <= pass[q].at
    BY DEF CountInv, Seen, TypeOK, Pass, Handled, Fires
  <2> QED
    BY <2>1 DEF CountInv, Seen, Handled
<1>2. ASSUME NEW f \in Fires PROVE Counted(f)'
  <2>1. Late(f)' = Late(f) /\ Carriers(f)' = Carriers(f)
    BY DEF Late, Touches, Carriers
  <2>2. CASE f[2] <= now /\ schedules[f[1]] = f[2]
    BY <1>1, <1>2, <2>1, <2>2, CountedStep DEF Owing
  <2>3. CASE f[2] <= now /\ schedules[f[1]] # f[2]
    <3>1. Owing(f)' = Owing(f)
      BY <2>1, <2>3 DEF Owing
    <3> QED
      BY <1>1, <1>2, <2>1, <2>3, <3>1, CountedStep
  <2>4. CASE ~(f[2] <= now)
    BY <2>4 DEF CountInv, Counted
  <2> QED
    BY <2>2, <2>3, <2>4
<1> QED
  BY <1>1, <1>2 DEF CountInv

\* The clock: no pass carries a run of the minute that begins.
LEMMA TickCounts ==
  ASSUME TypeOK, TypeOK', CountInv, Tick
  PROVE  CountInv'
<1>1. now \in Nat /\ now' = now + 1 /\ UNCHANGED <<schedules, pass, executions>>
  BY CronAssumptions DEF Tick, TypeOK
<1>2. \A q \in Procs : pass[q].at \in Nat
  BY CronAssumptions DEF TypeOK, Pass
<1>3. \A q \in Procs : Seen(pass[q])'
  BY <1>1, <1>2 DEF CountInv, Seen, Handled
<1>4. ASSUME NEW f \in Fires PROVE Counted(f)'
  <2>0. f[2] \in Nat /\ executions[f] \in Nat
    BY CronAssumptions DEF TypeOK, Fires, Minutes
  <2>1. Late(f)' = Late(f) /\ Owing(f)' = Owing(f) /\ executions'[f] = executions[f]
    BY <1>1 DEF Late, Touches, Owing, Carriers
  <2>2. CASE f[2] <= now \/ now + 1 < f[2]
    BY <1>1, <2>0, <2>1, <2>2 DEF CountInv, Counted
  <2>3. CASE f[2] = now + 1
    <3>1. executions[f] = 0
      BY <1>1, <2>3 DEF CountInv, Counted
    <3> DEFINE n == Cardinality(Late(f))
               o == Cardinality(Owing(f))
    <3>2. n \in Nat /\ o \in Nat /\ o <= n /\ IsFiniteSet(Late(f))
      BY CountedSets DEF CountInv
    <3>3. Carriers(f) = {}
      BY <1>1, <1>2, <2>3 DEF Carriers, CountInv, Seen, Handled
    <3>4. CASE schedules[f[1]] # f[2]
      <4>1. o = 0
        BY <3>3, <3>4, FS_EmptySet DEF Owing
      <4>2. 0 * (0 + 1) <= n * (n + 1)
        BY <3>2, SumsGrow
      <4> HIDE DEF n, o
      <4>3. 2 * (executions[f] + o) <= n * (n + 1)
        BY <3>1, <3>2, <4>1, <4>2
      <4> QED
        BY <1>1, <2>1, <2>3, <4>3 DEF Counted, n, o
    <3>5. CASE schedules[f[1]] = f[2]
      <4>1. o = n
        BY <3>5 DEF Owing
      <4> HIDE DEF n, o
      <4>2. 2 * n <= n * (n + 1)
        <5>1. CASE n = 0
          BY <5>1
        <5>2. CASE n >= 1
          <6>1. 0 * (0 + 1) + 2 * n <= n * (n + 1)
            BY <3>2, <5>2, SumsStep
          <6> QED
            BY <3>2, <6>1
        <5> QED
          BY <3>2, <5>1, <5>2
      <4>3. 2 * (executions[f] + o) <= n * (n + 1)
        BY <3>1, <3>2, <4>1, <4>2
      <4> QED
        BY <1>1, <2>1, <2>3, <4>3 DEF Counted, n, o
    <3> QED
      BY <3>4, <3>5
  <2> QED
    BY <1>1, <2>0, <2>2, <2>3
<1> QED
  BY <1>3, <1>4 DEF CountInv

LEMMA PassStepCounts ==
  ASSUME TypeOK, TypeOK', PassesOK, CountInv, NEW p \in Procs, PassStep(p) \/ ProcessDies(p)
  PROVE  CountInv'
<1>0. /\ pass[p] \in Pass /\ pass \in [Procs -> Pass] /\ now \in 0..MaxTime /\ Seen(pass[p])
  BY DEF TypeOK, CountInv
<1>1. CASE BeginPass(p)
  <2> DEFINE x == [NoPass EXCEPT !.phase = "rows", !.at = now, !.todo = DueFires]
  <2>1. x.phase = "rows" /\ x.fired = {} /\ x.missed = {} /\ x.at = now /\ x.todo = DueFires
    BY DEF NoPass
  <2>2. pass' = [pass EXCEPT ![p] = x] /\ UNCHANGED <<now, schedules, executions>>
    BY <1>1 DEF BeginPass
  <2> HIDE DEF x
  <2>3. \A f \in DueFires : f[2] <= now /\ schedules[f[1]] # Unborn
    BY CronAssumptions DEF DueFires, Due, Fires, Minutes
  <2>4. Seen(x)
    BY <1>0, <2>1, <2>3, CronAssumptions DEF Seen, Handled
  <2> QED
    BY <2>1, <2>2, <2>4, PassCounts
<1>2. ASSUME NEW x, pass' = [pass EXCEPT ![p] = x], UNCHANGED <<now, schedules, executions>>,
             x.phase \notin {"idle", "down"}, x.at = pass[p].at, Handled(x) \subseteq Handled(pass[p]),
             x.todo \cup x.fired \subseteq pass[p].todo \cup pass[p].fired
      PROVE  CountInv'
  <2>1. Seen(x)
    BY <1>0, <1>2 DEF Seen
  <2> QED
    BY <1>2, <2>1, PassCounts
<1>3. CASE Enqueue(p)
  <2> DEFINE x == [pass[p] EXCEPT !.phase = "rows", !.job = None]
  <2>1. x.phase = "rows" /\ x.at = pass[p].at /\ Handled(x) = Handled(pass[p])
        /\ x.todo = pass[p].todo /\ x.fired = pass[p].fired
    BY <1>0 DEF Pass, Handled
  <2>2. pass' = [pass EXCEPT ![p] = x] /\ UNCHANGED <<now, schedules, executions>>
    BY <1>0, <1>3 DEF Enqueue
  <2> HIDE DEF x
  <2> QED
    BY <1>2, <2>1, <2>2
<1>4. CASE LockTimeout(p) \/ \E f \in Fires : NoNextRun(p, f)
  <2> DEFINE x == [pass[p] EXCEPT !.phase = "raised"]
  <2>1. x.phase = "raised" /\ x.at = pass[p].at /\ Handled(x) = Handled(pass[p])
        /\ x.todo = pass[p].todo /\ x.fired = pass[p].fired
    BY <1>0 DEF Pass, Handled
  <2>2. pass' = [pass EXCEPT ![p] = x] /\ UNCHANGED <<now, schedules, executions>>
    BY <1>0, <1>4 DEF LockTimeout, NoNextRun
  <2> HIDE DEF x
  <2> QED
    BY <1>2, <2>1, <2>2
<1>5. CASE \E f \in Fires : MissFire(p, f)
  <2>1. PICK f \in Fires : MissFire(p, f)
    BY <1>5
  <2> DEFINE x == [pass[p] EXCEPT !.todo = @ \ {f}, !.missed = @ \cup {f},
                                  !.phase = IF AuditSharesDb THEN "raised" ELSE "rows"]
  <2>2. f \in pass[p].todo
    BY <2>1 DEF MissFire, Handles
  <2>3. x.phase \in {"raised", "rows"} /\ x.at = pass[p].at /\ Handled(x) \subseteq Handled(pass[p])
        /\ x.todo \subseteq pass[p].todo /\ x.fired = pass[p].fired
    BY <1>0, <2>2 DEF Pass, Handled
  <2>4. pass' = [pass EXCEPT ![p] = x] /\ UNCHANGED <<now, schedules, executions>>
    BY <1>0, <2>1 DEF MissFire
  <2> HIDE DEF x
  <2> QED
    BY <1>2, <2>3, <2>4
<1>6. CASE \E f \in Fires : TriggerFire(p, f)
  <2>1. PICK f \in Fires : TriggerFire(p, f)
    BY <1>6
  <2> DEFINE x == [pass[p] EXCEPT !.todo = @ \ {f}, !.fired = @ \cup {f}, !.phase = "enqueue", !.job = f]
  <2>2. f \in pass[p].todo
    BY <2>1 DEF TriggerFire, Handles
  <2>3. x.phase = "enqueue" /\ x.at = pass[p].at /\ Handled(x) \subseteq Handled(pass[p])
        /\ x.todo \cup x.fired \subseteq pass[p].todo \cup pass[p].fired
    BY <1>0, <2>2 DEF Pass, Handled
  <2>4. pass' = [pass EXCEPT ![p] = x] /\ UNCHANGED <<now, schedules, executions>>
    BY <1>0, <2>1 DEF TriggerFire
  <2> HIDE DEF x
  <2> QED
    BY <1>2, <2>3, <2>4
<1>7. CASE RollbackPass(p) \/ ProcessRestarts(p) \/ ProcessDies(p)
  <2>1. PICK x \in {NoPass, [NoPass EXCEPT !.phase = "down"]} : pass' = [pass EXCEPT ![p] = x]
    BY <1>7 DEF RollbackPass, ProcessRestarts, ProcessDies
  <2>2. x.at = 0 /\ x.todo = {} /\ x.fired = {} /\ x.missed = {}
    BY DEF NoPass
  <2>3. UNCHANGED <<now, schedules, executions>>
    BY <1>7 DEF RollbackPass, ProcessRestarts, ProcessDies
  <2>4. Seen(x)
    BY <1>0, <2>2, CronAssumptions DEF Seen, Handled
  <2> QED
    BY <2>1, <2>2, <2>3, <2>4, PassCounts DEF Handled
<1> QED
  BY <1>1, <1>3, <1>4, <1>5, <1>6, <1>7, CommitCounts DEF PassStep

LEMMA CountsStay == TypeOK /\ TypeOK' /\ PassesOK /\ CountInv /\ [Next]_vars => CountInv'
<1> SUFFICES ASSUME TypeOK, TypeOK', PassesOK, CountInv, [Next]_vars PROVE CountInv'
  OBVIOUS
<1>1. ASSUME NEW p \in Procs, NEW s \in Schedules, CreateSchedule(p, s) \/ DeleteSchedule(p, s)
      PROVE  CountInv'
  <2>1. PICK r : /\ schedules' = [schedules EXCEPT ![s] = r] /\ UNCHANGED <<now, pass, executions>>
                 /\ r = Deleted \/ (r = NextRun(s, now) /\ HasNextRun(s, now))
    BY <1>1 DEF CreateSchedule, DeleteSchedule
  <2>2. now \in 0..MaxTime /\ now \in Nat
    BY CronAssumptions DEF TypeOK
  <2>3. r = Deleted \/ (r \in Nat /\ r > now)
    BY <2>1, <2>2, NextRunIsLater, CronAssumptions DEF Minutes
  <2>4. schedules'[s] = r /\ \A z \in Schedules \ {s} : schedules'[z] = schedules[z]
    BY <2>1 DEF TypeOK
  <2>5. \A f \in Fires : f[1] \in Schedules /\ f[2] \in Nat
    BY CronAssumptions DEF Fires, Minutes
  <2>6. \A f \in Fires : f[2] <= now /\ schedules'[f[1]] = f[2] => schedules[f[1]] = f[2]
    BY <2>2, <2>3, <2>4, <2>5, CronAssumptions
  <2>7. \A z \in Schedules : schedules[z] # Unborn => schedules'[z] # Unborn
    BY <2>3, <2>4, CronAssumptions
  <2> QED
    BY <2>1, <2>6, <2>7, TableCounts
<1>2. CASE UNCHANGED vars
  BY <1>2, TableCounts DEF vars
<1> QED
  BY <1>1, <1>2, TickCounts, PassStepCounts DEF Next

\* scheduler.py, _evaluate_schedules reads the due rows before it takes the write
\* lock: with n processes one fire starts at most 1 + 2 + ... + n executions,
\* whatever is rolled back, deleted or restarted; for any number of processes.
THEOREM FiresAreBounded == Spec => []FewExecutionsPerFire
<1>1. Init => CountInv
  <2> SUFFICES ASSUME Init PROVE CountInv
    OBVIOUS
  <2>1. \A p \in Procs : pass[p] = NoPass
    BY DEF Init
  <2>2. \A p \in Procs : Seen(pass[p])
    BY <2>1, CronAssumptions DEF Init, Seen, Handled, NoPass
  <2>3. ASSUME NEW f \in Fires PROVE Counted(f)
    <3>1. executions[f] = 0 /\ f[1] \in Schedules /\ f[2] \in Nat
      BY CronAssumptions DEF Init, Fires, Minutes
    <3>2. schedules[f[1]] = Unborn /\ Unborn # f[2]
      BY <3>1, CronAssumptions DEF Init
    <3>3. Carriers(f) = {}
      BY <2>1 DEF Carriers, NoPass
    <3>4. Cardinality(Owing(f)) = 0
      BY <3>2, <3>3, FS_EmptySet DEF Owing
    <3>5. Late(f) \subseteq Procs
      BY DEF Late
    <3>6. Cardinality(Late(f)) \in Nat
      BY <3>5, FS_Subset, FS_CardinalityType, CronAssumptions
    <3>7. 0 * (0 + 1) <= Cardinality(Late(f)) * (Cardinality(Late(f)) + 1)
      BY <3>6, SumsGrow
    <3> QED
      BY <3>1, <3>4, <3>7 DEF Counted
  <2> QED
    BY <2>2, <2>3 DEF CountInv
<1>2. TypeOK /\ CountInv => FewExecutionsPerFire
  <2> SUFFICES ASSUME TypeOK, CountInv, NEW f \in Fires
               PROVE  2 * executions[f] <= Cardinality(Procs) * (Cardinality(Procs) + 1)
    BY DEF FewExecutionsPerFire
  <2> DEFINE n == Cardinality(Procs)
             m == Cardinality(Late(f))
             o == Cardinality(Owing(f))
  <2>1. executions[f] \in Nat /\ now \in Nat /\ f[2] \in Nat
    BY CronAssumptions DEF TypeOK, Fires, Minutes
  <2>2. o \in Nat /\ m \in Nat
    BY CountedSets DEF CountInv
  <2>3. n \in Nat /\ m <= n
    <3>1. Late(f) \subseteq Procs
      BY DEF Late
    <3> QED
      BY <3>1, FS_Subset, FS_CardinalityType, CronAssumptions
  <2>4. (now < f[2] => executions[f] = 0) /\ (f[2] <= now => 2 * (executions[f] + o) <= m * (m + 1))
    BY DEF CountInv, Counted
  <2> HIDE DEF n, m, o
  <2>5. m * (m + 1) <= n * (n + 1) /\ m * (m + 1) \in Nat /\ n * (n + 1) \in Nat
    BY <2>2, <2>3, SumsGrow
  <2>6. 2 * executions[f] <= n * (n + 1)
    BY <2>1, <2>2, <2>3, <2>4, <2>5
  <2> QED
    BY <2>6 DEF n
<1> QED
  BY <1>1, <1>2, CountsStay, PassInvariant, PTL DEF Spec

-----------------------------------------------------------------------------
(* One process.                                                            *)

\* What pass x knows of the rows.
Current(x) ==
  /\ x.at <= now
  /\ x.phase = "idle" => Handled(x) = {}
  /\ \A f \in Handled(x) : schedules[f[1]] = f[2] /\ f[2] <= x.at
  /\ \A f \in x.missed : x.at - f[2] > MaxLag

Behind(f) == schedules[f[1]] = Deleted \/ (schedules[f[1]] \in Nat /\ schedules[f[1]] > f[2])

FireInv ==
  /\ \A p \in Procs : Current(pass[p])
  /\ \A f \in Fires : executions[f] <= 1 /\ (executions[f] > 0 => Behind(f))

\* A commit moves the schedules it handled past the time of the pass.
LEMMA AdvancedMoves ==
  ASSUME TypeOK, PassesOK, FireInv, NEW p \in Procs, NEW s \in Schedules
  PROVE  \/ /\ Advanced(p)[s] = schedules[s]
            /\ \A f \in pass[p].fired \cup pass[p].missed : f[1] # s
         \/ /\ Alive(s) /\ schedules[s] \in Nat /\ <<s, schedules[s]>> \in pass[p].fired \cup pass[p].missed
            /\ Advanced(p)[s] \in Nat /\ Advanced(p)[s] > pass[p].at /\ schedules[s] <= pass[p].at
<1>1. pass[p].at \in 0..MaxTime /\ pass[p].fired \subseteq Fires /\ pass[p].missed \subseteq Fires
  BY DEF PassesOK, PassOK, Pass
<1>2. CASE \E f \in pass[p].fired \cup pass[p].missed : f[1] = s
  <2>1. PICK f \in pass[p].fired \cup pass[p].missed : f[1] = s
    BY <1>2
  <2>2. f \in Fires /\ f = <<s, f[2]>> /\ f[2] \in Minutes
    BY <1>1, <2>1 DEF Fires
  <2>3. schedules[s] = f[2] /\ f[2] <= pass[p].at
    BY <2>1 DEF FireInv, Current, Handled
  <2>4. f[2] \in Nat
    BY <2>2, CronAssumptions DEF Minutes
  <2>5. Alive(s)
    BY <2>3, <2>4, CronAssumptions DEF Alive
  <2>6. Advanced(p)[s] = NextRun(s, pass[p].at)
    BY <2>1, <2>5 DEF Advanced
  <2>7. NextRun(s, pass[p].at) \in Minutes /\ NextRun(s, pass[p].at) > pass[p].at
    BY <1>1, <2>1, NextRunIsLater DEF PassesOK, PassOK
  <2>8. NextRun(s, pass[p].at) \in Nat
    BY <2>7, CronAssumptions DEF Minutes
  <2> QED
    BY <2>1, <2>2, <2>3, <2>4, <2>5, <2>6, <2>7, <2>8
<1>3. CASE \A f \in pass[p].fired \cup pass[p].missed : f[1] # s
  BY <1>3 DEF Advanced
<1> QED
  BY <1>2, <1>3

\* Process p goes on with x, and no schedule or execution changes.
LEMMA PassRests ==
  ASSUME TypeOK, PassesOK, FireInv, \A p, q \in Procs : p = q, NEW p \in Procs, NEW x,
         pass' = [pass EXCEPT ![p] = x], UNCHANGED <<now, schedules, executions>>, Current(x)
  PROVE  FireInv'
<1>1. \A q \in Procs : pass'[q] = x
  BY DEF TypeOK
<1>2. Current(x)'
  BY DEF Current
<1>3. \A q \in Procs : Current(pass[q])'
  BY <1>1, <1>2 DEF Current
<1> QED
  BY <1>3 DEF FireInv, Behind

LEMMA PassFires ==
  ASSUME TypeOK, PassesOK, FireInv, \A p, q \in Procs : p = q, NEW p \in Procs,
         PassStep(p) \/ ProcessDies(p)
  PROVE  FireInv'
<1>0. /\ pass[p] \in Pass /\ pass \in [Procs -> Pass] /\ now \in 0..MaxTime /\ MaxLag \in Nat
      /\ Current(pass[p])
  BY CronAssumptions DEF TypeOK, FireInv
<1>2. CASE BeginPass(p)
  <2> DEFINE x == [NoPass EXCEPT !.phase = "rows", !.at = now, !.todo = DueFires]
  <2>1. x.phase = "rows" /\ x.fired = {} /\ x.missed = {} /\ x.at = now /\ x.todo = DueFires
    BY DEF NoPass
  <2>2. pass' = [pass EXCEPT ![p] = x] /\ UNCHANGED <<now, schedules, executions>>
    BY <1>2 DEF BeginPass
  <2> HIDE DEF x
  <2>3. Current(x)
    BY <1>0, <2>1 DEF Current, Handled, DueFires, Due
  <2> QED
    BY <2>2, <2>3, PassRests
<1>3. ASSUME NEW x, pass' = [pass EXCEPT ![p] = x], UNCHANGED <<now, schedules, executions>>,
             x.phase # "idle", x.at = pass[p].at, Handled(x) \subseteq Handled(pass[p]),
             \A f \in x.missed \ pass[p].missed : x.at - f[2] > MaxLag
      PROVE  FireInv'
  <2>1. Current(x)
    BY <1>0, <1>3 DEF Current
  <2> QED
    BY <1>3, <2>1, PassRests
<1>4. CASE Enqueue(p)
  <2> DEFINE x == [pass[p] EXCEPT !.phase = "rows", !.job = None]
  <2>1. /\ x.phase = "rows" /\ x.at = pass[p].at /\ Handled(x) = Handled(pass[p]) /\ x.missed = pass[p].missed
    BY <1>0 DEF Pass, Handled
  <2>2. pass' = [pass EXCEPT ![p] = x] /\ UNCHANGED <<now, schedules, executions>>
    BY <1>0, <1>4 DEF Enqueue
  <2> HIDE DEF x
  <2> QED
    BY <1>3, <2>1, <2>2
<1>5. CASE LockTimeout(p) \/ \E f \in Fires : NoNextRun(p, f)
  <2> DEFINE x == [pass[p] EXCEPT !.phase = "raised"]
  <2>1. /\ x.phase = "raised" /\ x.at = pass[p].at /\ Handled(x) = Handled(pass[p]) /\ x.missed = pass[p].missed
    BY <1>0 DEF Pass, Handled
  <2>2. pass' = [pass EXCEPT ![p] = x] /\ UNCHANGED <<now, schedules, executions>>
    BY <1>0, <1>5 DEF LockTimeout, NoNextRun
  <2> HIDE DEF x
  <2> QED
    BY <1>3, <2>1, <2>2
<1>6. CASE \E f \in Fires : MissFire(p, f)
  <2>1. PICK f \in Fires : MissFire(p, f)
    BY <1>6
  <2> DEFINE x == [pass[p] EXCEPT !.todo = @ \ {f}, !.missed = @ \cup {f},
                                  !.phase = IF AuditSharesDb THEN "raised" ELSE "rows"]
  <2>2. f \in pass[p].todo /\ pass[p].at - f[2] > MaxLag
    BY <2>1 DEF MissFire, Handles, Lag
  <2>3. /\ x.phase # "idle" /\ x.at = pass[p].at /\ Handled(x) \subseteq Handled(pass[p])
        /\ x.missed = pass[p].missed \cup {f}
    BY <1>0, <2>2 DEF Pass, Handled
  <2>4. pass' = [pass EXCEPT ![p] = x] /\ UNCHANGED <<now, schedules, executions>>
    BY <1>0, <2>1 DEF MissFire
  <2> HIDE DEF x
  <2> QED
    BY <1>3, <2>2, <2>3, <2>4
<1>7. CASE \E f \in Fires : TriggerFire(p, f)
  <2>1. PICK f \in Fires : TriggerFire(p, f)
    BY <1>7
  <2> DEFINE x == [pass[p] EXCEPT !.todo = @ \ {f}, !.fired = @ \cup {f}, !.phase = "enqueue", !.job = f]
  <2>2. f \in pass[p].todo
    BY <2>1 DEF TriggerFire, Handles
  <2>3. /\ x.phase = "enqueue" /\ x.at = pass[p].at /\ Handled(x) \subseteq Handled(pass[p])
        /\ x.missed = pass[p].missed
    BY <1>0, <2>2 DEF Pass, Handled
  <2>4. pass' = [pass EXCEPT ![p] = x] /\ UNCHANGED <<now, schedules, executions>>
    BY <1>0, <2>1 DEF TriggerFire
  <2> HIDE DEF x
  <2> QED
    BY <1>3, <2>3, <2>4
<1>8. CASE RollbackPass(p) \/ ProcessRestarts(p)
  <2>1. pass' = [pass EXCEPT ![p] = NoPass] /\ UNCHANGED <<now, schedules, executions>>
    BY <1>8 DEF RollbackPass, ProcessRestarts
  <2>2. Current(NoPass)
    BY <1>0 DEF Current, Handled, NoPass
  <2> QED
    BY <2>1, <2>2, PassRests
<1>9. CASE ProcessDies(p)
  <2> DEFINE x == [NoPass EXCEPT !.phase = "down"]
  <2>1. pass' = [pass EXCEPT ![p] = x] /\ UNCHANGED <<now, schedules, executions>>
    BY <1>9 DEF ProcessDies
  <2>2. Current(x)
    BY <1>0 DEF Current, Handled, NoPass
  <2> HIDE DEF x
  <2> QED
    BY <2>1, <2>2, PassRests
<1>10. CASE CommitPass(p)
  <2>1. /\ pass' = [pass EXCEPT ![p] = NoPass] /\ now' = now /\ schedules' = Advanced(p)
        /\ executions' = [f \in Fires |-> executions[f] + IF f \in pass[p].fired THEN 1 ELSE 0]
    BY <1>10 DEF CommitPass
  <2>2. ASSUME NEW q \in Procs PROVE Current(pass[q])'
    <3>1. pass'[q] = NoPass
      BY <1>0, <2>1
    <3> QED
      BY <1>0, <2>1, <3>1 DEF Current, Handled, NoPass
  <2>3. ASSUME NEW f \in Fires PROVE executions'[f] <= 1 /\ (executions'[f] > 0 => Behind(f)')
    <3>1. f[1] \in Schedules /\ f[2] \in Nat /\ f = <<f[1], f[2]>> /\ executions[f] \in Nat
      BY CronAssumptions DEF Fires, Minutes, TypeOK
    <3>2. executions[f] <= 1 /\ (executions[f] > 0 => Behind(f))
      BY DEF FireInv
    <3>3. pass[p].at \in Nat
      BY <1>0 DEF Pass
    <3>4. CASE f \in pass[p].fired
      <4>1. schedules[f[1]] = f[2] /\ f[2] <= pass[p].at
        BY <1>0, <3>4 DEF Current, Handled
      <4>2. executions[f] = 0
        BY <3>1, <3>2, <4>1, CronAssumptions DEF Behind
      <4>3. schedules'[f[1]] \in Nat /\ schedules'[f[1]] > pass[p].at
        BY <2>1, <3>1, <3>4, AdvancedMoves
      <4> QED
        BY <2>1, <3>1, <3>3, <3>4, <4>1, <4>2, <4>3 DEF Behind
    <3>5. CASE f \notin pass[p].fired
      <4>1. executions'[f] = executions[f]
        BY <2>1, <3>1, <3>5
      <4>2. ASSUME executions[f] > 0 PROVE Behind(f)'
        <5>1. Behind(f)
          BY <3>2, <4>2
        <5>2. CASE schedules'[f[1]] = schedules[f[1]]
          BY <5>1, <5>2 DEF Behind
        <5>3. CASE schedules'[f[1]] # schedules[f[1]]
          <6>1. /\ Alive(f[1]) /\ schedules[f[1]] \in Nat /\ schedules[f[1]] <= pass[p].at
                /\ schedules'[f[1]] \in Nat /\ schedules'[f[1]] > pass[p].at
            BY <2>1, <3>1, <5>3, AdvancedMoves
          <6> QED
            BY <3>1, <3>3, <5>1, <6>1 DEF Behind, Alive
        <5> QED
          BY <5>2, <5>3
      <4> QED
        BY <3>2, <4>1, <4>2
    <3> QED
      BY <3>4, <3>5
  <2> QED
    BY <2>2, <2>3 DEF FireInv
<1> QED
  BY <1>2, <1>4, <1>5, <1>6, <1>7, <1>8, <1>9, <1>10 DEF PassStep

LEMMA FiresStay ==
  (\A p, q \in Procs : p = q) => (TypeOK /\ PassesOK /\ FireInv /\ [Next]_vars => FireInv')
<1> SUFFICES ASSUME \A p, q \in Procs : p = q, TypeOK, PassesOK, FireInv, [Next]_vars
             PROVE  FireInv'
  OBVIOUS
<1>1. ASSUME NEW p \in Procs, NEW s \in Schedules, CreateSchedule(p, s) \/ DeleteSchedule(p, s)
      PROVE  FireInv'
  <2>1. pass[p].phase = "idle" /\ UNCHANGED <<now, pass, executions>>
    BY <1>1 DEF CreateSchedule, DeleteSchedule, CanWrite
  <2>2. Handled(pass[p]) = {} /\ \A q \in Procs : q = p
    BY <2>1 DEF FireInv, Current
  <2>3. \A q \in Procs : Current(pass[q])'
    BY <2>1, <2>2 DEF FireInv, Current, Handled
  <2>4. ASSUME NEW f \in Fires, Behind(f) PROVE Behind(f)'
    <3>1. CASE f[1] # s
      BY <1>1, <2>4, <3>1 DEF CreateSchedule, DeleteSchedule, Behind, TypeOK, Fires
    <3>2. CASE f[1] = s
      <4>1. schedules[s] # Unborn
        BY <2>4, <3>2, CronAssumptions DEF Behind
      <4>2. schedules' = [schedules EXCEPT ![s] = Deleted]
        BY <1>1, <4>1 DEF CreateSchedule, DeleteSchedule
      <4> QED
        BY <3>2, <4>2 DEF Behind, TypeOK
    <3> QED
      BY <3>1, <3>2
  <2> QED
    BY <2>1, <2>3, <2>4 DEF FireInv
<1>2. CASE Tick \/ UNCHANGED vars
  <2>1. UNCHANGED <<schedules, pass, executions>> /\ now' \in Nat /\ now <= now' /\ now \in Nat
    BY <1>2, CronAssumptions DEF Tick, vars, TypeOK
  <2>2. \A q \in Procs : pass[q].at \in Nat
    BY DEF PassesOK, PassOK, Pass
  <2> QED
    BY <2>1, <2>2 DEF FireInv, Current, Behind, Handled
<1> QED
  BY <1>1, <1>2, PassFires DEF Next

LEMMA FireInvariant ==
  ASSUME \A p, q \in Procs : p = q
  PROVE  Spec => [](TypeOK /\ PassesOK /\ FireInv)
<1>1. Init => FireInv
  BY CronAssumptions DEF Init, FireInv, Current, Handled, NoPass
<1>2. TypeOK /\ PassesOK /\ FireInv /\ [Next]_vars => FireInv'
  BY FiresStay
<1> QED
  BY <1>1, <1>2, PassInvariant, PTL DEF Spec

\* scheduler.py: in one process a fire starts at most one execution, wherever its
\* passes are rolled back and however often the process dies.
THEOREM FiresExecuteOnce ==
  ASSUME \A p, q \in Procs : p = q
  PROVE  Spec => []OneExecutionPerFire
<1>1. FireInv => OneExecutionPerFire
  BY DEF FireInv, OneExecutionPerFire
<1> QED
  BY <1>1, FireInvariant, PTL

\* Who changes the next run of a schedule that has a row.
LEMMA ScheduleMoves ==
  ASSUME \A p, q \in Procs : p = q, TypeOK, PassesOK, FireInv, [Next]_vars,
         NEW s \in Schedules, Alive(s), schedules'[s] # schedules[s]
  PROVE  \/ schedules'[s] = Deleted
         \/ \E p \in Procs :
              /\ CommitPass(p) /\ <<s, schedules[s]>> \in pass[p].fired \cup pass[p].missed
              /\ schedules[s] \in Nat /\ schedules'[s] \in Nat
              /\ schedules'[s] > pass[p].at /\ schedules[s] <= pass[p].at
<1>1. ASSUME NEW p \in Procs, CommitPass(p)
      PROVE  \/ schedules'[s] = Deleted
             \/ \E q \in Procs :
                  /\ CommitPass(q) /\ <<s, schedules[s]>> \in pass[q].fired \cup pass[q].missed
                  /\ schedules[s] \in Nat /\ schedules'[s] \in Nat
                  /\ schedules'[s] > pass[q].at /\ schedules[s] <= pass[q].at
  <2>1. schedules' = Advanced(p)
    BY <1>1 DEF CommitPass
  <2> QED
    BY <1>1, <2>1, AdvancedMoves
<1>2. ASSUME NEW p \in Procs, PassStep(p) \/ ProcessDies(p) PROVE CommitPass(p)
  BY <1>2 DEF PassStep, BeginPass, Enqueue, LockTimeout, RollbackPass, ProcessRestarts, ProcessDies,
              NoNextRun, MissFire, TriggerFire
<1>3. ASSUME NEW p \in Procs, NEW q \in Schedules, CreateSchedule(p, q) \/ DeleteSchedule(p, q)
      PROVE  schedules'[s] = Deleted
  BY <1>3 DEF CreateSchedule, DeleteSchedule, TypeOK, Alive
<1>4. ~Tick /\ ~UNCHANGED vars
  BY DEF Tick, vars
<1> QED
  BY <1>1, <1>2, <1>3, <1>4 DEF Next

\* In one process next_run_at never goes back, and a pass leaves no schedule due at
\* the time it looked at.
THEOREM RunsAdvance ==
  ASSUME \A p, q \in Procs : p = q
  PROVE  Spec => NextRunAdvances
<1>1. ASSUME TypeOK, PassesOK, FireInv, [Next]_vars, NEW s \in Schedules,
             Alive(s), schedules'[s] # schedules[s], schedules'[s] # Deleted
      PROVE  schedules'[s] > schedules[s] /\ \E p \in Procs : schedules'[s] > pass[p].at
  <2>1. PICK p \in Procs :
          /\ schedules[s] \in Nat /\ schedules'[s] \in Nat
          /\ schedules'[s] > pass[p].at /\ schedules[s] <= pass[p].at
    BY <1>1, ScheduleMoves
  <2>2. pass[p].at \in Nat
    BY <1>1 DEF PassesOK, PassOK, Pass
  <2> QED
    BY <2>1, <2>2
<1>2. TypeOK /\ PassesOK /\ FireInv /\ [Next]_vars =>
        [\A s \in Schedules :
           Alive(s) /\ schedules'[s] # schedules[s] =>
             \/ schedules'[s] = Deleted
             \/ schedules'[s] > schedules[s] /\ \E p \in Procs : schedules'[s] > pass[p].at]_vars
  BY <1>1
<1> QED
  BY <1>2, FireInvariant, PTL DEF Spec, NextRunAdvances

\* In one process a run is dropped only after the allowed lag.
THEOREM RunsAreNotSkipped ==
  ASSUME \A p, q \in Procs : p = q
  PROVE  Spec => NoRunSkippedInTime
<1>1. ASSUME TypeOK, PassesOK, FireInv, [Next]_vars, NEW s \in Schedules,
             Alive(s), schedules'[s] \notin {schedules[s], Deleted}
      PROVE  executions'[<<s, schedules[s]>>] > 0 \/ now - schedules[s] > MaxLag
  <2> DEFINE f == <<s, schedules[s]>>
  <2>1. PICK p \in Procs :
          CommitPass(p) /\ f \in pass[p].fired \cup pass[p].missed /\ schedules[s] \in Nat
    BY <1>1, ScheduleMoves
  <2>2. pass[p].at \in Nat /\ pass[p].fired \subseteq Fires /\ now \in Nat /\ pass[p].at <= now
    BY <1>1, CronAssumptions DEF PassesOK, PassOK, Pass, TypeOK, FireInv, Current
  <2>3. CASE f \in pass[p].fired
    <3>1. f \in Fires /\ executions[f] \in Nat
      BY <1>1, <2>2, <2>3 DEF TypeOK
    <3>2. executions'[f] = executions[f] + 1
      BY <2>1, <2>3, <3>1 DEF CommitPass
    <3> QED
      BY <3>1, <3>2
  <2>4. CASE f \in pass[p].missed
    <3>1. pass[p].at - f[2] > MaxLag
      BY <1>1, <2>4 DEF FireInv, Current
    <3> QED
      BY <2>1, <2>2, <3>1, CronAssumptions
  <2> QED
    BY <2>1, <2>3, <2>4
<1>2. TypeOK /\ PassesOK /\ FireInv /\ [Next]_vars =>
        [\A s \in Schedules :
           Alive(s) /\ schedules'[s] \notin {schedules[s], Deleted} =>
             executions'[<<s, schedules[s]>>] > 0 \/ now - schedules[s] > MaxLag]_vars
  BY <1>1
<1> QED
  BY <1>2, FireInvariant, PTL DEF Spec, NoRunSkippedInTime
=============================================================================
