---------------------------- MODULE JobLifecycle ----------------------------
(***************************************************************************)
(* What the job queue promises the API: the life of a background job,      *)
(* without workers, engine, copies of rows or crashes.  A job is submitted *)
(* once, is attempted at most MaxAttempts times, is only withdrawn while   *)
(* it waits, is only given up when its attempts are used, and never leaves *)
(* a final status.                                                         *)
(***************************************************************************)
EXTENDS Naturals

CONSTANTS Execs, MaxAttempts

VARIABLES
  status,   \* [Execs -> status of the job, "ABSENT" before it is submitted]
  attempt   \* [Execs -> attempts begun]

abstractVars == <<status, attempt>>

Init ==
  /\ status = [e \in Execs |-> "ABSENT"]
  /\ attempt = [e \in Execs |-> 0]

Becomes(e, s, n) == status'[e] = s /\ attempt'[e] = n

Submit(e) == status[e] = "ABSENT" /\ Becomes(e, "QUEUED", 0)

Take(e) ==
  /\ status[e] \in {"QUEUED", "RETRYING"}
  /\ attempt[e] < MaxAttempts
  /\ Becomes(e, "RUNNING", attempt[e] + 1)

Complete(e) == status[e] = "RUNNING" /\ Becomes(e, "COMPLETED", attempt[e])

\* The attempt failed, or the process died: the job waits for another attempt.
PutBack(e) ==
  /\ status[e] = "RUNNING"
  /\ attempt[e] < MaxAttempts
  /\ \E s \in {"QUEUED", "RETRYING"} : Becomes(e, s, attempt[e])

GiveUp(e) ==
  /\ status[e] = "RUNNING"
  /\ attempt[e] = MaxAttempts
  /\ Becomes(e, "FAILED", attempt[e])

Withdraw(e) ==
  /\ status[e] \in {"QUEUED", "RETRYING"}
  /\ Becomes(e, "CANCELLED", attempt[e])

JobStep(e) ==
  \/ Submit(e) \/ Take(e) \/ Complete(e) \/ PutBack(e) \/ GiveUp(e) \/ Withdraw(e)

Stays(e) == Becomes(e, status[e], attempt[e])

\* Jobs are independent; one step may move several (recovery after a restart).
Next ==
  /\ \A e \in Execs : JobStep(e) \/ Stays(e)
  /\ DOMAIN status' = Execs /\ DOMAIN attempt' = Execs

Spec == Init /\ [][Next]_abstractVars
=============================================================================
