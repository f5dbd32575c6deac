-------------------------- MODULE MCCronScheduler --------------------------
(* Small instances of CronScheduler. *)
EXTENDS CronScheduler, TLC

CONSTANTS s1, s2

\* s1 fires every minute, s2 every other minute.
Regular == (s1 :> 0..20) @@ (s2 :> {2 * i : i \in 0..10})
\* s2 matches once within the horizon and then no more (a leap day).
LeapDay == (s1 :> 0..20) @@ (s2 :> {1})
=============================================================================
