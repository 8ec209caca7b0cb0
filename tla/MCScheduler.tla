---------------------------- MODULE MCScheduler -----------------------------
(* Scheduler with every job scheduled one tick ahead.                      *)
EXTENDS Scheduler

MCDelay == [j \in Job |-> 1]
=============================================================================
