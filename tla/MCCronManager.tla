--------------------------- MODULE MCCronManager ---------------------------
(* Small instances of CronManager for TLC.                                  *)
EXTENDS CronManager, TLC

CONSTANTS a, b, c, d

(* a is RunJobNow of an asynchronous job and d what it submits; b and c are *)
(* runs that cron fires or RunJobNow of a synchronous job: with one worker  *)
(* and its queue of two, enough to wedge the pool.                          *)
SmallRuns  == {a, b, c, d}
SmallChild == (a :> d) @@ [r \in {b, c, d} |-> NoRun]
=============================================================================
