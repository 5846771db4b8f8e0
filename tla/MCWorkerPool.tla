---------------------------- MODULE MCWorkerPool ----------------------------
(* Small instances of WorkerPool for TLC.                                   *)
EXTENDS WorkerPool, TLC

CONSTANTS a, b, c, d, e

(* Two jobs that submit another one and one that does not: with one worker  *)
(* and its queue of two, enough to wedge the pool.                          *)
NestedJobs  == {a, b, c, d, e}
NestedChild == (a :> d) @@ (b :> e) @@ [j \in {c, d, e} |-> NoJob]

(* Two jobs that submit nothing.                                            *)
FlatJobs  == {a, b}
FlatChild == [j \in FlatJobs |-> NoJob]
=============================================================================
