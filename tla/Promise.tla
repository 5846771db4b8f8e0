------------------------------ MODULE Promise ------------------------------
(***************************************************************************)
(* What infrastructure.AsyncResult and BatchAsyncResult promise, without    *)
(* goroutines, semaphores or channels: the outcome of an operation is set   *)
(* once and never changes, and whoever waits is told that very outcome, or  *)
(* gives up waiting, once.                                                  *)
(***************************************************************************)
CONSTANTS Promises,   \* one per operation started
          Outcomes,
          None,       \* no outcome yet, nobody told yet; itself no outcome
          Expired     \* what a waiter that gives up is told

VARIABLES outcome, told

promiseVars == <<outcome, told>>

PromiseInit == /\ outcome = [p \in Promises |-> None]
               /\ told = [p \in Promises |-> None]

Settled(p) == outcome[p] # None

\* A step may settle several operations: a batch refused as a whole does.
OutcomesKept == \A p \in Promises : Settled(p) => outcome'[p] = outcome[p]

ToldTheOutcome ==
    \A p \in Promises :
        \/ told'[p] = told[p]
        \/ /\ told[p] = None
           /\ told'[p] = Expired \/ (Settled(p) /\ told'[p] = outcome[p])

PromiseNext ==
    /\ outcome' \in [Promises -> Outcomes \cup {None}]
    /\ told' \in [Promises -> Outcomes \cup {None, Expired}]
    /\ OutcomesKept
    /\ ToldTheOutcome

PromiseSpec == PromiseInit /\ [][PromiseNext]_promiseVars
=============================================================================
