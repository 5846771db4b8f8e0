------------------------------ MODULE JobPool ------------------------------
(***************************************************************************)
(* What infrastructure.WorkerPool promises, without queue or workers: a job *)
(* is refused or accepted, an accepted job runs at most once, and a pool    *)
(* that has closed has run every job it accepted while it was open.  A job  *)
(* accepted later (Submit may still win its select against stopChan) is     *)
(* promised nothing.                                                        *)
(***************************************************************************)
CONSTANT Jobs

VARIABLES fate,   \* of each job: new, accepted, running, done or refused
          phase,  \* open, closing (Stop was called) or closed (no worker left)
          owed    \* the jobs accepted while the pool was open

poolVars == <<fate, phase, owed>>

Fates  == {"new", "accepted", "running", "done", "refused"}
Phases == {"open", "closing", "closed"}

PoolTypeOK == /\ fate \in [Jobs -> Fates]
              /\ phase \in Phases
              /\ owed \subseteq Jobs

PoolInit == /\ fate = [j \in Jobs |-> "new"]
            /\ phase = "open"
            /\ owed = {}

Become(j, from, to) == fate[j] = from /\ fate' = [fate EXCEPT ![j] = to]

Accept(j) == /\ Become(j, "new", "accepted")
             /\ owed' = IF phase = "open" THEN owed \cup {j} ELSE owed
             /\ UNCHANGED phase

Refuse(j) == Become(j, "new", "refused") /\ UNCHANGED <<phase, owed>>

\* Once no worker is left nothing runs.
Run(j) == /\ phase # "closed"
          /\ Become(j, "accepted", "running")
          /\ UNCHANGED <<phase, owed>>

Complete(j) == Become(j, "running", "done") /\ UNCHANGED <<phase, owed>>

BeginClose == phase = "open" /\ phase' = "closing" /\ UNCHANGED <<fate, owed>>

EndClose == /\ phase = "closing"
            /\ \A j \in owed : fate[j] = "done"
            /\ \A j \in Jobs : fate[j] # "running"
            /\ phase' = "closed"
            /\ UNCHANGED <<fate, owed>>

PoolNext == \/ \E j \in Jobs : Accept(j) \/ Refuse(j) \/ Run(j) \/ Complete(j)
            \/ BeginClose
            \/ EndClose

PoolSpec == PoolInit /\ [][PoolNext]_poolVars
=============================================================================
