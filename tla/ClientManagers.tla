--------------------------- MODULE ClientManagers ---------------------------
(***************************************************************************)
(* The infrastructure managers that own a client and a worker pool: redis,  *)
(* kafka, minio and grafana with one of each, postgres and mongo with one   *)
(* per configured connection behind a connection manager.  Modelled are     *)
(* their construction, SubmitAsyncJob, the look-up of a connection and      *)
(* Close, which run on goroutines of their own.  The inside of a WorkerPool *)
(* is module WorkerPool; here a pool keeps the promise of module JobPool.   *)
(***************************************************************************)
EXTENDS Integers, FiniteSets

CONSTANTS Names,    \* the configured connections
          Solo,     \* the one of a manager that has a single client
          Jobs,     \* calls of SubmitAsyncJob
          Seekers   \* the jobs that look a connection up while they run

ASSUME ManagersAssumption == Solo \in Names /\ Seekers \subseteq Jobs

VARIABLES manager,     \* kind of the manager
          registered,  \* keys of m.connections
          client,      \* the client of each connection
          pool,        \* Pool of each connection
          once,        \* redis: the sync.Once of startPool
          closing,     \* CloseAll or Close: where it is and what is left
          job,         \* where each job is
          jobOn,       \* the connection it was submitted to
          early,       \* jobs the pool accepted before Close began
          saw          \* the client as the job found it

managerVars == <<manager, registered, client, pool, once, closing, job, jobOn, early, saw>>

Tenanted == {"postgres", "mongo"}
Managers == Tenanted \cup {"redis", "kafka", "minio", "grafana"}

JobPCs == {"new", "holds", "starting", "accepted", "running", "seeking",
           "done", "unknown", "dropped", "lost"}

ManagersTypeOK ==
    /\ manager \in Managers
    /\ registered \subseteq Names
    /\ client \in [Names -> {"nil", "open", "closed"}]
    /\ pool \in [Names -> {"nil", "open", "stopping", "stopped"}]
    /\ once \in {"fresh", "doing", "done"}
    /\ closing \in [at : {"idle", "pool", "client", "next", "done"}, todo : SUBSET Names]
    /\ job \in [Jobs -> JobPCs]
    /\ jobOn \in [Jobs -> Names]
    /\ early \subseteq Jobs
    /\ saw \in [Jobs -> {"none", "nil", "open", "closed"}]

\* The New... functions: which connections there are when the manager is
\* handed out.  A connection manager leaves out what does not connect; minio
\* returns a manager without client or pool when it is not configured; the
\* others return none at all then.  Only redis has no pool yet.
PostgresConnects == SUBSET Names
MongoConnects    == SUBSET Names
RedisConnects    == {{Solo}}
KafkaConnects    == {{Solo}}
MinioConnects    == {{}, {Solo}}
GrafanaConnects  == {{Solo}}

Connects(kind) ==
    CASE kind = "postgres" -> PostgresConnects
      [] kind = "mongo"    -> MongoConnects
      [] kind = "redis"    -> RedisConnects
      [] kind = "kafka"    -> KafkaConnects
      [] kind = "minio"    -> MinioConnects
      [] kind = "grafana"  -> GrafanaConnects

ManagersInit ==
    /\ manager \in Managers
    /\ registered \in Connects(manager)
    /\ client = [n \in Names |-> IF n \in registered THEN "open" ELSE "nil"]
    /\ pool = [n \in Names |-> IF n \in registered /\ manager # "redis"
                               THEN "open" ELSE "nil"]
    /\ once = "fresh"
    /\ closing = [at |-> "idle", todo |-> {}]
    /\ job = [j \in Jobs |-> "new"]
    /\ jobOn = [j \in Jobs |-> Solo]
    /\ early = {}
    /\ saw = [j \in Jobs |-> "none"]
-----------------------------------------------------------------------------
CloseRuns == closing.at \notin {"idle", "done"}

\* CloseAll holds mu from its first line to its last; the Close of a single
\* manager has no lock that a user of the manager waits for.
LookupBlocked == manager \in Tenanted /\ CloseRuns

JobGoes(j, from, to) == job[j] = from /\ job' = [job EXCEPT ![j] = to]

\* GetConnection, then SubmitAsyncJob on what it returned.
GetConnection(j, n) ==
    /\ ~ LookupBlocked
    /\ manager \in Tenanted \/ n = Solo
    /\ JobGoes(j, "new", IF manager \in Tenanted /\ n \notin registered
                         THEN "unknown" ELSE "holds")
    /\ jobOn' = [jobOn EXCEPT ![j] = n]
    /\ UNCHANGED <<manager, registered, client, pool, once, closing, early, saw>>

\* GetDefaultConnection: any connection, the order of a map's range.
GetDefaultConnection(j) ==
    /\ manager \in Tenanted
    /\ \E n \in (IF registered = {} THEN Names ELSE registered) : GetConnection(j, n)

\* startPool: once.Do keeps later callers waiting until the first is through.
StartPool(j) ==
    /\ manager = "redis" /\ once = "fresh"
    /\ JobGoes(j, "holds", "starting")
    /\ once' = "doing"
    /\ UNCHANGED <<manager, registered, client, pool, closing, jobOn, early, saw>>

PublishPool(j) ==
    /\ JobGoes(j, "starting", "holds")
    /\ once' = "done"
    /\ pool' = [pool EXCEPT ![jobOn[j]] = "open"]
    /\ UNCHANGED <<manager, registered, client, closing, jobOn, early, saw>>

\* What Submit does with the job, by the state of the pool it reaches: a pool
\* that is being stopped may still take it, a stopped one may let it lie in
\* the queue.  Without a pool a goroutine runs the job.
Submitted(state) ==
    CASE state = "open"     -> {"accepted"}
      [] state = "stopping" -> {"accepted", "dropped"}
      [] state = "stopped"  -> {"dropped", "lost"}
      [] state = "nil"      -> {"running"}

SubmitAsyncJob(j) ==
    /\ manager = "redis" => once = "done"
    /\ \E to \in Submitted(pool[jobOn[j]]) :
        /\ JobGoes(j, "holds", to)
        /\ early' = IF to = "accepted" /\ closing.at = "idle" THEN early \cup {j} ELSE early
    /\ UNCHANGED <<manager, registered, client, pool, once, closing, jobOn, saw>>

\* Bug: a worker that is told to stop leaves the queue to nobody.
TakeAsyncJobWhileOpen(j) ==
    /\ pool[jobOn[j]] = "open"
    /\ JobGoes(j, "accepted", "running")
    /\ UNCHANGED <<manager, registered, client, pool, once, closing, jobOn, early, saw>>

\* A worker takes the job: until the pool is stopped it has workers.
TakeAsyncJob(j) ==
    /\ pool[jobOn[j]] \in {"open", "stopping"}
    /\ JobGoes(j, "accepted", "running")
    /\ UNCHANGED <<manager, registered, client, pool, once, closing, jobOn, early, saw>>

\* The job uses the client and returns, or goes on to look a connection up.
UseClient(j) ==
    /\ JobGoes(j, "running", IF j \in Seekers THEN "seeking" ELSE "done")
    /\ saw' = [saw EXCEPT ![j] = client[jobOn[j]]]
    /\ UNCHANGED <<manager, registered, client, pool, once, closing, jobOn, early>>

FindConnection(j) ==
    /\ ~ LookupBlocked
    /\ JobGoes(j, "seeking", "done")
    /\ UNCHANGED <<manager, registered, client, pool, once, closing, jobOn, early, saw>>
-----------------------------------------------------------------------------
\* CloseAll, and Close of a single manager as a round over one connection.
CloseBegin ==
    /\ closing.at = "idle"
    /\ closing' = [at   |-> "next",
                   todo |-> IF manager \in Tenanted THEN registered ELSE {Solo}]
    /\ UNCHANGED <<manager, registered, client, pool, once, job, jobOn, early, saw>>

CloseGoes(from, to) == closing.at = from /\ closing' = [closing EXCEPT !.at = to]
BeingClosed == CHOOSE n \in closing.todo : TRUE

Unfinished(n) == {j \in Jobs : /\ jobOn[j] = n
                               /\ job[j] \in {"accepted", "running", "seeking"}}

\* Bug: the client is closed before the pool has drained.
StopPoolWithoutWaiting ==
    /\ closing.todo # {}
    /\ CloseGoes("next", "client")
    /\ pool' = [pool EXCEPT ![BeingClosed] = IF @ = "nil" THEN @ ELSE "stopping"]
    /\ UNCHANGED <<manager, registered, client, once, job, jobOn, early, saw>>

\* Pool.Close tells the workers to stop ...
StopPool ==
    /\ closing.todo # {}
    /\ CloseGoes("next", IF pool[BeingClosed] = "nil" THEN "client" ELSE "pool")
    /\ pool' = [pool EXCEPT ![BeingClosed] = IF @ = "nil" THEN @ ELSE "stopping"]
    /\ UNCHANGED <<manager, registered, client, once, job, jobOn, early, saw>>

\* ... and returns when they have emptied the queue and exited.
PoolStopped ==
    /\ CloseGoes("pool", "client")
    /\ Unfinished(BeingClosed) = {}
    /\ pool' = [pool EXCEPT ![BeingClosed] = "stopped"]
    /\ UNCHANGED <<manager, registered, client, once, job, jobOn, early, saw>>

\* DB.Close, Disconnect, Producer.Close, Client.Close; minio has nothing to
\* close and grafana's idle connections are opened again when needed.
ClosesClient == manager \in Tenanted \cup {"redis", "kafka"}

CloseClient ==
    /\ closing.at = "client"
    /\ closing' = [at |-> "next", todo |-> closing.todo \ {BeingClosed}]
    /\ client' = [client EXCEPT ![BeingClosed] = IF ClosesClient THEN "closed" ELSE @]
    /\ UNCHANGED <<manager, registered, pool, once, job, jobOn, early, saw>>

CloseEnd ==
    /\ closing.todo = {}
    /\ CloseGoes("next", "done")
    /\ registered' = IF manager \in Tenanted THEN {} ELSE registered
    /\ UNCHANGED <<manager, client, pool, once, job, jobOn, early, saw>>

CloseStep == StopPool \/ PoolStopped \/ CloseClient \/ CloseEnd

ManagerJobStep(j) ==
    \/ PublishPool(j) \/ SubmitAsyncJob(j)
    \/ TakeAsyncJob(j) \/ UseClient(j) \/ FindConnection(j)

ManagersNext ==
    \/ CloseBegin \/ CloseStep
    \/ \E j \in Jobs : \/ \E n \in Names : GetConnection(j, n)
                       \/ GetDefaultConnection(j)
                       \/ StartPool(j) \/ ManagerJobStep(j)

\* Workers and the closing goroutine run; nobody need submit or close.
ManagersFairness ==
    /\ WF_managerVars(CloseStep)
    /\ \A j \in Jobs : WF_managerVars(ManagerJobStep(j))

ManagersSpec == ManagersInit /\ [][ManagersNext]_managerVars /\ ManagersFairness
-----------------------------------------------------------------------------
AcceptedJobsSeeOpenClient == \A j \in early : saw[j] \in {"none", "open"}

LookedUpIsOpen ==
    manager \in Tenanted /\ ~ CloseRuns => \A n \in registered : client[n] = "open"

\* What the pool accepted before Close runs against a client that is still
\* open: Close stops the pool first and waits for it (postgres.go:202, 205).  A
\* redis pool that is only started after Close looked is not in this: its jobs
\* run against a closed client and its workers are never stopped.  And a
\* connection that can be looked up is one that works: the map is emptied in
\* the critical section that closes the connections (postgres.go:197, 211).
ClientsOpenWhenUsed == AcceptedJobsSeeOpenClient /\ LookedUpIsOpen

\* Close returns, unless a job it waits for asks the connection manager for a
\* connection: that job waits for the lock CloseAll holds, and CloseAll for
\* the job (postgres.go:203).
CloseAllReturns ==
    CloseRuns ~> (closing.at = "done" \/ \E j \in Jobs : job[j] = "seeking")
=============================================================================
