----------------------------- MODULE WorkerPool -----------------------------
(***************************************************************************)
(* infrastructure.WorkerPool: a buffered channel of jobs, workers that      *)
(* select between the channel and stopChan, and a Stop that closes stopChan *)
(* and waits for the workers, who drain the channel before they exit.       *)
(*                                                                          *)
(* A job may itself Submit one more job to the pool from the worker that    *)
(* runs it (Child), as a cron job does.  A panic in a job is recovered by   *)
(* GoSafe and is, for the pool, a return.  Who submits does not matter, so  *)
(* a goroutine blocked in Submit is its job in the state "sending".         *)
(***************************************************************************)
EXTENDS Integers, Sequences, FiniteSets

CONSTANTS Workers,   \* the pool's goroutines (a WorkerPool has at least one)
          Jobs,      \* every job that is ever submitted, each submitted once
          Child,     \* the job a job submits while it runs, or NoJob
          NoJob,
          Stoppers   \* goroutines that call Stop or Close

ASSUME WorkersAssumption == IsFiniteSet(Workers) /\ Workers # {}
ASSUME JobsAssumption    == NoJob \notin Jobs /\ Child \in [Jobs -> Jobs \cup {NoJob}]

QueueCap == 2 * Cardinality(Workers)

VARIABLES queue,     \* jobQueue
          stopped,   \* stopChan is closed
          worker,    \* where each worker is in its loop
          job,       \* the job a worker runs, or NoJob
          fate,      \* how far each job has come
          stopper,   \* where each Stop call is
          early      \* history: the jobs that landed in the queue before Stop

vars == <<queue, stopped, worker, job, fate, stopper, early>>

InQueue(j) == \E i \in 1..Len(queue) : queue[i] = j

TypeOK ==
    /\ queue \in Seq(Jobs) /\ Len(queue) <= QueueCap
    /\ stopped \in BOOLEAN
    /\ worker \in [Workers -> {"select", "run", "drain", "drainrun", "exited"}]
    /\ job \in [Workers -> Jobs \cup {NoJob}]
    /\ fate \in [Jobs -> {"new", "sending", "queued", "running", "done", "dropped"}]
    /\ stopper \in [Stoppers -> {"idle", "waiting", "returned"}]
    /\ early \subseteq Jobs
    /\ \A w \in Workers : job[w] # NoJob <=> worker[w] \in {"run", "drainrun"}

\* Every owner of a pool calls NewWorkerPool and Start before it shares it.
Init ==
    /\ queue = <<>>
    /\ stopped = FALSE
    /\ worker = [w \in Workers |-> "select"]
    /\ job = [w \in Workers |-> NoJob]
    /\ fate = [j \in Jobs |-> "new"]
    /\ stopper = [s \in Stoppers |-> "idle"]
    /\ early = {}
-----------------------------------------------------------------------------
\* An operator marked "Bug" is a variant of the one after it with a plausible
\* mistake: no action uses it, it is what the properties must catch.

IsChild(j) == \E p \in Jobs : Child[p] = j
Become(j, to) == fate' = [fate EXCEPT ![j] = to]

\* The send case of a select on jobQueue.
Land(j) ==
    /\ Len(queue) < QueueCap
    /\ queue' = Append(queue, j)
    /\ Become(j, "queued")
    /\ early' = IF stopped THEN early ELSE early \cup {j}
    /\ UNCHANGED <<stopped, worker, job, stopper>>

Give(j, to) ==
    Become(j, to) /\ UNCHANGED <<queue, stopped, worker, job, stopper, early>>

\* Submit by a goroutine that is not a worker: it enters its select ...
Submit(j) == fate[j] = "new" /\ ~IsChild(j) /\ Give(j, "sending")

\* ... and leaves it by either case that is ready.
SubmitLands(j) == fate[j] = "sending" /\ Land(j)

SubmitDrops(j) == fate[j] = "sending" /\ stopped /\ Give(j, "dropped")

\* Bug: the job lands and is reported as dropped all the same.
SubmitOrDropMisreports(j) ==
    /\ fate[j] = "new" /\ ~IsChild(j)
    /\ Len(queue) < QueueCap
    /\ queue' = Append(queue, j)
    /\ Become(j, "dropped")
    /\ UNCHANGED <<stopped, worker, job, stopper, early>>

\* SubmitOrDrop: a default case makes it one step; the queue and stopChan
\* cases compete when both are ready.
SubmitOrDrop(j) ==
    /\ fate[j] = "new" /\ ~IsChild(j)
    /\ \/ Land(j)
       \/ (stopped \/ Len(queue) >= QueueCap) /\ Give(j, "dropped")

\* The job that worker w runs calls Submit.
SubmitChild(w) ==
    /\ worker[w] \in {"run", "drainrun"}
    /\ job[w] # NoJob
    /\ LET child == Child[job[w]] IN
          /\ child # NoJob
          /\ fate[child] = "new"
          /\ Give(child, "sending")

\* A job that submits returns only when its Submit has.
CanReturn(j) == Child[j] # NoJob => fate[Child[j]] \notin {"new", "sending"}

Take(w, next) ==
    /\ queue # <<>>
    /\ queue' = Tail(queue)
    /\ job' = [job EXCEPT ![w] = Head(queue)]
    /\ worker' = [worker EXCEPT ![w] = next]
    /\ Become(Head(queue), "running")
    /\ UNCHANGED <<stopped, stopper, early>>

GoTo(w, next) ==
    /\ worker' = [worker EXCEPT ![w] = next]
    /\ UNCHANGED <<queue, stopped, job, fate, stopper, early>>

\* The outer select picks either ready case.
TakeJob(w) == worker[w] = "select" /\ Take(w, "run")

\* Bug: no drain loop behind the stopChan case.
SeeStopAndExit(w) == worker[w] = "select" /\ stopped /\ GoTo(w, "exited")

SeeStop(w) == worker[w] = "select" /\ stopped /\ GoTo(w, "drain")

\* The drain loop exits only on an empty queue.
DrainJob(w) == worker[w] = "drain" /\ Take(w, "drainrun")

\* Bug: one pass of the drain loop and out.
ExitAnyway(w) == worker[w] = "drain" /\ GoTo(w, "exited")

Exit(w) == worker[w] = "drain" /\ queue = <<>> /\ GoTo(w, "exited")

Return(w) ==
    /\ worker[w] \in {"run", "drainrun"}
    /\ CanReturn(job[w])
    /\ worker' = [worker EXCEPT ![w] = IF worker[w] = "run" THEN "select" ELSE "drain"]
    /\ job' = [job EXCEPT ![w] = NoJob]
    /\ Become(job[w], "done")
    /\ UNCHANGED <<queue, stopped, stopper, early>>

\* Stop, once: close(stopChan), then wg.Wait.  A second caller waits in Do.
StopBegin(s) ==
    /\ stopper[s] = "idle"
    /\ stopped' = TRUE
    /\ stopper' = [stopper EXCEPT ![s] = "waiting"]
    /\ UNCHANGED <<queue, worker, job, fate, early>>

AllExited == \A w \in Workers : worker[w] = "exited"

StopReturn(s) ==
    /\ stopper[s] = "waiting"
    /\ AllExited
    /\ stopper' = [stopper EXCEPT ![s] = "returned"]
    /\ UNCHANGED <<queue, stopped, worker, job, fate, early>>

JobStep(j) == Submit(j) \/ SubmitLands(j) \/ SubmitDrops(j) \/ SubmitOrDrop(j)

WorkerStep(w) ==
    \/ TakeJob(w)
    \/ SeeStop(w)
    \/ DrainJob(w)
    \/ Exit(w)
    \/ SubmitChild(w)
    \/ Return(w)

Next == \/ \E j \in Jobs : JobStep(j)
        \/ \E w \in Workers : WorkerStep(w)
        \/ \E s \in Stoppers : StopBegin(s) \/ StopReturn(s)

Spec == Init /\ [][Next]_vars

\* The scheduler runs every worker; jobs return; a sender whose select has a
\* case that stays ready takes it; a Stop that has begun goes on.  Nobody has
\* to submit or to stop.
Fairness ==
    /\ \A w \in Workers : WF_vars(WorkerStep(w))
    /\ \A j \in Jobs : WF_vars(SubmitLands(j) \/ SubmitDrops(j))
    /\ \A s \in Stoppers : WF_vars(StopReturn(s))

FairSpec == Spec /\ Fairness
-----------------------------------------------------------------------------
\* A queued job is in the queue, once; a running job has a worker, and only one.
QueuedOnce ==
    /\ \A j \in Jobs : fate[j] = "queued" <=> InQueue(j)
    /\ \A i, k \in 1..Len(queue) : queue[i] = queue[k] => i = k

HeldOnce ==
    /\ \A w \in Workers : job[w] # NoJob => fate[job[w]] = "running"
    /\ \A j \in Jobs : fate[j] = "running" => \E w \in Workers : job[w] = j
    /\ \A w, v \in Workers : job[w] = job[v] /\ job[w] # NoJob => w = v

(* No job is in two places: a queued job is in the queue exactly once, a    *)
(* running job has exactly one worker, and no worker holds any other, so    *)
(* that no interleaving of submitters and draining workers runs a job twice *)
(* or loses track of one.                                                   *)
JobsAccounted == QueuedOnce /\ HeldOnce

(* Workers "drain remaining queued jobs before exiting" (Stop): from the    *)
(* moment the first worker is gone, no job accepted before Stop is queued.  *)
NoEarlyJobLeftBehind ==
    (\E w \in Workers : worker[w] = "exited") =>
        \A j \in early : fate[j] \in {"running", "done"}

(* When Stop returns, to any of its callers, every job accepted before it   *)
(* was called has returned.                                                 *)
StopWaitsForJobs ==
    (\E s \in Stoppers : stopper[s] = "returned") =>
        \A j \in early : fate[j] = "done"

(* All workers wait for room in the queue that only they can make: every    *)
(* one of them runs a job whose Submit is blocked on the full queue.        *)
Wedged ==
    /\ ~stopped
    /\ Len(queue) = QueueCap
    /\ \A w \in Workers : worker[w] = "run" /\ ~CanReturn(job[w])

(* A job accepted before Stop runs to its end, unless the pool wedges.      *)
AcceptedRunsUnlessWedged ==
    \A j \in Jobs : j \in early ~> (fate[j] = "done" \/ Wedged)

(* Stop returns, even from a wedged pool: stopChan releases the blocked     *)
(* Submit of every job.                                                     *)
StopReturns == \A s \in Stoppers : stopper[s] = "waiting" ~> stopper[s] = "returned"

(* "After Stop/Close, Submit never blocks forever".                         *)
SubmitReturnsAfterStop ==
    \A j \in Jobs : (stopped /\ fate[j] = "sending") ~> fate[j] # "sending"

(* What was accepted before Stop is neither lost nor run twice by draining  *)
(* workers and submitters in any order, and Stop waits for it.              *)
AcceptedJobsKept == JobsAccounted /\ NoEarlyJobLeftBehind /\ StopWaitsForJobs

(* Every wait ends: for a job that was accepted unless the pool wedges, in  *)
(* Stop always, and in Submit once the pool is stopped.                     *)
WaitsEnd == AcceptedRunsUnlessWedged /\ StopReturns /\ SubmitReturnsAfterStop

(* The pool keeps the promise of JobPool.                                   *)
FateOf(j) == CASE fate[j] \in {"new", "sending"} -> "new"
               [] fate[j] = "queued"  -> "accepted"
               [] fate[j] = "dropped" -> "refused"
               [] OTHER -> fate[j]

Promise == INSTANCE JobPool WITH
               fate  <- [j \in Jobs |-> FateOf(j)],
               phase <- IF ~stopped THEN "open" ELSE IF AllExited THEN "closed" ELSE "closing",
               owed  <- early

PromiseKept == Promise!PoolSpec
=============================================================================
