---------------------------- MODULE CronManager ----------------------------
(***************************************************************************)
(* infrastructure.CronManager: the registry of scheduled jobs (c.jobs, under*)
(* c.mu), the cron library's own entries, and the worker pool that          *)
(* asynchronous jobs and RunJobNow use, created by the first of them and    *)
(* closed by Close.                                                         *)
(*                                                                          *)
(* cron fires an entry in a goroutine of its own and looks only at its own  *)
(* entries, so every step of AddJob, RemoveJob and UpdateJob that changes   *)
(* them is a step of the model.  A run is one execution of a job's command. *)
(* RunJobNow of an asynchronous job submits the wrapper, whose body submits *)
(* the command to the same pool: such a run has a Child.                    *)
(***************************************************************************)
EXTENDS Integers, Sequences, FiniteSets

CONSTANTS Names,      \* the jobs that may be registered
          AsyncNames, \* those registered with AddAsyncJob
          MaxId,      \* bound: the entry ids cron hands out
          Nothing,    \* no job under this id
          Workers, Runs, Child, NoRun, Closers

ASSUME NamesAssumption == AsyncNames \subseteq Names /\ Nothing \notin Names
ASSUME MaxIdAssumption == MaxId \in Nat

Ids == 1..MaxId

VARIABLES entries,   \* cron's entries: the job each id fires, or Nothing
          jobs,      \* c.jobs
          nextId,    \* the id of cron's next entry
          op,        \* the operation that holds c.mu, and how far it is
          scheduler, \* of cron: not started yet, running or stopped
          called,    \* runs that are about to call getPool
          isPoolSet, isClosed,
          closer,    \* where each Close call is
          queue, stopped, worker, job, fate, stopper, early   \* the pool

registry == <<entries, jobs, nextId, op>>
poolVars == <<queue, stopped, worker, job, fate, stopper, early>>
closing == <<scheduler, isClosed, closer>>
vars == <<registry, closing, called, isPoolSet, poolVars>>

\* NewWorkerPool(5); the goroutines that call Close are the pool's stoppers.
Pool == INSTANCE WorkerPool WITH Jobs <- Runs, NoJob <- NoRun, Stoppers <- Closers

NoOp == [kind |-> "none", old |-> 0, new |-> 0]

TypeOK ==
    /\ entries \in [Ids -> Names \cup {Nothing}]
    /\ jobs \in [Ids -> Names \cup {Nothing}]
    /\ nextId \in 1..(MaxId + 1)
    /\ op.kind \in {"none", "add", "remove", "added", "removed"}
    /\ op.old \in 0..MaxId /\ op.new \in 0..MaxId
    /\ scheduler \in {"new", "running", "stopped"}
    /\ isPoolSet \in BOOLEAN /\ isClosed \in BOOLEAN
    /\ closer \in [Closers -> {"idle", "stopped", "marked", "waiting", "returned"}]
    /\ called \subseteq {r \in Runs : fate[r] = "new"}
    /\ Pool!TypeOK

Init ==
    /\ entries = [i \in Ids |-> Nothing]
    /\ jobs = [i \in Ids |-> Nothing]
    /\ nextId = 1
    /\ op = NoOp
    /\ scheduler = "new"
    /\ closer = [c \in Closers |-> "idle"]
    /\ called = {}
    /\ isPoolSet = FALSE
    /\ isClosed = FALSE
    /\ Pool!Init
-----------------------------------------------------------------------------
\* The registry.  c.cron.AddFunc refuses a schedule it cannot parse: then the
\* operation returns the error and nothing has changed, a stutter.
rest == <<closing, called, isPoolSet, poolVars>>

\* An operator marked "Bug" is a variant of the one after it with a plausible
\* mistake: no action uses it, it is what the properties must catch.

Registered == {jobs[i] : i \in Ids} \cup {entries[i] : i \in Ids}

AddFunc(n) == /\ nextId <= MaxId
              /\ entries' = [entries EXCEPT ![nextId] = n]
              /\ nextId' = nextId + 1

\* AddJob, AddAsyncJob: the entry is live before c.jobs knows it.
AddBegin(n) ==
    /\ op = NoOp /\ n \notin Registered
    /\ AddFunc(n)
    /\ op' = [kind |-> "add", old |-> 0, new |-> nextId]
    /\ UNCHANGED <<jobs, rest>>

AddEnd ==
    /\ op.kind = "add"
    /\ jobs' = [jobs EXCEPT ![op.new] = entries[op.new]]
    /\ op' = NoOp
    /\ UNCHANGED <<entries, nextId, rest>>

RemoveBegin(i) ==
    /\ op = NoOp /\ jobs[i] # Nothing
    /\ entries' = [entries EXCEPT ![i] = Nothing]
    /\ op' = [kind |-> "remove", old |-> i, new |-> 0]
    /\ UNCHANGED <<jobs, nextId, rest>>

RemoveEnd ==
    /\ op.kind = "remove"
    /\ jobs' = [jobs EXCEPT ![op.old] = Nothing]
    /\ op' = NoOp
    /\ UNCHANGED <<entries, nextId, rest>>

\* Bug: UpdateJob removes the old entry before it adds the new one.
UpdateRemovesFirst(i) ==
    /\ op = NoOp /\ jobs[i] # Nothing /\ nextId <= MaxId
    /\ entries' = [entries EXCEPT ![i] = Nothing]
    /\ op' = [kind |-> "added", old |-> i, new |-> nextId]
    /\ UNCHANGED <<jobs, nextId, rest>>

\* UpdateJob: "Add the new entry first so a bad schedule never silently drops
\* the job", then remove the old entry, then move the job to its new id.
UpdateAdd(i) ==
    /\ op = NoOp /\ jobs[i] # Nothing
    /\ AddFunc(jobs[i])
    /\ op' = [kind |-> "added", old |-> i, new |-> nextId]
    /\ UNCHANGED <<jobs, rest>>

UpdateRemove ==
    /\ op.kind = "added"
    /\ entries' = [entries EXCEPT ![op.old] = Nothing]
    /\ op' = [op EXCEPT !.kind = "removed"]
    /\ UNCHANGED <<jobs, nextId, rest>>

UpdateEnd ==
    /\ op.kind = "removed"
    /\ jobs' = [jobs EXCEPT ![op.new] = jobs[op.old], ![op.old] = Nothing]
    /\ op' = NoOp
    /\ UNCHANGED <<entries, nextId, rest>>

RegistryStep == \/ \E n \in Names : AddBegin(n)
                \/ \E i \in Ids : RemoveBegin(i) \/ UpdateAdd(i)
                \/ AddEnd \/ RemoveEnd \/ UpdateRemove \/ UpdateEnd
-----------------------------------------------------------------------------
\* Running a job.
Start ==
    /\ scheduler = "new"
    /\ scheduler' = "running"
    /\ UNCHANGED <<registry, isClosed, closer, called, isPoolSet, poolVars>>

Fresh(r) == fate[r] = "new" /\ r \notin called /\ ~Pool!IsChild(r)

Call(r) == /\ called' = called \cup {r}
           /\ UNCHANGED <<registry, closing, isPoolSet, poolVars>>

\* cron fires an asynchronous job's wrapper, which calls SubmitAsyncJob(cmd).
\* (A synchronous job runs in cron's goroutine and touches none of this.)
Fire(i, r) ==
    /\ scheduler = "running" /\ entries[i] \in AsyncNames
    /\ Fresh(r) /\ Child[r] = NoRun
    /\ Call(r)

\* RunJobNow copies job.cmd under c.mu and submits it: the wrapper that
\* submits again if the job is asynchronous, else the command itself.
RunJobNow(i, r) ==
    /\ op = NoOp /\ jobs[i] # Nothing
    /\ Fresh(r) /\ (Child[r] # NoRun) = (jobs[i] \in AsyncNames)
    /\ Call(r)

\* Bug: getPool does not look at isClosed.
GetPoolAfterClose(r) ==
    /\ r \in called
    /\ isPoolSet' = TRUE
    /\ called' = called \ {r}
    /\ Pool!Submit(r)
    /\ UNCHANGED <<registry, closing>>

\* SubmitAsyncJob: getPool, then Submit to the pool it returned.
GetPool(r) ==
    /\ r \in called /\ ~isClosed
    /\ isPoolSet' = TRUE
    /\ called' = called \ {r}
    /\ Pool!Submit(r)
    /\ UNCHANGED <<registry, closing>>

\* No pool any more: the job runs in a goroutine of its own, which nothing
\* blocks (the command that its wrapper submits runs in one, too).
Directly(rs) == fate' = [r \in Runs |-> IF r \in rs THEN "done" ELSE fate[r]]

RunDirectly(r) ==
    /\ r \in called /\ isClosed
    /\ called' = called \ {r}
    /\ Directly({r} \cup ({Child[r]} \ {NoRun}))
    /\ UNCHANGED <<registry, closing, isPoolSet,
                   queue, stopped, worker, job, stopper, early>>

\* The wrapper that worker w runs calls SubmitAsyncJob(cmd).
ChildGetsPool(w) == /\ ~isClosed
                    /\ Pool!SubmitChild(w)
                    /\ UNCHANGED <<registry, closing, called, isPoolSet>>

\* Bug: Close keeps poolMu until the pool has stopped, and getPool waits for it.
ChildWaitsForClose(w) ==
    /\ isClosed /\ job[w] # NoRun
    /\ \A c \in Closers : closer[c] \notin {"marked", "waiting"}
    /\ Child[job[w]] # NoRun /\ fate[Child[job[w]]] = "new"
    /\ Directly({Child[job[w]]})
    /\ UNCHANGED <<registry, closing, called, isPoolSet,
                   queue, stopped, worker, job, stopper, early>>

ChildRunsDirectly(w) ==
    /\ isClosed /\ job[w] # NoRun
    /\ Child[job[w]] # NoRun /\ fate[Child[job[w]]] = "new"
    /\ Directly({Child[job[w]]})
    /\ UNCHANGED <<registry, closing, called, isPoolSet,
                   queue, stopped, worker, job, stopper, early>>

\* The pool on its own: workers, and goroutines blocked in Submit.
PoolWorks ==
    /\ isPoolSet
    /\ \/ \E w \in Workers : \/ Pool!TakeJob(w) \/ Pool!SeeStop(w) \/ Pool!DrainJob(w)
                             \/ Pool!Exit(w) \/ Pool!Return(w)
       \/ \E r \in Runs : Pool!SubmitLands(r) \/ Pool!SubmitDrops(r)
    /\ UNCHANGED <<registry, closing, called, isPoolSet>>

\* Close: cron.Stop, which waits for nobody; isClosed, and the pool, under
\* poolMu; then pool.Close, outside it, if there is a pool.
CloseAt(c, from, to) ==
    closer[c] = from /\ closer' = [closer EXCEPT ![c] = to]

CloseStopsCron(c) ==
    /\ CloseAt(c, "idle", "stopped")
    /\ scheduler # "new" /\ scheduler' = "stopped"
    /\ UNCHANGED <<registry, isClosed, called, isPoolSet, poolVars>>

CloseMarks(c) ==
    /\ CloseAt(c, "stopped", IF isPoolSet THEN "marked" ELSE "returned")
    /\ isClosed' = TRUE
    /\ UNCHANGED <<registry, scheduler, called, isPoolSet, poolVars>>

CloseStopsPool(c) ==
    /\ CloseAt(c, "marked", "waiting")
    /\ Pool!StopBegin(c)
    /\ UNCHANGED <<registry, scheduler, isClosed, called, isPoolSet>>

CloseReturn(c) ==
    /\ CloseAt(c, "waiting", "returned")
    /\ Pool!StopReturn(c)
    /\ UNCHANGED <<registry, scheduler, isClosed, called, isPoolSet>>

CloseGoesOn(c) == CloseMarks(c) \/ CloseStopsPool(c) \/ CloseReturn(c)

\* What goes on by itself once it has begun.
GoesOn == \/ \E r \in Runs : GetPool(r) \/ RunDirectly(r)
          \/ \E w \in Workers : ChildGetsPool(w) \/ ChildRunsDirectly(w)
          \/ PoolWorks
          \/ \E c \in Closers : CloseGoesOn(c)

Next == \/ RegistryStep
        \/ Start
        \/ \E i \in Ids, r \in Runs : Fire(i, r) \/ RunJobNow(i, r)
        \/ \E c \in Closers : CloseStopsCron(c)
        \/ GoesOn

Spec == Init /\ [][Next]_vars

\* Goroutines that have begun go on, workers are scheduled, jobs return.  There
\* are finitely many runs and each takes finitely many steps, so that weak
\* fairness of the whole leaves no single goroutine behind that could step.
\* Nobody has to register, fire or close.
Fairness == WF_vars(GoesOn)

FairSpec == Spec /\ Fairness
-----------------------------------------------------------------------------
(* c.jobs and cron agree whenever c.mu is free, and an update "never        *)
(* silently drops the job": while UpdateJob is under way the job still has  *)
(* an entry that fires it.                                                  *)
RegistryConsistent ==
    /\ op = NoOp => entries = jobs
    /\ \A i \in Ids :
          jobs[i] # Nothing /\ ~(op.kind = "remove" /\ op.old = i) =>
              \E e \in Ids : entries[e] = jobs[i]

(* Close leaves no goroutine behind: once it has returned, a pool exists    *)
(* only if all its workers have exited, although getPool creates it lazily  *)
(* and races with Close.                                                    *)
NoWorkerAfterClose ==
    isPoolSet /\ (\E c \in Closers : closer[c] = "returned") => Pool!AllExited

(* A goroutine that submits a run gets on, unless the pool wedges: every    *)
(* worker blocked in the Submit of a wrapper, on a queue that is full.      *)
SubmitReturnsUnlessWedged ==
    \A r \in Runs : fate[r] = "sending" ~> (fate[r] # "sending" \/ Pool!Wedged)

(* Close returns, whatever the pool was doing.                              *)
CloseReturns ==
    \A c \in Closers : closer[c] = "stopped" ~> closer[c] = "returned"

(* Both kinds of wait in one: Submit and Close get on.                      *)
CallsReturn == SubmitReturnsUnlessWedged /\ CloseReturns

(* RunJobNow's comment: it "runs a job immediately (asynchronously)".  Once  *)
(* the wrapper runs, so does the command, or the manager is closed.          *)
RunJobNowRuns == \A r \in {q \in Runs : Child[q] # NoRun} :
    fate[r] = "running" ~> (fate[Child[r]] = "done" \/ isClosed)
=============================================================================
