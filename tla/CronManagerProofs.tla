------------------------- MODULE CronManagerProofs --------------------------
(***************************************************************************)
(* c.jobs and cron's own entries agree whatever AddJob, RemoveJob and       *)
(* UpdateJob have done, and Close leaves no worker of the lazily created    *)
(* pool behind, for any jobs, workers, runs and goroutines that call Close. *)
(***************************************************************************)
EXTENDS CronManager, TLAPS

RegistryType ==
    /\ entries \in [Ids -> Names \cup {Nothing}]
    /\ jobs \in [Ids -> Names \cup {Nothing}]
    /\ nextId \in 1..(MaxId + 1)
    /\ op \in [kind : {"none", "add", "remove", "added", "removed"},
               old : 0..MaxId, new : 0..MaxId]

\* No id is in use before cron has handed it out.
IdsFresh == \A i \in Ids : i >= nextId => entries[i] = Nothing /\ jobs[i] = Nothing

\* How far the operation that holds c.mu is tells how entries and jobs differ.
OpUnderWay ==
    /\ op.kind = "none" => entries = jobs
    /\ op.kind \in {"add", "added", "removed"} =>
          op.new \in Ids /\ op.new < nextId /\ jobs[op.new] = Nothing
    /\ op.kind \in {"remove", "added", "removed"} =>
          op.old \in Ids /\ op.old < nextId /\ jobs[op.old] # Nothing
    /\ op.kind = "add" => \A i \in Ids : i # op.new => entries[i] = jobs[i]
    /\ op.kind = "remove" =>
          \A i \in Ids : entries[i] = IF i = op.old THEN Nothing ELSE jobs[i]
    /\ op.kind = "added" =>
          \A i \in Ids : entries[i] = IF i = op.new THEN jobs[op.old] ELSE jobs[i]
    /\ op.kind = "removed" =>
          \A i \in Ids : entries[i] = IF i = op.new THEN jobs[op.old]
                                      ELSE IF i = op.old THEN Nothing ELSE jobs[i]

RegistryInv == RegistryType /\ IdsFresh /\ OpUnderWay

\* A Close that has come past poolMu has marked the manager closed, so that
\* no pool can be created behind its back.
CloseInv ==
    /\ worker \in [Workers -> {"select", "run", "drain", "drainrun", "exited"}]
    /\ closer \in [Closers -> {"idle", "stopped", "marked", "waiting", "returned"}]
    /\ \A c \in Closers : closer[c] \in {"marked", "waiting", "returned"} => isClosed = TRUE
    /\ \A c \in Closers : closer[c] = "returned" => ~isPoolSet \/ Pool!AllExited
-----------------------------------------------------------------------------
(* Adding: the entry first, then the registry.                              *)
LEMMA AddKeeps ==
    ASSUME RegistryInv, (\E n \in Names : AddBegin(n)) \/ AddEnd
    PROVE  RegistryInv'
<1> USE NamesAssumption, MaxIdAssumption DEF Ids, RegistryType
<1>1. ASSUME NEW n \in Names, AddBegin(n) PROVE RegistryInv'
  <2>1. /\ nextId \in Ids /\ entries' = [entries EXCEPT ![nextId] = n]
        /\ nextId' = nextId + 1 /\ jobs' = jobs
        /\ op = NoOp /\ op' = [kind |-> "add", old |-> 0, new |-> nextId]
    BY <1>1 DEF RegistryInv, AddBegin, AddFunc
  <2>2. entries = jobs /\ entries[nextId] = Nothing /\ jobs[nextId] = Nothing
    BY <2>1 DEF RegistryInv, OpUnderWay, NoOp, IdsFresh
  <2>3. RegistryType'
    BY <2>1 DEF RegistryInv
  <2>4. IdsFresh'
    BY <2>1 DEF RegistryInv, IdsFresh
  <2>5. OpUnderWay'
    BY <2>1, <2>2 DEF RegistryInv, OpUnderWay
  <2> QED
    BY <2>3, <2>4, <2>5 DEF RegistryInv
<1>2. CASE AddEnd
  <2>1. /\ op.kind = "add" /\ jobs' = [jobs EXCEPT ![op.new] = entries[op.new]]
        /\ entries' = entries /\ nextId' = nextId /\ op' = NoOp
        /\ op.new \in Ids /\ op.new < nextId
        /\ \A i \in Ids : i # op.new => entries[i] = jobs[i]
    BY <1>2 DEF RegistryInv, AddEnd, OpUnderWay
  <2>2. RegistryType'
    BY <2>1 DEF RegistryInv, NoOp
  <2>3. entries' = jobs'
    BY <2>1 DEF RegistryInv
  <2>4. IdsFresh'
    BY <2>1 DEF RegistryInv, IdsFresh
  <2> QED
    BY <2>1, <2>2, <2>3, <2>4 DEF RegistryInv, OpUnderWay, NoOp
<1> QED
  BY <1>1, <1>2

(* Removing: the entry first, then the registry.                            *)
LEMMA RemoveKeeps ==
    ASSUME RegistryInv, (\E i \in Ids : RemoveBegin(i)) \/ RemoveEnd
    PROVE  RegistryInv'
<1> USE NamesAssumption, MaxIdAssumption DEF Ids, RegistryType
<1>1. ASSUME NEW i \in Ids, RemoveBegin(i) PROVE RegistryInv'
  <2>1. /\ entries' = [entries EXCEPT ![i] = Nothing]
        /\ jobs[i] # Nothing /\ nextId' = nextId /\ jobs' = jobs
        /\ op = NoOp /\ op' = [kind |-> "remove", old |-> i, new |-> 0]
    BY <1>1 DEF RegistryInv, RemoveBegin
  <2>2. entries = jobs /\ i < nextId
    BY <2>1 DEF RegistryInv, OpUnderWay, NoOp, IdsFresh
  <2>3. RegistryType'
    BY <2>1 DEF RegistryInv
  <2>4. IdsFresh'
    BY <2>1 DEF RegistryInv, IdsFresh
  <2>5. OpUnderWay'
    BY <2>1, <2>2 DEF RegistryInv, OpUnderWay
  <2> QED
    BY <2>3, <2>4, <2>5 DEF RegistryInv
<1>2. CASE RemoveEnd
  <2>1. /\ op.kind = "remove" /\ jobs' = [jobs EXCEPT ![op.old] = Nothing]
        /\ entries' = entries /\ nextId' = nextId /\ op' = NoOp
        /\ op.old \in Ids /\ op.old < nextId
        /\ \A i \in Ids : entries[i] = IF i = op.old THEN Nothing ELSE jobs[i]
    BY <1>2 DEF RegistryInv, RemoveEnd, OpUnderWay
  <2>2. RegistryType'
    BY <2>1 DEF RegistryInv, NoOp
  <2>3. entries' = jobs'
    BY <2>1 DEF RegistryInv
  <2>4. IdsFresh'
    BY <2>1 DEF RegistryInv, IdsFresh
  <2> QED
    BY <2>1, <2>2, <2>3, <2>4 DEF RegistryInv, OpUnderWay, NoOp
<1> QED
  BY <1>1, <1>2

(* Updating: the new entry, the removal of the old one, the registry.       *)
LEMMA UpdateKeeps ==
    ASSUME RegistryInv, (\E i \in Ids : UpdateAdd(i)) \/ UpdateRemove \/ UpdateEnd
    PROVE  RegistryInv'
<1> USE NamesAssumption, MaxIdAssumption DEF Ids, RegistryType
<1>1. ASSUME NEW i \in Ids, UpdateAdd(i) PROVE RegistryInv'
  <2>1. /\ nextId \in Ids /\ entries' = [entries EXCEPT ![nextId] = jobs[i]]
        /\ nextId' = nextId + 1 /\ jobs' = jobs /\ jobs[i] # Nothing
        /\ op = NoOp /\ op' = [kind |-> "added", old |-> i, new |-> nextId]
    BY <1>1 DEF RegistryInv, UpdateAdd, AddFunc
  <2>2. /\ entries = jobs /\ i < nextId
        /\ entries[nextId] = Nothing /\ jobs[nextId] = Nothing
    BY <2>1 DEF RegistryInv, OpUnderWay, NoOp, IdsFresh
  <2>3. RegistryType'
    BY <2>1 DEF RegistryInv
  <2>4. IdsFresh'
    BY <2>1 DEF RegistryInv, IdsFresh
  <2>5. OpUnderWay'
    BY <2>1, <2>2 DEF RegistryInv, OpUnderWay
  <2> QED
    BY <2>3, <2>4, <2>5 DEF RegistryInv
<1>2. CASE UpdateRemove
  <2>1. /\ op.kind = "added" /\ entries' = [entries EXCEPT ![op.old] = Nothing]
        /\ jobs' = jobs /\ nextId' = nextId /\ op' = [op EXCEPT !.kind = "removed"]
        /\ op.old \in Ids /\ op.new \in Ids
        /\ op.old < nextId /\ op.new < nextId
        /\ jobs[op.old] # Nothing /\ jobs[op.new] = Nothing
        /\ \A i \in Ids : entries[i] = IF i = op.new THEN jobs[op.old] ELSE jobs[i]
    BY <1>2 DEF RegistryInv, UpdateRemove, OpUnderWay
  <2>2. op'.kind = "removed" /\ op'.old = op.old /\ op'.new = op.new /\ op.old # op.new
    BY <2>1 DEF RegistryInv
  <2>3. RegistryType'
    BY <2>1 DEF RegistryInv
  <2>4. IdsFresh'
    BY <2>1 DEF RegistryInv, IdsFresh
  <2>5. OpUnderWay'
    BY <2>1, <2>2 DEF RegistryInv, OpUnderWay
  <2> QED
    BY <2>3, <2>4, <2>5 DEF RegistryInv
<1>3. CASE UpdateEnd
  <2>1. /\ op.kind = "removed"
        /\ jobs' = [jobs EXCEPT ![op.new] = jobs[op.old], ![op.old] = Nothing]
        /\ entries' = entries /\ nextId' = nextId /\ op' = NoOp
        /\ op.old \in Ids /\ op.new \in Ids
        /\ op.old < nextId /\ op.new < nextId
        /\ jobs[op.old] # Nothing /\ jobs[op.new] = Nothing
        /\ \A i \in Ids : entries[i] = IF i = op.new THEN jobs[op.old]
                                       ELSE IF i = op.old THEN Nothing ELSE jobs[i]
    BY <1>3 DEF RegistryInv, UpdateEnd, OpUnderWay
  <2>2. RegistryType'
    BY <2>1 DEF RegistryInv, NoOp
  <2>3. entries' = jobs'
    BY <2>1 DEF RegistryInv
  <2>4. IdsFresh'
    BY <2>1 DEF RegistryInv, IdsFresh
  <2> QED
    BY <2>1, <2>2, <2>3, <2>4 DEF RegistryInv, OpUnderWay, NoOp
<1> QED
  BY <1>1, <1>2, <1>3

(* Only the three operations touch the registry.                            *)
LEMMA RegistryStepsKeep ==
    ASSUME RegistryInv, [Next]_vars
    PROVE  RegistryInv'
<1>1. CASE RegistryStep
  BY <1>1, AddKeeps, RemoveKeeps, UpdateKeeps DEF RegistryStep
<1>2. CASE UNCHANGED registry
  BY <1>2 DEF registry, RegistryInv, RegistryType, IdsFresh, OpUnderWay
<1>3. [Next]_vars => RegistryStep \/ UNCHANGED registry
  BY DEF Next, vars, Start, Fire, RunJobNow, Call, CloseStopsCron, GoesOn, GetPool,
         RunDirectly, ChildGetsPool, ChildRunsDirectly, PoolWorks, CloseGoesOn,
         CloseMarks, CloseStopsPool, CloseReturn
<1> QED
  BY <1>1, <1>2, <1>3
-----------------------------------------------------------------------------
(* A worker that has exited stays so, whatever the pool does.               *)
LEMMA ExitedStays ==
    ASSUME NEW w \in Workers,
           worker \in [Workers -> {"select", "run", "drain", "drainrun", "exited"}],
           \/ Pool!TakeJob(w) \/ Pool!SeeStop(w) \/ Pool!DrainJob(w)
           \/ Pool!Exit(w) \/ Pool!Return(w)
    PROVE  /\ worker' \in [Workers -> {"select", "run", "drain", "drainrun", "exited"}]
           /\ Pool!AllExited => Pool!AllExited'
<1>1. /\ worker[w] # "exited"
      /\ \E to \in {"select", "run", "drain", "drainrun", "exited"} :
            worker' = [worker EXCEPT ![w] = to]
  BY DEF Pool!TakeJob, Pool!SeeStop, Pool!DrainJob, Pool!Exit, Pool!Return,
         Pool!Take, Pool!GoTo
<1> QED
  BY <1>1 DEF Pool!AllExited

(* What Close relies on, step by step.                                      *)
LEMMA CloseStepsKeep ==
    ASSUME CloseInv, [Next]_vars
    PROVE  CloseInv'
<1> DEFINE Frame == UNCHANGED <<closer, isClosed, isPoolSet, worker>>
<1>1. CASE Frame
  BY <1>1 DEF CloseInv, Pool!AllExited
<1>2. CASE \E r \in Runs : GetPool(r)
  <2>1. ~isClosed /\ UNCHANGED <<closer, isClosed, worker>>
    BY <1>2 DEF GetPool, closing, Pool!Submit, Pool!Give
  <2> QED
    BY <2>1 DEF CloseInv
<1>3. CASE PoolWorks
  <2>1. UNCHANGED <<closer, isClosed, isPoolSet>>
    BY <1>3 DEF PoolWorks, closing
  <2>2. /\ worker' \in [Workers -> {"select", "run", "drain", "drainrun", "exited"}]
        /\ Pool!AllExited => Pool!AllExited'
    <3>1. CASE \E w \in Workers : \/ Pool!TakeJob(w) \/ Pool!SeeStop(w) \/ Pool!DrainJob(w)
                                  \/ Pool!Exit(w) \/ Pool!Return(w)
      BY <3>1, ExitedStays DEF CloseInv
    <3>2. CASE UNCHANGED worker
      BY <3>2 DEF CloseInv, Pool!AllExited
    <3> QED
      BY <1>3, <3>1, <3>2
      DEF PoolWorks, Pool!SubmitLands, Pool!SubmitDrops, Pool!Land, Pool!Give
  <2> QED
    BY <2>1, <2>2 DEF CloseInv
<1>4. ASSUME NEW c \in Closers, CloseStopsCron(c) PROVE CloseInv'
  <2>1. /\ closer' = [closer EXCEPT ![c] = "stopped"]
        /\ UNCHANGED <<isClosed, isPoolSet, worker>>
    BY <1>4 DEF CloseStopsCron, CloseAt, poolVars
  <2> QED
    BY <2>1 DEF CloseInv, Pool!AllExited
<1>5. ASSUME NEW c \in Closers, CloseMarks(c) PROVE CloseInv'
  <2>1. /\ \/ isPoolSet /\ closer' = [closer EXCEPT ![c] = "marked"]
           \/ ~isPoolSet /\ closer' = [closer EXCEPT ![c] = "returned"]
        /\ isClosed' = TRUE /\ UNCHANGED <<isPoolSet, worker>>
    BY <1>5 DEF CloseMarks, CloseAt, poolVars
  <2> QED
    BY <2>1 DEF CloseInv, Pool!AllExited
<1>6. ASSUME NEW c \in Closers, CloseStopsPool(c) PROVE CloseInv'
  <2>1. /\ closer[c] = "marked" /\ closer' = [closer EXCEPT ![c] = "waiting"]
        /\ UNCHANGED <<isClosed, isPoolSet, worker>>
    BY <1>6 DEF CloseStopsPool, CloseAt, Pool!StopBegin
  <2> QED
    BY <2>1 DEF CloseInv, Pool!AllExited
<1>7. ASSUME NEW c \in Closers, CloseReturn(c) PROVE CloseInv'
  <2>1. /\ closer[c] = "waiting" /\ closer' = [closer EXCEPT ![c] = "returned"]
        /\ Pool!AllExited /\ UNCHANGED <<isClosed, isPoolSet, worker>>
    BY <1>7 DEF CloseReturn, CloseAt, Pool!StopReturn
  <2> QED
    BY <2>1 DEF CloseInv, Pool!AllExited
<1>8. CASE RegistryStep
  <2>1. UNCHANGED rest
    BY <1>8 DEF RegistryStep, AddBegin, AddEnd, RemoveBegin, RemoveEnd, UpdateAdd,
                UpdateRemove, UpdateEnd
  <2> QED
    BY <1>1, <2>1 DEF rest, closing, poolVars
<1>9. CASE Start \/ \E i \in Ids, r \in Runs : Fire(i, r) \/ RunJobNow(i, r)
  BY <1>1, <1>9 DEF Start, Fire, RunJobNow, Call, closing, poolVars
<1>10. CASE (\E r \in Runs : RunDirectly(r)) \/ \E w \in Workers : ChildRunsDirectly(w)
  BY <1>1, <1>10 DEF RunDirectly, ChildRunsDirectly, closing
<1>11. CASE \E w \in Workers : ChildGetsPool(w)
  BY <1>1, <1>11 DEF ChildGetsPool, closing, Pool!SubmitChild, Pool!Give
<1>12. CASE UNCHANGED vars
  BY <1>1, <1>12 DEF vars, closing, poolVars
<1> QED
  BY <1>2, <1>3, <1>4, <1>5, <1>6, <1>7, <1>8, <1>9, <1>10, <1>11, <1>12
  DEF Next, GoesOn, CloseGoesOn
-----------------------------------------------------------------------------
(* The inductive invariant of the registry and of Close.                    *)
THEOREM CronInvariance == Spec => [](RegistryInv /\ CloseInv)
<1>1. Init => RegistryInv /\ CloseInv
  BY MaxIdAssumption, NamesAssumption
  DEF Init, Ids, NoOp, RegistryInv, RegistryType, IdsFresh, OpUnderWay, CloseInv, Pool!Init
<1>2. RegistryInv /\ CloseInv /\ [Next]_vars => RegistryInv' /\ CloseInv'
  BY RegistryStepsKeep, CloseStepsKeep
<1> QED
  BY <1>1, <1>2, PTL DEF Spec

(* c.jobs and cron agree whenever c.mu is free, and an update never drops   *)
(* the job: there is an entry that fires it at every point of UpdateJob.    *)
THEOREM CronRegistryConsistent == Spec => []RegistryConsistent
<1>1. ASSUME RegistryInv PROVE RegistryConsistent
  <2>1. op = NoOp => entries = jobs
    BY <1>1 DEF RegistryInv, OpUnderWay, NoOp
  <2>2. ASSUME NEW i \in Ids, jobs[i] # Nothing, ~(op.kind = "remove" /\ op.old = i)
        PROVE  \E e \in Ids : entries[e] = jobs[i]
    <3>1. op.kind \in {"none", "add", "remove", "added", "removed"}
      BY <1>1 DEF RegistryInv, RegistryType
    <3>2. CASE op.kind \in {"none", "add", "remove", "added"}
      <4>1. entries[i] = jobs[i]
        BY <1>1, <2>2, <3>2 DEF RegistryInv, OpUnderWay
      <4> QED
        BY <4>1
    <3>3. CASE op.kind = "removed"
      <4>1. op.new \in Ids /\ entries[op.new] = jobs[op.old]
        BY <1>1, <3>3 DEF RegistryInv, OpUnderWay
      <4>2. i # op.old => entries[i] = jobs[i]
        BY <1>1, <2>2, <3>3 DEF RegistryInv, OpUnderWay
      <4> QED
        BY <4>1, <4>2
    <3> QED
      BY <3>1, <3>2, <3>3
  <2> QED
    BY <2>1, <2>2 DEF RegistryConsistent
<1> QED
  BY <1>1, CronInvariance, PTL

(* Once a Close has returned, the pool that getPool may have created while  *)
(* it ran has no worker left.                                               *)
THEOREM CronClosesItsPool == Spec => []NoWorkerAfterClose
<1>1. CloseInv => NoWorkerAfterClose
  BY DEF CloseInv, NoWorkerAfterClose
<1> QED
  BY <1>1, CronInvariance, PTL
=============================================================================
