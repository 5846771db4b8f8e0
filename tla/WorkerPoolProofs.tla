-------------------------- MODULE WorkerPoolProofs --------------------------
(***************************************************************************)
(* For any number of workers, any jobs and any callers of Stop: no job is   *)
(* queued or run twice, workers exit only when no job accepted before Stop  *)
(* is queued, and a Stop that has returned has waited for all of those.     *)
(***************************************************************************)
EXTENDS WorkerPool, TLAPS, SequenceTheorems, FiniteSetTheorems

EarlyLanded   == \A j \in early : fate[j] \in {"queued", "running", "done"}
DrainsStopped == \A w \in Workers :
                    worker[w] \in {"drain", "drainrun", "exited"} => stopped
StopperInv    == \A s \in Stoppers : /\ stopper[s] # "idle" => stopped
                                     /\ stopper[s] = "returned" => AllExited

(* The inductive invariant.  Why a job accepted early cannot be left in the *)
(* queue: a worker drains only after stopped, leaves only an empty queue    *)
(* (QueuedOnce: then no job is "queued"), and what lands later is not early. *)
PoolInv == /\ TypeOK
           /\ QueuedOnce
           /\ HeldOnce
           /\ EarlyLanded
           /\ DrainsStopped
           /\ StopperInv
           /\ NoEarlyJobLeftBehind

(* The capacity of jobQueue is a positive number.                           *)
LEMMA CapType == QueueCap \in Nat \ {0}
<1>1. Cardinality(Workers) \in Nat
  BY WorkersAssumption, FS_CardinalityType
<1>2. Cardinality(Workers) # 0
  BY WorkersAssumption, FS_EmptySet
<1> QED
  BY <1>1, <1>2 DEF QueueCap

(* What receiving the head of jobQueue does to the jobs in it.              *)
LEMMA TakeQueue ==
    ASSUME TypeOK, QueuedOnce, queue # <<>>, queue' = Tail(queue)
    PROVE  /\ Head(queue) \in Jobs /\ fate[Head(queue)] = "queued"
           /\ queue' \in Seq(Jobs) /\ Len(queue') <= QueueCap
           /\ \A j \in Jobs : InQueue(j)' <=> InQueue(j) /\ j # Head(queue)
           /\ \A i, k \in 1..Len(queue') : queue'[i] = queue'[k] => i = k
<1>1. /\ Head(queue) \in Jobs
      /\ queue' \in Seq(Jobs)
      /\ Len(queue') = Len(queue) - 1
      /\ \A i \in 1..Len(queue') : queue'[i] = queue[i + 1]
  BY HeadTailProperties DEF TypeOK
<1>2. Len(queue) \in Nat \ {0} /\ Head(queue) = queue[1]
  BY EmptySeq DEF TypeOK
<1>3. Len(queue') <= QueueCap
  BY <1>1, <1>2, CapType DEF TypeOK
<1>4. InQueue(Head(queue)) /\ fate[Head(queue)] = "queued"
  <2>1. 1 \in 1..Len(queue)
    BY <1>2
  <2> QED
    BY <1>1, <1>2, <2>1 DEF InQueue, QueuedOnce
<1>5. \A i, k \in 1..Len(queue') : queue'[i] = queue'[k] => i = k
  <2> SUFFICES ASSUME NEW i \in 1..Len(queue'), NEW k \in 1..Len(queue'),
                      queue'[i] = queue'[k]
               PROVE  i = k
    OBVIOUS
  <2>1. i + 1 \in 1..Len(queue) /\ k + 1 \in 1..Len(queue)
    BY <1>1, <1>2
  <2>2. queue[i + 1] = queue[k + 1]
    BY <1>1
  <2>3. i + 1 = k + 1
    BY <2>1, <2>2 DEF QueuedOnce
  <2> QED
    BY <2>3
<1>6. ASSUME NEW j \in Jobs
      PROVE  InQueue(j)' <=> InQueue(j) /\ j # Head(queue)
  <2>1. ASSUME InQueue(j)' PROVE InQueue(j) /\ j # Head(queue)
    <3>1. PICK i \in 1..Len(queue') : queue'[i] = j
      BY <2>1 DEF InQueue
    <3>2. i + 1 \in 1..Len(queue) /\ queue[i + 1] = j /\ i + 1 # 1
      BY <1>1, <1>2, <3>1
    <3>3. 1 \in 1..Len(queue)
      BY <1>2
    <3>4. queue[1] # j
      BY <3>2, <3>3 DEF QueuedOnce
    <3> QED
      BY <1>2, <3>2, <3>4 DEF InQueue
  <2>2. ASSUME InQueue(j), j # Head(queue) PROVE InQueue(j)'
    <3>1. PICK i \in 1..Len(queue) : queue[i] = j
      BY <2>2 DEF InQueue
    <3>2. i # 1
      BY <1>2, <2>2, <3>1
    <3>3. i - 1 \in 1..Len(queue') /\ (i - 1) + 1 = i
      BY <1>1, <1>2, <3>1, <3>2
    <3>4. queue'[i - 1] = j
      BY <1>1, <3>1, <3>3
    <3> QED
      BY <3>3, <3>4 DEF InQueue
  <2> QED
    BY <2>1, <2>2
<1> QED
  BY <1>1, <1>3, <1>4, <1>5, <1>6

(* What sending a job that is not in jobQueue does to the jobs in it.       *)
LEMMA LandQueue ==
    ASSUME TypeOK, QueuedOnce, NEW j \in Jobs, fate[j] # "queued",
           Len(queue) < QueueCap, queue' = Append(queue, j)
    PROVE  /\ queue' \in Seq(Jobs) /\ Len(queue') <= QueueCap
           /\ \A x \in Jobs : InQueue(x)' <=> InQueue(x) \/ x = j
           /\ \A i, k \in 1..Len(queue') : queue'[i] = queue'[k] => i = k
<1> DEFINE n == Len(queue) + 1
<1>1. /\ Len(queue) \in Nat
      /\ queue' \in Seq(Jobs)
      /\ Len(queue') = n
      /\ \A i \in 1..Len(queue) : queue'[i] = queue[i]
      /\ queue'[n] = j
  BY DEF TypeOK
<1>2. Len(queue') <= QueueCap
  BY <1>1, CapType
<1>3. \A i \in 1..Len(queue) : queue[i] # j
  BY DEF QueuedOnce, InQueue
<1>4. \A i, k \in 1..Len(queue') : queue'[i] = queue'[k] => i = k
  <2> SUFFICES ASSUME NEW i \in 1..Len(queue'), NEW k \in 1..Len(queue'),
                      queue'[i] = queue'[k]
               PROVE  i = k
    OBVIOUS
  <2>1. CASE i \in 1..Len(queue) /\ k \in 1..Len(queue)
    BY <1>1, <2>1 DEF QueuedOnce
  <2>2. CASE i = n /\ k = n
    BY <2>2
  <2>3. CASE i \in 1..Len(queue) /\ k = n
    BY <1>1, <1>3, <2>3
  <2>4. CASE i = n /\ k \in 1..Len(queue)
    BY <1>1, <1>3, <2>4
  <2> QED
    BY <1>1, <2>1, <2>2, <2>3, <2>4
<1>5. ASSUME NEW x \in Jobs
      PROVE  InQueue(x)' <=> InQueue(x) \/ x = j
  <2>1. ASSUME InQueue(x)' PROVE InQueue(x) \/ x = j
    <3>1. PICK i \in 1..Len(queue') : queue'[i] = x
      BY <2>1 DEF InQueue
    <3>2. CASE i \in 1..Len(queue)
      BY <1>1, <3>1, <3>2 DEF InQueue
    <3>3. CASE i = n
      BY <1>1, <3>1, <3>3
    <3> QED
      BY <1>1, <3>1, <3>2, <3>3
  <2>2. ASSUME InQueue(x) PROVE InQueue(x)'
    <3>1. PICK i \in 1..Len(queue) : queue[i] = x
      BY <2>2 DEF InQueue
    <3>2. i \in 1..Len(queue') /\ queue'[i] = x
      BY <1>1, <3>1
    <3> QED
      BY <3>2 DEF InQueue
  <2>3. InQueue(j)'
    <3>1. n \in 1..Len(queue')
      BY <1>1
    <3> QED
      BY <1>1, <3>1 DEF InQueue
  <2> QED
    BY <2>1, <2>2, <2>3
<1> QED
  BY <1>1, <1>2, <1>4, <1>5

(* A pool that Start has returned from satisfies the invariant.             *)
LEMMA InitPoolInv == Init => PoolInv
<1> SUFFICES ASSUME Init PROVE PoolInv
  OBVIOUS
<1>1. TypeOK
  <2>1. queue \in Seq(Jobs) /\ Len(queue) <= QueueCap
    <3>1. <<>> \in Seq(Jobs) /\ Len(<<>>) = 0
      BY EmptySeq
    <3> QED
      BY <3>1, CapType DEF Init
  <2> QED
    BY <2>1, JobsAssumption DEF Init, TypeOK
<1>2. QueuedOnce /\ HeldOnce
  BY JobsAssumption DEF Init, QueuedOnce, HeldOnce, InQueue
<1> QED
  BY <1>1, <1>2 DEF Init, PoolInv, EarlyLanded, DrainsStopped, StopperInv,
                    NoEarlyJobLeftBehind

(* A Submit that begins, or drops its job, moves only a job that is nowhere. *)
LEMMA GiveStep ==
    ASSUME PoolInv, NEW j \in Jobs, fate[j] \in {"new", "sending"},
           NEW to \in {"sending", "dropped"}, Give(j, to)
    PROVE  PoolInv'
<1> USE DEF PoolInv, Give, Become
<1>1. TypeOK'
  BY DEF TypeOK
<1>2. \A x \in Jobs : fate'[x] = IF x = j THEN to ELSE fate[x]
  BY DEF TypeOK
<1>3. QueuedOnce'
  BY <1>2 DEF QueuedOnce, InQueue
<1>4. HeldOnce'
  BY <1>2 DEF HeldOnce, TypeOK
<1>5. EarlyLanded' /\ NoEarlyJobLeftBehind'
  BY <1>2 DEF EarlyLanded, NoEarlyJobLeftBehind, TypeOK
<1>6. DrainsStopped' /\ StopperInv'
  BY DEF DrainsStopped, StopperInv, AllExited
<1> QED
  BY <1>1, <1>3, <1>4, <1>5, <1>6

(* A job that lands is in the queue once; it counts as early only while no  *)
(* worker can have exited.                                                  *)
LEMMA LandStep ==
    ASSUME PoolInv, NEW j \in Jobs, fate[j] \in {"new", "sending"}, Land(j)
    PROVE  PoolInv'
<1> USE DEF PoolInv, Land, Become
<1>1. /\ queue' \in Seq(Jobs) /\ Len(queue') <= QueueCap
      /\ \A x \in Jobs : InQueue(x)' <=> InQueue(x) \/ x = j
      /\ \A i, k \in 1..Len(queue') : queue'[i] = queue'[k] => i = k
  BY LandQueue
<1>2. \A x \in Jobs : fate'[x] = IF x = j THEN "queued" ELSE fate[x]
  BY DEF TypeOK
<1>3. TypeOK'
  BY <1>1 DEF TypeOK
<1>4. QueuedOnce'
  BY <1>1, <1>2 DEF QueuedOnce
<1>5. HeldOnce'
  BY <1>2 DEF HeldOnce, TypeOK
<1>6. EarlyLanded'
  BY <1>2 DEF EarlyLanded, TypeOK
<1>7. NoEarlyJobLeftBehind'
  BY <1>2 DEF NoEarlyJobLeftBehind, DrainsStopped, EarlyLanded, TypeOK
<1>8. DrainsStopped' /\ StopperInv'
  BY DEF DrainsStopped, StopperInv, AllExited
<1> QED
  BY <1>3, <1>4, <1>5, <1>6, <1>7, <1>8

(* A receive moves the head of the queue to one worker that held nothing.   *)
LEMMA TakeStep ==
    ASSUME PoolInv, NEW w \in Workers, NEW next, Take(w, next),
           \/ worker[w] = "select" /\ next = "run"
           \/ worker[w] = "drain" /\ next = "drainrun"
    PROVE  PoolInv'
<1> USE DEF PoolInv, Take, Become
<1> DEFINE h == Head(queue)
<1>1. /\ h \in Jobs /\ fate[h] = "queued"
      /\ queue' \in Seq(Jobs) /\ Len(queue') <= QueueCap
      /\ \A x \in Jobs : InQueue(x)' <=> InQueue(x) /\ x # h
      /\ \A i, k \in 1..Len(queue') : queue'[i] = queue'[k] => i = k
  BY TakeQueue
<1>2. /\ \A x \in Jobs : fate'[x] = IF x = h THEN "running" ELSE fate[x]
      /\ \A v \in Workers : job'[v] = IF v = w THEN h ELSE job[v]
      /\ \A v \in Workers : worker'[v] = IF v = w THEN next ELSE worker[v]
  BY DEF TypeOK
<1>3. job[w] = NoJob /\ h # NoJob
  BY <1>1, JobsAssumption DEF TypeOK
<1> HIDE DEF h
<1>4. TypeOK'
  <2>1. fate' \in [Jobs -> {"new", "sending", "queued", "running", "done", "dropped"}]
    BY DEF TypeOK
  <2>2. job' \in [Workers -> Jobs \cup {NoJob}]
    BY <1>1 DEF TypeOK, h
  <2>3. worker' \in [Workers -> {"select", "run", "drain", "drainrun", "exited"}]
    BY DEF TypeOK
  <2>4. \A v \in Workers : job'[v] # NoJob <=> worker'[v] \in {"run", "drainrun"}
    BY <1>2, <1>3 DEF TypeOK
  <2> QED
    BY <1>1, <2>1, <2>2, <2>3, <2>4 DEF TypeOK
<1>5. QueuedOnce'
  BY <1>1, <1>2 DEF QueuedOnce
<1>6. HeldOnce'
  <2>1. \A v \in Workers : job[v] # NoJob => job[v] # h
    BY <1>1 DEF HeldOnce
  <2>2. \A v \in Workers : job[v] # NoJob => job[v] \in Jobs
    BY DEF TypeOK
  <2>3. \A v \in Workers : job'[v] # NoJob => fate'[job'[v]] = "running"
    BY <1>1, <1>2, <2>1, <2>2 DEF HeldOnce
  <2>4. \A x \in Jobs : fate'[x] = "running" => \E v \in Workers : job'[v] = x
    <3> SUFFICES ASSUME NEW x \in Jobs, fate'[x] = "running", x # h
                 PROVE  \E v \in Workers : job'[v] = x
      BY <1>2
    <3>1. PICK v \in Workers : job[v] = x
      BY <1>2 DEF HeldOnce
    <3>2. v # w
      BY <1>3, <3>1, JobsAssumption
    <3> QED
      BY <1>2, <3>1, <3>2
  <2>5. \A u, v \in Workers : job'[u] = job'[v] /\ job'[u] # NoJob => u = v
    BY <1>2, <1>3, <2>1 DEF HeldOnce
  <2> QED
    BY <2>3, <2>4, <2>5 DEF HeldOnce
<1>7. EarlyLanded' /\ NoEarlyJobLeftBehind'
  BY <1>1, <1>2 DEF EarlyLanded, NoEarlyJobLeftBehind, TypeOK
<1>8. DrainsStopped' /\ StopperInv'
  BY <1>2 DEF DrainsStopped, StopperInv, AllExited
<1> QED
  BY <1>4, <1>5, <1>6, <1>7, <1>8

(* A worker that holds nothing turns to draining once stopped, and exits    *)
(* from an empty queue, in which no job is queued.                          *)
LEMMA GoToStep ==
    ASSUME PoolInv, NEW w \in Workers, SeeStop(w) \/ Exit(w)
    PROVE  PoolInv'
<1> DEFINE next == IF worker[w] = "select" THEN "drain" ELSE "exited"
<1>1. /\ stopped
      /\ worker[w] \in {"select", "drain"}
      /\ worker[w] = "drain" => queue = <<>>
      /\ worker' = [worker EXCEPT ![w] = next]
      /\ UNCHANGED <<queue, stopped, job, fate, stopper, early>>
  BY DEF SeeStop, Exit, GoTo, PoolInv, DrainsStopped
<1>2. \A v \in Workers : worker'[v] = IF v = w THEN next ELSE worker[v]
  BY <1>1 DEF PoolInv, TypeOK
<1>3. TypeOK'
  BY <1>1, <1>2 DEF PoolInv, TypeOK
<1>4. QueuedOnce' /\ HeldOnce' /\ EarlyLanded'
  BY <1>1 DEF PoolInv, QueuedOnce, HeldOnce, EarlyLanded, InQueue
<1>5. DrainsStopped'
  BY <1>1, <1>2 DEF PoolInv, DrainsStopped
<1>6. StopperInv'
  BY <1>1, <1>2 DEF PoolInv, StopperInv, AllExited
<1>7. NoEarlyJobLeftBehind'
  <2>1. CASE worker[w] = "select"
    BY <1>1, <1>2, <2>1 DEF PoolInv, NoEarlyJobLeftBehind
  <2>2. CASE worker[w] = "drain"
    <3>1. \A j \in Jobs : fate[j] # "queued"
      BY <1>1, <2>2 DEF PoolInv, QueuedOnce, InQueue
    <3> QED
      BY <1>1, <3>1 DEF PoolInv, EarlyLanded, NoEarlyJobLeftBehind, TypeOK
  <2> QED
    BY <1>1, <2>1, <2>2
<1> QED
  BY <1>3, <1>4, <1>5, <1>6, <1>7 DEF PoolInv

(* A job that returns is done, and its worker, the only one that held it,   *)
(* holds nothing.                                                           *)
LEMMA ReturnStep ==
    ASSUME PoolInv, NEW w \in Workers, Return(w)
    PROVE  PoolInv'
<1> DEFINE r == job[w]
           next == IF worker[w] = "run" THEN "select" ELSE "drain"
<1>1. /\ worker[w] \in {"run", "drainrun"}
      /\ r \in Jobs /\ r # NoJob /\ fate[r] = "running"
  BY JobsAssumption DEF Return, PoolInv, TypeOK, HeldOnce
<1>2. /\ \A x \in Jobs : fate'[x] = IF x = r THEN "done" ELSE fate[x]
      /\ \A v \in Workers : job'[v] = IF v = w THEN NoJob ELSE job[v]
      /\ \A v \in Workers : worker'[v] = IF v = w THEN next ELSE worker[v]
      /\ UNCHANGED <<queue, stopped, stopper, early>>
  BY DEF Return, Become, PoolInv, TypeOK
<1>3. TypeOK'
  <2>1. fate' \in [Jobs -> {"new", "sending", "queued", "running", "done", "dropped"}]
    BY DEF Return, Become, PoolInv, TypeOK
  <2>2. job' \in [Workers -> Jobs \cup {NoJob}]
    BY DEF Return, PoolInv, TypeOK
  <2>3. worker' \in [Workers -> {"select", "run", "drain", "drainrun", "exited"}]
    BY DEF Return, PoolInv, TypeOK
  <2>4. \A v \in Workers : job'[v] # NoJob <=> worker'[v] \in {"run", "drainrun"}
    BY <1>2 DEF PoolInv, TypeOK
  <2> QED
    BY <1>2, <2>1, <2>2, <2>3, <2>4 DEF PoolInv, TypeOK
<1> HIDE DEF r
<1>4. QueuedOnce'
  BY <1>1, <1>2 DEF PoolInv, QueuedOnce, InQueue
<1>5. HeldOnce'
  <2>1. \A v \in Workers : job[v] = r => v = w
    BY <1>1 DEF PoolInv, HeldOnce, r
  <2>2. \A v \in Workers : job[v] # NoJob => job[v] \in Jobs
    BY DEF PoolInv, TypeOK
  <2>3. \A v \in Workers : job'[v] # NoJob => fate'[job'[v]] = "running"
    BY <1>1, <1>2, <2>1, <2>2 DEF PoolInv, HeldOnce
  <2>4. \A x \in Jobs : fate'[x] = "running" => \E v \in Workers : job'[v] = x
    <3> SUFFICES ASSUME NEW x \in Jobs, fate'[x] = "running"
                 PROVE  \E v \in Workers : job'[v] = x
      OBVIOUS
    <3>1. x # r /\ fate[x] = "running"
      BY <1>2
    <3>2. PICK v \in Workers : job[v] = x
      BY <3>1 DEF PoolInv, HeldOnce
    <3> QED
      BY <1>2, <3>1, <3>2 DEF r
  <2>5. \A u, v \in Workers : job'[u] = job'[v] /\ job'[u] # NoJob => u = v
    BY <1>2 DEF PoolInv, HeldOnce
  <2> QED
    BY <2>3, <2>4, <2>5 DEF HeldOnce
<1>6. EarlyLanded' /\ NoEarlyJobLeftBehind'
  BY <1>1, <1>2 DEF PoolInv, EarlyLanded, NoEarlyJobLeftBehind, TypeOK
<1>7. DrainsStopped' /\ StopperInv'
  BY <1>1, <1>2 DEF PoolInv, DrainsStopped, StopperInv, AllExited
<1> QED
  BY <1>3, <1>4, <1>5, <1>6, <1>7 DEF PoolInv

(* Stop closes stopChan and returns once all workers have exited.           *)
LEMMA StopStep ==
    ASSUME PoolInv, NEW s \in Stoppers, StopBegin(s) \/ StopReturn(s)
    PROVE  PoolInv'
<1>1. UNCHANGED <<queue, worker, job, fate, early>>
  BY DEF StopBegin, StopReturn
<1>2. stopped' \in BOOLEAN /\ stopped' /\ stopper' \in [Stoppers -> {"idle", "waiting", "returned"}]
  BY DEF StopBegin, StopReturn, PoolInv, TypeOK, StopperInv
<1>3. TypeOK' /\ DrainsStopped'
  BY <1>1, <1>2 DEF PoolInv, TypeOK, DrainsStopped
<1>4. QueuedOnce' /\ HeldOnce' /\ EarlyLanded' /\ NoEarlyJobLeftBehind'
  BY <1>1 DEF PoolInv, QueuedOnce, HeldOnce, EarlyLanded, InQueue, NoEarlyJobLeftBehind
<1>5. StopperInv'
  BY <1>1, <1>2 DEF StopBegin, StopReturn, PoolInv, TypeOK, StopperInv, AllExited
<1> QED
  BY <1>3, <1>4, <1>5 DEF PoolInv

(* Every step of the pool keeps the invariant.                              *)
LEMMA StepPoolInv == PoolInv /\ [Next]_vars => PoolInv'
<1> SUFFICES ASSUME PoolInv, [Next]_vars PROVE PoolInv'
  OBVIOUS
<1>1. ASSUME NEW j \in Jobs, JobStep(j) PROVE PoolInv'
  <2>1. CASE Submit(j)
    BY <2>1, GiveStep DEF Submit
  <2>2. CASE SubmitLands(j)
    BY <2>2, LandStep DEF SubmitLands
  <2>3. CASE SubmitDrops(j)
    BY <2>3, GiveStep DEF SubmitDrops
  <2>4. CASE SubmitOrDrop(j)
    BY <2>4, GiveStep, LandStep DEF SubmitOrDrop
  <2> QED
    BY <1>1, <2>1, <2>2, <2>3, <2>4 DEF JobStep
<1>2. ASSUME NEW w \in Workers, WorkerStep(w) PROVE PoolInv'
  <2>1. CASE TakeJob(w)
    BY <2>1, TakeStep DEF TakeJob
  <2>2. CASE DrainJob(w)
    BY <2>2, TakeStep DEF DrainJob
  <2>3. CASE SeeStop(w) \/ Exit(w)
    BY <2>3, GoToStep
  <2>4. CASE SubmitChild(w)
    <3>1. PICK c : c = Child[job[w]] /\ c # NoJob /\ fate[c] = "new" /\ Give(c, "sending")
      BY <2>4 DEF SubmitChild
    <3>2. job[w] \in Jobs
      BY <2>4 DEF SubmitChild, PoolInv, TypeOK
    <3>3. c \in Jobs
      BY <3>1, <3>2, JobsAssumption
    <3> QED
      BY <3>1, <3>3, GiveStep
  <2>5. CASE Return(w)
    BY <2>5, ReturnStep
  <2> QED
    BY <1>2, <2>1, <2>2, <2>3, <2>4, <2>5 DEF WorkerStep
<1>3. ASSUME NEW s \in Stoppers, StopBegin(s) \/ StopReturn(s) PROVE PoolInv'
  BY <1>3, StopStep
<1>4. CASE UNCHANGED vars
  BY <1>4 DEF vars, PoolInv, TypeOK, QueuedOnce, HeldOnce, EarlyLanded, DrainsStopped,
              StopperInv, NoEarlyJobLeftBehind, InQueue, AllExited
<1> QED
  BY <1>1, <1>2, <1>3, <1>4 DEF Next

(* The strengthened invariant holds of every behaviour of a pool.           *)
THEOREM PoolInvariance == Spec => []PoolInv
BY InitPoolInv, StepPoolInv, PTL DEF Spec

(* The pool's state has its type: a queue within its capacity, a job for    *)
(* exactly the workers that run one.                                        *)
THEOREM PoolTypeCorrect == Spec => []TypeOK
<1>1. PoolInv => TypeOK
  BY DEF PoolInv
<1> QED
  BY <1>1, PoolInvariance, PTL

(* No interleaving of submitters, workers and Stop queues or runs a job     *)
(* twice or loses track of one.                                             *)
THEOREM JobsAreAccounted == Spec => []JobsAccounted
<1>1. PoolInv => JobsAccounted
  BY DEF PoolInv, JobsAccounted
<1> QED
  BY <1>1, PoolInvariance, PTL

(* No worker leaves while a job accepted before Stop is still queued.       *)
THEOREM EarlyJobsLeaveQueue == Spec => []NoEarlyJobLeftBehind
<1>1. PoolInv => NoEarlyJobLeftBehind
  BY DEF PoolInv
<1> QED
  BY <1>1, PoolInvariance, PTL

(* A Stop that has returned has waited for every job accepted before it:    *)
(* all workers have exited, so none of those is queued, and none is running *)
(* because a running job is held by a worker that has not exited.           *)
THEOREM StopHasWaited == Spec => []StopWaitsForJobs
<1>1. PoolInv => StopWaitsForJobs
  <2> SUFFICES ASSUME PoolInv, NEW s \in Stoppers, stopper[s] = "returned",
                      NEW j \in early
               PROVE  fate[j] = "done"
    BY DEF StopWaitsForJobs
  <2>1. AllExited
    BY DEF PoolInv, StopperInv
  <2>2. fate[j] \in {"running", "done"}
    BY <2>1, WorkersAssumption DEF PoolInv, AllExited, NoEarlyJobLeftBehind
  <2>3. fate[j] # "running"
    <3>1. j \in Jobs
      BY DEF PoolInv, TypeOK
    <3>2. \A w \in Workers : job[w] # j
      BY <2>1, <3>1, JobsAssumption DEF PoolInv, TypeOK, AllExited
    <3> QED
      BY <3>1, <3>2 DEF PoolInv, HeldOnce
  <2> QED
    BY <2>2, <2>3
<1> QED
  BY <1>1, PoolInvariance, PTL

(* Nothing accepted before Stop is lost, run twice or not waited for.       *)
THEOREM AcceptedJobsAreKept == Spec => []AcceptedJobsKept
BY JobsAreAccounted, EarlyJobsLeaveQueue, StopHasWaited, PTL DEF AcceptedJobsKept
-----------------------------------------------------------------------------
(* The pool implements JobPool: what JobPool sees of it.                    *)
Fate  == [j \in Jobs |-> FateOf(j)]
Phase == IF ~stopped THEN "open" ELSE IF AllExited THEN "closed" ELSE "closing"

(* A step that moves one job, and neither Stop nor the last worker, changes *)
(* in JobPool's eyes that job alone.                                        *)
LEMMA OneFate ==
    ASSUME TypeOK, NEW j \in Jobs, NEW to, Become(j, to)
    PROVE  Fate' = [Fate EXCEPT ![j] = FateOf(j)'] /\ fate'[j] = to
<1>1. /\ fate'[j] = to
      /\ \A x \in Jobs : x # j => FateOf(x)' = FateOf(x)
  BY DEF Become, FateOf, TypeOK
<1> QED
  BY <1>1 DEF Fate

(* A worker that has not exited keeps the pool from being closed.           *)
LEMMA SamePhase ==
    ASSUME TypeOK, NEW w \in Workers, worker[w] # "exited", stopped' = stopped,
           worker' = worker \/ \E next : next # "exited" /\ worker' = [worker EXCEPT ![w] = next]
    PROVE  Phase' = Phase /\ Phase # "closed"
<1>1. ~AllExited
  BY DEF AllExited
<1>2. worker'[w] # "exited"
  BY DEF TypeOK
<1> QED
  BY <1>1, <1>2 DEF Phase, AllExited

(* Each step of the pool is a step of JobPool or leaves what it sees alone. *)
LEMMA StepPromise ==
    PoolInv /\ [Next]_vars => [Promise!PoolNext]_(Promise!poolVars)
<1> SUFFICES ASSUME PoolInv, [Next]_vars
             PROVE  Promise!PoolNext \/ UNCHANGED <<Fate, Phase, early>>
  BY DEF Promise!poolVars, Fate, Phase
<1>t. TypeOK
  BY DEF PoolInv
<1> DEFINE Moves(j, from, to) ==
             /\ Fate[j] = from /\ Fate' = [Fate EXCEPT ![j] = to]
<1>a. \A j \in Jobs : Moves(j, "new", "accepted") /\ Phase' = Phase
         /\ early' = (IF Phase = "open" THEN early \cup {j} ELSE early) => Promise!Accept(j)
  BY DEF Promise!Accept, Promise!Become, Fate, Phase
<1>b. \A j \in Jobs : Moves(j, "new", "refused") /\ UNCHANGED <<Phase, early>> => Promise!Refuse(j)
  BY DEF Promise!Refuse, Promise!Become, Fate, Phase
<1>c. \A j \in Jobs : Moves(j, "accepted", "running") /\ UNCHANGED <<Phase, early>>
         /\ Phase # "closed" => Promise!Run(j)
  BY DEF Promise!Run, Promise!Become, Fate, Phase
<1>d. \A j \in Jobs : Moves(j, "running", "done") /\ UNCHANGED <<Phase, early>> => Promise!Complete(j)
  BY DEF Promise!Complete, Promise!Become, Fate, Phase
<1>1. ASSUME NEW j \in Jobs, fate[j] \in {"new", "sending"}, Land(j)
      PROVE  Promise!PoolNext
  <2>1. Become(j, "queued") /\ UNCHANGED <<stopped, worker>>
    BY <1>1 DEF Land
  <2>2. FateOf(j)' = "accepted"
    BY <1>t, <2>1, OneFate DEF FateOf
  <2>3. Moves(j, "new", "accepted")
    BY <1>1, <1>t, <2>1, <2>2, OneFate DEF Fate, FateOf
  <2>4. Phase' = Phase /\ (Phase = "open" <=> ~stopped)
    BY <2>1 DEF Phase, AllExited
  <2> QED
    BY <1>a, <1>1, <2>3, <2>4 DEF Land, Promise!PoolNext
<1>2. ASSUME NEW j \in Jobs, fate[j] \in {"new", "sending"},
             NEW to \in {"sending", "dropped"}, Give(j, to)
      PROVE  Promise!PoolNext \/ UNCHANGED <<Fate, Phase, early>>
  <2>1. Become(j, to) /\ UNCHANGED <<Phase, early>>
    BY <1>2 DEF Give, Phase, AllExited
  <2>2. CASE to = "sending"
    <3>1. FateOf(j)' = "new" /\ Fate[j] = "new" /\ Fate' = [Fate EXCEPT ![j] = FateOf(j)']
      BY <1>2, <1>t, <2>1, <2>2, OneFate DEF Fate, FateOf
    <3>2. Fate' = Fate
      BY <3>1 DEF Fate
    <3> QED
      BY <2>1, <3>2
  <2>3. CASE to = "dropped"
    <3>1. FateOf(j)' = "refused"
      BY <1>t, <2>1, <2>3, OneFate DEF FateOf
    <3>2. Moves(j, "new", "refused")
      BY <1>2, <1>t, <2>1, <3>1, OneFate DEF Fate, FateOf
    <3> QED
      BY <1>b, <2>1, <3>2 DEF Promise!PoolNext
  <2> QED
    BY <2>2, <2>3
<1>3. ASSUME NEW w \in Workers, NEW next \in {"run", "drainrun"}, Take(w, next),
             worker[w] \in {"select", "drain"}
      PROVE  Promise!PoolNext
  <2>1. PICK h \in Jobs : fate[h] = "queued" /\ Become(h, "running") /\ early' = early
    BY <1>3, TakeQueue DEF Take, PoolInv
  <2>2. Phase' = Phase /\ Phase # "closed"
    BY <1>3, <1>t, SamePhase DEF Take
  <2>3. FateOf(h)' = "running"
    BY <1>t, <2>1, OneFate DEF FateOf
  <2>4. Moves(h, "accepted", "running")
    BY <1>t, <2>1, <2>3, OneFate DEF Fate, FateOf
  <2> QED
    BY <1>c, <2>1, <2>2, <2>4 DEF Promise!PoolNext
<1>4. ASSUME NEW w \in Workers, Return(w) PROVE Promise!PoolNext
  <2>1. PICK r \in Jobs : fate[r] = "running" /\ Become(r, "done") /\ early' = early
    BY <1>4, JobsAssumption DEF Return, PoolInv, TypeOK, HeldOnce
  <2>2. Phase' = Phase
    BY <1>4, <1>t, SamePhase DEF Return
  <2>3. FateOf(r)' = "done"
    BY <1>t, <2>1, OneFate DEF FateOf
  <2>4. Moves(r, "running", "done")
    BY <1>t, <2>1, <2>3, OneFate DEF Fate, FateOf
  <2> QED
    BY <1>d, <2>1, <2>2, <2>4 DEF Promise!PoolNext
<1>5. ASSUME NEW w \in Workers, SeeStop(w)
      PROVE  UNCHANGED <<Fate, Phase, early>>
  <2>1. Phase' = Phase
    BY <1>5, <1>t, SamePhase DEF SeeStop, GoTo
  <2> QED
    BY <1>5, <2>1 DEF SeeStop, GoTo, Fate, FateOf
<1>6. ASSUME NEW w \in Workers, Exit(w)
      PROVE  Promise!PoolNext \/ UNCHANGED <<Fate, Phase, early>>
  <2>1. /\ stopped /\ stopped' /\ worker[w] = "drain"
        /\ UNCHANGED <<Fate, fate, early>>
    BY <1>6 DEF Exit, GoTo, Fate, FateOf, PoolInv, DrainsStopped
  <2>2. Phase = "closing"
    BY <2>1 DEF Phase, AllExited
  <2>3. CASE ~AllExited'
    BY <2>1, <2>2, <2>3 DEF Phase
  <2>4. CASE AllExited'
    <3>1. PoolInv'
      BY <1>6, GoToStep
    <3>2. \A j \in Jobs : fate[j] # "running"
      BY <2>1, <2>4, <3>1, JobsAssumption DEF PoolInv, TypeOK, AllExited, HeldOnce
    <3>3. \A j \in early : fate[j] \in {"running", "done"} /\ j \in Jobs
      BY <2>1, <2>4, <3>1, WorkersAssumption DEF PoolInv, TypeOK, AllExited, NoEarlyJobLeftBehind
    <3>4. /\ \A j \in early : Fate[j] = "done"
          /\ \A j \in Jobs : Fate[j] # "running"
      BY <3>2, <3>3 DEF Fate, FateOf, PoolInv, TypeOK
    <3>5. Phase' = "closed"
      BY <2>1, <2>4 DEF Phase
    <3> QED
      BY <2>1, <2>2, <3>4, <3>5 DEF Promise!PoolNext, Promise!EndClose, Fate, Phase
  <2> QED
    BY <2>3, <2>4
<1>7. ASSUME NEW s \in Stoppers, StopBegin(s) \/ StopReturn(s)
      PROVE  Promise!PoolNext \/ UNCHANGED <<Fate, Phase, early>>
  <2>1. UNCHANGED <<Fate, AllExited, early>>
    BY <1>7 DEF StopBegin, StopReturn, Fate, FateOf, AllExited
  <2>2. CASE stopped
    BY <1>7, <2>1, <2>2 DEF StopBegin, StopReturn, Phase
  <2>3. CASE ~stopped
    <3>1. ~AllExited
      BY <2>3, WorkersAssumption DEF AllExited, PoolInv, DrainsStopped
    <3>2. stopped'
      BY <1>7, <2>3 DEF StopBegin, StopReturn, PoolInv, StopperInv
    <3>3. Phase = "open" /\ Phase' = "closing"
      BY <2>1, <2>3, <3>1, <3>2 DEF Phase
    <3> QED
      BY <2>1, <3>3 DEF Promise!PoolNext, Promise!BeginClose, Fate, Phase
  <2> QED
    BY <2>2, <2>3
<1>8. CASE UNCHANGED vars
  BY <1>8 DEF vars, Fate, FateOf, Phase, AllExited
<1>9. ASSUME NEW j \in Jobs, JobStep(j)
      PROVE  Promise!PoolNext \/ UNCHANGED <<Fate, Phase, early>>
  BY <1>9, <1>1, <1>2 DEF JobStep, Submit, SubmitLands, SubmitDrops, SubmitOrDrop
<1>10. ASSUME NEW w \in Workers, WorkerStep(w)
       PROVE  Promise!PoolNext \/ UNCHANGED <<Fate, Phase, early>>
  <2>1. CASE TakeJob(w) \/ DrainJob(w)
    BY <2>1, <1>3 DEF TakeJob, DrainJob
  <2>2. CASE SubmitChild(w)
    <3>1. PICK c : c = Child[job[w]] /\ c # NoJob /\ fate[c] = "new" /\ Give(c, "sending")
      BY <2>2 DEF SubmitChild
    <3>2. c \in Jobs
      BY <2>2, <3>1, JobsAssumption DEF SubmitChild, PoolInv, TypeOK
    <3> QED
      BY <1>2, <3>1, <3>2
  <2> QED
    BY <1>10, <1>4, <1>5, <1>6, <2>1, <2>2 DEF WorkerStep
<1> QED
  BY <1>7, <1>8, <1>9, <1>10 DEF Next

(* WorkerPool implements the promise of JobPool.                            *)
THEOREM KeepsPromise == Spec => PromiseKept
<1>1. Init => Promise!PoolInit
  BY DEF Init, Promise!PoolInit, FateOf
<1>2. PoolInv /\ [Next]_vars => [Promise!PoolNext]_(Promise!poolVars)
  BY StepPromise
<1> QED
  BY <1>1, <1>2, PoolInvariance, PTL DEF Spec, PromiseKept, Promise!PoolSpec
=============================================================================
