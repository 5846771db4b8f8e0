----------------------------- MODULE CallProofs -----------------------------
(*****************************************************************************)
(* The calls of pkg/infrastructure, pkg/webhook and pkg/resilience, proved for*)
(* any number of callers, operations, connections, partitions and retries.   *)
(* Like the models, the proofs share nothing with each other: one section for*)
(* each.                                                                     *)
(*****************************************************************************)
EXTENDS AsyncOps, ClientManagers, StatusCache, RowCursor, KafkaConsumer,
        GrafanaClient, WebhookManager, HealthChecker, GuardedCall,
        TLAPS, SequenceTheorems, FiniteSetTheorems

-----------------------------------------------------------------------------
\* ExecuteAsync and batches.  The tokens that are out are counted by the calls
\* that hold them, what a batch waits for by the results that are missing; a
\* result is set in the step that ends its operation.

Held   == {c \in Calls : at[c] \in {"running", "settled"}}
OpsOut == {i \in Sized : op[i] \in {"running", "settled"}}

\* A call has no outcome until it is over, and nobody is told before he waits;
\* the tokens out are those of the calls that hold one.
CallsInv ==
    /\ cancelled \subseteq Calls
    /\ at \in [Calls -> {"idle", "select", "running", "settled", "freed", "refused"}]
    /\ result \in [Calls -> Ended \cup {"none"}]
    /\ waiter \in [Calls -> {"none", "wait", "timed", "told"}]
    /\ answer \in [Calls -> Ended \cup {"none", "deadline"}]
    /\ \A c \in Calls : at[c] \in {"idle", "select", "running"} <=> result[c] = "none"
    /\ \A c \in Calls : waiter[c] # "told" => answer[c] = "none"
    /\ slots = Cardinality(Held) /\ slots <= Cap

\* The same of the operations of a batch, none of which is touched before the
\* batch is made, and the count of what is outstanding.
OpsInv ==
    /\ batch \in [kind : BatchKinds, size : 0..BatchMax, turn : 0..(BatchMax + 1)]
    /\ op \in [Ops -> {"new", "running", "settled", "freed"}]
    /\ opResult \in [Ops -> Ended \cup {"none"}]
    /\ opAnswer \in [Ops -> Ended \cup {"none"}]
    /\ \A i \in Ops : op[i] \in {"new", "running"} <=> opResult[i] = "none"
    /\ \A i \in Ops : i \notin Sized => opAnswer[i] = "none"
    /\ batch.turn = 0 => \A i \in Ops : op[i] = "new" /\ opAnswer[i] = "none"
    /\ batch.turn = 0 => closes = 0

CountInv ==
    /\ sem = Cardinality(OpsOut) /\ sem <= BatchLimit(batch.kind)
    /\ BatchClosesOnce

BatchInv == OpsInv /\ CountInv
AsyncInv == CallsInv /\ BatchInv

\* What a step may do to a promise.
Kept(out, newOut, tld, newTld) ==
    /\ out # "none" => newOut = out
    /\ \/ newTld = tld
       \/ tld = "none" /\ (newTld = "deadline" \/ (out # "none" /\ newTld = out))
CallsKept == \A c \in Calls : Kept(result[c], result'[c], answer[c], answer'[c])
OpsKept   == \A i \in Ops : Kept(opResult[i], opResult'[i], opAnswer[i], opAnswer'[i])

(* Operations end in a value, an error or a panic.                          *)
LEMMA EndsAreOutcomes ==
    ASSUME NEW k \in Kinds PROVE EndsOf(k) \subseteq Ended
BY DEF EndsOf, Kinds, Ended, RedisEnds, PostgresEnds, MongoEnds, MinioEnds, GrafanaEnds, KafkaEnds

(* Every limit is a number.                                                 *)
LEMMA LimitsAreNumbers ==
    ASSUME NEW k \in BatchKinds PROVE BatchLimit(k) \in Nat
<1>1. k \in {"redis", "kafka", "postgres", "mongo", "minio"}
  BY DEF BatchKinds, Kinds
<1>2. \A n \in {10, 20, 30} : n \div Scale \in Nat
  BY CapAssumption
<1> QED
  BY <1>1, <1>2 DEF BatchLimit, RedisLimit, KafkaLimit, PostgresLimit, MongoLimit, MinioLimit

(* One element more, or less.                                               *)
LEMMA OneMore ==
    ASSUME NEW S, IsFiniteSet(S), NEW x, x \notin S
    PROVE  IsFiniteSet(S \cup {x}) /\ Cardinality(S \cup {x}) = Cardinality(S) + 1 /\ Cardinality(S) \in Nat
BY FS_AddElement, FS_CardinalityType

(* One element less.                                                        *)
LEMMA OneLess ==
    ASSUME NEW S, IsFiniteSet(S), NEW x \in S
    PROVE  /\ IsFiniteSet(S \ {x}) /\ Cardinality(S \ {x}) = Cardinality(S) - 1
           /\ Cardinality(S) \in Nat \ {0}
<1>1. Cardinality(S) # 0
  BY FS_EmptySet
<1> QED
  BY <1>1, FS_RemoveElement, FS_CardinalityType

(* Both semaphores count finite sets.                                       *)
LEMMA CallsFinite == IsFiniteSet(Held) /\ Cardinality(Held) \in Nat
BY CallsAssumption, FS_Subset, FS_CardinalityType DEF Held

(* So do the results that are outstanding.                                  *)
LEMMA OpsFinite ==
    ASSUME OpsInv
    PROVE  /\ Sized \subseteq Ops /\ IsFiniteSet(Sized)
           /\ IsFiniteSet(OpsOut) /\ Cardinality(OpsOut) \in Nat
           /\ IsFiniteSet(Unsettled) /\ Cardinality(Unsettled) \in Nat
<1>1. batch.size \in 0..BatchMax /\ BatchMax \in Nat
  BY CapAssumption DEF OpsInv
<1>2. Sized \subseteq Ops
  BY <1>1 DEF Sized, Ops
<1>3. IsFiniteSet(Sized)
  BY <1>1, FS_Interval DEF Sized
<1>4. OpsOut \subseteq Sized /\ Unsettled \subseteq Sized
  BY DEF OpsOut, Unsettled
<1> QED
  BY <1>2, <1>3, <1>4, FS_Subset, FS_CardinalityType

(* A call of ExecuteAsync, step by step.                                    *)
LEMMA CallKeeps ==
    ASSUME CallsInv, NEW c \in Calls, CallStep(c)
    PROVE  CallsInv' /\ CallsKept
<1> USE CapAssumption DEF CallsInv, CallsKept, Kept, MoveCall
<1>0. IsFiniteSet(Held) /\ Cardinality(Held) \in Nat
  BY CallsFinite
<1>1. CASE CallExecuteAsync(c)
  <2>1. at[c] = "idle" /\ at' = [at EXCEPT ![c] = "select"] /\ UNCHANGED <<cancelled, result, slots, waiter, answer>>
    BY <1>1 DEF CallExecuteAsync
  <2>2. Held' = Held
    BY <2>1 DEF Held
  <2> QED
    BY <2>1, <2>2
<1>2. CASE CancelCall(c)
  <2>1. cancelled' = cancelled \cup {c} /\ UNCHANGED <<at, result, slots, waiter, answer>>
    BY <1>2 DEF CancelCall
  <2>2. Held' = Held
    BY <2>1 DEF Held
  <2> QED
    BY <2>1, <2>2
<1>3. CASE TakeSlot(c)
  <2>1. /\ at[c] = "select" /\ at' = [at EXCEPT ![c] = "running"]
        /\ slots < Cap /\ slots' = slots + 1 /\ UNCHANGED <<cancelled, result, waiter, answer>>
    BY <1>3 DEF TakeSlot
  <2>2. Held' = Held \cup {c} /\ c \notin Held
    BY <2>1 DEF Held
  <2>3. Cardinality(Held') = Cardinality(Held) + 1
    BY <1>0, <2>2, OneMore
  <2> QED
    BY <1>0, <2>1, <2>3
<1>4. ASSUME NEW r \in Ended, NEW from \in {"select", "running"}, NEW to \in {"refused", "settled"},
             MoveCall(c, from, to), Complete(c, r), UNCHANGED <<cancelled, slots, waiter, answer>>,
             from = "select" <=> to = "refused"
      PROVE  CallsInv' /\ CallsKept
  <2>1. result[c] = "none" /\ result' = [result EXCEPT ![c] = r] /\ at' = [at EXCEPT ![c] = to] /\ at[c] = from
    BY <1>4 DEF Complete
  <2>2. Held' = Held
    BY <1>4, <2>1 DEF Held
  <2>3. r # "none"
    BY DEF Ended
  <2> QED
    BY <1>4, <2>1, <2>2, <2>3
<1>5. CASE GiveUpOnSlot(c)
  BY <1>4, <1>5 DEF GiveUpOnSlot, Ended
<1>6. ASSUME NEW r \in EndsOf(KindOf[c]), Settle(c, r) PROVE CallsInv' /\ CallsKept
  <2>1. r \in Ended
    BY CallsAssumption, EndsAreOutcomes
  <2> QED
    BY <1>4, <1>6, <2>1 DEF Settle
<1>7. CASE FreeSlot(c)
  <2>1. /\ at[c] = "settled" /\ at' = [at EXCEPT ![c] = "freed"]
        /\ slots' = slots - 1 /\ UNCHANGED <<cancelled, result, waiter, answer>>
    BY <1>7 DEF FreeSlot
  <2>2. Held' = Held \ {c} /\ c \in Held
    BY <2>1 DEF Held
  <2>3. Cardinality(Held') = Cardinality(Held) - 1
    BY <1>0, <2>2, OneLess
  <2> QED
    BY <1>0, <2>1, <2>3
<1>8. ASSUME NEW how \in {"wait", "timed"}, CallWait(c, how) PROVE CallsInv' /\ CallsKept
  <2>1. waiter[c] = "none" /\ waiter' = [waiter EXCEPT ![c] = how] /\ UNCHANGED <<cancelled, at, result, slots, answer>>
    BY <1>8 DEF CallWait
  <2>2. Held' = Held
    BY <2>1 DEF Held
  <2> QED
    BY <2>1, <2>2
<1>9. CASE WaitReturns(c) \/ WaitTimesOut(c)
  <2>1. PICK r \in Ended \cup {"deadline"} :
            /\ waiter[c] # "told"
            /\ r # "deadline" => result[c] # "none" /\ r = result[c]
            /\ waiter' = [waiter EXCEPT ![c] = "told"] /\ answer' = [answer EXCEPT ![c] = r]
            /\ UNCHANGED <<cancelled, at, result, slots>>
    <3>1. CASE WaitReturns(c)
      BY <3>1 DEF WaitReturns, Tell
    <3>2. CASE WaitTimesOut(c)
      BY <3>2 DEF WaitTimesOut, Tell
    <3> QED
      BY <1>9, <3>1, <3>2
  <2>2. Held' = Held
    BY <2>1 DEF Held
  <2>3. answer[c] = "none"
    BY <2>1
  <2>4. CallsInv'
    BY <2>1, <2>2
  <2>5. CallsKept
    BY <2>1, <2>3
  <2> QED
    BY <2>4, <2>5
<1> QED
  BY <1>1, <1>2, <1>3, <1>5, <1>6, <1>7, <1>8, <1>9 DEF CallStep

(* An operation of the batch that gets its result is counted off.           *)
LEMMA CountedOff ==
    ASSUME BatchInv, NEW i \in Sized, NEW r \in Ended, NEW to \in {"settled", "freed"},
           op[i] \in {"new", "running"}, op' = [op EXCEPT ![i] = to],
           CompleteResult(i, r), opAnswer' = opAnswer,
           batch' \in [kind : BatchKinds, size : 0..BatchMax, turn : 0..(BatchMax + 1)],
           batch'.size = batch.size, batch.turn > 0, batch'.turn > 0
    PROVE  OpsInv' /\ BatchClosesOnce' /\ OpsKept
<1> USE DEF BatchInv, CountInv
<1>0. OpsInv /\ Sized' = Sized /\ Sized \subseteq Ops /\ IsFiniteSet(Unsettled) /\ r # "none" /\ batch.turn # 0 /\ batch'.turn # 0
  BY OpsFinite DEF Sized, Ended, OpsInv
<1>1. opResult' = [opResult EXCEPT ![i] = r] /\ opResult[i] = "none" /\ i \in Ops
  BY <1>0 DEF CompleteResult, OpsInv
<1>2. OpsInv'
  BY <1>0, <1>1 DEF OpsInv
<1>3. Unsettled' = Unsettled \ {i} /\ i \in Unsettled
  BY <1>0, <1>1 DEF Unsettled, OpsInv
<1>4. Cardinality(Unsettled') = Cardinality(Unsettled) - 1 /\ Cardinality(Unsettled) \in Nat \ {0} /\ IsFiniteSet(Unsettled')
  BY <1>0, <1>3, OneLess
<1>5. pending = Cardinality(Unsettled) /\ closes = 0
  BY <1>3 DEF BatchClosesOnce
<1>6. pending' = pending - 1 /\ closes' = IF pending = 1 THEN 1 ELSE 0
  BY <1>5 DEF CompleteResult
<1>7. Unsettled' = {} <=> Cardinality(Unsettled') = 0
  BY <1>4, FS_EmptySet
<1>8. BatchClosesOnce'
  BY <1>4, <1>5, <1>6, <1>7 DEF BatchClosesOnce
<1>9. OpsKept
  BY <1>0, <1>1 DEF OpsKept, Kept
<1> QED
  BY <1>2, <1>8, <1>9

(* The batch, step by step.                                                 *)
LEMMA BatchKeeps ==
    ASSUME BatchInv, BatchStep
    PROVE  BatchInv' /\ OpsKept
<1> USE CapAssumption DEF BatchInv, CountInv, MoveOp, NextTurn
<1>0. /\ OpsInv /\ Sized \subseteq Ops /\ IsFiniteSet(Sized)
      /\ IsFiniteSet(OpsOut) /\ Cardinality(OpsOut) \in Nat
      /\ batch.size \in Nat /\ batch.size <= BatchMax /\ batch.turn \in Nat /\ batch.turn <= BatchMax + 1
      /\ BatchLimit(batch.kind) \in Nat
      /\ \A i \in Sized : i \in Nat /\ i > 0 /\ i <= batch.size
  <2>1. batch.size \in 0..BatchMax /\ batch.turn \in 0..(BatchMax + 1) /\ batch.kind \in BatchKinds
    BY DEF OpsInv
  <2> QED
    BY <2>1, OpsFinite, LimitsAreNumbers DEF Sized
<1>1. CASE CallBatch
  <2>1. /\ batch.turn = 0 /\ batch' = [batch EXCEPT !.turn = 1] /\ UNCHANGED <<op, opResult, sem, opAnswer>>
        /\ pending' = batch.size /\ closes' = IF batch.size = 0 THEN 1 ELSE 0
    BY <1>1 DEF CallBatch, NewBatch
  <2>2. /\ batch' \in [kind : BatchKinds, size : 0..BatchMax, turn : 0..(BatchMax + 1)]
        /\ batch'.turn = 1 /\ batch'.size = batch.size /\ batch'.kind = batch.kind
    BY <1>0, <2>1 DEF OpsInv
  <2>3. Sized' = Sized /\ OpsOut' = OpsOut /\ Unsettled' = Sized
    BY <1>0, <2>1, <2>2 DEF Sized, OpsOut, Unsettled, OpsInv
  <2>4. Cardinality(Sized) = batch.size /\ (Sized = {} <=> batch.size = 0)
    <3> DEFINE n == batch.size
    <3>0. n \in Int /\ n >= 0 /\ Sized = 1..n
      BY <1>0 DEF Sized
    <3> HIDE DEF n
    <3>1. Cardinality(1..n) = n
      BY <3>0, FS_Interval
    <3>2. Sized = {} <=> Cardinality(Sized) = 0
      BY <1>0, FS_EmptySet
    <3> QED
      BY <3>0, <3>1, <3>2 DEF n
  <2>5. OpsInv' /\ OpsKept
    BY <1>0, <2>1, <2>2, <2>3 DEF OpsInv, OpsKept, Kept
  <2>6. BatchClosesOnce'
    BY <2>1, <2>3, <2>4 DEF BatchClosesOnce
  <2> QED
    BY <2>1, <2>2, <2>3, <2>5, <2>6
<1>2. CASE MismatchedBatch
  <2>1. /\ batch.turn = 0 /\ batch' = [batch EXCEPT !.turn = batch.size + 1] /\ UNCHANGED <<sem, opAnswer>>
        /\ op' = [i \in Ops |-> IF i \in Sized THEN "freed" ELSE "new"]
        /\ opResult' = [i \in Ops |-> IF i \in Sized THEN "error" ELSE "none"]
        /\ pending' = 0 /\ closes' = 1
    BY <1>2 DEF MismatchedBatch
  <2>2. /\ batch' \in [kind : BatchKinds, size : 0..BatchMax, turn : 0..(BatchMax + 1)]
        /\ batch'.turn = batch.size + 1 /\ batch'.size = batch.size /\ batch'.kind = batch.kind
    BY <1>0, <2>1 DEF OpsInv
  <2>3. Sized' = Sized /\ OpsOut' = {} /\ OpsOut = {} /\ Unsettled' = {}
    BY <1>0, <2>1, <2>2 DEF Sized, OpsOut, Unsettled, OpsInv
  <2>4. OpsInv' /\ OpsKept
    <3>1. "error" \in Ended
      BY DEF Ended
    <3> QED
      BY <1>0, <2>1, <2>2, <2>3, <3>1 DEF OpsInv, OpsKept, Kept
  <2>5. BatchClosesOnce'
    BY <2>1, <2>3, FS_EmptySet DEF BatchClosesOnce
  <2> QED
    BY <2>1, <2>2, <2>3, <2>4, <2>5
<1>3. CASE CancelBatch
  <2>1. UNCHANGED <<batch, op, opResult, sem, pending, closes, opAnswer>>
    BY <1>3 DEF CancelBatch
  <2> QED
    BY <2>1 DEF OpsInv, OpsKept, Kept, Sized, OpsOut, Unsettled, BatchClosesOnce
<1>4. ASSUME NEW i \in Sized, StartOp(i) PROVE BatchInv' /\ OpsKept
  <2>1. /\ batch.turn = i /\ sem < BatchLimit(batch.kind) /\ sem' = sem + 1
        /\ op[i] = "new" /\ op' = [op EXCEPT ![i] = "running"]
        /\ batch' = [batch EXCEPT !.turn = batch.turn + 1]
        /\ UNCHANGED <<opResult, pending, closes, opAnswer>>
    BY <1>4 DEF StartOp
  <2>2. /\ batch' \in [kind : BatchKinds, size : 0..BatchMax, turn : 0..(BatchMax + 1)]
        /\ batch'.turn > 0 /\ batch.turn > 0 /\ batch'.turn # 0
        /\ batch'.size = batch.size /\ batch'.kind = batch.kind
    BY <1>0, <2>1 DEF OpsInv
  <2>3. Sized' = Sized /\ OpsOut' = OpsOut \cup {i} /\ i \notin OpsOut /\ Unsettled' = Unsettled
    BY <1>0, <2>1, <2>2 DEF Sized, OpsOut, Unsettled, OpsInv
  <2>4. Cardinality(OpsOut') = Cardinality(OpsOut) + 1
    BY <1>0, <2>3, OneMore
  <2>5. OpsInv' /\ OpsKept
    BY <1>0, <2>1, <2>2, <2>3 DEF OpsInv, OpsKept, Kept
  <2>6. BatchClosesOnce'
    BY <2>1, <2>2, <2>3 DEF BatchClosesOnce
  <2> QED
    BY <1>0, <2>1, <2>2, <2>4, <2>5, <2>6
<1>5. ASSUME NEW i \in Sized, SkipOp(i) PROVE BatchInv' /\ OpsKept
  <2>1. /\ batch.turn = i /\ op[i] = "new" /\ op' = [op EXCEPT ![i] = "freed"]
        /\ CompleteResult(i, "ctxerr") /\ batch' = [batch EXCEPT !.turn = batch.turn + 1]
        /\ UNCHANGED <<sem, opAnswer>>
    BY <1>5 DEF SkipOp
  <2>2. /\ batch' \in [kind : BatchKinds, size : 0..BatchMax, turn : 0..(BatchMax + 1)]
        /\ batch'.turn > 0 /\ batch.turn > 0
        /\ batch'.size = batch.size /\ batch'.kind = batch.kind
    BY <1>0, <2>1 DEF OpsInv
  <2>3. OpsInv' /\ BatchClosesOnce' /\ OpsKept
    BY <2>1, <2>2, CountedOff DEF Ended
  <2>4. OpsOut' = OpsOut
    BY <1>0, <2>1, <2>2 DEF Sized, OpsOut, OpsInv
  <2> QED
    BY <2>1, <2>2, <2>3, <2>4
<1>6. ASSUME NEW i \in Sized, NEW r \in EndsOf(batch.kind), SettleOp(i, r) PROVE BatchInv' /\ OpsKept
  <2>1. /\ op[i] = "running" /\ op' = [op EXCEPT ![i] = "settled"]
        /\ CompleteResult(i, r) /\ UNCHANGED <<batch, sem, opAnswer>>
    BY <1>6 DEF SettleOp
  <2>2. batch.turn > 0
    BY <1>0, <2>1 DEF OpsInv
  <2>3. r \in Ended
    BY EndsAreOutcomes DEF OpsInv, BatchKinds
  <2>4. OpsInv' /\ BatchClosesOnce' /\ OpsKept
    BY <1>0, <2>1, <2>2, <2>3, CountedOff DEF OpsInv
  <2>5. OpsOut' = OpsOut
    BY <1>0, <2>1 DEF Sized, OpsOut, OpsInv
  <2> QED
    BY <2>1, <2>4, <2>5
<1>7. ASSUME NEW i \in Sized, FreeOp(i) PROVE BatchInv' /\ OpsKept
  <2>1. /\ op[i] = "settled" /\ op' = [op EXCEPT ![i] = "freed"] /\ sem' = sem - 1
        /\ UNCHANGED <<batch, opResult, pending, closes, opAnswer>>
    BY <1>7 DEF FreeOp
  <2>2. Sized' = Sized /\ Unsettled' = Unsettled /\ OpsOut' = OpsOut \ {i} /\ i \in OpsOut
    BY <1>0, <2>1 DEF Sized, OpsOut, Unsettled, OpsInv
  <2>3. Cardinality(OpsOut') = Cardinality(OpsOut) - 1
    BY <1>0, <2>2, OneLess
  <2>4. OpsInv' /\ OpsKept
    BY <1>0, <2>1, <2>2 DEF OpsInv, OpsKept, Kept
  <2>5. BatchClosesOnce'
    BY <2>1, <2>2 DEF BatchClosesOnce
  <2> QED
    BY <1>0, <2>1, <2>3, <2>4, <2>5
<1>8. CASE WaitAll
  <2>1. /\ closes > 0 /\ \A i \in Sized : opAnswer[i] = "none"
        /\ opAnswer' = [i \in Ops |-> IF i \in Sized THEN opResult[i] ELSE "none"]
        /\ UNCHANGED <<batch, op, opResult, sem, pending, closes>>
    BY <1>8 DEF WaitAll
  <2>2. batch.turn > 0 /\ Unsettled = {}
    <3>1. batch.turn # 0
      BY <2>1 DEF OpsInv
    <3> QED
      BY <1>0, <2>1, <3>1 DEF BatchClosesOnce
  <2>3. OpsInv' /\ OpsKept
    BY <1>0, <2>1, <2>2 DEF OpsInv, OpsKept, Kept, Sized, Unsettled
  <2> QED
    BY <2>1, <2>3 DEF Sized, OpsOut, Unsettled, BatchClosesOnce
<1> QED
  BY <1>1, <1>2, <1>3, <1>4, <1>5, <1>6, <1>7, <1>8 DEF BatchStep, OpStep

(* Calls and batches share nothing.                                         *)
LEMMA AsyncStepKeeps ==
    ASSUME AsyncInv, [AsyncNext]_asyncVars
    PROVE  AsyncInv' /\ CallsKept /\ OpsKept
<1> USE DEF AsyncInv
<1>1. UNCHANGED callVars => CallsInv' /\ CallsKept
  BY DEF callVars, CallsInv, Held, CallsKept, Kept
<1>2. UNCHANGED batchVars => BatchInv' /\ OpsKept
  BY DEF batchVars, BatchInv, OpsInv, CountInv, Sized, OpsOut, Unsettled, BatchClosesOnce, OpsKept, Kept
<1>3. ASSUME NEW c \in Calls, CallStep(c) PROVE UNCHANGED batchVars
  BY <1>3 DEF CallStep, CallExecuteAsync, CancelCall, TakeSlot, GiveUpOnSlot, Settle, FreeSlot,
              CallWait, WaitReturns, WaitTimesOut, Tell
<1>4. BatchStep => UNCHANGED callVars
  BY DEF BatchStep, OpStep, CallBatch, MismatchedBatch, CancelBatch, StartOp, SkipOp, SettleOp,
         FreeOp, WaitAll
<1>5. UNCHANGED asyncVars => UNCHANGED callVars /\ UNCHANGED batchVars
  BY DEF asyncVars
<1> QED
  BY <1>1, <1>2, <1>3, <1>4, <1>5, CallKeeps, BatchKeeps DEF AsyncNext

(* The inductive invariant of calls and batches.                            *)
THEOREM AsyncInvariance == AsyncSpec => []AsyncInv
<1>1. AsyncInit => AsyncInv
  <2> SUFFICES ASSUME AsyncInit PROVE AsyncInv
    OBVIOUS
  <2> USE DEF AsyncInit
  <2>1. Held = {} /\ OpsOut = {} /\ Cardinality({}) = 0
    <3>1. Sized \subseteq Ops
      BY CapAssumption DEF Sized, Ops
    <3> QED
      BY <3>1, FS_EmptySet DEF Held, OpsOut
  <2>2. CallsInv
    BY <2>1, CapAssumption DEF CallsInv
  <2>3. batch \in [kind : BatchKinds, size : 0..BatchMax, turn : 0..(BatchMax + 1)] /\ batch.turn = 0
    BY CapAssumption
  <2>4. OpsInv
    BY <2>3 DEF OpsInv
  <2>5. BatchLimit(batch.kind) \in Nat
    BY <2>3, LimitsAreNumbers
  <2> QED
    BY <2>1, <2>2, <2>3, <2>4, <2>5 DEF AsyncInv, BatchInv, CountInv, BatchClosesOnce
<1>2. AsyncInv /\ [AsyncNext]_asyncVars => AsyncInv'
  BY AsyncStepKeeps
<1> QED
  BY <1>1, <1>2, PTL DEF AsyncSpec

(* For any calls, batch sizes and limits: the tokens of both semaphores are *)
(* those of the goroutines under way, and a batch is done once, when all of *)
(* its results are there.                                                   *)
THEOREM OperationsAreAccounted == AsyncSpec => []OperationsAccounted
<1>1. AsyncInv => OperationsAccounted
  BY DEF AsyncInv, CallsInv, BatchInv, CountInv, Held, OpsOut, OperationsAccounted, SlotsAccounted
<1> QED
  BY <1>1, AsyncInvariance, PTL

(* AsyncResult and BatchAsyncResult implement Promise.                      *)
THEOREM PromisesAreKept == AsyncSpec => ResultsArePromises
<1> DEFINE outcome == [p \in Promises |-> IF p \in Ops THEN opResult[p] ELSE result[p]]
           told    == [p \in Promises |-> IF p \in Ops THEN opAnswer[p] ELSE answer[p]]
<1>0. \A p \in Promises : (p \in Ops) \/ (p \in Calls)
  BY DEF Promises
<1>1. AsyncInit => Promised!PromiseInit
  BY <1>0 DEF AsyncInit, Promised!PromiseInit
<1>2. AsyncInv /\ AsyncInv' /\ [AsyncNext]_asyncVars => [Promised!PromiseNext]_(Promised!promiseVars)
  <2> SUFFICES ASSUME AsyncInv, AsyncInv', [AsyncNext]_asyncVars PROVE Promised!PromiseNext
    OBVIOUS
  <2>1. CallsKept /\ OpsKept
    BY AsyncStepKeeps
  <2>2. outcome' \in [Promises -> Ended \cup {"none"}]
    BY <1>0 DEF AsyncInv, CallsInv, BatchInv, OpsInv
  <2>3. told' \in [Promises -> Ended \cup {"none", "deadline"}]
    BY <1>0 DEF AsyncInv, CallsInv, BatchInv, OpsInv
  <2>4. \A p \in Promises : Kept(outcome[p], outcome'[p], told[p], told'[p])
    BY <1>0, <2>1 DEF CallsKept, OpsKept
  <2> QED
    BY <2>2, <2>3, <2>4
    DEF Kept, Promised!PromiseNext, Promised!OutcomesKept, Promised!ToldTheOutcome, Promised!Settled
<1> QED
  BY <1>1, <1>2, AsyncInvariance, PTL DEF AsyncSpec, ResultsArePromises, Promised!PromiseSpec
-----------------------------------------------------------------------------
\* The managers and their clients.  The client of a pool is closed only after
\* the jobs that were accepted in time are done with it.

\* Until Close begins every pool is one of an open client; afterwards nothing
\* is registered.
OpenInv ==
    /\ closing.at = "idle" =>
          /\ \A n \in Names : pool[n] # "nil" => client[n] = "open"
          /\ \A n \in registered : client[n] = "open"
          /\ manager = "redis" => client[Solo] = "open"
    /\ closing.at = "done" /\ manager \in Tenanted => registered = {}
    /\ manager \notin Tenanted => \A j \in Jobs : jobOn[j] = Solo
    /\ \A j \in Jobs : job[j] = "starting" => manager = "redis"
    /\ \A j \in Jobs : job[j] \in {"new", "holds", "starting"} => saw[j] = "none"

\* A job the pool accepted in time has its client open until it has used it:
\* the client is closed when the jobs of its pool are done.
EarlyInv ==
    \A j \in early :
        /\ job[j] \in {"accepted", "running", "seeking", "done"}
        /\ pool[jobOn[j]] # "nil"
        /\ job[j] \in {"accepted", "running"} => client[jobOn[j]] = "open"
        /\ saw[j] \in {"none", "open"}
        /\ closing.at = "client" /\ jobOn[j] = BeingClosed => job[j] = "done"

ManagersInv == ManagersTypeOK /\ OpenInv /\ EarlyInv

(* The jobs, from the look-up of a connection to their end.                 *)
LEMMA ManagerJobKeeps ==
    ASSUME ManagersInv, NEW j \in Jobs,
           \/ \E n \in Names : GetConnection(j, n)
           \/ GetDefaultConnection(j) \/ StartPool(j) \/ ManagerJobStep(j)
    PROVE  ManagersInv'
<1> USE ManagersAssumption DEF ManagersInv, ManagersTypeOK, OpenInv, EarlyInv, JobGoes
<1>0. closing' = closing => BeingClosed' = BeingClosed
  BY DEF BeingClosed
<1>1. ASSUME NEW n \in Names, GetConnection(j, n) PROVE ManagersInv'
  <2>1. PICK to \in {"unknown", "holds"} :
            /\ job[j] = "new" /\ job' = [job EXCEPT ![j] = to]
            /\ jobOn' = [jobOn EXCEPT ![j] = n] /\ (manager \in Tenanted \/ n = Solo)
            /\ UNCHANGED <<manager, registered, client, pool, once, closing, early, saw>>
    BY <1>1 DEF GetConnection
  <2>2. j \notin early
    BY <2>1
  <2>3. ManagersTypeOK'
    BY <2>1 DEF JobPCs
  <2>4. OpenInv'
    BY <2>1
  <2>5. EarlyInv'
    BY <1>0, <2>1, <2>2
  <2> QED
    BY <2>3, <2>4, <2>5
<1>2. CASE GetDefaultConnection(j)
  BY <1>1, <1>2 DEF GetDefaultConnection
<1>3. CASE StartPool(j)
  <2>1. /\ job[j] = "holds" /\ job' = [job EXCEPT ![j] = "starting"] /\ manager = "redis" /\ once' = "doing"
        /\ UNCHANGED <<manager, registered, client, pool, closing, jobOn, early, saw>>
    BY <1>3 DEF StartPool
  <2> QED
    BY <1>0, <2>1 DEF JobPCs
<1>4. CASE PublishPool(j)
  <2>1. /\ job[j] = "starting" /\ job' = [job EXCEPT ![j] = "holds"] /\ once' = "done"
        /\ pool' = [pool EXCEPT ![jobOn[j]] = "open"]
        /\ UNCHANGED <<manager, registered, client, closing, jobOn, early, saw>>
    BY <1>4 DEF PublishPool
  <2>2. manager = "redis" /\ manager \notin Tenanted /\ jobOn[j] = Solo
    BY <2>1 DEF Tenanted
  <2>3. ManagersTypeOK'
    BY <2>1 DEF JobPCs
  <2>4. OpenInv'
    BY <2>1, <2>2
  <2>5. EarlyInv'
    BY <1>0, <2>1
  <2> QED
    BY <2>3, <2>4, <2>5
<1>5. CASE SubmitAsyncJob(j)
  <2>1. PICK to \in Submitted(pool[jobOn[j]]) :
            /\ job[j] = "holds" /\ job' = [job EXCEPT ![j] = to]
            /\ early' = IF to = "accepted" /\ closing.at = "idle" THEN early \cup {j} ELSE early
            /\ UNCHANGED <<manager, registered, client, pool, once, closing, jobOn, saw>>
    BY <1>5 DEF SubmitAsyncJob
  <2>2. /\ to \in {"accepted", "dropped", "lost", "running"}
        /\ to = "accepted" => pool[jobOn[j]] # "nil"
    BY DEF Submitted
  <2>3. ManagersTypeOK'
    BY <2>1, <2>2 DEF JobPCs
  <2>4. OpenInv'
    BY <2>1, <2>2
  <2>5. j \notin early /\ saw' = saw
    BY <2>1
  <2>6. CASE to = "accepted" /\ closing.at = "idle"
    <3>1. /\ job'[j] = "accepted" /\ pool[jobOn[j]] # "nil" /\ saw[j] = "none"
          /\ client[jobOn[j]] = "open" /\ closing'.at = "idle" /\ early' = early \cup {j}
      BY <2>1, <2>2, <2>6
    <3>2. \A k \in early : job'[k] = job[k]
      BY <2>1, <2>5
    <3> QED
      BY <1>0, <2>1, <2>3, <2>4, <3>1, <3>2
  <2>7. CASE ~ (to = "accepted" /\ closing.at = "idle")
    <3>1. early' = early /\ \A k \in early : job'[k] = job[k]
      BY <2>1, <2>5, <2>7
    <3> QED
      BY <1>0, <2>1, <2>3, <2>4, <3>1
  <2> QED
    BY <2>6, <2>7
<1>6. CASE TakeAsyncJob(j)
  <2>1. /\ job[j] = "accepted" /\ job' = [job EXCEPT ![j] = "running"]
        /\ UNCHANGED <<manager, registered, client, pool, once, closing, jobOn, early, saw>>
    BY <1>6 DEF TakeAsyncJob
  <2> QED
    BY <1>0, <2>1 DEF JobPCs
<1>7. CASE UseClient(j)
  <2>1. PICK to \in {"seeking", "done"} :
            /\ job[j] = "running" /\ job' = [job EXCEPT ![j] = to]
            /\ saw' = [saw EXCEPT ![j] = client[jobOn[j]]]
            /\ UNCHANGED <<manager, registered, client, pool, once, closing, jobOn, early>>
    BY <1>7 DEF UseClient
  <2> QED
    BY <1>0, <2>1 DEF JobPCs
<1>8. CASE FindConnection(j)
  <2>1. /\ job[j] = "seeking" /\ job' = [job EXCEPT ![j] = "done"]
        /\ UNCHANGED <<manager, registered, client, pool, once, closing, jobOn, early, saw>>
    BY <1>8 DEF FindConnection
  <2> QED
    BY <1>0, <2>1 DEF JobPCs
<1> QED
  BY <1>1, <1>2, <1>3, <1>4, <1>5, <1>6, <1>7, <1>8 DEF ManagerJobStep

(* Close, from its first line to its last.                                  *)
LEMMA CloseKeeps ==
    ASSUME ManagersInv, CloseBegin \/ CloseStep
    PROVE  ManagersInv'
<1> USE ManagersAssumption DEF ManagersInv, ManagersTypeOK, OpenInv, EarlyInv, CloseGoes
<1> DEFINE n == BeingClosed
<1>1. CASE CloseBegin
  <2>1. /\ closing.at = "idle"
        /\ closing' = [at |-> "next", todo |-> IF manager \in Tenanted THEN registered ELSE {Solo}]
        /\ UNCHANGED <<manager, registered, client, pool, once, job, jobOn, early, saw>>
    BY <1>1 DEF CloseBegin
  <2>2. closing' \in [at : {"next"}, todo : SUBSET Names]
    BY <2>1
  <2> QED
    BY <2>1, <2>2
<1>2. CASE StopPool
  <2>1. PICK to \in {"client", "pool"} :
            /\ closing.at = "next" /\ closing' = [closing EXCEPT !.at = to]
            /\ to = "client" => pool[n] = "nil"
            /\ pool' = [pool EXCEPT ![n] = IF pool[n] = "nil" THEN pool[n] ELSE "stopping"]
            /\ UNCHANGED <<manager, registered, client, once, job, jobOn, early, saw>>
    BY <1>2 DEF StopPool
  <2>2. closing' \in [at : {to}, todo : SUBSET Names] /\ closing'.todo = closing.todo /\ closing'.at = to
    BY <2>1
  <2>3. n' = n
    BY <2>2 DEF BeingClosed
  <2>4. ManagersTypeOK'
    BY <2>1, <2>2
  <2>5. \A m \in Names : pool'[m] = "nil" <=> pool[m] = "nil"
    BY <2>1
  <2> HIDE DEF n
  <2>6. OpenInv'
    BY <2>1, <2>2
  <2>7. EarlyInv'
    BY <2>1, <2>2, <2>3, <2>5 DEF n
  <2> QED
    BY <2>4, <2>6, <2>7
<1>3. CASE PoolStopped
  <2>1. /\ closing.at = "pool" /\ closing' = [closing EXCEPT !.at = "client"]
        /\ \A j \in Jobs : jobOn[j] = n => job[j] \notin {"accepted", "running", "seeking"}
        /\ pool' = [pool EXCEPT ![n] = "stopped"]
        /\ UNCHANGED <<manager, registered, client, once, job, jobOn, early, saw>>
    BY <1>3 DEF PoolStopped, Unfinished
  <2>2. closing' \in [at : {"client"}, todo : SUBSET Names] /\ closing'.todo = closing.todo /\ closing'.at = "client"
    BY <2>1
  <2>3. n' = n
    BY <2>2 DEF BeingClosed
  <2>4. ManagersTypeOK'
    BY <2>1, <2>2
  <2>5. \A m \in Names : pool'[m] = "nil" => pool[m] = "nil"
    BY <2>1
  <2> HIDE DEF n
  <2>6. OpenInv'
    BY <2>1, <2>2
  <2>7. EarlyInv'
    BY <2>1, <2>2, <2>3, <2>5 DEF n
  <2> QED
    BY <2>4, <2>6, <2>7
<1>4. CASE CloseClient
  <2>1. /\ closing.at = "client" /\ closing' = [at |-> "next", todo |-> closing.todo \ {n}]
        /\ client' = [client EXCEPT ![n] = "closed"] \/ client' = [client EXCEPT ![n] = client[n]]
        /\ UNCHANGED <<manager, registered, pool, once, job, jobOn, early, saw>>
    BY <1>4 DEF CloseClient
  <2>2. closing' \in [at : {"next"}, todo : SUBSET Names]
    BY <2>1
  <2> HIDE DEF n
  <2>3. ManagersTypeOK'
    <3>1. client' \in [Names -> {"nil", "open", "closed"}]
      BY <2>1
    <3>2. closing' \in [at : {"idle", "pool", "client", "next", "done"}, todo : SUBSET Names]
      BY <2>2
    <3> QED
      BY <2>1, <3>1, <3>2
  <2>4. OpenInv'
    BY <2>1, <2>2
  <2>5. \A j \in early : job[j] \in {"accepted", "running"} => jobOn[j] # n
    BY <2>1 DEF n
  <2>6. EarlyInv'
    BY <2>1, <2>2, <2>5
  <2> QED
    BY <2>3, <2>4, <2>6
<1>5. CASE CloseEnd
  <2>1. /\ closing' = [closing EXCEPT !.at = "done"]
        /\ registered' = IF manager \in Tenanted THEN {} ELSE registered
        /\ UNCHANGED <<manager, client, pool, once, job, jobOn, early, saw>>
    BY <1>5 DEF CloseEnd
  <2>2. closing' \in [at : {"done"}, todo : SUBSET Names]
    BY <2>1
  <2> QED
    BY <2>1, <2>2
<1> QED
  BY <1>1, <1>2, <1>3, <1>4, <1>5 DEF CloseStep

(* The inductive invariant of a manager with its connections.               *)
THEOREM ManagersInvariance == ManagersSpec => []ManagersInv
<1>1. ManagersInit => ManagersInv
  <2> SUFFICES ASSUME ManagersInit PROVE ManagersInv
    OBVIOUS
  <2> USE ManagersAssumption DEF ManagersInit
  <2>1. registered \subseteq Names /\ (manager = "redis" => registered = {Solo})
    BY DEF Connects, Managers, Tenanted, PostgresConnects, MongoConnects, RedisConnects, KafkaConnects,
           MinioConnects, GrafanaConnects
  <2>2. closing \in [at : {"idle"}, todo : SUBSET Names]
    OBVIOUS
  <2>3. ManagersTypeOK
    <3>1. /\ client \in [Names -> {"nil", "open", "closed"}]
          /\ pool \in [Names -> {"nil", "open", "stopping", "stopped"}]
      OBVIOUS
    <3>2. closing \in [at : {"idle", "pool", "client", "next", "done"}, todo : SUBSET Names]
      BY <2>2
    <3>3. job \in [Jobs -> JobPCs] /\ jobOn \in [Jobs -> Names]
          /\ saw \in [Jobs -> {"none", "nil", "open", "closed"}]
      BY DEF JobPCs
    <3> QED
      BY <2>1, <3>1, <3>2, <3>3 DEF ManagersTypeOK
  <2>4. OpenInv
    BY <2>1, <2>2 DEF OpenInv
  <2> QED
    BY <2>3, <2>4 DEF ManagersInv, EarlyInv
<1>2. ManagersInv /\ [ManagersNext]_managerVars => ManagersInv'
  <2> SUFFICES ASSUME ManagersInv, [ManagersNext]_managerVars PROVE ManagersInv'
    OBVIOUS
  <2>1. UNCHANGED managerVars => ManagersInv'
    BY DEF managerVars, ManagersInv, ManagersTypeOK, OpenInv, EarlyInv, BeingClosed
  <2> QED
    BY <2>1, ManagerJobKeeps, CloseKeeps DEF ManagersNext
<1> QED
  BY <1>1, <1>2, PTL DEF ManagersSpec

(* For any connections, jobs and kind of manager: a job that was accepted   *)
(* before Close began finds its client open, and whatever can be looked up  *)
(* is open.                                                                 *)
THEOREM ClientsAreOpenWhenUsed == ManagersSpec => []ClientsOpenWhenUsed
<1>1. ManagersInv => ClientsOpenWhenUsed
  <2> SUFFICES ASSUME ManagersInv PROVE ClientsOpenWhenUsed
    OBVIOUS
  <2>1. closing.at \in {"idle", "done"} /\ manager \in Tenanted => \A n \in registered : client[n] = "open"
    BY DEF ManagersInv, OpenInv
  <2> QED
    BY <2>1 DEF ManagersInv, EarlyInv, ClientsOpenWhenUsed, AcceptedJobsSeeOpenClient,
                LookedUpIsOpen, CloseRuns
<1> QED
  BY <1>1, ManagersInvariance, PTL
-----------------------------------------------------------------------------
\* GetStatus.  Three ages add up: that of a ping, of its answer when it is
\* stored, and of what is stored.

\* A ping that has a deadline is no older than that, its answer is of the time
\* since it began, and the cache expires a TTL and a ping after its answer at
\* the latest.
AgeInv ==
    Timed =>
        /\ \A a \in Askers : asker[a] \in {"pinging", "pinged"} =>
              since[a] <= clock /\ clock <= since[a] + PingTime
        /\ \A a \in Askers : asker[a] = "pinged" => since[a] <= seen[a] /\ seen[a] <= clock
        /\ cached >= 0 => expiry <= cached + StatusTTL + PingTime

StatusInv == StatusTypeOK /\ AgeInv

(* What is kept of an answer is one of the two times to live.               *)
LEMMA TTLIsLong ==
    ASSUME source \in Sources
    PROVE  StatusTTL \in {ShortTTL, LongTTL} /\ Timed \in BOOLEAN
<1>1. StatusOf[source] \in [ttl : {ShortTTL, LongTTL}, timed : BOOLEAN]
  <2>1. source \in {"redis", "mongo", "minio", "postgres", "grafana"}
    BY DEF Sources, StatusOf
  <2> DEFINE Status == [ttl : {ShortTTL, LongTTL}, timed : BOOLEAN]
  <2>2. /\ RedisStatus \in Status /\ MongoStatus \in Status /\ MinioStatus \in Status
        /\ PostgresStatus \in Status /\ GrafanaStatus \in Status
    BY DEF RedisStatus, MongoStatus, MinioStatus, PostgresStatus, GrafanaStatus
  <2>3. StatusOf[source] \in {RedisStatus, MongoStatus, MinioStatus, PostgresStatus, GrafanaStatus}
    BY <2>1 DEF StatusOf
  <2> QED
    BY <2>2, <2>3
<1> QED
  BY <1>1 DEF StatusTTL, Timed

(* The steps of GetStatus, which keep the ages and tell none that is older. *)
LEMMA StatusStepKeeps ==
    ASSUME StatusInv, [StatusNext]_statusVars
    PROVE  /\ StatusInv'
           /\ \A a \in Askers : Timed /\ asker[a] # "told" /\ asker'[a] = "told"
                  => clock - seen'[a] < StatusTTL + PingTime
<1>0. /\ source' = source /\ source \in Sources
      /\ StatusTTL \in Nat \ {0} /\ StatusTTL <= ShortTTL + LongTTL /\ Timed \in BOOLEAN
      /\ StatusTTL' = StatusTTL /\ Timed' = Timed
  <2>1. source' = source /\ source \in Sources
    BY DEF StatusInv, StatusTypeOK, StatusNext, ClockTick, StatusHit, StatusMiss, PingAnswered,
           StoreStatus, StatusReturned, statusVars
  <2> QED
    BY <2>1, TTLIsLong, StatusAssumption DEF StatusTTL, Timed
<1> USE <1>0, StatusAssumption DEF StatusInv, StatusTypeOK, AgeInv, AskerGoes
<1>1. CASE ClockTick
  BY <1>1 DEF ClockTick
<1>2. ASSUME NEW a \in Askers, StatusHit(a)
      PROVE  /\ StatusInv'
             /\ \A b \in Askers : Timed /\ asker[b] # "told" /\ asker'[b] = "told"
                    => clock - seen'[b] < StatusTTL + PingTime
  BY <1>2 DEF StatusHit, IsFresh
<1>3. ASSUME NEW a \in Askers, StatusMiss(a) \/ PingAnswered(a)
      PROVE  /\ StatusInv'
             /\ \A b \in Askers : Timed /\ asker[b] # "told" /\ asker'[b] = "told"
                    => clock - seen'[b] < StatusTTL + PingTime
  BY <1>3 DEF StatusMiss, PingAnswered
<1>4. ASSUME NEW a \in Askers, StoreStatus(a)
      PROVE  /\ StatusInv'
             /\ \A b \in Askers : Timed /\ asker[b] # "told" /\ asker'[b] = "told"
                    => clock - seen'[b] < StatusTTL + PingTime
  <2>1. /\ asker[a] = "pinged" /\ asker' = [asker EXCEPT ![a] = "told"]
        /\ cached' = seen[a] /\ expiry' = clock + StatusTTL
        /\ UNCHANGED <<source, clock, since, seen>>
    BY <1>4 DEF StoreStatus
  <2>2. Timed => since[a] <= clock /\ clock <= since[a] + PingTime /\ since[a] <= seen[a] /\ seen[a] <= clock
    BY <2>1
  <2>3. StatusTypeOK'
    BY <2>1
  <2>4. AgeInv'
    BY <2>1, <2>2
  <2> QED
    BY <2>1, <2>2, <2>3, <2>4
<1>5. ASSUME NEW a \in Askers, StatusReturned(a)
      PROVE  /\ StatusInv'
             /\ \A b \in Askers : Timed /\ asker[b] # "told" /\ asker'[b] = "told"
                    => clock - seen'[b] < StatusTTL + PingTime
  BY <1>5 DEF StatusReturned
<1>6. CASE UNCHANGED statusVars
  BY <1>6 DEF statusVars
<1> QED
  BY <1>1, <1>2, <1>3, <1>4, <1>5, <1>6 DEF StatusNext

(* The inductive invariant of the status cache.                             *)
THEOREM StatusInvariance == StatusSpec => []StatusInv
<1>1. StatusInit => StatusInv
  BY StatusAssumption DEF StatusInit, StatusInv, StatusTypeOK, AgeInv
<1>2. StatusInv /\ [StatusNext]_statusVars => StatusInv'
  BY StatusStepKeeps
<1> QED
  BY <1>1, <1>2, PTL DEF StatusSpec

(* For any callers, times to live and length of a ping: no status that is   *)
(* told is older than a TTL and a ping together.                            *)
THEOREM StatusesAreFresh == StatusSpec => StatusAgesOut
<1>1. StatusInv /\ [StatusNext]_statusVars =>
        [\A a \in Askers : Timed /\ asker[a] # "told" /\ asker'[a] = "told"
           => clock - seen'[a] < StatusTTL + PingTime]_statusVars
  BY StatusStepKeeps
<1> QED
  BY <1>1, StatusInvariance, PTL DEF StatusSpec, StatusAgesOut
-----------------------------------------------------------------------------
\* The rows of a query.  A buffer is in the pool or held by one query, from the
\* scan until the row is copied.

\* What a query has, whoever scans it.
Own(q, s) == s \in Seq(Queries) /\ \A i \in 1..Len(s) : s[i] = q

\* A query that scans into a buffer has one while it has a row, and no other
\* query has it nor the pool: what it scanned is still there when it is copied.
BuffersInv ==
    /\ query \in [Queries -> {"idle", "cursor", "buffer", "scanned", "built", "closed"}]
    /\ held \in [Queries -> SUBSET Buffers] /\ free \subseteq Buffers
    /\ \A q, r \in Queries : q # r => held[q] \cap held[r] = {}
    /\ \A q \in Queries : held[q] \cap free = {}
    /\ \A q \in Queries : held[q] = {} \/ \E b \in Buffers : held[q] = {b}
    /\ \A q \in Queries : query[q] = "scanned" => \A b \in held[q] : cell[b] = q

\* The rows built are the query's own, one for each row that was read.
RowsInv ==
    /\ read \in [Queries -> 0..RowCount]
    /\ rows \in [Queries -> Seq(Queries)]
    /\ reply \in [Queries -> [err : BOOLEAN, rows : Seq(Queries)]]
    /\ \A q \in Queries : Own(q, rows[q])
    /\ \A q \in Queries : query[q] \in {"idle", "cursor", "built"} => Len(rows[q]) = read[q]
    /\ \A q \in Queries : query[q] \in {"buffer", "scanned"} => Len(rows[q]) + 1 = read[q]

CursorInv == BuffersInv /\ RowsInv /\ RowsAreTheQuerys

(* The buffers, step by step: each is in the pool or held by one query.     *)
LEMMA BuffersKept ==
    ASSUME BuffersInv, [RowsNext]_rowVars
    PROVE  BuffersInv'
<1> USE DEF BuffersInv, QueryGoes
<1>1. ASSUME NEW q \in Queries, OpenCursor(q) \/ CursorFails(q) \/ BuildRow(q) \/ EndRows(q)
      PROVE  BuffersInv'
  <2>1. /\ UNCHANGED <<free, held, cell>>
        /\ \E to \in {"cursor", "closed", "built"} : query' = [query EXCEPT ![q] = to]
    BY <1>1 DEF OpenCursor, CursorFails, BuildRow, EndRows
  <2> QED
    BY <2>1
<1>2. ASSUME NEW q \in Queries, NextRow(q) PROVE BuffersInv'
  <2>1. cell' = cell /\ query' = [query EXCEPT ![q] = "buffer"]
    BY <1>2 DEF NextRow
  <2>2. CASE UNCHANGED <<free, held>>
    BY <2>1, <2>2
  <2>3. CASE \E b \in free : free' = free \ {b} /\ held' = [held EXCEPT ![q] = {b}]
    BY <2>1, <2>3
  <2> QED
    BY <1>2, <2>2, <2>3 DEF NextRow
<1>3. ASSUME NEW q \in Queries, ScanRow(q) PROVE BuffersInv'
  <2>1. /\ query' = [query EXCEPT ![q] = "scanned"] /\ UNCHANGED <<free, held>>
        /\ cell' = [b \in Buffers |-> IF b \in held[q] THEN q ELSE cell[b]]
    BY <1>3 DEF ScanRow
  <2> QED
    BY <2>1
<1>4. ASSUME NEW q \in Queries, ScanFails(q) PROVE BuffersInv'
  <2>1. /\ query' = [query EXCEPT ![q] = "closed"] /\ cell' = cell
        /\ free' = free \cup held[q] /\ held' = [held EXCEPT ![q] = {}]
    BY <1>4 DEF ScanFails
  <2> QED
    BY <2>1
<1>5. ASSUME NEW q \in Queries, ReturnBuffer(q) PROVE BuffersInv'
  <2>1. /\ query' = [query EXCEPT ![q] = "cursor"]
        /\ cell' = [b \in Buffers |-> IF b \in held[q] THEN "nil" ELSE cell[b]]
        /\ free' = free \cup held[q] /\ held' = [held EXCEPT ![q] = {}]
    BY <1>5 DEF ReturnBuffer
  <2> QED
    BY <2>1
<1>6. CASE UNCHANGED rowVars
  BY <1>6 DEF rowVars
<1> QED
  BY <1>1, <1>2, <1>3, <1>4, <1>5, <1>6 DEF RowsNext

\* The copy is of the query's own row.
LEMMA CopiedIsOwn ==
    ASSUME BuffersInv, NEW q \in Queries, query[q] = "scanned"
    PROVE  CopiedRow(q) = q
<1>1. CASE held[q] = {}
  BY <1>1 DEF CopiedRow
<1>2. CASE held[q] # {}
  <2>1. PICK b \in Buffers : held[q] = {b}
    BY <1>2 DEF BuffersInv
  <2>2. cell[b] = q
    BY <2>1 DEF BuffersInv
  <2>3. {cell[d] : d \in held[q]} = {q}
    BY <2>1, <2>2
  <2> QED
    BY <1>2, <2>3 DEF CopiedRow
<1> QED
  BY <1>1, <1>2

(* A row of its own appended leaves a query with rows of its own.           *)
LEMMA OwnAppended ==
    ASSUME NEW q \in Queries, NEW s, Own(q, s)
    PROVE  Own(q, Append(s, q)) /\ Len(Append(s, q)) = Len(s) + 1
<1>1. /\ Append(s, q) \in Seq(Queries) /\ Len(Append(s, q)) = Len(s) + 1
      /\ \A i \in 1..Len(s) : Append(s, q)[i] = s[i]
      /\ Append(s, q)[Len(s) + 1] = q /\ Len(s) \in Nat
  BY AppendProperties, LenProperties DEF Own
<1> QED
  BY <1>1 DEF Own

(* No rows are of any query.                                                *)
LEMMA EmptyOwn == ASSUME NEW q PROVE Own(q, <<>>) /\ Len(<<>>) = 0
BY EmptySeq DEF Own

\* RowsAreTheQuerys for one query.
Right(q) ==
    query[q] = "closed" =>
        /\ \A i \in DOMAIN reply[q].rows : reply[q].rows[i] = q
        /\ ~ reply[q].err => Len(reply[q].rows) = RowCount
        /\ reply[q].err /\ ~ KeepsRows(q) => reply[q].rows = <<>>

(* The property is one of each query.                                       *)
LEMMA RightSplits == RowsAreTheQuerys <=> \A q \in Queries : Right(q)
BY DEF RowsAreTheQuerys, Right

(* The rows, step by step: a query is answered with what it built, and that *)
(* is one row of its own for each that it read.                             *)
LEMMA RowsKept ==
    ASSUME BuffersInv, RowsInv, RowsAreTheQuerys, [RowsNext]_rowVars
    PROVE  RowsInv' /\ RowsAreTheQuerys'
<1> USE RowAssumption DEF RowsInv, QueryGoes
<1>0. /\ query \in [Queries -> {"idle", "cursor", "buffer", "scanned", "built", "closed"}]
      /\ \A q \in Queries : Right(q) /\ Len(rows[q]) \in Nat
  BY RightSplits, LenProperties DEF BuffersInv
<1>1. ASSUME NEW q \in Queries, OpenCursor(q) \/ NextRow(q) \/ ScanRow(q) \/ ReturnBuffer(q)
      PROVE  RowsInv' /\ RowsAreTheQuerys'
  <2>1. /\ UNCHANGED <<rows, reply>>
        /\ query[q] # "closed" /\ query'[q] # "closed"
        /\ \A r \in Queries : r # q => query'[r] = query[r] /\ read'[r] = read[r]
    BY <1>0, <1>1 DEF OpenCursor, NextRow, ScanRow, ReturnBuffer
  <2>2. /\ read' \in [Queries -> 0..RowCount]
        /\ query'[q] \in {"idle", "cursor", "built"} => Len(rows[q]) = read'[q]
        /\ query'[q] \in {"buffer", "scanned"} => Len(rows[q]) + 1 = read'[q]
    BY <1>0, <1>1 DEF OpenCursor, NextRow, ScanRow, ReturnBuffer
  <2>3. RowsInv'
    BY <2>1, <2>2 DEF Own
  <2>4. \A r \in Queries : Right(r)'
    BY <1>0, <2>1 DEF Right, KeepsRows
  <2> QED
    BY <2>3, <2>4 DEF RowsAreTheQuerys, Right
<1>2. ASSUME NEW q \in Queries, BuildRow(q) PROVE RowsInv' /\ RowsAreTheQuerys'
  <2>1. CopiedRow(q) = q
    BY <1>2, CopiedIsOwn DEF BuildRow
  <2>2. /\ query[q] = "scanned" /\ query' = [query EXCEPT ![q] = "built"]
        /\ rows' = [rows EXCEPT ![q] = Append(rows[q], q)]
        /\ UNCHANGED <<read, reply>>
    BY <1>2, <2>1 DEF BuildRow, AppendRow
  <2>3. Own(q, Append(rows[q], q)) /\ Len(Append(rows[q], q)) = Len(rows[q]) + 1
    BY OwnAppended
  <2>4. RowsInv'
    <3>1. rows' \in [Queries -> Seq(Queries)]
      BY <2>2, <2>3 DEF Own
    <3>2. \A r \in Queries : Own(r, rows'[r])
      BY <2>2, <2>3
    <3>3. \A r \in Queries : /\ query'[r] \in {"idle", "cursor", "built"} => Len(rows'[r]) = read'[r]
                             /\ query'[r] \in {"buffer", "scanned"} => Len(rows'[r]) + 1 = read'[r]
      BY <1>0, <2>2, <2>3
    <3> QED
      BY <2>2, <3>1, <3>2, <3>3 DEF Own
  <2>5. \A r \in Queries : Right(r)'
    BY <1>0, <2>2 DEF Right, KeepsRows
  <2> QED
    BY <2>4, <2>5 DEF RowsAreTheQuerys, Right
<1>3. ASSUME NEW q \in Queries, CursorFails(q) \/ ScanFails(q) \/ EndRows(q)
      PROVE  RowsInv' /\ RowsAreTheQuerys'
  <2>1. PICK err \in BOOLEAN, list \in {<<>>, rows[q]} :
            /\ query' = [query EXCEPT ![q] = "closed"]
            /\ RowsReply(q, err, list) /\ UNCHANGED <<read, rows>>
            /\ ~ err => list = rows[q] /\ query[q] = "cursor" /\ read[q] >= RowCount
            /\ err /\ ~ KeepsRows(q) => list = <<>>
    <3>1. CASE CursorFails(q) \/ ScanFails(q)
      BY <3>1 DEF CursorFails, ScanFails
    <3>2. CASE EndRows(q)
      BY <3>2 DEF EndRows
    <3> QED
      BY <1>3, <3>1, <3>2
  <2>2. Own(q, list)
    BY EmptyOwn
  <2> DEFINE sent == [err |-> err, rows |-> list]
  <2>3. sent \in [err : BOOLEAN, rows : Seq(Queries)]
    BY <2>2 DEF Own
  <2>4. reply' = [reply EXCEPT ![q] = sent] /\ reply'[q] = sent
    BY <2>1 DEF RowsReply
  <2>5. RowsInv'
    BY <1>0, <2>1, <2>3, <2>4 DEF Own
  <2>6. Right(q)'
    <3>1. DOMAIN list = 1..Len(list)
      BY <2>2, LenProperties DEF Own
    <3>2. ~ err => Len(list) = RowCount
      BY <1>0, <2>1
    <3>3. /\ \A i \in DOMAIN list : list[i] = q
          /\ ~ sent.err => Len(sent.rows) = RowCount
          /\ sent.err /\ ~ KeepsRows(q) => sent.rows = <<>>
          /\ sent.rows = list
      BY <2>1, <2>2, <3>1, <3>2 DEF Own
    <3> HIDE DEF sent
    <3> QED
      BY <2>4, <3>3 DEF Right, KeepsRows
  <2>7. \A r \in Queries : r # q => Right(r)'
    BY <1>0, <2>1, <2>4 DEF Right, KeepsRows
  <2> QED
    BY <2>5, <2>6, <2>7 DEF RowsAreTheQuerys, Right
<1>4. CASE UNCHANGED rowVars
  BY <1>4 DEF rowVars, Own, RowsAreTheQuerys, KeepsRows
<1> QED
  BY <1>1, <1>2, <1>3, <1>4 DEF RowsNext

(* The inductive invariant of the queries.                                  *)
THEOREM CursorInvariance == RowsSpec => []CursorInv
<1>1. RowsInit => CursorInv
  BY RowAssumption, EmptySeq
  DEF RowsInit, CursorInv, BuffersInv, RowsInv, RowsAreTheQuerys, Own
<1>2. CursorInv /\ [RowsNext]_rowVars => CursorInv'
  BY BuffersKept, RowsKept DEF CursorInv
<1> QED
  BY <1>1, <1>2, PTL DEF RowsSpec

(* For any number of queries, buffers and rows, no query is answered with   *)
(* rows of another, with too few of its own, or with rows beside an error   *)
(* (mongo's excepted).                                                      *)
THEOREM RowsAreNeverMixed == RowsSpec => []RowsAreTheQuerys
<1>1. CursorInv => RowsAreTheQuerys
  BY DEF CursorInv
<1> QED
  BY <1>1, CursorInvariance, PTL
-----------------------------------------------------------------------------
\* The consumer group.  The invariant follows the offsets in the order in which
\* the consumer advances them: what is committed was marked, what is marked and
\* what lies before the next offset was handled, and only the session moves a
\* claim.

\* Everything before the next offset of a claim that is in is handled, and so
\* is the message it is about to mark; nothing is marked beyond that.
ClaimInv ==
    \A p \in Partitions :
        /\ claim[p] # "out" => 1..(nextOffset[p] - 1) \subseteq handled[p]
        /\ claim[p] = "handled" => nextOffset[p] \in handled[p]
        /\ claim[p] \in {"handling", "handled"} => nextOffset[p] <= LogEnd

MarkInv == \A p \in Partitions : 1..marked[p] \subseteq handled[p]

DeliveryInv == KafkaTypeOK /\ ClaimInv /\ MarkInv /\ NoMessageSkipped
-----------------------------------------------------------------------------
(* The steps that touch neither claims nor offsets.                         *)
LEMMA OutsideSession ==
    ASSUME DeliveryInv,
           UNCHANGED <<claim, nextOffset, handled, marked, committed>>,
           consumer' \in {"none", "queued", "waiting", "session", "ended"},
           consumeCtx' \in BOOLEAN, sessions' \in 0..MaxSessions,
           kafkaClose' \in {"no", "waiting", "done"}
    PROVE  DeliveryInv'
BY DEF DeliveryInv, KafkaTypeOK, ClaimInv, MarkInv, NoMessageSkipped

(* The step of a claim touches its own partition only.                      *)
LEMMA ClaimStepKeeps ==
    ASSUME DeliveryInv, NEW p \in Partitions,
           \/ DeliverMessage(p) \/ HandlerReturns(p) \/ HandlerFails(p)
           \/ MarkMessage(p) \/ LeaveClaim(p)
    PROVE  DeliveryInv'
<1> USE KafkaAssumption DEF DeliveryInv, KafkaTypeOK, ClaimInv, MarkInv,
            NoMessageSkipped, ClaimGoes, Offsets
<1>1. CASE DeliverMessage(p)
  BY <1>1 DEF DeliverMessage
<1>2. CASE HandlerReturns(p)
  BY <1>2 DEF HandlerReturns
<1>3. CASE HandlerFails(p)
  BY <1>3 DEF HandlerFails
<1>4. CASE MarkMessage(p)
  <2>1. /\ nextOffset[p] \in handled[p] /\ nextOffset[p] \in 1..LogEnd
        /\ 1..(nextOffset[p] - 1) \subseteq handled[p]
    BY <1>4 DEF MarkMessage
  <2>2. 1..nextOffset[p] \subseteq handled[p]
    BY <2>1
  <2>3. /\ marked' = [marked EXCEPT ![p] = nextOffset[p]]
        /\ nextOffset' = [nextOffset EXCEPT ![p] = nextOffset[p] + 1]
        /\ claim' = [claim EXCEPT ![p] = "reading"]
        /\ handled' = handled /\ committed' = committed
    BY <1>4 DEF MarkMessage
  <2>4. KafkaTypeOK'
    BY <1>4, <2>1, <2>3 DEF MarkMessage
  <2>5. ClaimInv'
    BY <2>1, <2>2, <2>3
  <2>6. MarkInv'
    BY <2>2, <2>3
  <2> QED
    BY <2>3, <2>4, <2>5, <2>6
<1>5. CASE LeaveClaim(p)
  BY <1>5 DEF LeaveClaim
<1> QED
  BY <1>1, <1>2, <1>3, <1>4, <1>5

(* Every step preserves the invariant.                                      *)
LEMMA NextKeepsDelivery ==
    ASSUME DeliveryInv, [KafkaNext]_kafkaVars
    PROVE  DeliveryInv'
<1> USE KafkaAssumption
<1>1. CASE \/ ConsumeAsync \/ StartConsumer \/ CancelConsumer \/ SeeCancel \/ JoinFails
           \/ KafkaCloseBegin \/ KafkaCloseReturn \/ UNCHANGED kafkaVars
  BY <1>1, OutsideSession DEF ConsumeAsync, StartConsumer, CancelConsumer, SeeCancel,
     JoinFails, KafkaCloseBegin, KafkaCloseReturn, kafkaVars, ConsumerGoes, DeliveryInv,
     KafkaTypeOK
<1>2. CASE JoinSession
  <2>1. /\ claim' = [p \in Partitions |-> "reading"]
        /\ nextOffset' = [p \in Partitions |-> committed[p] + 1]
        /\ marked' = committed /\ committed' = committed /\ handled' = handled
    BY <1>2 DEF JoinSession
  <2>2. KafkaTypeOK'
    BY <1>2 DEF JoinSession, ConsumerGoes, DeliveryInv, KafkaTypeOK
  <2>3. \A p \in Partitions : 1..(nextOffset'[p] - 1) = 1..committed[p]
    BY <2>1 DEF DeliveryInv, KafkaTypeOK
  <2>4. ClaimInv'
    BY <2>1, <2>3 DEF DeliveryInv, NoMessageSkipped, ClaimInv
  <2> QED
    BY <2>1, <2>2, <2>4 DEF DeliveryInv, NoMessageSkipped, MarkInv
<1>3. CASE EndSession
  BY <1>3 DEF EndSession, ConsumerGoes, DeliveryInv, KafkaTypeOK, ClaimInv, MarkInv,
     NoMessageSkipped
<1>4. ASSUME NEW p \in Partitions,
             \/ DeliverMessage(p) \/ HandlerReturns(p) \/ HandlerFails(p)
             \/ MarkMessage(p) \/ LeaveClaim(p)
      PROVE  DeliveryInv'
  BY <1>4, ClaimStepKeeps
<1> QED
  BY <1>1, <1>2, <1>3, <1>4 DEF KafkaNext

(* The inductive invariant holds in every reachable state.                  *)
THEOREM DeliveryInvariance == KafkaSpec => []DeliveryInv
<1>1. KafkaInit => DeliveryInv
  <2> SUFFICES ASSUME KafkaInit PROVE DeliveryInv
    OBVIOUS
  <2>1. KafkaTypeOK
    <3>1. /\ LogEnd \in Nat /\ 1 \in 1..(LogEnd + 1) /\ 0 \in 0..LogEnd /\ 0 \in 0..MaxSessions
      BY KafkaAssumption
    <3> QED
      BY <3>1 DEF KafkaInit, KafkaTypeOK
  <2>2. 1..0 = {}
    OBVIOUS
  <2>3. ClaimInv /\ MarkInv /\ NoMessageSkipped
    BY <2>2 DEF KafkaInit, ClaimInv, MarkInv, NoMessageSkipped
  <2> QED
    BY <2>1, <2>3 DEF DeliveryInv
<1>2. DeliveryInv /\ [KafkaNext]_kafkaVars => DeliveryInv'
  BY NextKeepsDelivery
<1> QED
  BY <1>1, <1>2, PTL DEF KafkaSpec

(* The consumer and the broker's offsets stay within their types.           *)
THEOREM KafkaTypeCorrect == KafkaSpec => []KafkaTypeOK
<1>1. DeliveryInv => KafkaTypeOK
  BY DEF DeliveryInv
<1> QED
  BY <1>1, DeliveryInvariance, PTL

(* However many messages, partitions and sessions there are and whatever    *)
(* fails, no message below a committed offset went unhandled.               *)
THEOREM DeliveredAtLeastOnce == KafkaSpec => []NoMessageSkipped
<1>1. DeliveryInv => NoMessageSkipped
  BY DEF DeliveryInv
<1> QED
  BY <1>1, DeliveryInvariance, PTL
-----------------------------------------------------------------------------
\* Requests to Grafana.  A response exists only after the effect it reports.

\* A request that was served has had its effect, and its annotation is there.
Done(r) ==
    /\ effects[r] > 0
    /\ method[r] = "annotate" => \E i \in 1..attempts[r] : <<r, i>> \in notes

GrafanaInv ==
    /\ method \in [Requests -> Methods]
    /\ request \in [Requests -> {"idle", "sent", "served", "refused", "failed", "ended"}]
    /\ attempts \in [Requests -> Nat] /\ effects \in [Requests -> Nat]
    /\ answered \in [Requests -> Replies]
    /\ \A r \in Requests :
        /\ request[r] # "ended" => answered[r] = "none"
        /\ request[r] = "sent" => attempts[r] > 0
        /\ request[r] = "served" \/ answered[r] = "ok" => Done(r)

(* What is done stays done.                                                 *)
LEMMA DoneStays ==
    ASSUME GrafanaInv, NEW r \in Requests, Done(r), method' = method, notes \subseteq notes',
           effects'[r] \in Nat, effects[r] <= effects'[r],
           attempts'[r] \in Nat, attempts[r] <= attempts'[r]
    PROVE  Done(r)'
BY DEF Done, GrafanaInv

(* The steps of the requests.  A create that is served found no dashboard,  *)
(* and nobody else writes in its name.                                      *)
LEMMA GrafanaStepKeeps ==
    ASSUME GrafanaInv, [GrafanaNext]_grafanaVars
    PROVE  GrafanaInv' /\ [CreateReplacesNothing]_grafanaVars
<1> USE DEF GrafanaInv, RequestGoes
<1>1. ASSUME NEW q \in Requests, SendRequest(q)
      PROVE  GrafanaInv' /\ CreateReplacesNothing
  <2>1. /\ request[q] \in {"idle", "failed"} /\ request' = [request EXCEPT ![q] = "sent"]
        /\ attempts' = [attempts EXCEPT ![q] = attempts[q] + 1]
        /\ UNCHANGED <<method, answered, effects, board, dataSource, notes>>
    BY <1>1 DEF SendRequest
  <2>2. \A r \in Requests : Done(r) => Done(r)'
    BY <2>1, DoneStays
  <2>3. GrafanaInv'
    BY <2>1, <2>2
  <2> QED
    BY <2>1, <2>3 DEF CreateReplacesNothing
<1>2. ASSUME NEW q \in Requests, RequestLost(q) \/ RefuseRequest(q) \/ ResponseLost(q)
      PROVE  GrafanaInv' /\ CreateReplacesNothing
  <2>1. /\ request[q] # "ended" /\ \E to \in {"failed", "refused"} : request' = [request EXCEPT ![q] = to]
        /\ UNCHANGED <<method, attempts, answered, effects, board, dataSource, notes>>
    BY <1>2 DEF RequestLost, RefuseRequest, ResponseLost
  <2>2. \A r \in Requests : Done(r) => Done(r)'
    BY <2>1, DoneStays
  <2>3. GrafanaInv'
    BY <2>1, <2>2
  <2> QED
    BY <2>1, <2>3 DEF CreateReplacesNothing
<1>3. ASSUME NEW q \in Requests, ServeRequest(q)
      PROVE  GrafanaInv' /\ CreateReplacesNothing
  <2>1. /\ request[q] = "sent" /\ request' = [request EXCEPT ![q] = "served"]
        /\ effects' = [effects EXCEPT ![q] = effects[q] + 1]
        /\ notes' = CreateAnnotation(q) /\ board' = BoardAfter(q) /\ ~ Refuses(q)
        /\ UNCHANGED <<method, attempts, answered>>
    BY <1>3 DEF ServeRequest
  <2>2. notes \subseteq notes' /\ (method[q] = "annotate" => <<q, attempts[q]>> \in notes')
    BY <2>1 DEF CreateAnnotation
  <2>3. \A r \in Requests : Done(r) => Done(r)'
    BY <2>1, <2>2, DoneStays
  <2>4. Done(q)'
    <3>1. effects'[q] > 0 /\ attempts[q] \in 1..attempts[q]
      BY <2>1
    <3> QED
      BY <2>1, <2>2, <3>1 DEF Done
  <2>5. GrafanaInv'
    BY <2>1, <2>3, <2>4
  <2>6. CreateReplacesNothing
    <3> SUFFICES ASSUME NEW r \in Requests, board' = r, board # r, method[r] = "create"
                 PROVE  board = Nobody
      BY DEF CreateReplacesNothing
    <3>1. r \notin {Nobody, Intruder, Refusal} /\ BoardAfter(q) # Refusal
      BY <2>1, GrafanaAssumption DEF Refuses
    <3>2. BoardAfter(q) \in {q, board, Nobody, Refusal}
      BY DEF BoardAfter, CreateDashboard, UpdateDashboard, GetDashboard, DeleteDashboard, ListDashboardsOf
    <3>3. r = q
      BY <2>1, <3>1, <3>2
    <3>4. BoardAfter(q) = CreateDashboard(q)
      BY <3>3 DEF BoardAfter
    <3> QED
      BY <3>1, <3>4 DEF CreateDashboard
  <2> QED
    BY <2>5, <2>6
<1>4. ASSUME NEW q \in Requests, ReportResponse(q) \/ GiveUp(q)
      PROVE  GrafanaInv' /\ CreateReplacesNothing
  <2>1. PICK a \in {"ok", "refused", "gaveup"} :
            /\ request[q] # "ended" /\ request' = [request EXCEPT ![q] = "ended"]
            /\ answered' = [answered EXCEPT ![q] = a] /\ (a = "ok" => request[q] = "served")
            /\ UNCHANGED <<method, attempts, effects, board, dataSource, notes>>
    BY <1>4 DEF ReportResponse, GiveUp
  <2>2. \A r \in Requests : Done(r) => Done(r)'
    BY <2>1, DoneStays
  <2>3. GrafanaInv'
    BY <2>1, <2>2 DEF Replies
  <2> QED
    BY <2>1, <2>3 DEF CreateReplacesNothing
<1>5. CASE UNCHANGED grafanaVars
  BY <1>5 DEF grafanaVars, Done
<1> QED
  BY <1>1, <1>2, <1>3, <1>4, <1>5 DEF GrafanaNext

(* The inductive invariant of the requests to Grafana.                      *)
THEOREM GrafanaInvariance == GrafanaSpec => []GrafanaInv
<1>1. GrafanaInit => GrafanaInv
  BY DEF GrafanaInit, GrafanaInv, Replies
<1>2. GrafanaInv /\ [GrafanaNext]_grafanaVars => GrafanaInv'
  BY GrafanaStepKeeps
<1> QED
  BY <1>1, <1>2, PTL DEF GrafanaSpec

(* For any calls and any number of retries: what is reported done was done, *)
(* and a create replaces no dashboard.                                      *)
THEOREM RetriesAreSound == GrafanaSpec => RetriesHold
<1>1. GrafanaInv => ReportsHold
  BY DEF GrafanaInv, ReportsHold, Done
<1>2. GrafanaInv /\ [GrafanaNext]_grafanaVars => [CreateReplacesNothing]_grafanaVars
  BY GrafanaStepKeeps
<1> QED
  BY <1>1, <1>2, GrafanaInvariance, PTL DEF GrafanaSpec, RetriesHold
-----------------------------------------------------------------------------
\* The webhooks.  What Trigger has read is started or still to start.

\* What a call of Trigger has read it has started or has still to start, and
\* a delivery that was served has made the trigger whose end it reports.
TriggerInv ==
    \A t \in Triggers :
        /\ trigger[t] # "none" => \A h \in wanted[t] : h \in todo[t] \/ run[t][h] # "no"
        /\ trigger[t] = "returned" => todo[t] = {}

DeliveryMade ==
    /\ delivery.at = "idle" => delivery.tries = 0
    /\ delivery.at \in {"served", "ok"} => arrived \in Triggers
    /\ delivery.at = "ok" => trigger[arrived] = "returned"

WebhookInv == WebhookTypeOK /\ TriggerInv /\ DeliveryMade

(* A call of Trigger begins with everything still to start.                 *)
LEMMA BeginKeeps ==
    ASSUME WebhookInv, NEW t \in Triggers, NEW caller \in (Triggers \X Hooks) \cup {<<>>},
           BeginTrigger(t, caller), UNCHANGED <<secret, hooked, run>>
    PROVE  /\ TriggerInv'
           /\ trigger' \in [Triggers -> {"none", "loop", "returned"}]
           /\ wanted' \in [Triggers -> SUBSET Hooks] /\ todo' \in [Triggers -> SUBSET Hooks]
           /\ within' \in [Triggers -> (Triggers \X Hooks) \cup {<<>>}]
           /\ \A u \in Triggers : trigger[u] = "returned" => trigger'[u] = "returned"
BY DEF WebhookInv, WebhookTypeOK, TriggerInv, BeginTrigger, Fresh

(* The steps of Trigger, of the handlers, of Handle and of Send.            *)
LEMMA WebhookStepKeeps ==
    ASSUME WebhookInv, [WebhookNext]_webhookVars
    PROVE  WebhookInv'
<1> USE WebhookAssumption DEF WebhookInv, WebhookTypeOK, DeliveryMade
<1>0. \A t \in Triggers : t \in 0..MaxTriggers /\ t # 0
  BY DEF Triggers
<1>1. ASSUME NEW h \in Hooks, Register(h) PROVE WebhookInv'
  BY <1>1 DEF Register, TriggerInv
<1>2. ASSUME NEW t \in Triggers, CallTrigger(t) \/ HandleForeign(t, "event") PROVE WebhookInv'
  <2>1. BeginTrigger(t, <<>>) /\ UNCHANGED <<secret, hooked, run, delivery, arrived>>
    BY <1>2 DEF CallTrigger, HandleForeign
  <2> QED
    BY <2>1, BeginKeeps
<1>3. ASSUME NEW t \in Triggers, NEW h \in Hooks, NEW u \in Triggers, Recurse(t, h, u)
      PROVE  WebhookInv'
  <2>1. BeginTrigger(u, <<t, h>>) /\ UNCHANGED <<secret, hooked, run, delivery, arrived>>
    BY <1>3 DEF Recurse
  <2> QED
    BY <2>1, BeginKeeps
<1>4. ASSUME NEW t \in Triggers, NEW h \in Hooks, StartHook(t, h) PROVE WebhookInv'
  <2>1. PICK how \in {"async", "inline"} :
            /\ run' = [run EXCEPT ![t] = [run[t] EXCEPT ![h] = how]]
            /\ todo' = [todo EXCEPT ![t] = todo[t] \ {h}]
            /\ UNCHANGED <<secret, hooked, trigger, wanted, within, delivery, arrived>>
    BY <1>4 DEF StartHook
  <2>2. run' \in [Triggers -> [Hooks -> {"no", "async", "inline", "ended"}]]
    BY <2>1
  <2>3. TriggerInv'
    BY <2>1 DEF TriggerInv
  <2> QED
    BY <2>1, <2>2, <2>3
<1>5. ASSUME NEW t \in Triggers, NEW h \in Hooks, HookEnds(t, h) PROVE WebhookInv'
  <2>1. /\ run' = [run EXCEPT ![t] = [run[t] EXCEPT ![h] = "ended"]]
        /\ UNCHANGED <<secret, hooked, trigger, wanted, todo, within, delivery, arrived>>
    BY <1>5 DEF HookEnds
  <2>2. run' \in [Triggers -> [Hooks -> {"no", "async", "inline", "ended"}]]
    BY <2>1
  <2>3. TriggerInv'
    BY <2>1 DEF TriggerInv
  <2> QED
    BY <2>1, <2>2, <2>3
<1>6. ASSUME NEW t \in Triggers, TriggerReturns(t) PROVE WebhookInv'
  <2>1. /\ todo[t] = {} /\ trigger' = [trigger EXCEPT ![t] = "returned"]
        /\ trigger[t] = "loop"
        /\ UNCHANGED <<secret, hooked, wanted, todo, run, within, delivery, arrived>>
    BY <1>6 DEF TriggerReturns
  <2>2. /\ trigger' \in [Triggers -> {"none", "loop", "returned"}]
        /\ \A u \in Triggers : trigger[u] = "returned" => trigger'[u] = "returned"
    BY <2>1
  <2>3. TriggerInv'
    BY <2>1 DEF TriggerInv
  <2>4. DeliveryMade'
    BY <2>1, <2>2
  <2> QED
    BY <2>1, <2>2, <2>3, <2>4
<1>7. ASSUME NEW t \in Triggers, HandleWebhook(t) PROVE WebhookInv'
  <2>1. /\ BeginTrigger(t, <<>>) /\ UNCHANGED <<secret, hooked, run>>
        /\ delivery' = [delivery EXCEPT !.at = "served"] /\ arrived' = t
    BY <1>7 DEF HandleWebhook, DeliveryGoes
  <2> QED
    BY <1>0, <2>1, BeginKeeps
<1>8. CASE SendWebhook
  <2>1. /\ delivery' = [at |-> "sent", tries |-> delivery.tries + 1] /\ arrived' = 0
        /\ delivery.at = "idle" \/ delivery.tries <= HookRetries
        /\ UNCHANGED <<secret, hooked, trigger, wanted, todo, run, within>>
    BY <1>8 DEF SendWebhook
  <2>2. delivery.tries + 1 \in 0..(HookRetries + 1)
    BY <2>1
  <2>3. delivery' \in [at : {"sent"}, tries : 0..(HookRetries + 1)]
    BY <2>1, <2>2
  <2> QED
    BY <2>1, <2>3 DEF TriggerInv
<1>9. CASE RefuseWebhook \/ WebhookLost \/ SendGivesUp
  <2>1. /\ \E to \in {"unauthorized", "failed", "error"} : delivery' = [delivery EXCEPT !.at = to]
        /\ UNCHANGED <<secret, hooked, trigger, wanted, todo, run, within, arrived>>
    BY <1>9 DEF RefuseWebhook, WebhookLost, SendGivesUp, DeliveryGoes
  <2> QED
    BY <2>1 DEF TriggerInv
<1>10. CASE WebhookAnswered
  <2>1. /\ delivery.at = "served" /\ delivery' = [delivery EXCEPT !.at = "ok"]
        /\ arrived # 0 => trigger[arrived] = "returned"
        /\ UNCHANGED <<secret, hooked, trigger, wanted, todo, run, within, arrived>>
    BY <1>10 DEF WebhookAnswered, DeliveryGoes
  <2> QED
    BY <1>0, <2>1 DEF TriggerInv
<1>11. CASE UNCHANGED webhookVars
  BY <1>11 DEF webhookVars, TriggerInv
<1> QED
  BY <1>1, <1>2, <1>3, <1>4, <1>5, <1>6, <1>7, <1>8, <1>9, <1>10, <1>11 DEF WebhookNext

(* The inductive invariant of the webhook manager.                          *)
THEOREM WebhookInvariance == WebhookSpec => []WebhookInv
<1>1. WebhookInit => WebhookInv
  BY WebhookAssumption DEF WebhookInit, WebhookInv, WebhookTypeOK, TriggerInv, DeliveryMade
<1>2. WebhookInv /\ [WebhookNext]_webhookVars => WebhookInv'
  BY WebhookStepKeeps
<1> QED
  BY <1>1, <1>2, PTL DEF WebhookSpec

(* For any handlers, slots, triggers and retries: a Trigger that returned   *)
(* has started every handler it read, and a Send that reports success was   *)
(* answered after such a Trigger.                                           *)
THEOREM WebhooksAreDelivered == WebhookSpec => []NothingUndelivered
<1>1. WebhookInv => NothingUndelivered
  BY DEF WebhookInv, TriggerInv, DeliveryMade, NothingUndelivered, Triggers
<1> QED
  BY <1>1, WebhookInvariance, PTL
-----------------------------------------------------------------------------
\* The health report.  It is made of the verdicts of its own snapshot, which no
\* later step touches.

\* A probe runs only for a check of the snapshot, a check that passed has a
\* probe that returned in time, and a report is made of all the verdicts.
ReportInv ==
    /\ report = "none" => \A c \in Checks : probe[c] = "none" /\ verdicts[c] = "none"
    /\ \A c \in Checks : probe[c] # "none" => c \in Taken
    /\ \A c \in Checks : verdicts[c] = "healthy" => probe[c] = "ok"
    /\ report = "made" =>
          /\ \A c \in Taken : verdicts[c] # "none"
          /\ overall = CalculateOverallStatus

HealthInv == HealthTypeOK /\ ReportInv

(* The overall status follows the verdicts, which are final when it is made.*)
LEMMA StatusKept ==
    ASSUME snapshot' = snapshot, \A c \in Taken : verdicts'[c] = verdicts[c]
    PROVE  CalculateOverallStatus' = CalculateOverallStatus
<1>1. Unhealthy' = Unhealthy
  BY DEF Unhealthy, Taken
<1> QED
  BY <1>1 DEF CalculateOverallStatus, ResultCritical

(* The overall status is one of the three.                                  *)
LEMMA StatusTyped == CalculateOverallStatus \in {"healthy", "degraded", "unhealthy"}
BY DEF CalculateOverallStatus

(* The report and its checks, step by step.                                 *)
LEMMA ReportKeeps ==
    ASSUME HealthInv, [HealthNext]_healthVars
    PROVE  HealthInv'
<1> USE DEF HealthInv, HealthTypeOK, ReportInv, CheckKinds, Registrable, Taken
<1>1. ASSUME NEW c \in Checks,
             (\E kind \in Registrable : RegisterCheck(c, kind)) \/ DeregisterCheck(c)
      PROVE  HealthInv'
  <2>1. checks' \in [Checks -> CheckKinds] /\ UNCHANGED <<report, snapshot, probe, verdicts, overall>>
    BY <1>1 DEF RegisterCheck, DeregisterCheck
  <2>2. CalculateOverallStatus' = CalculateOverallStatus
    BY <2>1, StatusKept
  <2> QED
    BY <2>1, <2>2
<1>2. CASE BeginReport
  BY <1>2 DEF BeginReport
<1>3. ASSUME NEW c \in Checks, RunCheck(c) PROVE HealthInv'
  BY <1>3 DEF RunCheck
<1>4. ASSUME NEW c \in Checks, ProbeReturns(c) PROVE HealthInv'
  <2>1. /\ probe[c] = "running" /\ UNCHANGED <<checks, report, snapshot, verdicts, overall>>
        /\ \E r \in {"ok", "error"} : probe' = [probe EXCEPT ![c] = r]
    BY <1>4 DEF ProbeReturns
  <2>2. CalculateOverallStatus' = CalculateOverallStatus
    BY <2>1, StatusKept
  <2> QED
    BY <2>1, <2>2
<1>5. ASSUME NEW c \in Checks, CheckAnswers(c) \/ CheckTimesOut(c) PROVE HealthInv'
  <2>1. /\ probe[c] # "none" /\ verdicts[c] = "none"
        /\ \/ probe[c] = "ok" /\ verdicts' = [verdicts EXCEPT ![c] = "healthy"]
           \/ verdicts' = [verdicts EXCEPT ![c] = "unhealthy"]
        /\ UNCHANGED <<checks, report, snapshot, probe, overall>>
    BY <1>5 DEF CheckAnswers, CheckTimesOut
  <2>2. report # "made"
    BY <2>1
  <2> QED
    BY <2>1, <2>2
<1>6. CASE EndReport
  <2>1. /\ report' = "made" /\ report = "running"
        /\ \A c \in Taken : verdicts[c] # "none"
        /\ overall' = CalculateOverallStatus
        /\ UNCHANGED <<checks, snapshot, probe, verdicts>>
    BY <1>6 DEF EndReport
  <2>2. CalculateOverallStatus' = CalculateOverallStatus
    BY <2>1, StatusKept
  <2> QED
    BY <2>1, <2>2, StatusTyped
<1>7. CASE UNCHANGED healthVars
  <2>1. UNCHANGED <<checks, report, snapshot, probe, verdicts, overall>>
    BY <1>7 DEF healthVars
  <2>2. CalculateOverallStatus' = CalculateOverallStatus
    BY <2>1, StatusKept
  <2> QED
    BY <2>1, <2>2
<1> QED
  BY <1>1, <1>2, <1>3, <1>4, <1>5, <1>6, <1>7 DEF HealthNext

(* The inductive invariant of the health checker.                           *)
THEOREM ReportInvariance == HealthSpec => []HealthInv
<1>1. HealthInit => HealthInv
  BY DEF HealthInit, HealthInv, HealthTypeOK, ReportInv, CheckKinds, Registrable, Taken
<1>2. HealthInv /\ [HealthNext]_healthVars => HealthInv'
  BY ReportKeeps
<1> QED
  BY <1>1, <1>2, PTL DEF HealthSpec

(* Whichever checks there are, are added, replaced, removed or time out     *)
(* while it is made, a report tells the truth of its checks and agrees with *)
(* IsCriticalHealthy.                                                       *)
THEOREM ReportsAreTrue == HealthSpec => []ReportIsTrue
<1>1. ASSUME HealthInv PROVE ReportIsTrue
  <2> SUFFICES ASSUME report = "made" PROVE
        /\ \A c \in Taken : verdicts[c] # "none"
        /\ overall = "unhealthy" <=> ~ CriticalHealthy
        /\ overall = "healthy" => \A c \in Taken : probe[c] = "ok"
    BY DEF ReportIsTrue
  <2>1. /\ \A c \in Taken : verdicts[c] \in {"healthy", "unhealthy"} /\ c \in Checks
        /\ overall = CalculateOverallStatus
    BY <1>1 DEF HealthInv, HealthTypeOK, ReportInv, Taken
  <2>2. (\E c \in Unhealthy : ResultCritical(c)) <=> ~ CriticalHealthy
    BY <2>1 DEF Unhealthy, CriticalHealthy
  <2>3. overall = "unhealthy" <=> \E c \in Unhealthy : ResultCritical(c)
    BY <2>1 DEF CalculateOverallStatus
  <2>4. overall = "healthy" => Unhealthy = {}
    BY <2>1 DEF CalculateOverallStatus
  <2>5. Unhealthy = {} => \A c \in Taken : probe[c] = "ok"
    BY <1>1, <2>1 DEF HealthInv, ReportInv, Unhealthy
  <2> QED
    BY <2>1, <2>2, <2>3, <2>4, <2>5
<1> QED
  BY <1>1, ReportInvariance, PTL
-----------------------------------------------------------------------------
\* Retries around timeouts.  What an attempt was answered is final, so it does
\* not matter what its function does afterwards.

\* Attempts are made one after the other, and none is begun while the one
\* before it is not answered; an answer that came in time is the function's.
AttemptsInv ==
    /\ maxAttempts \in Tries /\ tryNo \in Nat
    /\ retry \in {"idle", "check", "call", "sleep", "ended"}
    /\ retry # "idle" => tryNo \in Tries
    /\ fn \in [Tries -> {"none", "running", "ok", "error"}]
    /\ guard \in [Tries -> {"none", "waiting", "ok", "error", "timeout"}]
    /\ retry = "sleep" => guard[tryNo] \in {"error", "timeout"} /\ tryNo < maxAttempts
    /\ retry = "check" => guard[tryNo] = "none"
    /\ retry = "idle" => tryNo = 0
    /\ \A i \in Tries : i < tryNo => guard[i] \in {"error", "timeout"}
    /\ \A i \in Tries : i > tryNo => guard[i] = "none"
    /\ \A i \in Tries : guard[i] = "none" <=> fn[i] = "none"
    /\ \A i \in Tries : guard[i] \in {"ok", "error"} => fn[i] = guard[i]

VerdictInv ==
    /\ verdict \in [said : {"none", "ok", "error", "timeout", "ctxerr"}, of : Nat]
    /\ retry # "ended" => verdict.said = "none"
    /\ verdict.said \in {"ok", "error", "timeout"} =>
          verdict.of = tryNo /\ tryNo \in Tries /\ verdict.said = guard[tryNo]
    /\ delay <= MaxDelay

RetryInv == AttemptsInv /\ VerdictInv

(* The lesser of two is at most the second, whatever the first is.          *)
LEMMA LeastIsBelow ==
    ASSUME NEW a, NEW b \in Nat
    PROVE  Least(a, b) <= b
<1>1. CASE a <= b
  BY <1>1 DEF Least
<1>2. CASE ~ (a <= b)
  BY <1>2 DEF Least
<1> QED
  BY <1>1, <1>2

(* The loop, the functions and the timeouts, step by step.                  *)
LEMMA RetryStepKeeps ==
    ASSUME RetryInv, [RetryNext]_retryVars
    PROVE  RetryInv'
<1> USE RetryAssumption DEF RetryInv, AttemptsInv, VerdictInv, RetryGoes, Tries
<1>1. CASE CallRetry
  BY <1>1 DEF CallRetry, MostTries
<1>2. CASE CancelRetry
  BY <1>2 DEF CancelRetry
<1>3. CASE RetrySeesContext
  BY <1>3 DEF RetrySeesContext, Say
<1>4. CASE BeginTry
  BY <1>4 DEF BeginTry
<1>5. ASSUME NEW i \in Tries, FnReturns(i) PROVE RetryInv'
  BY <1>5 DEF FnReturns
<1>6. ASSUME NEW i \in Tries, GuardSees(i) PROVE RetryInv'
  BY <1>6 DEF GuardSees
<1>7. ASSUME NEW i \in Tries, GuardTimesOut(i) PROVE RetryInv'
  BY <1>7 DEF GuardTimesOut
<1>8. CASE TrySucceeds
  BY <1>8 DEF TrySucceeds, Say
<1>9. CASE TryFailsForGood
  BY <1>9 DEF TryFailsForGood, Say
<1>10. CASE TryFails
  <2>1. \E a : delay' = Least(a, MaxDelay)
    BY <1>10 DEF TryFails, CalculateDelay
  <2>2. delay' <= MaxDelay
    BY <2>1, LeastIsBelow
  <2> QED
    BY <1>10, <2>2 DEF TryFails
<1>11. CASE RetryWakes
  <2>1. retry = "sleep" /\ retry' = "check" /\ tryNo' = tryNo + 1 /\ tryNo' \in Tries
    BY <1>11 DEF RetryWakes, MostTries
  <2>2. guard[tryNo'] = "none"
    BY <2>1
  <2>3. \A i \in Tries : i < tryNo' => guard[i] \in {"error", "timeout"}
    BY <2>1
  <2>4. AttemptsInv'
    BY <1>11, <2>1, <2>2, <2>3 DEF RetryWakes
  <2>5. VerdictInv'
    BY <1>11, <2>1 DEF RetryWakes
  <2> QED
    BY <2>4, <2>5
<1>12. CASE UNCHANGED retryVars
  BY <1>12 DEF retryVars
<1> QED
  BY <1>1, <1>2, <1>3, <1>4, <1>5, <1>6, <1>7, <1>8, <1>9, <1>10, <1>11, <1>12 DEF RetryNext

(* The inductive invariant of RetryWithContext around WithContext.          *)
THEOREM RetryInvariance == RetrySpec => []RetryInv
<1>1. RetryInit => RetryInv
  <2> SUFFICES ASSUME RetryInit PROVE RetryInv
    OBVIOUS
  <2>1. maxAttempts \in Tries
    <3>1. PICK n \in -1..MaxTries : maxAttempts = NormalizeConfig(n)
      BY DEF RetryInit
    <3> QED
      BY <3>1, RetryAssumption DEF NormalizeConfig, Tries, MostTries
  <2> QED
    BY <2>1, RetryAssumption DEF RetryInit, RetryInv, AttemptsInv, VerdictInv, Tries
<1>2. RetryInv /\ [RetryNext]_retryVars => RetryInv'
  BY RetryStepKeeps
<1> QED
  BY <1>1, <1>2, PTL DEF RetrySpec

(* For any number of attempts and any delays: the caller is told the answer *)
(* of the last attempt, a success only if it came in time, and no sleep     *)
(* exceeds MaxDelay.                                                        *)
THEOREM VerdictsAreOfTheirAttempts == RetrySpec => []VerdictIsOfItsAttempt
<1>1. RetryInv => VerdictIsOfItsAttempt
  BY RetryAssumption DEF RetryInv, AttemptsInv, VerdictInv, VerdictIsOfItsAttempt, Tries, MostTries
<1> QED
  BY <1>1, RetryInvariance, PTL
=============================================================================
