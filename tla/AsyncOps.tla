------------------------------ MODULE AsyncOps ------------------------------
(***************************************************************************)
(* infrastructure/async.go above the worker pool: ExecuteAsync, which runs  *)
(* one operation in a goroutine under a semaphore shared by the whole       *)
(* program, and ExecuteBatchAsync, whose caller starts the operations of a  *)
(* batch one after the other under a semaphore of the batch; and the        *)
(* ...Async methods of the infrastructure managers, which differ in what    *)
(* their operation does with a cancelled context and in the batch limit.    *)
(***************************************************************************)
EXTENDS Integers, FiniteSets

CONSTANTS Calls,     \* calls of ExecuteAsync, each with a context of its own
          KindOf,    \* the manager whose operation a call runs
          Cap,       \* capacity of asyncSemaphore
          BatchMax,  \* largest batch
          Scale      \* batch limits are divided by Scale

Kinds == {"redis", "kafka", "postgres", "mongo", "minio", "grafana"}

ASSUME CallsAssumption == IsFiniteSet(Calls) /\ KindOf \in [Calls -> Kinds]
ASSUME CapAssumption   == /\ Cap \in Nat \ {0} /\ BatchMax \in Nat
                          /\ Scale \in 1..10

VARIABLES cancelled,  \* the calls whose context is done
          at,         \* where each call is
          result,     \* the AsyncResult of each call
          slots,      \* tokens in asyncSemaphore
          waiter,     \* Wait or WaitWithTimeout on the result
          answer,     \* what the waiter returned
          batch,      \* kind and size of the batch; turn: the caller's index
          batchCtx,   \* the batch's context is done
          op,         \* where each operation of the batch is
          opResult,   \* Results of the batch
          sem,        \* tokens in the batch's semaphore
          pending,    \* results outstanding
          closes,     \* how often the batch's Done was closed
          opAnswer    \* what WaitAll returned

callVars  == <<cancelled, at, result, slots, waiter, answer>>
batchVars == <<batch, batchCtx, op, opResult, sem, pending, closes, opAnswer>>
asyncVars == <<callVars, batchVars>>

Ended == {"value", "error", "panic", "ctxerr"}
Ops   == 1..BatchMax
Sized == 1..batch.size

BatchKinds == Kinds \ {"grafana"}

AsyncTypeOK ==
    /\ cancelled \subseteq Calls
    /\ at \in [Calls -> {"idle", "select", "running", "settled", "freed", "refused"}]
    /\ result \in [Calls -> Ended \cup {"none"}]
    /\ slots \in 0..Cap
    /\ waiter \in [Calls -> {"none", "wait", "timed", "told"}]
    /\ answer \in [Calls -> Ended \cup {"none", "deadline"}]
    /\ batch \in [kind : BatchKinds, size : 0..BatchMax, turn : 0..(BatchMax + 1)]
    /\ batchCtx \in BOOLEAN
    /\ op \in [Ops -> {"new", "running", "settled", "freed"}]
    /\ opResult \in [Ops -> Ended \cup {"none"}]
    /\ sem \in Nat
    /\ pending \in Int
    /\ closes \in Nat
    /\ opAnswer \in [Ops -> Ended \cup {"none"}]

AsyncInit ==
    /\ cancelled = {}
    /\ at = [c \in Calls |-> "idle"]
    /\ result = [c \in Calls |-> "none"]
    /\ slots = 0
    /\ waiter = [c \in Calls |-> "none"]
    /\ answer = [c \in Calls |-> "none"]
    /\ batch \in [kind : BatchKinds, size : 0..BatchMax, turn : {0}]
    /\ batchCtx = FALSE
    /\ op = [i \in Ops |-> "new"]
    /\ opResult = [i \in Ops |-> "none"]
    /\ sem = 0
    /\ pending = 0
    /\ closes = 0
    /\ opAnswer = [i \in Ops |-> "none"]
-----------------------------------------------------------------------------
\* The managers' operations: what each may end in, and whether it ends when
\* its context does.  A client that is nil (MinIO without a connection) or
\* closed panics or fails; mongo's FindOne and postgres's QueryRow put their
\* failure inside the value.

RedisEnds    == {"value", "error"}
PostgresEnds == {"value", "error"}
MongoEnds    == {"value", "error"}
MinioEnds    == {"value", "error", "panic"}
GrafanaEnds  == {"value", "error"}
KafkaEnds    == {"value", "error"}

EndsOf(kind) ==
    CASE kind = "redis"    -> RedisEnds
      [] kind = "postgres" -> PostgresEnds
      [] kind = "mongo"    -> MongoEnds
      [] kind = "minio"    -> MinioEnds
      [] kind = "grafana"  -> GrafanaEnds
      [] kind = "kafka"    -> KafkaEnds

\* kafka looks at its context once, before SendMessage, which has none.
HeedsContext(kind) == kind # "kafka"

RedisLimit    == 30
KafkaLimit    == 10
PostgresLimit == 20
MongoLimit    == 20
MinioLimit    == 10

BatchLimit(kind) ==
    (CASE kind = "redis"    -> RedisLimit
       [] kind = "postgres" -> PostgresLimit
       [] kind = "mongo"    -> MongoLimit
       [] kind = "minio"    -> MinioLimit
       [] kind = "kafka"    -> KafkaLimit) \div Scale
-----------------------------------------------------------------------------
\* An operator marked "Bug" is a variant of the one after it with a plausible
\* mistake: no action uses it, it is what the properties must catch.

\* AsyncResult.Complete: only the first outcome counts.
Complete(c, r) ==
    result' = IF result[c] = "none" THEN [result EXCEPT ![c] = r] ELSE result

MoveCall(c, from, to) == at[c] = from /\ at' = [at EXCEPT ![c] = to]

CallExecuteAsync(c) ==
    /\ MoveCall(c, "idle", "select")
    /\ UNCHANGED <<cancelled, result, slots, waiter, answer, batchVars>>

CancelCall(c) ==
    /\ c \notin cancelled
    /\ at[c] \in {"select", "running"}
    /\ cancelled' = cancelled \cup {c}
    /\ UNCHANGED <<at, result, slots, waiter, answer, batchVars>>

TakeSlot(c) ==
    /\ slots < Cap
    /\ MoveCall(c, "select", "running")
    /\ slots' = slots + 1
    /\ UNCHANGED <<cancelled, result, waiter, answer, batchVars>>

\* Bug: a full semaphore is waited for whatever the context says.
NeverGiveUp(c) == FALSE /\ UNCHANGED asyncVars

\* The context ends first: the caller gets a result that is already complete.
GiveUpOnSlot(c) ==
    /\ c \in cancelled
    /\ MoveCall(c, "select", "refused")
    /\ Complete(c, "ctxerr")
    /\ UNCHANGED <<cancelled, slots, waiter, answer, batchVars>>

\* The operation returns, or panics and the recovery completes the result.
Settle(c, r) ==
    /\ MoveCall(c, "running", "settled")
    /\ Complete(c, r)
    /\ UNCHANGED <<cancelled, slots, waiter, answer, batchVars>>

FreeSlot(c) ==
    /\ MoveCall(c, "settled", "freed")
    /\ slots' = slots - 1
    /\ UNCHANGED <<cancelled, result, waiter, answer, batchVars>>

\* The caller has the result object once ExecuteAsync returned; Wait blocks
\* on Done alone, WaitWithTimeout on a timer too.
CallWait(c, how) ==
    /\ at[c] \notin {"idle", "select"} /\ waiter[c] = "none"
    /\ waiter' = [waiter EXCEPT ![c] = how]
    /\ UNCHANGED <<cancelled, at, result, slots, answer, batchVars>>

Tell(c, r) ==
    /\ waiter' = [waiter EXCEPT ![c] = "told"]
    /\ answer' = [answer EXCEPT ![c] = r]
    /\ UNCHANGED <<cancelled, at, result, slots, batchVars>>

WaitReturns(c) ==
    waiter[c] \in {"wait", "timed"} /\ result[c] # "none" /\ Tell(c, result[c])

WaitTimesOut(c) == waiter[c] = "timed" /\ Tell(c, "deadline")
-----------------------------------------------------------------------------
\* NewBatchAsyncResult: a batch of nothing is done at once.
NewBatch == /\ pending' = batch.size
            /\ closes' = IF batch.size = 0 THEN 1 ELSE 0

CallBatch ==
    /\ batch.turn = 0
    /\ batch' = [batch EXCEPT !.turn = 1]
    /\ NewBatch
    /\ UNCHANGED <<callVars, batchCtx, op, opResult, sem, opAnswer>>

\* postgres.ExecuteBatchAsync with a query too many: every result is completed
\* with an error before the caller has the batch.
MismatchedBatch ==
    /\ batch.turn = 0 /\ batch.kind = "postgres"
    /\ batch' = [batch EXCEPT !.turn = batch.size + 1]
    /\ op' = [i \in Ops |-> IF i \in Sized THEN "freed" ELSE "new"]
    /\ opResult' = [i \in Ops |-> IF i \in Sized THEN "error" ELSE "none"]
    /\ pending' = 0
    /\ closes' = 1
    /\ UNCHANGED <<callVars, batchCtx, sem, opAnswer>>

CancelBatch ==
    /\ ~ batchCtx /\ batch.turn > 0
    /\ batchCtx' = TRUE
    /\ UNCHANGED <<callVars, batch, op, opResult, sem, pending, closes, opAnswer>>

\* BatchAsyncResult.CompleteResult, after Value or Error was assigned.
CompleteResult(i, r) ==
    /\ opResult' = [opResult EXCEPT ![i] = r]
    /\ pending' = pending - 1
    /\ closes' = IF pending = 1 THEN closes + 1 ELSE closes

MoveOp(i, from, to) == op[i] = from /\ op' = [op EXCEPT ![i] = to]
NextTurn == batch' = [batch EXCEPT !.turn = @ + 1]

\* The caller itself waits for a slot: with more operations than the limit,
\* ExecuteBatchAsync returns only after some have ended.
StartOp(i) ==
    /\ batch.turn = i /\ sem < BatchLimit(batch.kind)
    /\ MoveOp(i, "new", "running")
    /\ sem' = sem + 1
    /\ NextTurn
    /\ UNCHANGED <<callVars, batchCtx, opResult, pending, closes, opAnswer>>

SkipOp(i) ==
    /\ batch.turn = i /\ batchCtx
    /\ MoveOp(i, "new", "freed")
    /\ CompleteResult(i, "ctxerr")
    /\ NextTurn
    /\ UNCHANGED <<callVars, batchCtx, sem, opAnswer>>

\* Bug: the recovery sets the error and leaves pending alone.
SettleOpUnlessPanic(i, r) ==
    /\ MoveOp(i, "running", "settled")
    /\ IF r = "panic"
       THEN opResult' = [opResult EXCEPT ![i] = r] /\ UNCHANGED <<pending, closes>>
       ELSE CompleteResult(i, r)
    /\ UNCHANGED <<callVars, batch, batchCtx, sem, opAnswer>>

SettleOp(i, r) ==
    /\ MoveOp(i, "running", "settled")
    /\ CompleteResult(i, r)
    /\ UNCHANGED <<callVars, batch, batchCtx, sem, opAnswer>>

FreeOp(i) ==
    /\ MoveOp(i, "settled", "freed")
    /\ sem' = sem - 1
    /\ UNCHANGED <<callVars, batch, batchCtx, opResult, pending, closes, opAnswer>>

BatchReturned == batch.turn = batch.size + 1

\* Bug: the results are read without waiting for Done; one that is missing
\* has no error, so it reads like a value.
WaitAllAtOnce ==
    /\ BatchReturned /\ \A i \in Sized : opAnswer[i] = "none"
    /\ opAnswer' = [i \in Ops |-> IF i \notin Sized THEN "none"
                                 ELSE IF opResult[i] = "none" THEN "value" ELSE opResult[i]]
    /\ UNCHANGED <<callVars, batch, batchCtx, op, opResult, sem, pending, closes>>

WaitAll ==
    /\ BatchReturned /\ closes > 0 /\ \A i \in Sized : opAnswer[i] = "none"
    /\ opAnswer' = [i \in Ops |-> IF i \in Sized THEN opResult[i] ELSE "none"]
    /\ UNCHANGED <<callVars, batch, batchCtx, op, opResult, sem, pending, closes>>
-----------------------------------------------------------------------------
CallStep(c) ==
    \/ CallExecuteAsync(c) \/ CancelCall(c)
    \/ TakeSlot(c) \/ GiveUpOnSlot(c)
    \/ \E r \in EndsOf(KindOf[c]) : Settle(c, r)
    \/ FreeSlot(c)
    \/ \E how \in {"wait", "timed"} : CallWait(c, how)
    \/ WaitReturns(c) \/ WaitTimesOut(c)

OpStep(i) ==
    \/ StartOp(i) \/ SkipOp(i)
    \/ \E r \in EndsOf(batch.kind) : SettleOp(i, r)
    \/ FreeOp(i)

BatchStep ==
    \/ CallBatch \/ MismatchedBatch \/ CancelBatch
    \/ \E i \in Sized : OpStep(i)
    \/ WaitAll

AsyncNext == (\E c \in Calls : CallStep(c)) \/ BatchStep

\* The runtime runs what is ready; an operation that heeds its context ends
\* once that is cancelled.  No other operation need ever return.
SettlesWhenCancelled(c) ==
    /\ c \in cancelled /\ HeedsContext(KindOf[c])
    /\ \E r \in EndsOf(KindOf[c]) : Settle(c, r)

OpSettlesWhenCancelled(i) ==
    /\ batchCtx /\ HeedsContext(batch.kind)
    /\ \E r \in EndsOf(batch.kind) : SettleOp(i, r)

AsyncFairness ==
    /\ \A c \in Calls :
        /\ WF_asyncVars(TakeSlot(c)) /\ WF_asyncVars(GiveUpOnSlot(c))
        /\ WF_asyncVars(SettlesWhenCancelled(c))
        /\ WF_asyncVars(FreeSlot(c)) /\ WF_asyncVars(WaitReturns(c))
    /\ WF_asyncVars(WaitAll)
    /\ \A i \in Ops :
        /\ WF_asyncVars(StartOp(i)) /\ WF_asyncVars(SkipOp(i))
        /\ WF_asyncVars(OpSettlesWhenCancelled(i))
        /\ WF_asyncVars(FreeOp(i))

AsyncSpec     == AsyncInit /\ [][AsyncNext]_asyncVars
FairAsyncSpec == AsyncSpec /\ AsyncFairness
-----------------------------------------------------------------------------
Unsettled == {i \in Sized : opResult[i] = "none"}

SlotsAccounted ==
    /\ slots = Cardinality({c \in Calls : at[c] \in {"running", "settled"}})
    /\ slots <= Cap
    /\ sem = Cardinality({i \in Sized : op[i] \in {"running", "settled"}})
    /\ sem <= BatchLimit(batch.kind)

BatchClosesOnce ==
    batch.turn > 0 =>
        /\ pending = Cardinality(Unsettled)
        /\ closes = IF Unsettled = {} THEN 1 ELSE 0

\* Neither semaphore leaks a token or lends one too many: the tokens out are
\* those of the goroutines that have not released theirs (async.go:109, 187).
\* And every operation of a batch is counted off exactly once, whether it
\* returns, panics or is never started, so Done is closed once and only when
\* all the results are there (CompleteResult, async.go:153): a second close
\* would panic, a missing one would leave WaitAll waiting.
OperationsAccounted == SlotsAccounted /\ BatchClosesOnce

\* Cancelling is enough: a caller stuck on the semaphore behind operations
\* that never return, or waiting for its own, has an answer in the end, unless
\* its operation does not look at the context.
CancelledCallEnds ==
    \A c \in Calls :
        c \in cancelled /\ HeedsContext(KindOf[c])
            ~> at[c] \in {"freed", "refused"} /\ waiter[c] \notin {"wait", "timed"}

CancelledBatchEnds ==
    batchCtx /\ HeedsContext(batch.kind)
        ~> BatchReturned /\ \A i \in Sized : opAnswer[i] # "none"

CancelledEnds == CancelledCallEnds /\ CancelledBatchEnds

\* The results keep what Promise promises, whatever runs at the same time.
Promises == Calls \cup Ops
Promised == INSTANCE Promise WITH
    Outcomes <- Ended, None <- "none", Expired <- "deadline",
    outcome <- [p \in Promises |-> IF p \in Ops THEN opResult[p] ELSE result[p]],
    told    <- [p \in Promises |-> IF p \in Ops THEN opAnswer[p] ELSE answer[p]]

ResultsArePromises == Promised!PromiseSpec
=============================================================================
