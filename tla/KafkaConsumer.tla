--------------------------- MODULE KafkaConsumer ---------------------------
(***************************************************************************)
(* KafkaManager.ConsumeAsync and Consume: a job of the manager's pool that  *)
(* joins the consumer group again and again, handles the messages of the    *)
(* claimed partitions and marks each one that was handled; and Close, which *)
(* waits for that job.  The group session and the broker are sarama's and   *)
(* external: a session starts from the committed offsets, ends when one     *)
(* claim returns, the group rebalances or the context ends, and what was    *)
(* marked is then committed, or not if the broker cannot be reached.        *)
(***************************************************************************)
EXTENDS Integers

CONSTANTS Partitions,
          LogEnd,      \* messages in each partition
          MaxSessions  \* bound on the sessions of a run

ASSUME KafkaAssumption == LogEnd \in Nat /\ MaxSessions \in Nat \ {0}

VARIABLES consumer,   \* the goroutine of Consume
          consumeCtx, \* its context is done
          sessions,   \* sessions so far
          claim,      \* ConsumeClaim of each partition
          nextOffset,       \* the message it is at
          handled,    \* messages the handler returned nil for
          marked,     \* MarkMessage: the offset to commit
          committed,  \* the broker's offset
          kafkaClose  \* Close of the manager

kafkaVars == <<consumer, consumeCtx, sessions, claim, nextOffset, handled,
               marked, committed, kafkaClose>>

Offsets == 1..LogEnd

KafkaTypeOK ==
    /\ consumer \in {"none", "queued", "waiting", "session", "ended"}
    /\ consumeCtx \in BOOLEAN
    /\ sessions \in 0..MaxSessions
    /\ claim \in [Partitions -> {"out", "reading", "handling", "handled"}]
    /\ nextOffset \in [Partitions -> 1..(LogEnd + 1)]
    /\ handled \in [Partitions -> SUBSET Offsets]
    /\ marked \in [Partitions -> 0..LogEnd]
    /\ committed \in [Partitions -> 0..LogEnd]
    /\ kafkaClose \in {"no", "waiting", "done"}

KafkaInit ==
    /\ consumer = "none"
    /\ consumeCtx = FALSE
    /\ sessions = 0
    /\ claim = [p \in Partitions |-> "out"]
    /\ nextOffset = [p \in Partitions |-> 1]
    /\ handled = [p \in Partitions |-> {}]
    /\ marked = [p \in Partitions |-> 0]
    /\ committed = [p \in Partitions |-> 0]
    /\ kafkaClose = "no"
-----------------------------------------------------------------------------
ConsumerGoes(from, to) == consumer = from /\ consumer' = to

ConsumeAsync ==
    /\ ConsumerGoes("none", "queued")
    /\ UNCHANGED <<consumeCtx, sessions, claim, nextOffset, handled, marked, committed, kafkaClose>>

\* A worker takes the job; the consumer group is created, or is not.
StartConsumer ==
    /\ \E to \in {"waiting", "ended"} : ConsumerGoes("queued", to)
    /\ UNCHANGED <<consumeCtx, sessions, claim, nextOffset, handled, marked, committed, kafkaClose>>

CancelConsumer ==
    /\ ~ consumeCtx /\ consumer # "none"
    /\ consumeCtx' = TRUE
    /\ UNCHANGED <<consumer, sessions, claim, nextOffset, handled, marked, committed, kafkaClose>>

\* Bug: the wait between two sessions does not look at the context.
SleepOn == FALSE /\ UNCHANGED kafkaVars

\* Half a second before each session, given up when the context ends.
SeeCancel ==
    /\ consumeCtx
    /\ ConsumerGoes("waiting", "ended")
    /\ UNCHANGED <<consumeCtx, sessions, claim, nextOffset, handled, marked, committed, kafkaClose>>

\* Once the ticker fired; every session starts from the committed offsets.
JoinSession ==
    /\ sessions < MaxSessions
    /\ ConsumerGoes("waiting", "session")
    /\ sessions' = sessions + 1
    /\ claim' = [p \in Partitions |-> "reading"]
    /\ nextOffset' = [p \in Partitions |-> committed[p] + 1]
    /\ marked' = committed
    /\ UNCHANGED <<consumeCtx, handled, committed, kafkaClose>>

\* The broker refuses: Consume returns the error, ConsumeAsync logs it, and
\* nothing consumes the topic any more.
JoinFails ==
    /\ ConsumerGoes("waiting", "ended")
    /\ UNCHANGED <<consumeCtx, sessions, claim, nextOffset, handled, marked, committed, kafkaClose>>

ClaimGoes(p, from, to) == claim[p] = from /\ claim' = [claim EXCEPT ![p] = to]

DeliverMessage(p) ==
    /\ nextOffset[p] <= LogEnd
    /\ ClaimGoes(p, "reading", "handling")
    /\ UNCHANGED <<consumer, consumeCtx, sessions, nextOffset, handled, marked, committed, kafkaClose>>

HandlerReturns(p) ==
    /\ ClaimGoes(p, "handling", "handled")
    /\ handled' = [handled EXCEPT ![p] = @ \cup {nextOffset[p]}]
    /\ UNCHANGED <<consumer, consumeCtx, sessions, nextOffset, marked, committed, kafkaClose>>

\* Bug: the error is logged and the loop goes on.
HandlerFailsGoesOn(p) ==
    /\ ClaimGoes(p, "handling", "reading")
    /\ nextOffset' = [nextOffset EXCEPT ![p] = @ + 1]
    /\ UNCHANGED <<consumer, consumeCtx, sessions, handled, marked, committed, kafkaClose>>

\* The claim returns the handler's error before MarkMessage.
HandlerFails(p) ==
    /\ ClaimGoes(p, "handling", "out")
    /\ UNCHANGED <<consumer, consumeCtx, sessions, nextOffset, handled, marked, committed, kafkaClose>>

MarkMessage(p) ==
    /\ ClaimGoes(p, "handled", "reading")
    /\ marked' = [marked EXCEPT ![p] = nextOffset[p]]
    /\ nextOffset' = [nextOffset EXCEPT ![p] = @ + 1]
    /\ UNCHANGED <<consumer, consumeCtx, sessions, handled, committed, kafkaClose>>

\* claim.Messages() is closed: the session ends for a cancelled context,
\* another claim that returned, or a rebalance, which may come at any time.
LeaveClaim(p) ==
    /\ ClaimGoes(p, "reading", "out")
    /\ UNCHANGED <<consumer, consumeCtx, sessions, nextOffset, handled, marked, committed, kafkaClose>>

\* All claims are out: marks are committed, lost, or committed in part.
EndSession ==
    /\ \A p \in Partitions : claim[p] = "out"
    /\ ConsumerGoes("session", "waiting")
    /\ \E kept \in SUBSET Partitions :
        committed' = [p \in Partitions |-> IF p \in kept THEN marked[p] ELSE committed[p]]
    /\ UNCHANGED <<consumeCtx, sessions, claim, nextOffset, handled, marked, kafkaClose>>

\* Pool.Close waits for the worker; the consumer's context is not its own.
KafkaCloseBegin ==
    /\ kafkaClose = "no"
    /\ kafkaClose' = "waiting"
    /\ UNCHANGED <<consumer, consumeCtx, sessions, claim, nextOffset, handled, marked, committed>>

KafkaCloseReturn ==
    /\ kafkaClose = "waiting" /\ consumer \in {"none", "ended"}
    /\ kafkaClose' = "done"
    /\ UNCHANGED <<consumer, consumeCtx, sessions, claim, nextOffset, handled, marked, committed>>

\* After Close the pool takes no job.
KafkaNext ==
    \/ kafkaClose = "no" /\ ConsumeAsync
    \/ StartConsumer \/ CancelConsumer \/ SeeCancel \/ JoinSession \/ JoinFails
    \/ \E p \in Partitions :
        \/ DeliverMessage(p) \/ HandlerReturns(p) \/ HandlerFails(p)
        \/ MarkMessage(p) \/ LeaveClaim(p)
    \/ EndSession \/ KafkaCloseBegin \/ KafkaCloseReturn

\* Goroutines run and handlers return; sarama ends a session when its context
\* ends or one of its claims has returned, and hands a claim no message then.
EndsSoon(p) ==
    /\ consumeCtx \/ \E q \in Partitions : claim[q] = "out"
    /\ LeaveClaim(p)

KafkaFairness ==
    /\ WF_kafkaVars(StartConsumer) /\ WF_kafkaVars(SeeCancel)
    /\ WF_kafkaVars(EndSession) /\ WF_kafkaVars(KafkaCloseReturn)
    /\ \A p \in Partitions :
        /\ WF_kafkaVars(HandlerReturns(p) \/ HandlerFails(p))
        /\ WF_kafkaVars(MarkMessage(p))
        /\ WF_kafkaVars(EndsSoon(p))

KafkaSpec == KafkaInit /\ [][KafkaNext]_kafkaVars /\ KafkaFairness
-----------------------------------------------------------------------------
\* Delivery is at least once, whatever fails and whenever the group
\* rebalances: no message is passed over, every one below the committed offset
\* has been handled (kafka.go:125, 127).
NoMessageSkipped ==
    \A p \in Partitions : 1..committed[p] \subseteq handled[p]

\* A cancelled consumer ends, and Close, which waits for it in the pool, then
\* returns; without the cancellation Close waits for good (kafka.go:179, 229).
CancelFreesClose ==
    /\ consumeCtx ~> consumer = "ended"
    /\ kafkaClose = "waiting" /\ consumeCtx ~> kafkaClose = "done"
=============================================================================
