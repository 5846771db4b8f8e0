-------------------------- MODULE EventBroadcaster --------------------------
(***************************************************************************)
(* utils.EventBroadcaster and the SSE handlers that read from it.           *)
(*                                                                          *)
(* A producer broadcasts: it holds eb.mu for reading while it offers the    *)
(* event to one client after the other, then, if some have fallen too far   *)
(* behind, takes eb.mu for writing and unsubscribes them.  Producers share  *)
(* the read lock, so their offers interleave.  Whatever holds the write     *)
(* lock is one step that needs no reader; sync.RWMutex lets no new reader   *)
(* in while a writer waits.  Events are counted, not told apart.            *)
(***************************************************************************)
EXTENDS Integers, FiniteSets

CONSTANTS Clients,    \* subscriptions: nextID gives each an id of its own
          Streams,
          StreamOf,   \* client.StreamID
          NoClient,
          Producers,  \* goroutines that call Broadcast or BroadcastToAll
          BufCap,     \* 100: capacity of client.Channel
          DropLimit,  \* 100: droppedMessages a client survives
          DropMax     \* bound: where the model stops counting them

ASSUME ClientsAssumption == /\ NoClient \notin Clients
                            /\ StreamOf \in [Clients -> Streams]
ASSUME BoundsAssumption  == /\ BufCap \in Nat \ {0}
                            /\ DropLimit \in Nat
                            /\ DropMax \in Nat /\ DropMax > DropLimit + 1

VARIABLES clients,   \* eb.clients
          streams,   \* eb.streams
          buffer,    \* how many events each client.Channel buffers
          closed,    \* the clients whose Channel is closed
          dropped,   \* client.droppedMessages
          handler,   \* where each client's streamEvents is
          producer,  \* where each broadcast is
          mishaps    \* history: the panics on a closed channel

registry == <<clients, streams>>
channels == <<buffer, closed, mishaps>>
busVars  == <<registry, channels, dropped, handler, producer>>

Idle == [pc |-> "idle", todo |-> {}, full |-> NoClient, laggards |-> {}]

TypeOK ==
    /\ clients \subseteq Clients
    /\ streams \in [Streams -> SUBSET Clients]
    /\ buffer \in [Clients -> 0..BufCap]
    /\ closed \subseteq Clients
    /\ dropped \in [Clients -> 0..DropMax]
    /\ handler \in [Clients -> {"new", "serving", "leaving", "gone"}]
    /\ producer \in [Producers -> [pc : {"idle", "sending", "evicting"},
                                   todo : SUBSET Clients,
                                   full : Clients \cup {NoClient},
                                   laggards : SUBSET Clients]]
    /\ mishaps \subseteq {"sentOnClosed", "closedTwice"}

Init ==
    /\ clients = {}
    /\ streams = [s \in Streams |-> {}]
    /\ buffer = [c \in Clients |-> 0]
    /\ closed = {}
    /\ dropped = [c \in Clients |-> 0]
    /\ handler = [c \in Clients |-> "new"]
    /\ producer = [p \in Producers |-> Idle]
    /\ mishaps = {}
-----------------------------------------------------------------------------
\* An operator marked "Bug" is a variant of the one after it with a plausible
\* mistake: no action uses it, it is what the properties must catch.

\* Bug: a producer sends to a copy of the list, after RUnlock.
NobodyReads == FALSE

\* eb.mu.
ReadLocked == \E p \in Producers : producer[p].pc = "sending"
LockWanted == \/ \E p \in Producers : producer[p].pc = "evicting"
              \/ \E c \in Clients : handler[c] = "leaving"

Forget(cs) ==
    /\ clients' = clients \ cs
    /\ streams' = [s \in Streams |-> streams[s] \ cs]
    /\ closed' = closed \cup cs
    /\ mishaps' = IF cs \cap closed = {} THEN mishaps ELSE mishaps \cup {"closedTwice"}
    /\ UNCHANGED buffer

\* unsubscribeNoLock of each of cs.
Unsubscribe(cs) == ~ReadLocked /\ Forget(cs \cap clients)

\* streamEvents: Subscribe, then the loop of the handler.
Subscribe(c) ==
    /\ handler[c] = "new" /\ ~ReadLocked
    /\ clients' = clients \cup {c}
    /\ streams' = [streams EXCEPT ![StreamOf[c]] = @ \cup {c}]
    /\ handler' = [handler EXCEPT ![c] = "serving"]
    /\ UNCHANGED <<channels, dropped, producer>>

HandlerGoes(c, from, to) ==
    /\ handler[c] = from
    /\ handler' = [handler EXCEPT ![c] = to]

Receive(c) ==
    /\ handler[c] = "serving" /\ buffer[c] > 0
    /\ buffer' = [buffer EXCEPT ![c] = @ - 1]
    /\ UNCHANGED <<registry, closed, mishaps, dropped, handler, producer>>

\* A closed channel is drained first.
SeeClosed(c) ==
    /\ buffer[c] = 0 /\ c \in closed
    /\ HandlerGoes(c, "serving", "leaving")
    /\ UNCHANGED <<registry, channels, dropped, producer>>

\* The request's context is done, or a write of an event failed.
HangUp(c) ==
    /\ HandlerGoes(c, "serving", "leaving")
    /\ UNCHANGED <<registry, channels, dropped, producer>>

\* The deferred Unsubscribe.
Leave(c) ==
    /\ HandlerGoes(c, "leaving", "gone")
    /\ Unsubscribe({c})
    /\ UNCHANGED <<dropped, producer>>
-----------------------------------------------------------------------------
\* Broadcast to one stream, and BroadcastToAll.
Goes(p, to) == producer' = [producer EXCEPT ![p] = to]

Begin(p, cs) ==
    /\ producer[p].pc = "idle" /\ ~LockWanted
    /\ Goes(p, [Idle EXCEPT !.pc = "sending", !.todo = cs])
    /\ UNCHANGED <<registry, channels, dropped, handler>>

Broadcast(p, s)   == Begin(p, streams[s])
BroadcastToAll(p) == Begin(p, UNION {streams[s] : s \in Streams})

Sending(p, c) == /\ producer[p].pc = "sending" /\ producer[p].full = NoClient
                 /\ c \in producer[p].todo

\* case client.Channel <- event: a send on a closed channel panics.
Deliver(p, c) ==
    /\ Sending(p, c)
    /\ c \in closed \/ buffer[c] < BufCap
    /\ IF c \in closed
         THEN mishaps' = mishaps \cup {"sentOnClosed"} /\ UNCHANGED buffer
         ELSE buffer' = [buffer EXCEPT ![c] = @ + 1] /\ UNCHANGED mishaps
    /\ Goes(p, [producer[p] EXCEPT !.todo = @ \ {c}])
    /\ UNCHANGED <<registry, closed, dropped, handler>>

\* default: droppedMessages.Add(1) ...
Drop(p, c) ==
    /\ Sending(p, c)
    /\ c \notin closed /\ buffer[c] = BufCap
    /\ dropped' = [dropped EXCEPT ![c] = IF @ < DropMax THEN @ + 1 ELSE @]
    /\ Goes(p, [producer[p] EXCEPT !.todo = @ \ {c}, !.full = c])
    /\ UNCHANGED <<registry, channels, handler>>

\* Bug: == for >, which the second of two producers that count in a row skips.
CountExactly(p) ==
    LET c == producer[p].full IN
    /\ c # NoClient
    /\ Goes(p, [producer[p] EXCEPT !.full = NoClient,
                  !.laggards = IF dropped[c] = DropLimit + 1 THEN @ \cup {c} ELSE @])
    /\ UNCHANGED <<registry, channels, dropped, handler>>

\* ... and droppedMessages.Load(), between which another producer may Add.
Count(p) ==
    LET c == producer[p].full IN
    /\ c # NoClient
    /\ Goes(p, [producer[p] EXCEPT !.full = NoClient,
                  !.laggards = IF dropped[c] > DropLimit THEN @ \cup {c} ELSE @])
    /\ UNCHANGED <<registry, channels, dropped, handler>>

RUnlock(p) ==
    /\ producer[p].pc = "sending" /\ producer[p].todo = {} /\ producer[p].full = NoClient
    /\ Goes(p, IF producer[p].laggards = {} THEN Idle
                                            ELSE [producer[p] EXCEPT !.pc = "evicting"])
    /\ UNCHANGED <<registry, channels, dropped, handler>>

Evict(p) ==
    /\ producer[p].pc = "evicting"
    /\ Unsubscribe(producer[p].laggards)
    /\ Goes(p, Idle)
    /\ UNCHANGED <<dropped, handler>>

BroadcastGoesOn(p) == \/ \E c \in Clients : Deliver(p, c) \/ Drop(p, c)
                      \/ Count(p) \/ RUnlock(p) \/ Evict(p)
-----------------------------------------------------------------------------
\* cleanupRoutine unsubscribes the clients last seen more than clientTTL ago.
\* Time is not modelled: that may be any of them, an idle but connected one too.
\* It need never happen, so that Close, which ends the routine and does nothing
\* else, is covered as well.
Expire == /\ \E cs \in SUBSET clients : cs # {} /\ Unsubscribe(cs)
          /\ UNCHANGED <<dropped, handler, producer>>

HandlerGoesOn(c) == Receive(c) \/ SeeClosed(c) \/ Leave(c)

BusStep == \/ \E c \in Clients : Subscribe(c) \/ HandlerGoesOn(c) \/ HangUp(c)
           \/ \E p \in Producers : BroadcastGoesOn(p)
           \/ Expire

\* Goroutines that are in a broadcast or in a handler go on; a handler whose
\* peer is slow is cut off by the server's write timeout, so that it goes on,
\* too.  Nobody has to broadcast, subscribe or hang up.
BusFairness == /\ \A p \in Producers : WF_busVars(BroadcastGoesOn(p))
               /\ \A c \in Clients : WF_busVars(HandlerGoesOn(c))
-----------------------------------------------------------------------------
(* eb.clients and eb.streams hold the same clients, and exactly those whose *)
(* channel is open: whoever unsubscribes a client (its handler, a producer, *)
(* the cleanup) takes it out of both and closes it, once.                   *)
MapsAgree ==
    /\ \A c \in Clients : c \in clients <=> c \in streams[StreamOf[c]]
    /\ \A c \in Clients, s \in Streams : c \in streams[s] => s = StreamOf[c]
    /\ \A c \in Clients : handler[c] # "new" => (c \in closed <=> c \notin clients)

(* Broadcast's comment: "Hold RLock across the send so Unsubscribe (which   *)
(* needs Lock to close Channel) cannot race a send on a closed channel"; and *)
(* no channel is closed twice, although two producers, the cleanup and the   *)
(* client's own handler may all mean to unsubscribe it.                      *)
NoChannelPanic == mishaps = {}

(* "Channel full - count and queue for unsubscription to prevent unbounded  *)
(* goroutine/memory growth": a client that has missed more than DropLimit   *)
(* events is unsubscribed, however the counting of two producers interleaves.*)
LaggardEvicted == \A c \in Clients : dropped[c] > DropLimit ~> c \notin clients

(* Unsubscribing a client ends its handler: no request goroutine is left.   *)
HandlerEnds == \A c \in Clients : c \in closed ~> handler[c] = "gone"

(* Whoever closes a client (its handler, a producer that found it too slow, *)
(* the cleanup) takes it out of both maps, once, and never under a sender.  *)
ClientsClosedOnce == MapsAgree /\ NoChannelPanic
=============================================================================
