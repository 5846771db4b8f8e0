----------------------- MODULE BroadcastServiceProofs -----------------------
(***************************************************************************)
(* No event is sent on a closed channel and none is closed twice, for any   *)
(* clients, streams, generators and requests.  What carries it is the read  *)
(* lock: whoever a producer still has to offer the event to is registered,  *)
(* because nobody can be unsubscribed while it holds the lock.              *)
(***************************************************************************)
EXTENDS BroadcastService, TLAPS

PCs == {"idle", "sending", "evicting"}

\* A connection that has not subscribed is unknown.
NewcomersUnknown == \A c \in Clients : handler[c] = "new" => c \notin clients /\ c \notin closed

\* Whom a producer still has to offer the event to is registered.
TargetsRegistered ==
    \A p \in Producers : producer[p].pc = "sending" => producer[p].todo \subseteq clients

ServiceInv == ServiceTypeOK /\ NewcomersUnknown /\ TargetsRegistered /\ ClientsClosedOnce
-----------------------------------------------------------------------------
(* A producer that moves leaves the others where they are.                  *)
LEMMA Moves ==
    ASSUME ServiceTypeOK, NEW p \in Producers, NEW rec,
           rec \in [pc : PCs, todo : SUBSET Clients,
                    full : {NoClient} \cup Clients, laggards : SUBSET Clients],
           Goes(p, rec)
    PROVE  /\ producer' \in [Producers -> [pc : PCs, todo : SUBSET Clients,
                                           full : Clients \cup {NoClient},
                                           laggards : SUBSET Clients]]
           /\ producer'[p] = rec
           /\ \A q \in Producers : q # p => producer'[q] = producer[q]
<1>1. producer \in [Producers -> [pc : PCs, todo : SUBSET Clients,
                                  full : Clients \cup {NoClient}, laggards : SUBSET Clients]]
  BY DEF ServiceTypeOK, TypeOK, PCs
<1> QED
  BY <1>1 DEF Goes

(* Registering a client.                                                    *)
LEMMA SubscribeKeeps ==
    ASSUME ServiceInv, NEW c \in Clients, Subscribe(c), UNCHANGED serviceVars
    PROVE  ServiceInv'
<1>1. /\ ServiceTypeOK /\ TypeOK /\ NewcomersUnknown /\ TargetsRegistered
      /\ MapsAgree /\ mishaps = {} /\ StreamOf[c] \in Streams
  BY ClientsAssumption DEF ServiceInv, ServiceTypeOK, ClientsClosedOnce, NoChannelPanic
<1>2. /\ handler[c] = "new" /\ clients' = clients \cup {c}
      /\ streams' = [streams EXCEPT ![StreamOf[c]] = streams[StreamOf[c]] \cup {c}]
      /\ handler' = [handler EXCEPT ![c] = "serving"]
      /\ UNCHANGED <<buffer, closed, mishaps, dropped, producer>>
  BY DEF Subscribe, channels
<1>3. TypeOK'
  <2>1. streams' \in [Streams -> SUBSET Clients]
    BY <1>1, <1>2 DEF TypeOK
  <2> QED
    BY <1>1, <1>2, <2>1 DEF TypeOK
<1>4. ServiceTypeOK'
  BY <1>1, <1>3 DEF ServiceTypeOK, serviceVars
<1>5. NewcomersUnknown' /\ TargetsRegistered'
  BY <1>1, <1>2 DEF NewcomersUnknown, TargetsRegistered, TypeOK
<1>6. MapsAgree'
  <2>1. c \notin clients /\ c \notin closed
    BY <1>1, <1>2 DEF NewcomersUnknown
  <2>2. \A d \in Clients, s \in Streams :
            d \in streams'[s] <=> d \in streams[s] \/ (d = c /\ s = StreamOf[c])
    BY <1>1, <1>2 DEF TypeOK
  <2>3. \A d \in Clients : StreamOf[d] \in Streams
    BY ClientsAssumption
  <2>4. \A d \in Clients : handler'[d] = IF d = c THEN "serving" ELSE handler[d]
    BY <1>1, <1>2 DEF TypeOK
  <2> QED
    BY <1>1, <1>2, <2>1, <2>2, <2>3, <2>4 DEF MapsAgree
<1> QED
  BY <1>1, <1>2, <1>4, <1>5, <1>6 DEF ServiceInv, ClientsClosedOnce, NoChannelPanic

(* Whoever unsubscribes clients, and whichever: they leave both maps and are*)
(* closed, and no producer meant to send to them.                           *)
LEMMA UnsubscribeKeeps ==
    ASSUME ServiceInv, NEW cs, Unsubscribe(cs), UNCHANGED dropped, UNCHANGED serviceVars,
           TypeOK', ReadLocked' = FALSE,
           \A c \in Clients : handler[c] # "new" <=> handler'[c] # "new"
    PROVE  ServiceInv'
<1> DEFINE gone == cs \cap clients
<1>1. /\ ServiceTypeOK /\ TypeOK /\ NewcomersUnknown /\ MapsAgree /\ mishaps = {}
  BY DEF ServiceInv, ServiceTypeOK, ClientsClosedOnce, NoChannelPanic
<1>2. /\ clients' = clients \ gone /\ closed' = closed \cup gone
      /\ streams' = [s \in Streams |-> streams[s] \ gone]
      /\ mishaps' = IF gone \cap closed = {} THEN mishaps ELSE mishaps \cup {"closedTwice"}
  BY DEF Unsubscribe, Forget
<1>3. gone \subseteq clients /\ gone \cap closed = {} /\ clients \subseteq Clients
  BY <1>1 DEF MapsAgree, NewcomersUnknown, TypeOK
<1> HIDE DEF gone
<1>4. ServiceTypeOK'
  BY <1>1 DEF ServiceTypeOK, serviceVars
<1>5. NewcomersUnknown'
  BY <1>1, <1>2, <1>3 DEF NewcomersUnknown
<1>6. TargetsRegistered'
  BY DEF TargetsRegistered, ReadLocked
<1>7. MapsAgree'
  <2>1. \A d \in Clients : StreamOf[d] \in Streams
    BY ClientsAssumption
  <2>2. \A d \in Clients, s \in Streams : d \in streams'[s] <=> d \in streams[s] /\ d \notin gone
    BY <1>2
  <2> QED
    BY <1>1, <1>2, <1>3, <2>1, <2>2 DEF MapsAgree, NewcomersUnknown
<1> QED
  BY <1>1, <1>2, <1>3, <1>4, <1>5, <1>6, <1>7 DEF ServiceInv, ClientsClosedOnce, NoChannelPanic

(* The types after clients are unsubscribed.                                *)
LEMMA UnsubscribeTyped ==
    ASSUME TypeOK, NEW cs, Unsubscribe(cs)
    PROVE  /\ clients' \subseteq Clients /\ streams' \in [Streams -> SUBSET Clients]
           /\ closed' \subseteq Clients /\ buffer' = buffer
           /\ mishaps' \subseteq {"sentOnClosed", "closedTwice"}
BY DEF TypeOK, Unsubscribe, Forget

(* A step that leaves the maps, the channels' state and the subscriptions   *)
(* alone.                                                                   *)
LEMMA MapsUntouched ==
    ASSUME ServiceInv, ServiceTypeOK', UNCHANGED <<clients, streams, closed, mishaps>>,
           TargetsRegistered',
           \A c \in Clients : handler[c] # "new" <=> handler'[c] # "new"
    PROVE  ServiceInv'
<1>1. NewcomersUnknown'
  BY DEF ServiceInv, NewcomersUnknown
<1>2. MapsAgree' /\ NoChannelPanic'
  BY DEF ServiceInv, ClientsClosedOnce, MapsAgree, NoChannelPanic
<1> QED
  BY <1>1, <1>2 DEF ServiceInv, ClientsClosedOnce

(* The handler of a client.                                                 *)
LEMMA HandlerKeeps ==
    ASSUME ServiceInv, UNCHANGED serviceVars,
           NEW c \in Clients, HandlerGoesOn(c) \/ HangUp(c)
    PROVE  ServiceInv'
<1>1. ServiceTypeOK /\ TypeOK /\ TargetsRegistered
  BY DEF ServiceInv, ServiceTypeOK
<1>2. CASE Receive(c)
  <2>1. /\ buffer[c] > 0 /\ buffer' = [buffer EXCEPT ![c] = buffer[c] - 1]
        /\ UNCHANGED <<clients, streams, closed, mishaps, dropped, handler, producer>>
    BY <1>2 DEF Receive, registry
  <2>2. buffer' \in [Clients -> 0..BufCap]
    <3>1. buffer[c] - 1 \in 0..BufCap
      BY <1>1, <2>1, BoundsAssumption DEF TypeOK
    <3> QED
      BY <1>1, <2>1, <3>1 DEF TypeOK
  <2>3. ServiceTypeOK'
    BY <1>1, <2>1, <2>2 DEF ServiceTypeOK, TypeOK, serviceVars
  <2> QED
    BY <1>1, <2>1, <2>3, MapsUntouched DEF TargetsRegistered
<1>3. CASE SeeClosed(c) \/ HangUp(c)
  <2>1. /\ handler[c] = "serving" /\ handler' = [handler EXCEPT ![c] = "leaving"]
        /\ UNCHANGED <<clients, streams, buffer, closed, mishaps, dropped, producer>>
    BY <1>3 DEF SeeClosed, HangUp, HandlerGoes, registry, channels
  <2>2. ServiceTypeOK'
    BY <1>1, <2>1 DEF ServiceTypeOK, TypeOK, serviceVars
  <2>3. \A d \in Clients : handler[d] # "new" <=> handler'[d] # "new"
    BY <1>1, <2>1 DEF TypeOK
  <2> QED
    BY <1>1, <2>1, <2>2, <2>3, MapsUntouched DEF TargetsRegistered
<1>4. CASE Leave(c)
  <2>1. /\ handler[c] = "leaving" /\ handler' = [handler EXCEPT ![c] = "gone"]
        /\ Unsubscribe({c}) /\ UNCHANGED <<dropped, producer>>
    BY <1>4 DEF Leave, HandlerGoes
  <2>2. TypeOK'
    BY <1>1, <2>1, UnsubscribeTyped DEF TypeOK
  <2>3. \A d \in Clients : handler[d] # "new" <=> handler'[d] # "new"
    BY <1>1, <2>1 DEF TypeOK
  <2>4. ReadLocked' = FALSE
    BY <2>1 DEF Unsubscribe, ReadLocked
  <2> QED
    BY <2>1, <2>2, <2>3, <2>4, UnsubscribeKeeps
<1> QED
  BY <1>2, <1>3, <1>4 DEF HandlerGoesOn

(* The cleanup.                                                             *)
LEMMA ExpireKeeps ==
    ASSUME ServiceInv, UNCHANGED serviceVars, Expire
    PROVE  ServiceInv'
<1>1. PICK cs \in SUBSET clients : Unsubscribe(cs)
  BY DEF Expire
<1>2. TypeOK
  BY DEF ServiceInv, ServiceTypeOK
<1>3. UNCHANGED <<dropped, handler, producer>>
  BY DEF Expire
<1>4. TypeOK'
  BY <1>1, <1>2, <1>3, UnsubscribeTyped DEF TypeOK
<1>5. ReadLocked' = FALSE
  BY <1>1, <1>3 DEF Unsubscribe, ReadLocked
<1> QED
  BY <1>1, <1>3, <1>4, <1>5, UnsubscribeKeeps

(* A broadcast begins: it reads the stream's clients under the read lock.   *)
LEMMA BeginKeeps ==
    ASSUME ServiceInv, UNCHANGED serviceVars, NEW p \in Producers, NEW cs,
           cs \subseteq clients, Begin(p, cs)
    PROVE  ServiceInv'
<1> DEFINE rec == [Idle EXCEPT !.pc = "sending", !.todo = cs]
<1>1. ServiceTypeOK /\ TypeOK /\ TargetsRegistered /\ clients \subseteq Clients
  BY DEF ServiceInv, ServiceTypeOK, TypeOK
<1>2. Goes(p, rec) /\ UNCHANGED <<clients, streams, buffer, closed, mishaps, dropped, handler>>
  BY DEF Begin, registry, channels
<1>3. Idle \in [pc : PCs, todo : SUBSET Clients,
                full : {NoClient} \cup Clients, laggards : SUBSET Clients]
  BY DEF Idle, PCs
<1>4. /\ rec \in [pc : PCs, todo : SUBSET Clients,
                  full : {NoClient} \cup Clients, laggards : SUBSET Clients]
      /\ rec.todo = cs
  BY <1>1, <1>3 DEF PCs
<1> HIDE DEF rec
<1>5. /\ producer' \in [Producers -> [pc : PCs, todo : SUBSET Clients,
                                      full : Clients \cup {NoClient}, laggards : SUBSET Clients]]
      /\ producer'[p] = rec
      /\ \A q \in Producers : q # p => producer'[q] = producer[q]
  BY <1>1, <1>2, <1>4, Moves
<1>6. ServiceTypeOK'
  BY <1>1, <1>2, <1>5 DEF ServiceTypeOK, TypeOK, PCs, serviceVars
<1>7. TargetsRegistered'
  BY <1>1, <1>2, <1>4, <1>5 DEF TargetsRegistered
<1> QED
  BY <1>2, <1>6, <1>7, MapsUntouched

(* Offering the event, counting a drop and letting go of the read lock.     *)
LEMMA OfferKeeps ==
    ASSUME ServiceInv, UNCHANGED serviceVars, NEW p \in Producers,
           (\E c \in Clients : Deliver(p, c) \/ Drop(p, c)) \/ Count(p) \/ RUnlock(p)
    PROVE  ServiceInv'
<1> DEFINE T == [pc : PCs, todo : SUBSET Clients,
                 full : {NoClient} \cup Clients, laggards : SUBSET Clients]
<1>1. /\ ServiceTypeOK /\ TypeOK /\ TargetsRegistered /\ NewcomersUnknown
      /\ MapsAgree /\ mishaps = {} /\ clients \subseteq Clients
      /\ producer[p] \in T
  BY DEF ServiceInv, ServiceTypeOK, TypeOK, ClientsClosedOnce, NoChannelPanic, PCs
<1>2. ASSUME NEW rec, rec \in T, Goes(p, rec), UNCHANGED <<clients, handler>>,
             rec.pc = "sending" => producer[p].pc = "sending"
                                   /\ rec.todo \subseteq producer[p].todo
      PROVE  /\ producer' \in [Producers -> [pc : PCs, todo : SUBSET Clients,
                                 full : Clients \cup {NoClient}, laggards : SUBSET Clients]]
             /\ TargetsRegistered'
  <2>1. /\ producer' \in [Producers -> [pc : PCs, todo : SUBSET Clients,
                            full : Clients \cup {NoClient}, laggards : SUBSET Clients]]
        /\ producer'[p] = rec
        /\ \A q \in Producers : q # p => producer'[q] = producer[q]
    BY <1>1, <1>2, Moves
  <2> QED
    BY <1>1, <1>2, <2>1 DEF TargetsRegistered
<1>3. ASSUME NEW c \in Clients, Deliver(p, c) PROVE ServiceInv'
  <2>1. c \in producer[p].todo /\ producer[p].pc = "sending"
    BY <1>3 DEF Deliver, Sending
  <2>2. c \notin closed
    BY <1>1, <2>1 DEF TargetsRegistered, MapsAgree, NewcomersUnknown
  <2>3. /\ buffer[c] < BufCap /\ buffer' = [buffer EXCEPT ![c] = buffer[c] + 1]
        /\ Goes(p, [producer[p] EXCEPT !.todo = producer[p].todo \ {c}])
        /\ UNCHANGED <<clients, streams, closed, mishaps, dropped, handler>>
    BY <1>3, <2>2 DEF Deliver, registry
  <2>4. /\ [producer[p] EXCEPT !.todo = producer[p].todo \ {c}] \in T
        /\ [producer[p] EXCEPT !.todo = producer[p].todo \ {c}].todo \subseteq producer[p].todo
    BY <1>1
  <2>5. /\ producer' \in [Producers -> [pc : PCs, todo : SUBSET Clients,
                            full : Clients \cup {NoClient}, laggards : SUBSET Clients]]
        /\ TargetsRegistered'
    BY <1>2, <2>1, <2>3, <2>4
  <2>6. buffer' \in [Clients -> 0..BufCap]
    <3>1. buffer[c] + 1 \in 0..BufCap
      BY <1>1, <2>3, BoundsAssumption DEF TypeOK
    <3> QED
      BY <1>1, <2>3, <3>1 DEF TypeOK
  <2>7. ServiceTypeOK'
    BY <1>1, <2>3, <2>5, <2>6 DEF ServiceTypeOK, TypeOK, PCs, serviceVars
  <2> QED
    BY <2>3, <2>5, <2>7, MapsUntouched
<1>4. ASSUME NEW c \in Clients, Drop(p, c) PROVE ServiceInv'
  <2> DEFINE rec == [producer[p] EXCEPT !.todo = producer[p].todo \ {c}, !.full = c]
  <2>1. /\ producer[p].pc = "sending" /\ Goes(p, rec)
        /\ dropped' = [dropped EXCEPT ![c] = IF dropped[c] < DropMax THEN dropped[c] + 1
                                                                   ELSE dropped[c]]
        /\ UNCHANGED <<clients, streams, buffer, closed, mishaps, handler>>
    BY <1>4 DEF Drop, Sending, registry, channels
  <2>2. rec \in T /\ rec.todo \subseteq producer[p].todo
    BY <1>1
  <2> HIDE DEF rec
  <2>3. /\ producer' \in [Producers -> [pc : PCs, todo : SUBSET Clients,
                            full : Clients \cup {NoClient}, laggards : SUBSET Clients]]
        /\ TargetsRegistered'
    BY <1>2, <2>1, <2>2
  <2>4. dropped' \in [Clients -> 0..DropMax]
    <3>1. (IF dropped[c] < DropMax THEN dropped[c] + 1 ELSE dropped[c]) \in 0..DropMax
      BY <1>1, BoundsAssumption DEF TypeOK
    <3> QED
      BY <1>1, <2>1, <3>1 DEF TypeOK
  <2>5. ServiceTypeOK'
    BY <1>1, <2>1, <2>3, <2>4 DEF ServiceTypeOK, TypeOK, PCs, serviceVars
  <2> QED
    BY <2>1, <2>3, <2>5, MapsUntouched
<1>5. CASE Count(p)
  <2>1. PICK late \in {producer[p].laggards, producer[p].laggards \cup {producer[p].full}} :
            Goes(p, [producer[p] EXCEPT !.full = NoClient, !.laggards = late])
    BY <1>5 DEF Count
  <2> DEFINE rec == [producer[p] EXCEPT !.full = NoClient, !.laggards = late]
  <2>2. producer[p].full \in Clients
    BY <1>1, <1>5 DEF Count
  <2>3. rec \in T /\ rec.todo = producer[p].todo /\ rec.pc = producer[p].pc
    BY <1>1, <2>1, <2>2
  <2>4. Goes(p, rec)
    BY <2>1
  <2>5. UNCHANGED <<clients, streams, buffer, closed, mishaps, dropped, handler>>
    BY <1>5 DEF Count, registry, channels
  <2> HIDE DEF rec
  <2>6. /\ producer' \in [Producers -> [pc : PCs, todo : SUBSET Clients,
                            full : Clients \cup {NoClient}, laggards : SUBSET Clients]]
        /\ TargetsRegistered'
    BY <1>2, <2>3, <2>4, <2>5
  <2>7. ServiceTypeOK'
    BY <1>1, <2>5, <2>6 DEF ServiceTypeOK, TypeOK, PCs, serviceVars
  <2> QED
    BY <2>5, <2>6, <2>7, MapsUntouched
<1>6. CASE RUnlock(p)
  <2>1. PICK rec \in {Idle, [producer[p] EXCEPT !.pc = "evicting"]} : Goes(p, rec)
    BY <1>6 DEF RUnlock
  <2>2. rec \in T /\ rec.pc # "sending"
    BY <1>1, <2>1 DEF Idle, PCs
  <2>3. UNCHANGED <<clients, streams, buffer, closed, mishaps, dropped, handler>>
    BY <1>6 DEF RUnlock, registry, channels
  <2>4. /\ producer' \in [Producers -> [pc : PCs, todo : SUBSET Clients,
                            full : Clients \cup {NoClient}, laggards : SUBSET Clients]]
        /\ TargetsRegistered'
    BY <1>2, <2>1, <2>2, <2>3
  <2>5. ServiceTypeOK'
    BY <1>1, <2>3, <2>4 DEF ServiceTypeOK, TypeOK, PCs, serviceVars
  <2> QED
    BY <2>3, <2>4, <2>5, MapsUntouched
<1> QED
  BY <1>3, <1>4, <1>5, <1>6

(* The producer takes the write lock and unsubscribes the laggards.         *)
LEMMA EvictKeeps ==
    ASSUME ServiceInv, UNCHANGED serviceVars, NEW p \in Producers, Evict(p)
    PROVE  ServiceInv'
<1>1. ServiceTypeOK /\ TypeOK
  BY DEF ServiceInv, ServiceTypeOK
<1>2. /\ Unsubscribe(producer[p].laggards) /\ Goes(p, Idle)
      /\ UNCHANGED <<dropped, handler>>
  BY DEF Evict
<1>3. Idle \in [pc : PCs, todo : SUBSET Clients,
                full : {NoClient} \cup Clients, laggards : SUBSET Clients]
      /\ Idle.pc = "idle"
  BY DEF Idle, PCs
<1>4. /\ producer' \in [Producers -> [pc : PCs, todo : SUBSET Clients,
                                      full : Clients \cup {NoClient}, laggards : SUBSET Clients]]
      /\ producer'[p] = Idle
      /\ \A q \in Producers : q # p => producer'[q] = producer[q]
  BY <1>1, <1>2, <1>3, Moves
<1>5. TypeOK'
  BY <1>1, <1>2, <1>4, UnsubscribeTyped DEF TypeOK, PCs
<1>6. ReadLocked' = FALSE
  <2>1. \A q \in Producers : producer'[q].pc # "sending"
    BY <1>2, <1>3, <1>4 DEF Unsubscribe, ReadLocked
  <2> QED
    BY <2>1 DEF ReadLocked
<1> QED
  BY <1>2, <1>5, <1>6, UnsubscribeKeeps

(* Who broadcasts reads clients that are registered.                        *)
LEMMA StreamsRegistered ==
    ASSUME ServiceInv, NEW s \in Streams
    PROVE  streams[s] \subseteq clients
BY DEF ServiceInv, ClientsClosedOnce, MapsAgree, ServiceTypeOK, TypeOK

(* The service: generators are started and stopped, and broadcast.          *)
LEMMA ServiceStepsKeep ==
    ASSUME ServiceInv,
           \/ \E s \in Streams : StopStream(s)
           \/ \E g \in Generators : StartStream(g) \/ Generate(g) \/ GeneratorEnds(g)
           \/ \E p \in Producers : Request(p)
    PROVE  ServiceInv'
<1>1. ServiceTypeOK /\ TypeOK /\ TargetsRegistered
  BY DEF ServiceInv, ServiceTypeOK
<1>2. ASSUME NEW s \in Streams, StopStream(s) PROVE ServiceInv'
  <2>1. /\ generatorOf[s] \in Generators
        /\ generator' = [generator EXCEPT ![generatorOf[s]] = "stopped"]
        /\ generatorOf' = [generatorOf EXCEPT ![s] = NoGenerator]
        /\ UNCHANGED <<clients, streams, buffer, closed, mishaps, dropped, handler, producer, ended>>
    BY <1>1, <1>2 DEF StopStream, ServiceTypeOK, busVars, registry, channels
  <2>2. ServiceTypeOK'
    BY <1>1, <2>1 DEF ServiceTypeOK, TypeOK
  <2> QED
    BY <1>1, <2>1, <2>2, MapsUntouched DEF TargetsRegistered
<1>3. ASSUME NEW g \in Generators, StartStream(g) \/ GeneratorEnds(g) PROVE ServiceInv'
  <2>1. FeedOf[g] \in Streams
    BY GeneratorsAssumption
  <2>2. UNCHANGED <<clients, streams, buffer, closed, mishaps, dropped, handler, producer>>
    BY <1>3 DEF StartStream, GeneratorEnds, busVars, registry, channels
  <2>3. /\ generatorOf' \in [Streams -> Generators \cup {NoGenerator}]
        /\ generator' \in [Generators -> {"new", "running", "stopped"}]
        /\ ended' \subseteq Generators
    BY <1>1, <1>3, <2>1 DEF StartStream, GeneratorEnds, ServiceTypeOK
  <2>4. ServiceTypeOK'
    BY <1>1, <2>2, <2>3 DEF ServiceTypeOK, TypeOK
  <2> QED
    BY <1>1, <2>2, <2>4, MapsUntouched DEF TargetsRegistered
<1>4. ASSUME NEW g \in Generators, Generate(g) PROVE ServiceInv'
  <2>1. g \in Producers /\ FeedOf[g] \in Streams
    BY GeneratorsAssumption
  <2>2. Begin(g, streams[FeedOf[g]]) /\ UNCHANGED serviceVars
    BY <1>4 DEF Generate, Broadcast
  <2> QED
    BY <2>1, <2>2, StreamsRegistered, BeginKeeps
<1>5. ASSUME NEW p \in Producers, Request(p) PROVE ServiceInv'
  <2>1. UNCHANGED serviceVars
    BY <1>5 DEF Request
  <2>2. CASE BroadcastToAll(p)
    <3>1. UNION {streams[s] : s \in Streams} \subseteq clients
      BY StreamsRegistered
    <3> QED
      BY <2>1, <2>2, <3>1, BeginKeeps DEF BroadcastToAll
  <2>3. CASE \E s \in Streams : Broadcast(p, s)
    BY <2>1, <2>3, StreamsRegistered, BeginKeeps DEF Broadcast
  <2> QED
    BY <1>5, <2>2, <2>3 DEF Request
<1> QED
  BY <1>2, <1>3, <1>4, <1>5
-----------------------------------------------------------------------------
(* The inductive invariant of the broadcaster and the service on it.        *)
THEOREM ServiceInvariance == Spec => []ServiceInv
<1>1. ServiceInit => ServiceInv
  <2> SUFFICES ASSUME ServiceInit PROVE ServiceInv
    OBVIOUS
  <2>1. TypeOK
    BY BoundsAssumption DEF ServiceInit, Init, TypeOK, Idle
  <2>2. generatorOf \in [Streams -> Generators \cup {NoGenerator}]
    <3>1. \A s \in Streams : (\E g \in Demo : FeedOf[g] = s)
              => (CHOOSE g \in Demo : FeedOf[g] = s) \in Generators
      BY DemoAssumption
    <3> QED
      BY <3>1 DEF ServiceInit
  <2>3. ServiceTypeOK
    BY <2>1, <2>2 DEF ServiceInit, ServiceTypeOK
  <2>4. NewcomersUnknown /\ TargetsRegistered
    BY DEF ServiceInit, Init, Idle, NewcomersUnknown, TargetsRegistered
  <2>5. MapsAgree /\ NoChannelPanic
    BY ClientsAssumption DEF ServiceInit, Init, MapsAgree, NoChannelPanic
  <2> QED
    BY <2>3, <2>4, <2>5 DEF ServiceInv, ClientsClosedOnce
<1>2. ServiceInv /\ [Next]_vars => ServiceInv'
  <2> SUFFICES ASSUME ServiceInv, [Next]_vars PROVE ServiceInv'
    OBVIOUS
  <2>1. CASE BusStep /\ UNCHANGED serviceVars
    BY <2>1, SubscribeKeeps, HandlerKeeps, OfferKeeps, EvictKeeps, ExpireKeeps
    DEF BusStep, BroadcastGoesOn
  <2>2. CASE UNCHANGED vars
    <3>1. UNCHANGED <<clients, streams, buffer, closed, mishaps, dropped, handler, producer,
                      generatorOf, generator, ended>>
      BY <2>2 DEF vars, busVars, serviceVars, registry, channels
    <3>2. ServiceTypeOK' /\ TargetsRegistered'
      BY <3>1 DEF ServiceInv, ServiceTypeOK, TypeOK, TargetsRegistered
    <3> QED
      BY <3>1, <3>2, MapsUntouched
  <2> QED
    BY <2>1, <2>2, ServiceStepsKeep DEF Next
<1> QED
  BY <1>1, <1>2, PTL DEF Spec

(* The buffers stay within their capacity and the maps hold clients only.   *)
THEOREM ServiceTypeCorrect == Spec => []ServiceTypeOK
<1>1. ServiceInv => ServiceTypeOK
  BY DEF ServiceInv
<1> QED
  BY <1>1, ServiceInvariance, PTL

(* However producers, handlers, the cleanup and the generators interleave,  *)
(* no event is sent on a closed channel, none is closed twice and both maps *)
(* hold the clients whose channel is open.                                  *)
THEOREM NoChannelEverPanics == Spec => []ClientsClosedOnce
<1>1. ServiceInv => ClientsClosedOnce
  BY DEF ServiceInv
<1> QED
  BY <1>1, ServiceInvariance, PTL
=============================================================================
