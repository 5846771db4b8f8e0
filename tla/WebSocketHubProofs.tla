------------------------- MODULE WebSocketHubProofs -------------------------
(***************************************************************************)
(* The hub's two maps agree and no Send channel is closed twice, for any    *)
(* connections, ids and capacities.  What carries it is the register queue: *)
(* a connection goes through it once, so the hub meets a client there that  *)
(* it neither knows nor has closed.                                         *)
(***************************************************************************)
EXTENDS WebSocketHub, TLAPS, SequenceTheorems

OnceIn(ch) == \A k, l \in 1..Len(ch) : ch[k] = ch[l] => k = l

\* The connections that wait to be registered are waiting for the first time.
RegisterInv ==
    /\ OnceIn(register)
    /\ \A c \in Conns : Queued(register, c) => c \notin clients \cup closed /\ reader[c] # "new"
    /\ \A c \in clients \cup closed : reader[c] # "new"

HubInv == TypeOK /\ RegisterInv /\ MapsAgree /\ NeverClosedTwice
-----------------------------------------------------------------------------
(* Receiving from a channel.                                                *)
LEMMA Receive ==
    ASSUME NEW S, NEW ch \in Seq(S), ch # <<>>
    PROVE  /\ Head(ch) \in S /\ Queued(ch, Head(ch))
           /\ Tail(ch) \in Seq(S) /\ Len(Tail(ch)) <= Len(ch)
           /\ OnceIn(ch) => /\ OnceIn(Tail(ch))
                            /\ \A c : Queued(Tail(ch), c) => Queued(ch, c) /\ c # Head(ch)
<1>1. /\ Head(ch) \in S /\ Tail(ch) \in Seq(S) /\ Len(Tail(ch)) = Len(ch) - 1
      /\ \A k \in 1..Len(Tail(ch)) : Tail(ch)[k] = ch[k + 1]
  BY HeadTailProperties
<1>2. Len(ch) \in Nat \ {0} /\ Head(ch) = ch[1] /\ 1 \in 1..Len(ch)
  BY EmptySeq
<1>3. \A k \in 1..Len(Tail(ch)) : k + 1 \in 1..Len(ch) /\ k + 1 # 1
  BY <1>1, <1>2
<1>4. ASSUME OnceIn(ch) PROVE OnceIn(Tail(ch))
  <2> SUFFICES ASSUME NEW k \in 1..Len(Tail(ch)), NEW l \in 1..Len(Tail(ch)),
                      Tail(ch)[k] = Tail(ch)[l]
               PROVE  k = l
    BY DEF OnceIn
  <2>1. k + 1 = l + 1
    BY <1>1, <1>3, <1>4 DEF OnceIn
  <2> QED
    BY <2>1
<1>5. ASSUME OnceIn(ch), NEW c, Queued(Tail(ch), c)
      PROVE  Queued(ch, c) /\ c # Head(ch)
  <2>1. PICK k \in 1..Len(Tail(ch)) : ch[k + 1] = c
    BY <1>1, <1>5 DEF Queued
  <2> QED
    BY <1>2, <1>3, <1>5, <2>1 DEF Queued, OnceIn
<1>6. Queued(ch, Head(ch))
  BY <1>2 DEF Queued
<1>7. Len(Tail(ch)) <= Len(ch)
  BY <1>1, <1>2
<1> QED
  BY <1>1, <1>4, <1>5, <1>6, <1>7

(* Sending to a channel.                                                    *)
LEMMA SendOn ==
    ASSUME NEW S, NEW ch \in Seq(S), NEW x \in S, NEW cap \in Nat, Len(ch) < cap
    PROVE  /\ Append(ch, x) \in Seq(S) /\ Len(Append(ch, x)) <= cap
           /\ \A c : Queued(Append(ch, x), c) => Queued(ch, c) \/ c = x
           /\ OnceIn(ch) /\ ~Queued(ch, x) => OnceIn(Append(ch, x))
<1> DEFINE n == Len(ch) + 1
<1>1. /\ Len(ch) \in Nat /\ Append(ch, x) \in Seq(S) /\ Len(Append(ch, x)) = n
      /\ \A k \in 1..Len(ch) : Append(ch, x)[k] = ch[k]
      /\ Append(ch, x)[n] = x
  BY AppendProperties, LenProperties
<1>2. \A k \in 1..n : k \in 1..Len(ch) \/ k = n
  BY <1>1
<1> QED
  BY <1>1, <1>2 DEF Queued, OnceIn
-----------------------------------------------------------------------------
(* The types of the hub's maps and of the channels, step by step.           *)
LEMMA TypesKept ==
    ASSUME TypeOK, [Next]_vars
    PROVE  TypeOK'
<1> USE IdsAssumption, CapsAssumption DEF TypeOK, PumpStates, hub, out, pump, chan
<1>0. RegisterCap \in Nat /\ SendCap \in Nat /\ BroadcastCap \in Nat
  OBVIOUS
<1>1. CASE HubRegister
  <2>1. /\ Head(register) \in Conns /\ Id[Head(register)] \in IDs
        /\ register' \in Seq(Conns) /\ Len(register') <= RegisterCap
    BY <1>0, <1>1, Receive, LenProperties DEF HubRegister
  <2> DEFINE c == Head(register)
  <2>2. /\ clients' \subseteq Conns /\ byID' \in [IDs -> Conns \cup {NoClient}]
        /\ closed' \subseteq Conns /\ mishaps' \subseteq {"sentOnClosed", "closedTwice"}
    <3>0. c \in Conns /\ Id[c] \in IDs
      BY <2>1
    <3>1. CASE byID[Id[c]] # NoClient
      <4>1. Close({c}) /\ UNCHANGED <<clients, byID>>
        BY <1>1, <3>1 DEF HubRegister
      <4> QED
        BY <3>0, <4>1 DEF Close
    <3>2. CASE byID[Id[c]] = NoClient
      <4>1. /\ clients' = clients \cup {c} /\ byID' = [byID EXCEPT ![Id[c]] = c]
            /\ UNCHANGED <<closed, mishaps>>
        BY <1>1, <3>2 DEF HubRegister
      <4> HIDE DEF c
      <4> QED
        BY <3>0, <4>1
    <3> QED
      BY <3>1, <3>2
  <2> QED
    BY <1>1, <2>1, <2>2 DEF HubRegister
<1>2. CASE HubUnregister
  <2>1. /\ Head(unregister) \in Conns /\ Id[Head(unregister)] \in IDs
        /\ unregister' \in Seq(Conns) /\ Len(unregister') <= RegisterCap
    BY <1>0, <1>2, Receive, LenProperties DEF HubUnregister
  <2>2. /\ clients' \subseteq Conns /\ byID' \in [IDs -> Conns \cup {NoClient}]
        /\ closed' \subseteq Conns /\ mishaps' \subseteq {"sentOnClosed", "closedTwice"}
        /\ overtaken' \subseteq Conns
    BY <1>2, <2>1 DEF HubUnregister, Forget, Close
  <2> QED
    BY <1>2, <2>1, <2>2 DEF HubUnregister
<1>3. CASE HubBroadcast
  <2>1. \A c \in Conns : ~Full(c) => send[c] + 1 \in 0..SendCap
    BY <1>0 DEF Full
  <2>2. send' \in [Conns -> 0..SendCap] /\ broadcast' \in 0..BroadcastCap
    BY <1>0, <1>3, <2>1 DEF HubBroadcast
  <2>3. /\ clients' \subseteq Conns /\ closed' \subseteq Conns
        /\ mishaps' \subseteq {"sentOnClosed", "closedTwice"}
    BY <1>3 DEF HubBroadcast
  <2> QED
    BY <1>3, <2>2, <2>3 DEF HubBroadcast
<1>4. CASE Broadcast
  BY <1>0, <1>4 DEF Broadcast
<1>5. ASSUME NEW i \in IDs, SendToClient(i)
      PROVE  /\ clients' \subseteq Conns /\ byID' \in [IDs -> Conns \cup {NoClient}]
             /\ send' \in [Conns -> 0..SendCap] /\ closed' \subseteq Conns
             /\ mishaps' \subseteq {"sentOnClosed", "closedTwice"}
  <2>1. CASE byID[i] = NoClient
    BY <1>5, <2>1 DEF SendToClient
  <2>2. ASSUME byID[i] # NoClient PROVE byID[i] \in Conns /\ Id[byID[i]] \in IDs
    BY <2>2
  <2>3. CASE byID[i] # NoClient /\ ~Full(byID[i])
    <3>1. /\ send' = [send EXCEPT ![byID[i]] = @ + 1]
          /\ UNCHANGED <<clients, byID, closed, mishaps>>
      BY <1>5, <2>3 DEF SendToClient
    <3>2. send[byID[i]] + 1 \in 0..SendCap
      BY <1>0, <2>2, <2>3 DEF Full
    <3> QED
      BY <2>2, <2>3, <3>1, <3>2
  <2>4. CASE byID[i] # NoClient /\ Full(byID[i])
    <3>1. /\ clients' = clients \ {byID[i]} /\ Forget(byID[i])
          /\ Close({byID[i]}) /\ UNCHANGED send
      BY <1>5, <2>4 DEF SendToClient
    <3> QED
      BY <2>2, <2>4, <3>1 DEF Forget, Close
  <2> QED
    BY <2>1, <2>3, <2>4
<1>6. ASSUME NEW i \in IDs, Direct(i) PROVE TypeOK'
  BY <1>5, <1>6 DEF Direct, Panicked
<1>7. ASSUME NEW c \in Conns, Connect(c) PROVE TypeOK'
  BY <1>0, <1>7, SendOn DEF Connect
<1>8. ASSUME NEW c \in Conns, ReadPing(c) PROVE TypeOK'
  BY <1>5, <1>8 DEF ReadPing, Panicked
<1>9. ASSUME NEW c \in Conns, ReadPumpLeaves(c) PROVE TypeOK'
  BY <1>0, <1>9, SendOn DEF ReadPumpLeaves, Leave
<1>10. ASSUME NEW c \in Conns, WritePumpLeaves(c) PROVE TypeOK'
  BY <1>0, <1>10, SendOn DEF WritePumpLeaves, Leave
<1>11. ASSUME NEW c \in Conns, WriteMessage(c) PROVE TypeOK'
  <2>1. send[c] - 1 \in 0..SendCap
    BY <1>0, <1>11 DEF WriteMessage
  <2>2. send' \in [Conns -> 0..SendCap] /\ writer' \in [Conns -> PumpStates]
    BY <1>11, <2>1 DEF WriteMessage
  <2> QED
    BY <1>11, <2>2 DEF WriteMessage
<1>12. ASSUME NEW c \in Conns, PeerCloses(c) \/ ReadFails(c) \/ WriteEnds(c) PROVE TypeOK'
  BY <1>12 DEF PeerCloses, ReadFails, WriteEnds
<1>13. ASSUME NEW c \in Conns, ReadBroadcast(c) PROVE TypeOK'
  BY <1>4, <1>13 DEF ReadBroadcast
<1>14. CASE UNCHANGED vars
  BY <1>14 DEF vars
<1> QED
  BY <1>1, <1>2, <1>3, <1>4, <1>6, <1>7, <1>8, <1>9, <1>10, <1>11, <1>12, <1>13, <1>14
  DEF Next, HubStep, ReadPumpStep, WritePumpStep
-----------------------------------------------------------------------------
(* A step that leaves the register queue alone and opens or closes no other *)
(* client than those the hub has met.                                       *)
LEMMA QueueUntouched ==
    ASSUME RegisterInv, register' = register,
           clients' \cup closed' \subseteq clients \cup closed,
           \A c \in Conns : reader[c] # "new" => reader'[c] # "new",
           clients \cup closed \subseteq Conns
    PROVE  RegisterInv'
<1>1. OnceIn(register') /\ \A c \in Conns : Queued(register', c) => Queued(register, c)
  BY DEF RegisterInv, OnceIn, Queued
<1> QED
  BY <1>1 DEF RegisterInv

(* A client leaves the hub: unregistered, or evicted by a full channel.     *)
LEMMA Evicted ==
    ASSUME TypeOK, MapsAgree, NeverClosedTwice,
           NEW c \in clients, clients' = clients \ {c}, Forget(c), Close({c})
    PROVE  MapsAgree' /\ NeverClosedTwice' /\ clients' \cup closed' = clients \cup closed
<1>1. /\ clients \subseteq Conns /\ closed \subseteq Conns
      /\ byID \in [IDs -> Conns \cup {NoClient}] /\ c \in Conns /\ Id[c] \in IDs
  BY IdsAssumption DEF TypeOK
<1>2. c \notin closed /\ byID[Id[c]] = c
  BY DEF MapsAgree
<1>3. /\ byID' = [byID EXCEPT ![Id[c]] = NoClient]
      /\ closed' = closed \cup {c} /\ mishaps' = mishaps
  BY <1>2 DEF Forget, Close
<1>4. \A d \in clients' : d \notin closed' /\ byID'[Id[d]] = d
  <2> SUFFICES ASSUME NEW d \in clients' PROVE d \notin closed' /\ byID'[Id[d]] = d
    OBVIOUS
  <2>1. d \in clients /\ d # c /\ d \notin closed /\ byID[Id[d]] = d /\ Id[d] \in IDs
    BY <1>1, IdsAssumption DEF MapsAgree
  <2> QED
    BY <1>1, <1>2, <1>3, <2>1
<1>5. \A i \in IDs : byID'[i] # NoClient => /\ Id[byID'[i]] = i
                                            /\ byID'[i] \in clients' \cup closed'
  <2> SUFFICES ASSUME NEW i \in IDs, byID'[i] # NoClient
               PROVE  Id[byID'[i]] = i /\ byID'[i] \in clients' \cup closed'
    OBVIOUS
  <2>1. i # Id[c] /\ byID'[i] = byID[i]
    BY <1>1, <1>3
  <2> QED
    BY <1>3, <2>1 DEF MapsAgree
<1> QED
  BY <1>3, <1>4, <1>5 DEF MapsAgree, NeverClosedTwice

(* SendToClient reaches an open client, and evicts it at most.              *)
LEMMA Sent ==
    ASSUME TypeOK, MapsAgree, NeverClosedTwice, NEW i \in IDs, SendToClient(i)
    PROVE  MapsAgree' /\ NeverClosedTwice' /\ clients' \cup closed' = clients \cup closed
<1>1. CASE UNCHANGED <<clients, byID, closed, mishaps>>
  BY <1>1 DEF MapsAgree, NeverClosedTwice
<1>2. CASE byID[i] # NoClient /\ Full(byID[i])
  <2>1. byID[i] \in clients
    BY <1>2 DEF MapsAgree, SendToClient, SendPanics
  <2>2. clients' = clients \ {byID[i]} /\ Forget(byID[i]) /\ Close({byID[i]})
    BY <1>2 DEF SendToClient
  <2> QED
    BY <2>1, <2>2, Evicted
<1> QED
  BY <1>1, <1>2 DEF SendToClient, hub, out

(* A panic touches neither map.                                             *)
LEMMA PanicHarmless ==
    ASSUME MapsAgree, NeverClosedTwice, Panicked
    PROVE  MapsAgree' /\ NeverClosedTwice' /\ clients' \cup closed' = clients \cup closed
BY DEF MapsAgree, NeverClosedTwice, Panicked, hub

(* The hub takes a connection it has not met off the register queue.        *)
LEMMA Registered ==
    ASSUME HubInv, HubRegister
    PROVE  RegisterInv' /\ MapsAgree' /\ NeverClosedTwice'
<1> DEFINE c == Head(register)
<1>1. /\ register # <<>> /\ register \in Seq(Conns) /\ register' = Tail(register)
      /\ reader' = reader
      /\ clients \subseteq Conns /\ closed \subseteq Conns
      /\ byID \in [IDs -> Conns \cup {NoClient}]
  BY DEF HubInv, TypeOK, HubRegister, pump
<1>2. /\ c \in Conns /\ Queued(register, c) /\ OnceIn(register')
      /\ \A d : Queued(register', d) => Queued(register, d) /\ d # c
  BY <1>1, Receive DEF HubInv, RegisterInv
<1>3. c \notin clients /\ c \notin closed /\ reader[c] # "new" /\ Id[c] \in IDs
  BY <1>2, IdsAssumption DEF HubInv, RegisterInv
<1>4. \/ /\ byID[Id[c]] # NoClient
         /\ closed' = closed \cup {c} /\ mishaps' = mishaps
         /\ clients' = clients /\ byID' = byID
      \/ /\ byID[Id[c]] = NoClient
         /\ closed' = closed /\ mishaps' = mishaps
         /\ clients' = clients \cup {c} /\ byID' = [byID EXCEPT ![Id[c]] = c]
  BY <1>3 DEF HubRegister, Close, hub
<1> HIDE DEF c
<1>5. RegisterInv'
  <2>1. clients' \cup closed' = clients \cup closed \cup {c}
    BY <1>4
  <2> QED
    BY <1>1, <1>2, <1>3, <2>1 DEF HubInv, RegisterInv
<1>6. NeverClosedTwice'
  BY <1>4 DEF HubInv, NeverClosedTwice
<1>7. CASE byID[Id[c]] # NoClient
  <2>1. closed' = closed \cup {c} /\ clients' = clients /\ byID' = byID
    BY <1>4, <1>7
  <2> QED
    BY <1>3, <1>5, <1>6, <2>1 DEF HubInv, MapsAgree
<1>8. CASE byID[Id[c]] = NoClient
  <2>1. /\ closed' = closed /\ clients' = clients \cup {c}
        /\ byID' = [byID EXCEPT ![Id[c]] = c]
    BY <1>4, <1>8
  <2>2. c # NoClient
    BY <1>2, IdsAssumption
  <2>3. \A d \in clients : d # NoClient /\ Id[d] \in IDs /\ Id[d] # Id[c]
    BY <1>1, <1>8, IdsAssumption DEF HubInv, MapsAgree
  <2>4. \A d \in clients' : d \notin closed' /\ byID'[Id[d]] = d
    BY <1>1, <1>3, <2>1, <2>3 DEF HubInv, MapsAgree
  <2>5. \A i \in IDs : byID'[i] # NoClient => /\ Id[byID'[i]] = i
                                              /\ byID'[i] \in clients' \cup closed'
    BY <1>1, <1>3, <2>1 DEF HubInv, MapsAgree
  <2> QED
    BY <1>5, <1>6, <2>4, <2>5 DEF MapsAgree
<1> QED
  BY <1>5, <1>6, <1>7, <1>8

(* The maps and the channels, step by step.                                 *)
LEMMA HubStepsKeep ==
    ASSUME HubInv, [Next]_vars
    PROVE  RegisterInv' /\ MapsAgree' /\ NeverClosedTwice'
<1> DEFINE Kept == RegisterInv' /\ MapsAgree' /\ NeverClosedTwice'
<1>1. /\ TypeOK /\ RegisterInv /\ MapsAgree /\ NeverClosedTwice
      /\ clients \cup closed \subseteq Conns
      /\ reader \in [Conns -> PumpStates]
  BY DEF HubInv, TypeOK
<1>2. CASE HubRegister
  BY <1>2, Registered
<1>3. CASE HubUnregister
  <2>1. register' = register /\ reader' = reader
    BY <1>3 DEF HubUnregister, pump
  <2>2. CASE Head(unregister) \in clients
    <3>1. MapsAgree' /\ NeverClosedTwice' /\ clients' \cup closed' = clients \cup closed
      BY <1>1, <1>3, <2>2, Evicted DEF HubUnregister
    <3> QED
      BY <1>1, <2>1, <3>1, QueueUntouched
  <2>3. CASE Head(unregister) \notin clients
    <3>1. UNCHANGED <<clients, byID, closed, mishaps>>
      BY <1>3, <2>3 DEF HubUnregister, hub
    <3> QED
      BY <1>1, <2>1, <3>1, QueueUntouched DEF MapsAgree, NeverClosedTwice
  <2> QED
    BY <2>2, <2>3
<1>4. CASE HubBroadcast
  <2> DEFINE slow == {c \in clients : Full(c)}
  <2>1. /\ register' = register /\ reader' = reader /\ byID' = byID
        /\ clients' = clients \ slow /\ closed' = closed \cup slow
    BY <1>4 DEF HubBroadcast, pump
  <2>2. slow \subseteq clients /\ clients \cap closed = {}
    BY <1>1 DEF MapsAgree
  <2>3. NeverClosedTwice'
    BY <1>1, <1>4, <2>2 DEF HubBroadcast, NeverClosedTwice
  <2> HIDE DEF slow
  <2>4. clients' \cup closed' = clients \cup closed
    BY <2>1, <2>2
  <2>5. MapsAgree'
    BY <1>1, <2>1, <2>2 DEF MapsAgree
  <2> QED
    BY <1>1, <2>1, <2>3, <2>4, <2>5, QueueUntouched
<1>5. CASE Broadcast
  BY <1>1, <1>5, QueueUntouched DEF Broadcast, hub, out, pump, MapsAgree, NeverClosedTwice
<1>6. ASSUME NEW i \in IDs, Direct(i) PROVE Kept
  <2>1. MapsAgree' /\ NeverClosedTwice' /\ clients' \cup closed' = clients \cup closed
    BY <1>1, <1>6, Sent, PanicHarmless DEF Direct
  <2> QED
    BY <1>1, <1>6, <2>1, QueueUntouched DEF Direct, chan, pump
<1>7. ASSUME NEW c \in Conns, Connect(c) PROVE Kept
  <2>1. /\ reader[c] = "new" /\ register \in Seq(Conns)
        /\ Len(register) < RegisterCap /\ RegisterCap \in Nat
        /\ register' = Append(register, c)
        /\ reader' = [reader EXCEPT ![c] = "run"]
        /\ UNCHANGED <<clients, byID, closed, mishaps>>
    BY <1>1, <1>7, CapsAssumption DEF TypeOK, Connect, hub, out
  <2>2. ~Queued(register, c) /\ c \notin clients \cup closed
    BY <1>1, <2>1 DEF RegisterInv
  <2>3. OnceIn(register') /\ \A d : Queued(register', d) => Queued(register, d) \/ d = c
    BY <1>1, <2>1, <2>2, SendOn DEF RegisterInv
  <2>4. \A d \in Conns : reader'[d] = IF d = c THEN "run" ELSE reader[d]
    BY <1>1, <2>1
  <2>5. RegisterInv'
    BY <1>1, <2>1, <2>2, <2>3, <2>4 DEF RegisterInv
  <2> QED
    BY <1>1, <2>1, <2>5 DEF MapsAgree, NeverClosedTwice
<1>8. ASSUME NEW c \in Conns, ReadPing(c) PROVE Kept
  <2>1. Id[c] \in IDs
    BY IdsAssumption
  <2>2. MapsAgree' /\ NeverClosedTwice' /\ clients' \cup closed' = clients \cup closed
    BY <1>1, <1>8, <2>1, Sent, PanicHarmless DEF ReadPing
  <2>3. register' = register /\ \A d \in Conns : reader[d] # "new" => reader'[d] # "new"
    BY <1>1, <1>8 DEF ReadPing, chan
  <2> QED
    BY <1>1, <2>2, <2>3, QueueUntouched
<1>9. ASSUME NEW c \in Conns,
             \/ PeerCloses(c) \/ ReadFails(c) \/ ReadPumpLeaves(c)
             \/ WriteMessage(c) \/ WriteEnds(c) \/ WritePumpLeaves(c)
      PROVE  Kept
  <2>1. register' = register /\ UNCHANGED <<clients, byID, closed, mishaps>>
    BY <1>9 DEF PeerCloses, ReadFails, ReadPumpLeaves, WriteMessage, WriteEnds,
                WritePumpLeaves, Leave, hub, out, chan
  <2>2. \A d \in Conns : reader[d] # "new" => reader'[d] # "new"
    BY <1>1, <1>9 DEF PeerCloses, ReadFails, ReadPumpLeaves, WriteMessage, WriteEnds,
                      WritePumpLeaves, Leave
  <2> QED
    BY <1>1, <2>1, <2>2, QueueUntouched DEF MapsAgree, NeverClosedTwice
<1>10. ASSUME NEW c \in Conns, ReadBroadcast(c) PROVE Kept
  BY <1>5, <1>10 DEF ReadBroadcast
<1>11. CASE UNCHANGED vars
  BY <1>1, <1>11, QueueUntouched
  DEF vars, hub, out, pump, chan, MapsAgree, NeverClosedTwice
<1> QED
  BY <1>2, <1>3, <1>4, <1>5, <1>6, <1>7, <1>8, <1>9, <1>10, <1>11
  DEF Next, HubStep, ReadPumpStep, WritePumpStep

(* The inductive invariant of the hub, its pumps and their channels.        *)
THEOREM HubInvariance == Spec => []HubInv
<1>1. Init => HubInv
  <2> SUFFICES ASSUME Init PROVE HubInv
    OBVIOUS
  <2>1. TypeOK
    BY CapsAssumption, EmptySeq DEF Init, TypeOK, PumpStates
  <2>2. RegisterInv
    BY EmptySeq DEF Init, RegisterInv, OnceIn, Queued
  <2> QED
    BY <2>1, <2>2 DEF Init, HubInv, MapsAgree, NeverClosedTwice
<1>2. HubInv /\ [Next]_vars => HubInv'
  BY TypesKept, HubStepsKeep DEF HubInv
<1> QED
  BY <1>1, <1>2, PTL DEF Spec

(* No buffer of the hub, of a client or of a queue overruns its capacity,   *)
(* and the maps hold connections only.                                      *)
THEOREM HubTypeCorrect == Spec => []TypeOK
<1>1. HubInv => TypeOK
  BY DEF HubInv
<1> QED
  BY <1>1, HubInvariance, PTL

(* h.clients and h.clientsByID agree in every order of register, unregister,*)
(* broadcast and SendToClient: no two open connections share an id.         *)
THEOREM HubMapsAgree == Spec => []MapsAgree
<1>1. HubInv => MapsAgree
  BY DEF HubInv
<1> QED
  BY <1>1, HubInvariance, PTL

(* No client's Send is closed twice, so that the hub goroutine survives     *)
(* every unregistering, eviction and rejection.                             *)
THEOREM SendIsClosedOnce == Spec => []NeverClosedTwice
<1>1. HubInv => NeverClosedTwice
  BY DEF HubInv
<1> QED
  BY <1>1, HubInvariance, PTL
=============================================================================
