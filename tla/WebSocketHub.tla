---------------------------- MODULE WebSocketHub ----------------------------
(***************************************************************************)
(* pkg/websocket: the Hub goroutine, which selects between its register,    *)
(* unregister and broadcast channels, and the two pumps of every connection.*)
(* The handlers of Hub.Run and SendToClient hold h.mu from end to end, so   *)
(* each is one step.  Messages are counted, not told apart.                 *)
(***************************************************************************)
EXTENDS Integers, Sequences, FiniteSets

CONSTANTS Conns,         \* websocket connections, each a Client
          IDs, Id,       \* client ids, and the one each connection asks for
          NoClient,
          SendCap,       \* 256: capacity of client.Send
          BroadcastCap,  \* 256: of h.broadcast
          RegisterCap    \* 64: of h.register and h.unregister

ASSUME IdsAssumption  == Id \in [Conns -> IDs] /\ NoClient \notin Conns
ASSUME CapsAssumption == /\ SendCap \in Nat \ {0}
                         /\ BroadcastCap \in Nat \ {0}
                         /\ RegisterCap \in Nat \ {0}

VARIABLES clients,     \* h.clients
          byID,        \* h.clientsByID
          send,        \* how many messages each client.Send buffers
          closed,      \* the clients whose Send is closed
          register, unregister, broadcast,   \* the hub's channels
          reader,      \* each connection's readPump
          writer,      \* and writePump
          connUp,      \* the connections that are open
          overtaken,   \* history: unregistered before they were registered
          mishaps      \* history: the panics on a closed channel

hub  == <<clients, byID>>
out  == <<send, closed, mishaps>>
pump == <<reader, writer, connUp>>
chan == <<register, unregister, broadcast>>
vars == <<hub, out, chan, pump, overtaken>>

PumpStates == {"new", "run", "end", "gone"}

TypeOK ==
    /\ clients \subseteq Conns
    /\ byID \in [IDs -> Conns \cup {NoClient}]
    /\ send \in [Conns -> 0..SendCap]
    /\ closed \subseteq Conns
    /\ register \in Seq(Conns) /\ Len(register) <= RegisterCap
    /\ unregister \in Seq(Conns) /\ Len(unregister) <= RegisterCap
    /\ broadcast \in 0..BroadcastCap
    /\ reader \in [Conns -> PumpStates] /\ writer \in [Conns -> PumpStates]
    /\ connUp \subseteq Conns
    /\ overtaken \subseteq Conns
    /\ mishaps \subseteq {"sentOnClosed", "closedTwice"}

Init ==
    /\ clients = {}
    /\ byID = [i \in IDs |-> NoClient]
    /\ send = [c \in Conns |-> 0]
    /\ closed = {}
    /\ register = <<>> /\ unregister = <<>> /\ broadcast = 0
    /\ reader = [c \in Conns |-> "new"]
    /\ writer = [c \in Conns |-> "new"]
    /\ connUp = {}
    /\ overtaken = {}
    /\ mishaps = {}
-----------------------------------------------------------------------------
\* An operator marked "Bug" is a variant of the one after it with a plausible
\* mistake: no action uses it, it is what the properties must catch.

\* close(client.Send) panics if it is closed already.
Close(cs) ==
    /\ closed' = closed \cup cs
    /\ mishaps' = IF cs \cap closed = {} THEN mishaps ELSE mishaps \cup {"closedTwice"}

Queued(ch, c) == \E k \in 1..Len(ch) : ch[k] = c

\* Bug: no look at the id, the newcomer shadows the connection that has it.
HubRegisterShadowing ==
    /\ register # <<>>
    /\ register' = Tail(register)
    /\ clients' = clients \cup {Head(register)}
    /\ byID' = [byID EXCEPT ![Id[Head(register)]] = Head(register)]
    /\ UNCHANGED <<out, unregister, broadcast, pump, overtaken>>

\* Hub.Run, case client := <-h.register.
HubRegister ==
    /\ register # <<>>
    /\ register' = Tail(register)
    /\ LET c == Head(register) IN
          IF byID[Id[c]] # NoClient
            THEN Close({c}) /\ UNCHANGED hub
            ELSE /\ clients' = clients \cup {c}
                 /\ byID' = [byID EXCEPT ![Id[c]] = c]
                 /\ UNCHANGED <<closed, mishaps>>
    /\ UNCHANGED <<send, unregister, broadcast, pump, overtaken>>

\* Hub.Run, case client := <-h.unregister.
Forget(c) == IF byID[Id[c]] = c THEN byID' = [byID EXCEPT ![Id[c]] = NoClient]
                                ELSE UNCHANGED byID

\* Bug: no membership check, both pumps' unregisters close Send.
HubUnregisterAnyway ==
    /\ unregister # <<>>
    /\ unregister' = Tail(unregister)
    /\ LET c == Head(unregister) IN
          clients' = clients \ {c} /\ Forget(c) /\ Close({c})
    /\ UNCHANGED <<send, register, broadcast, pump, overtaken>>

HubUnregister ==
    /\ unregister # <<>>
    /\ unregister' = Tail(unregister)
    /\ LET c == Head(unregister) IN
          /\ IF c \in clients
               THEN clients' = clients \ {c} /\ Forget(c) /\ Close({c})
               ELSE UNCHANGED <<hub, closed, mishaps>>
          /\ overtaken' = IF Queued(register, c) THEN overtaken \cup {c} ELSE overtaken
    /\ UNCHANGED <<send, register, broadcast, pump>>

\* Hub.Run, case message := <-h.broadcast: a client whose Send is full is
\* closed and leaves h.clients; h.clientsByID keeps it.
Full(c) == send[c] = SendCap

HubBroadcast ==
    /\ broadcast > 0
    /\ broadcast' = broadcast - 1
    /\ LET slow == {c \in clients : Full(c)} IN
          /\ clients' = clients \ slow
          /\ closed' = closed \cup slow
          /\ mishaps' = mishaps
                \cup (IF clients \cap closed # {} THEN {"sentOnClosed"} ELSE {})
                \cup (IF slow \cap closed # {} THEN {"closedTwice"} ELSE {})
          /\ send' = [c \in Conns |-> IF c \in clients \ slow THEN send[c] + 1 ELSE send[c]]
    /\ UNCHANGED <<byID, register, unregister, pump, overtaken>>

\* SendToClient(id): true for the panicking case, a send on a closed channel,
\* which wins over full and over default; the deferred Unlock runs all the same.
SendPanics(i) == byID[i] # NoClient /\ byID[i] \in closed

SendToClient(i) ==
    /\ ~SendPanics(i)
    /\ IF byID[i] = NoClient
         THEN UNCHANGED <<hub, out>>
         ELSE LET c == byID[i] IN
              IF ~Full(c)
                THEN send' = [send EXCEPT ![c] = @ + 1] /\ UNCHANGED <<hub, closed, mishaps>>
                ELSE /\ clients' = clients \ {c}
                     /\ Forget(c)
                     /\ Close({c})
                     /\ UNCHANGED send

Panicked == mishaps' = mishaps \cup {"sentOnClosed"} /\ UNCHANGED <<hub, send, closed>>

\* Somebody outside the package calls SendToClient or Broadcast.  A panic
\* unwinds to whoever recovers it there.
Direct(i) ==
    /\ SendToClient(i) \/ (SendPanics(i) /\ Panicked)
    /\ UNCHANGED <<chan, pump, overtaken>>

Broadcast ==
    /\ broadcast < BroadcastCap
    /\ broadcast' = broadcast + 1
    /\ UNCHANGED <<hub, out, register, unregister, pump, overtaken>>

\* HandleWebSocket: h.register <- client, then both pumps start.
Connect(c) ==
    /\ reader[c] = "new"
    /\ Len(register) < RegisterCap
    /\ register' = Append(register, c)
    /\ reader' = [reader EXCEPT ![c] = "run"]
    /\ writer' = [writer EXCEPT ![c] = "run"]
    /\ connUp' = connUp \cup {c}
    /\ UNCHANGED <<hub, out, unregister, broadcast, overtaken>>

PeerCloses(c) ==
    /\ c \in connUp
    /\ connUp' = connUp \ {c}
    /\ UNCHANGED <<hub, out, chan, reader, writer, overtaken>>

\* readPump, one message from the peer: "ping" is answered through the hub, a
\* panic there ends the pump (recover); "broadcast" goes to the hub's channel;
\* anything else is logged, a stutter.
ReadPing(c) ==
    /\ reader[c] = "run" /\ c \in connUp
    /\ \/ /\ SendToClient(Id[c])
          /\ UNCHANGED reader
       \/ /\ SendPanics(Id[c]) /\ Panicked
          /\ reader' = [reader EXCEPT ![c] = "end"]
    /\ UNCHANGED <<writer, connUp, chan, overtaken>>

ReadBroadcast(c) == reader[c] = "run" /\ c \in connUp /\ Broadcast

\* ReadMessage fails: the connection is down, or the 60 s deadline passed.
ReadFails(c) ==
    /\ reader[c] = "run"
    /\ reader' = [reader EXCEPT ![c] = "end"]
    /\ UNCHANGED <<hub, out, chan, writer, connUp, overtaken>>

\* The deferred function of either pump: unregister, then close the connection.
Leave(c) ==
    /\ Len(unregister) < RegisterCap
    /\ unregister' = Append(unregister, c)
    /\ connUp' = connUp \ {c}
    /\ UNCHANGED <<hub, out, register, broadcast, overtaken>>

\* Bug: the pump only closes the connection.
ReadPumpLeavesSilently(c) ==
    /\ reader[c] = "end"
    /\ reader' = [reader EXCEPT ![c] = "gone"]
    /\ connUp' = connUp \ {c}
    /\ UNCHANGED <<hub, out, chan, writer, overtaken>>

ReadPumpLeaves(c) == /\ reader[c] = "end"
                     /\ reader' = [reader EXCEPT ![c] = "gone"]
                     /\ Leave(c) /\ UNCHANGED writer

WritePumpLeaves(c) == /\ writer[c] = "end"
                      /\ writer' = [writer EXCEPT ![c] = "gone"]
                      /\ Leave(c) /\ UNCHANGED reader

\* writePump receives a message and writes it; a failed write ends the pump, as
\* does the end of the closed, empty channel.
WriteMessage(c) ==
    /\ writer[c] = "run" /\ send[c] > 0
    /\ send' = [send EXCEPT ![c] = @ - 1]
    /\ \/ c \in connUp /\ UNCHANGED writer
       \/ writer' = [writer EXCEPT ![c] = "end"]
    /\ UNCHANGED <<hub, closed, mishaps, chan, reader, connUp, overtaken>>

WriteEnds(c) ==
    /\ writer[c] = "run" /\ send[c] = 0 /\ c \in closed
    /\ writer' = [writer EXCEPT ![c] = "end"]
    /\ UNCHANGED <<hub, out, chan, reader, connUp, overtaken>>

HubStep == HubRegister \/ HubUnregister \/ HubBroadcast

ReadPumpStep(c)  == ReadPing(c) \/ ReadBroadcast(c) \/ ReadFails(c) \/ ReadPumpLeaves(c)
WritePumpStep(c) == WriteMessage(c) \/ WriteEnds(c) \/ WritePumpLeaves(c)

Next == \/ HubStep
        \/ Broadcast
        \/ \E i \in IDs : Direct(i)
        \/ \E c \in Conns : \/ Connect(c) \/ PeerCloses(c)
                            \/ ReadPumpStep(c) \/ WritePumpStep(c)

Spec == Init /\ [][Next]_vars

\* Hub.Run is scheduled, and its select, which picks at random among the ready
\* channels, passes over none of them for ever; the pumps run; a read on a
\* connection that is down fails.  Nobody has to connect, send or hang up.
Fairness ==
    /\ WF_vars(HubRegister) /\ WF_vars(HubUnregister) /\ WF_vars(HubBroadcast)
    /\ \A c \in Conns : /\ WF_vars(c \notin connUp /\ ReadFails(c))
                        /\ WF_vars(ReadPumpLeaves(c))
                        /\ WF_vars(WritePumpLeaves(c))
                        /\ WF_vars(WriteMessage(c) \/ WriteEnds(c))

FairSpec == Spec /\ Fairness
-----------------------------------------------------------------------------
(* h.clients and h.clientsByID agree: a client that broadcasts reach is     *)
(* open and is the one its id stands for, so that two connections never     *)
(* share an id; an id stands for nobody else, but for a client that was     *)
(* closed (HubBroadcast leaves those behind).                               *)
MapsAgree ==
    /\ \A c \in clients : c \notin closed /\ byID[Id[c]] = c
    /\ \A i \in IDs : byID[i] # NoClient => /\ Id[byID[i]] = i
                                            /\ byID[i] \in clients \cup closed

(* Unregistering, evicting and rejecting a client exclude each other: no    *)
(* order of them closes a Send channel twice.                               *)
NeverClosedTwice == "closedTwice" \notin mishaps

(* Closing a client's Send ends both its pumps: no goroutine is left.       *)
PumpsEnd == \A c \in Conns :
    c \in closed ~> (reader[c] = "gone" /\ writer[c] = "gone")

(* A connection whose readPump has ended leaves h.clients, unless the hub   *)
(* served its unregister before its register: then it stays, a ghost, until *)
(* a message finds its writePump.                                           *)
LeavesUnlessOvertaken == \A c \in Conns :
    reader[c] = "gone" ~> (c \notin clients \/ c \in overtaken)

(* No connection is left over: its pumps end with its channel, and it       *)
(* leaves the hub with its readPump.                                        *)
ConnectionsEnd == PumpsEnd /\ LeavesUnlessOvertaken

(* SendToClient's comment: "closes of client.Send only happen under this    *)
(* lock, so this can never panic with 'send on closed channel'".            *)
SendNeverPanics == "sentOnClosed" \notin mishaps
=============================================================================
