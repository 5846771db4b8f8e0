-------------------------- MODULE BroadcastService --------------------------
(***************************************************************************)
(* modules.BroadcastService: stream generators that are started and stopped *)
(* by requests (under streamsMu, one step each) and broadcast to their      *)
(* stream until they see their stopChan closed; and requests that broadcast.*)
(* A generator is removed from the map when it is stopped, so that each     *)
(* SimpleStreamGenerator is started and stopped at most once.               *)
(***************************************************************************)
EXTENDS EventBroadcaster

CONSTANTS Generators,  \* SimpleStreamGenerator values; each is a producer
          FeedOf,      \* the streamID each is made for
          Demo,        \* those of startDemoStreams
          NoGenerator

ASSUME GeneratorsAssumption == /\ Generators \subseteq Producers
                               /\ NoGenerator \notin Generators
                               /\ FeedOf \in [Generators -> Streams]
ASSUME DemoAssumption == /\ Demo \subseteq Generators
                         /\ \A g, h \in Demo : FeedOf[g] = FeedOf[h] => g = h

VARIABLES generatorOf,  \* s.streams
          generator,    \* of each generator: new, running or stopped (stopChan closed)
          ended         \* the generators whose goroutine has returned

serviceVars == <<generatorOf, generator, ended>>
vars == <<busVars, serviceVars>>

ServiceTypeOK ==
    /\ TypeOK
    /\ generatorOf \in [Streams -> Generators \cup {NoGenerator}]
    /\ generator \in [Generators -> {"new", "running", "stopped"}]
    /\ ended \subseteq Generators

\* NewBroadcastService starts the demo streams.
ServiceInit ==
    /\ Init
    /\ generatorOf = [s \in Streams |-> IF \E g \in Demo : FeedOf[g] = s
                                         THEN CHOOSE g \in Demo : FeedOf[g] = s
                                         ELSE NoGenerator]
    /\ generator = [g \in Generators |-> IF g \in Demo THEN "running" ELSE "new"]
    /\ ended = {}
-----------------------------------------------------------------------------
\* startStream: a stream that has a generator keeps it (Start returns early).
StartStream(g) ==
    /\ generatorOf[FeedOf[g]] = NoGenerator /\ generator[g] = "new"
    /\ generatorOf' = [generatorOf EXCEPT ![FeedOf[g]] = g]
    /\ generator' = [generator EXCEPT ![g] = "running"]
    /\ UNCHANGED <<busVars, ended>>

StopStream(s) ==
    /\ generatorOf[s] # NoGenerator
    /\ generator' = [generator EXCEPT ![generatorOf[s]] = "stopped"]
    /\ generatorOf' = [generatorOf EXCEPT ![s] = NoGenerator]
    /\ UNCHANGED <<busVars, ended>>

\* generateEvents: the ticker fires; with stopChan closed, too, either wins.
AtSelect(g) == generator[g] # "new" /\ g \notin ended /\ producer[g].pc = "idle"

Generate(g) ==
    /\ AtSelect(g)
    /\ Broadcast(g, FeedOf[g])
    /\ UNCHANGED serviceVars

\* Bug: only the running flag is cleared, stopChan stays open.
GeneratorIgnoresStop(g) == FALSE /\ UNCHANGED vars

GeneratorEnds(g) ==
    /\ AtSelect(g) /\ generator[g] = "stopped"
    /\ ended' = ended \cup {g}
    /\ UNCHANGED <<busVars, generatorOf, generator>>

\* broadcastEvent.
Request(p) ==
    /\ p \notin Generators
    /\ BroadcastToAll(p) \/ \E s \in Streams : Broadcast(p, s)
    /\ UNCHANGED serviceVars

Next == \/ BusStep /\ UNCHANGED serviceVars
        \/ \E s \in Streams : StopStream(s)
        \/ \E g \in Generators : StartStream(g) \/ Generate(g) \/ GeneratorEnds(g)
        \/ \E p \in Producers : Request(p)

Spec == ServiceInit /\ [][Next]_vars

\* A select whose stopChan stays closed does not prefer the ticker for ever.
Fairness == BusFairness /\ \A g \in Generators : SF_vars(GeneratorEnds(g))

FairSpec == Spec /\ Fairness
-----------------------------------------------------------------------------
(* A generator that was stopped, in its select or in a broadcast, ends.     *)
StoppedGeneratorEnds ==
    \A g \in Generators : generator[g] = "stopped" ~> g \in ended

(* What was told to stop ends: the handler of an unsubscribed client and a  *)
(* generator that was stopped.                                              *)
StoppedEnds == HandlerEnds /\ StoppedGeneratorEnds
=============================================================================
