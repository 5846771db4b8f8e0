--------------------------- MODULE AppLifecycle ---------------------------
(***************************************************************************)
(* The program from the moment its server goroutine is started to its exit: *)
(* main, which sleeps, selects and shuts down (console and TUI mode);       *)
(* Server.Start, which builds the infrastructure, fills and seals the       *)
(* Dependencies, creates the services and listens; Server.Shutdown, which   *)
(* closes every dependency in a goroutine of its own; the terminal UI, whose*)
(* exit dialog triggers the shutdown and through whose loop every log line  *)
(* goes; and the signals.                                                   *)
(***************************************************************************)
EXTENDS InfraInit

CONSTANTS HangsOnClose, \* components whose Close may never return
          Services,     \* the registered service factories
          Enabled,      \* those the configuration enables
          Declining,    \* those whose own Enabled() says no
          Needs         \* the components each asks the Dependencies for

ASSUME LifecycleAssumption == /\ HangsOnClose \subseteq Factories
                              /\ Enabled \subseteq Services /\ Declining \subseteq Services
                              /\ Needs \in [Services -> SUBSET Factories]

VARIABLES tui,     \* EnableTUI
          ui,      \* the terminal program: off, up, stuck in an update, or gone
          main,    \* where the main goroutine is
          how,     \* how it came to leave
          signal,  \* sigChan holds a signal
          quit,    \* the exit dialog has been confirmed
          server,  \* where Server.Start is
          deps,    \* the names in s.dependencies
          service, \* the recorded state of each service; mounted: it has routes
          closer   \* of each component: the goroutine that closes it

mainVars == <<tui, ui, main, how, signal, quit>>
serverVars == <<server, deps, service>>
lifeVars == <<mainVars, serverVars, closer>>
vars == <<infraVars, lifeVars>>

ProgramTypeOK ==
    /\ tui \in BOOLEAN /\ ui \in {"off", "up", "stuck", "gone"}
    /\ main \in {"delay", "select", "shutdown", "await", "leaving", "exited"}
    /\ how \in {"", "killed", "server error", "too early", "closed", "timeout"}
    /\ signal \in BOOLEAN /\ quit \in BOOLEAN
    /\ server \in {"infra", "assign", "fill", "sealed", "boot", "booted", "listening",
                   "failed"}
    /\ deps \subseteq registry
    /\ service \in [Services -> {"unknown", "disabled", "failed", "running", "mounted"}]
    /\ closer \in [Factories -> {"none", "closing", "closed"}]

LifecycleTypeOK == InfraTypeOK /\ ProgramTypeOK

Init ==
    /\ InfraInit
    /\ tui \in BOOLEAN /\ ui = IF tui THEN "up" ELSE "off"
    /\ main = "delay" /\ how = "" /\ signal = FALSE /\ quit = FALSE
    /\ server = "infra" /\ deps = {}
    /\ service = [s \in Services |-> "unknown"]
    /\ closer = [c \in Factories |-> "none"]
-----------------------------------------------------------------------------
\* AddLog hands every line of the program to the terminal's event loop, an
\* unbuffered channel, and waits until it is taken or the loop has ended.
LogReturns == ui # "stuck"

\* Every two seconds the loop itself asks every component for its status. It
\* does not come back from one that hangs; nor from the grafana client's once
\* that logs, an error at any log level, since it waits for the loop to take
\* the line.
RefreshHangs ==
    /\ ui = "up" /\ registry \cap NeverAnswer # {}
    /\ ui' = "stuck"
    /\ UNCHANGED <<infraVars, tui, main, how, signal, quit, serverVars, closer>>

\* Server.Start, after StartAsyncInitialization has returned.
AssignDependencies ==
    /\ server = "infra" /\ launched
    /\ server' = "assign"
    /\ UNCHANGED <<infraVars, mainVars, deps, service, closer>>

SetDependency(c) ==
    /\ server \in {"assign", "fill"} /\ c \in registry \ deps
    /\ server' = "fill" /\ deps' = deps \cup {c}
    /\ UNCHANGED <<infraVars, mainVars, service, closer>>

\* Bug: the components are set by a goroutine that the seal overtakes.
SealHalfFilled ==
    /\ server \in {"assign", "fill"}
    /\ server' = "sealed"
    /\ UNCHANGED <<infraVars, mainVars, deps, service, closer>>

Seal ==
    /\ server \in {"assign", "fill"} /\ deps = registry
    /\ server' = "sealed"
    /\ UNCHANGED <<infraVars, mainVars, deps, service, closer>>

\* AutoDiscoverServices: the typed getters give nil for what is missing, and
\* a factory that gets nil makes no service.
DiscoverServices ==
    /\ server = "sealed" /\ server' = "boot"
    /\ service' = [s \in Services |-> IF s \notin Enabled THEN "disabled"
                                      ELSE IF Needs[s] \subseteq deps THEN "running"
                                      ELSE "failed"]
    /\ UNCHANGED <<infraVars, mainVars, deps, closer>>

\* ServiceRegistry.Boot registers the routes of the services that were made
\* and do not decline.
Boot ==
    /\ server = "boot" /\ server' = "booted"
    /\ service' = [s \in Services |-> IF service[s] = "running" /\ s \notin Declining
                                      THEN "mounted" ELSE service[s]]
    /\ UNCHANGED <<infraVars, mainVars, deps, closer>>

Listen ==
    /\ server = "booted" /\ server' = "listening"
    /\ UNCHANGED <<infraVars, mainVars, deps, service, closer>>

\* e.Start returns: the port is taken, or the listener has failed.
ServerError ==
    /\ server \in {"booted", "listening"} /\ server' = "failed"
    /\ UNCHANGED <<infraVars, mainVars, deps, service, closer>>

\* Each of these logs.
ServerStep ==
    /\ LogReturns
    /\ \/ AssignDependencies \/ Seal \/ DiscoverServices \/ Boot \/ Listen
       \/ \E c \in Factories : SetDependency(c)

\* The endpoint /health.
ServeHealth(r) == server = "listening" /\ HealthRequest(r) /\ UNCHANGED lifeVars
-----------------------------------------------------------------------------
\* StartupDelay is over: signal.Notify, then the select.
EnterSelect ==
    /\ main = "delay" /\ LogReturns /\ main' = "select"
    /\ UNCHANGED <<infraVars, tui, ui, how, signal, quit, serverVars, closer>>

\* SIGINT or SIGTERM. Before Notify it kills the process, unless the terminal
\* program is up: that catches it and ends, alone. After the select nobody
\* reads sigChan again, and a signal has no effect.
SignalArrives ==
    /\ main \in {"delay", "select"}
    /\ ui' = IF ui = "up" THEN "gone" ELSE ui
    /\ \/ main = "delay" /\ ui \in {"off", "gone"} /\ main' = "exited" /\ how' = "killed"
          /\ UNCHANGED signal
       \/ main = "delay" /\ ui \in {"up", "stuck"} /\ UNCHANGED <<main, how, signal>>
       \/ main = "select" /\ signal' = TRUE /\ UNCHANGED <<main, how>>
    /\ UNCHANGED <<infraVars, tui, quit, serverVars, closer>>

\* The exit dialog: TriggerShutdown hands over to a main that is in its
\* select and does nothing otherwise; the terminal program ends either way.
ConfirmExit ==
    /\ ui = "up"
    /\ ui' = "gone" /\ quit' = TRUE
    /\ main' = IF main = "select" THEN "shutdown" ELSE main
    /\ UNCHANGED <<infraVars, tui, how, signal, serverVars, closer>>

TakeSignal ==
    /\ main = "select" /\ signal
    /\ main' = "shutdown" /\ signal' = FALSE
    /\ UNCHANGED <<infraVars, tui, ui, how, quit, serverVars, closer>>

\* Console mode only: the error of Server.Start ends main without Shutdown.
TakeServerError ==
    /\ main = "select" /\ ~tui /\ server = "failed"
    /\ main' = "exited" /\ how' = "server error"
    /\ UNCHANGED <<infraVars, tui, ui, signal, quit, serverVars, closer>>

\* Shutdown: nothing to do before s.dependencies is assigned; then a
\* goroutine for each component that has been set so far.
Shutdown ==
    /\ main = "shutdown" /\ LogReturns
    /\ main' = IF server = "infra" THEN "leaving" ELSE "await"
    /\ how' = IF server \in {"infra", "assign", "fill"} THEN "too early" ELSE how
    /\ closer' = [c \in Factories |-> IF c \in deps THEN "closing" ELSE "none"]
    /\ UNCHANGED <<infraVars, tui, ui, signal, quit, serverVars>>

CloseReturns(c) ==
    /\ closer[c] = "closing"
    /\ closer' = [closer EXCEPT ![c] = "closed"]
    /\ UNCHANGED <<infraVars, mainVars, serverVars>>

Leave(reason) ==
    /\ main = "await" /\ LogReturns
    /\ main' = "leaving"
    /\ how' = IF how = "" THEN reason ELSE how
    /\ UNCHANGED <<infraVars, tui, ui, signal, quit, serverVars, closer>>

AllClosed == Leave("closed") /\ \A c \in Factories : closer[c] # "closing"

\* Bug: Shutdown waits for the group alone.
ShutdownNeverTimesOut == FALSE /\ UNCHANGED vars

\* After 30 seconds: the context main passes has no deadline.
ShutdownTimesOut == Leave("timeout")

\* ShutdownDelay is over, or liveTUI.Stop sends a Quit and calls os.Exit.
Exit ==
    /\ main = "leaving" /\ LogReturns /\ main' = "exited"
    /\ UNCHANGED <<infraVars, tui, ui, how, signal, quit, serverVars, closer>>

MainStep == EnterSelect \/ TakeSignal \/ TakeServerError \/ Shutdown
            \/ AllClosed \/ ShutdownTimesOut \/ Exit

\* Every goroutine ends with the process.
Alive == main # "exited"

Next ==
    /\ Alive
    /\ \/ (SilentStep \/ (LogReturns /\ LoggingStep)) /\ UNCHANGED lifeVars
       \/ ServerStep \/ ServerError \/ MainStep
       \/ SignalArrives \/ ConfirmExit \/ RefreshHangs
       \/ \E c \in Factories : CloseReturns(c)
       \/ \E r \in Readers : ServeHealth(r)

Spec == Init /\ [][Next]_vars

\* Goroutines are scheduled, timers fire, factories and the Close of a
\* component that does not hang return. Nobody has to send a signal, use the
\* terminal or ask for the status; a check may be answered or time out.
Fairness ==
    /\ WF_vars(Alive /\ LogReturns /\ Initializing /\ UNCHANGED lifeVars)
    /\ WF_vars(Alive /\ WaiterStep /\ UNCHANGED lifeVars)
    /\ WF_vars(Alive /\ CacheExpires /\ UNCHANGED lifeVars)
    /\ \A c \in Factories :
          /\ WF_vars(Alive /\ ReportStep(c) /\ UNCHANGED lifeVars)
          /\ WF_vars(Alive /\ LogReturns /\ CheckEnds(c) /\ UNCHANGED lifeVars)
    /\ \A r \in Readers : WF_vars(Alive /\ StatusStep(r) /\ UNCHANGED lifeVars)
    /\ WF_vars(Alive /\ ServerStep)
    /\ WF_vars(Alive /\ MainStep)
    /\ \A c \in Factories \ HangsOnClose : WF_vars(Alive /\ CloseReturns(c))

FairSpec == Spec /\ Fairness
-----------------------------------------------------------------------------
(* The initialization completes although a component never answers its      *)
(* health check, unless the program ends first or the terminal is stuck.    *)
InitializationCompletes == launched ~> (waiter = "closed" \/ ~Alive \/ ~LogReturns)

(* A snapshot taken before a report and cached after its invalidation goes  *)
(* out of use: from some moment on every call returns all that is reported. *)
StaleStatusAgesOut ==
    <>[][\A r \in Readers : reader'[r].left < reader[r].left
                            => reader'[r].shown = status]_vars

(* Once Start has sealed the dependencies, a shutdown that was not cut short*)
(* has closed every component the factories built, none forgotten between   *)
(* the registry and the Dependencies.                                       *)
NothingLeftOpen ==
    how = "closed" => \A c \in built : closer[c] = "closed"

(* A signal that main has asked for ends the program although the Close of a*)
(* component may hang, unless the terminal is stuck.                        *)
SignalEndsProgram == signal ~> (~Alive \/ ~LogReturns)

(* Neither a component that hangs in its health check nor one that hangs in *)
(* its Close keeps the program from getting ready or from ending.           *)
StartupAndShutdownEnd == InitializationCompletes /\ SignalEndsProgram

(* "A hung component can never wedge WaitForInitialization" (comment of      *)
(* startAsyncInitialization).                                               *)
HungComponentNeverWedges == launched ~> (waiter = "closed" \/ ~Alive)
=============================================================================
