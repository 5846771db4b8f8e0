------------------------- MODULE AppLifecycleProofs -------------------------
(***************************************************************************)
(* The initialization and the lifecycle are typed, ready means checked and  *)
(* an uncut shutdown leaves nothing open, for any components and services.  *)
(***************************************************************************)
EXTENDS AppLifecycle, TLAPS

\* Initialize has either not published the registry or finished with it.
LaunchInv ==
    /\ launched => registry = built /\ tried = Factories
    /\ ~launched => registry = {} /\ waiter = "wait"

\* The goroutines are those of the registry; im.status is how far they are.
CheckerInv ==
    /\ \A c \in Factories : checker[c] # "none" <=> c \in registry
    /\ \A c \in Factories : c \in status <=> checker[c] \in {"invalidate", "check", "done"}

\* A request that is under way has a call left.
ReaderInv == \A r \in Readers : reader[r].pc # "idle" => reader[r].left \in 1..2

InfraInv == /\ InfraTypeOK
            /\ LaunchInv
            /\ CheckerInv
            /\ ReaderInv
            /\ ReadyMeansChecked

Filling == {"infra", "assign", "fill"}

\* Start goes on once Initialize is done, and seals what it has copied.
ServerInv ==
    /\ server # "infra" => launched
    /\ server \notin Filling => deps = registry

\* Shutdown, unless it came too early, has a goroutine for each component.
ShutdownInv ==
    /\ main \in {"delay", "select", "shutdown"} => how = ""
    /\ main = "await" => how \in {"", "too early"}
    /\ main = "await" /\ how = "" =>
          server \notin Filling /\ \A c \in registry : closer[c] # "none"
    /\ how = "closed" =>
          server \notin Filling /\ \A c \in registry : closer[c] = "closed"

ProgramInv == ProgramTypeOK /\ ServerInv /\ ShutdownInv

LifecycleInv == InfraInv /\ ProgramInv
-----------------------------------------------------------------------------
(* Nothing is built and nobody asks yet.                                    *)
LEMMA InitInfraInv == InfraInit => InfraInv
<1> SUFFICES ASSUME InfraInit PROVE InfraInv
  OBVIOUS
<1>1. reader \in [Readers -> Reader]
  BY DEF InfraInit, Reader
<1>2. InfraTypeOK
  BY <1>1 DEF InfraInit, InfraTypeOK
<1>3. LaunchInv /\ CheckerInv /\ ReadyMeansChecked
  BY DEF InfraInit, LaunchInv, CheckerInv, ReadyMeansChecked, ready
<1>4. ReaderInv
  BY DEF InfraInit, ReaderInv
<1> QED
  BY <1>2, <1>3, <1>4 DEF InfraInv

(* Steps of the readers and of the cache touch nothing else.                *)
LEMMA ReaderKeeps ==
    ASSUME InfraInv, UNCHANGED <<initVars, checkVars>>,
           cached' \subseteq Factories, fresh' \in BOOLEAN,
           reader' \in [Readers -> Reader], ReaderInv'
    PROVE  InfraInv'
BY DEF InfraInv, InfraTypeOK, LaunchInv, CheckerInv, ReadyMeansChecked, ready,
       initVars, checkVars

(* A GetStatus call that returns leaves a request with a call left, or done. *)
LEMMA ReturnKeeps ==
    ASSUME InfraInv, NEW r \in Readers, reader[r].pc # "idle",
           NEW result \in SUBSET Factories, Return(r, result)
    PROVE  reader' \in [Readers -> Reader] /\ ReaderInv'
<1>1. reader \in [Readers -> Reader] /\ reader[r].left \in 1..2
  BY DEF InfraInv, InfraTypeOK, ReaderInv
<1>2. CASE reader[r].left = 2
  BY <1>1, <1>2 DEF Return, Reader, ReaderInv, InfraInv
<1>3. CASE reader[r].left = 1
  BY <1>1, <1>3 DEF Return, Reader, ReaderInv, InfraInv
<1> QED
  BY <1>1, <1>2, <1>3

(* Asking for the status preserves the invariant.                           *)
LEMMA StatusKeeps ==
    ASSUME InfraInv, NEW r \in Readers, StatusStep(r) \/ HealthRequest(r)
    PROVE  InfraInv'
<1>1. /\ reader \in [Readers -> Reader]
      /\ cached \subseteq Factories /\ fresh \in BOOLEAN /\ status \subseteq Factories
      /\ reader[r].copy \subseteq Factories
  BY DEF InfraInv, InfraTypeOK, Reader
<1>2. CASE StatusHit(r)
  <2>1. reader' \in [Readers -> Reader] /\ ReaderInv'
    BY <1>1, <1>2, ReturnKeeps DEF StatusHit
  <2> QED
    BY <1>1, <1>2, <2>1, ReaderKeeps DEF StatusHit, cacheVars
<1>3. CASE StatusMiss(r)
  <2>1. reader' \in [Readers -> Reader] /\ ReaderInv'
    BY <1>1, <1>3 DEF StatusMiss, Reader, InfraInv, ReaderInv
  <2> QED
    BY <1>1, <1>3, <2>1, ReaderKeeps DEF StatusMiss, cacheVars
<1>4. CASE CopyStatus(r)
  <2>1. reader' \in [Readers -> Reader] /\ ReaderInv'
    BY <1>1, <1>4, ZenonT(60) DEF CopyStatus, Reader, InfraInv, ReaderInv
  <2> QED
    BY <1>1, <1>4, <2>1, ReaderKeeps DEF CopyStatus, cacheVars
<1>5. CASE StoreStatus(r)
  <2>1. reader' \in [Readers -> Reader] /\ ReaderInv'
    BY <1>1, <1>5, ReturnKeeps DEF StoreStatus
  <2> QED
    BY <1>1, <1>5, <2>1, ReaderKeeps DEF StoreStatus
<1>6. CASE HealthRequest(r)
  <2>1. ready \in BOOLEAN /\ 2 \in 0..2 /\ {} \in SUBSET Factories
    BY DEF ready
  <2>2. [pc |-> "call", left |-> 2, ready |-> ready, copy |-> {}, shown |-> {}] \in Reader
    BY <2>1, Zenon DEF Reader
  <2>3. reader' \in [Readers -> Reader] /\ ReaderInv'
    BY <1>1, <1>6, <2>2 DEF HealthRequest, InfraInv, ReaderInv
  <2> QED
    BY <1>1, <1>6, <2>3, ReaderKeeps DEF HealthRequest, cacheVars
<1> QED
  BY <1>2, <1>3, <1>4, <1>5, <1>6 DEF StatusStep

(* The steps of a component's goroutine preserve the invariant.             *)
LEMMA CheckerKeeps ==
    ASSUME InfraInv, NEW c \in Factories, ReportStep(c) \/ CheckEnds(c)
    PROVE  InfraInv'
<1> USE DEF InfraInv, InfraTypeOK, LaunchInv, CheckerInv, ReaderInv,
            ReadyMeansChecked, ready, initVars, cacheVars, Advance
<1>1. CASE UpdateStatus(c)
  BY <1>1 DEF UpdateStatus
<1>2. CASE InvalidateStatusCache(c)
  BY <1>2 DEF InvalidateStatusCache
<1>3. CASE HealthCheckAnswers(c)
  BY <1>3 DEF HealthCheckAnswers
<1>4. CASE HealthCheckTimesOut(c)
  BY <1>4 DEF HealthCheckTimesOut
<1> QED
  BY <1>1, <1>2, <1>3, <1>4 DEF ReportStep, CheckEnds

(* Every step of the initialization preserves the invariant.                *)
LEMMA InfraKeeps == InfraInv /\ InfraStep => InfraInv'
<1> SUFFICES ASSUME InfraInv, InfraStep PROVE InfraInv'
  OBVIOUS
<1>1. ASSUME NEW c \in Factories, RunFactory(c) PROVE InfraInv'
  BY <1>1 DEF RunFactory, InfraInv, InfraTypeOK, LaunchInv, CheckerInv, ReaderInv,
              ReadyMeansChecked, ready, checkVars, cacheVars
<1>2. CASE Launch
  BY <1>2 DEF Launch, InfraInv, InfraTypeOK, LaunchInv, CheckerInv, ReaderInv,
              ReadyMeansChecked, ready, cacheVars
<1>3. CASE WaiterStep
  BY <1>3 DEF WaiterStep, MarkReady, CloseDone, InfraInv, InfraTypeOK, LaunchInv,
              CheckerInv, ReaderInv, ReadyMeansChecked, ready, initVars, cacheVars
<1>4. CASE CacheExpires
  BY <1>4 DEF CacheExpires, InfraInv, InfraTypeOK, LaunchInv, CheckerInv, ReaderInv,
              ReadyMeansChecked, ready, initVars, checkVars
<1>5. ASSUME NEW c \in Factories, ReportStep(c) \/ CheckEnds(c) PROVE InfraInv'
  BY <1>5, CheckerKeeps
<1>6. ASSUME NEW r \in Readers, StatusStep(r) PROVE InfraInv'
  BY <1>6, StatusKeeps
<1> QED
  BY <1>1, <1>2, <1>3, <1>4, <1>5, <1>6 DEF InfraStep, LoggingStep, SilentStep, Initializing
-----------------------------------------------------------------------------
(* The program starts with nothing set and nothing to close.                *)
LEMMA InitProgramInv == Init => ProgramInv
BY DEF Init, ProgramInv, ProgramTypeOK, ServerInv, ShutdownInv, Filling, InfraInit

(* The registry changes only when Initialize publishes it.                  *)
LEMMA RegistryGrows ==
    ASSUME InfraInv, InfraStep
    PROVE  \/ ~launched /\ registry = {}
           \/ launched' = launched /\ registry' = registry
BY DEF InfraInv, LaunchInv, InfraStep, LoggingStep, SilentStep, Initializing, RunFactory,
       Launch, WaiterStep, MarkReady, CloseDone, CacheExpires, ReportStep, CheckEnds, UpdateStatus,
       InvalidateStatusCache, HealthCheckAnswers, HealthCheckTimesOut, StatusStep,
       StatusHit, StatusMiss, CopyStatus, StoreStatus, initVars

(* Before the registry is published nothing of the program depends on it.   *)
LEMMA InfraStepKeeps ==
    ASSUME InfraInv, ProgramInv, InfraStep, UNCHANGED lifeVars
    PROVE  ProgramInv'
<1>1. UNCHANGED mainVars /\ UNCHANGED serverVars /\ closer' = closer
  BY DEF lifeVars
<1>2. deps' \subseteq registry' /\ ServerInv' /\ ShutdownInv'
  <2>1. CASE ~launched /\ registry = {}
    BY <1>1, <2>1 DEF ProgramInv, ProgramTypeOK, ServerInv, ShutdownInv, Filling,
       mainVars, serverVars
  <2>2. CASE launched' = launched /\ registry' = registry
    BY <1>1, <2>2 DEF ProgramInv, ProgramTypeOK, ServerInv, ShutdownInv, Filling,
       mainVars, serverVars
  <2> QED
    BY <2>1, <2>2, RegistryGrows
<1>3. ProgramTypeOK'
  <2>1. /\ tui' = tui /\ ui' = ui /\ main' = main /\ how' = how /\ signal' = signal
        /\ quit' = quit /\ server' = server /\ deps' = deps /\ service' = service
        /\ closer' = closer
    BY <1>1 DEF mainVars, serverVars
  <2> QED
    BY <1>2, <2>1, ZenonT(90) DEF ProgramInv, ProgramTypeOK
<1> QED
  BY <1>2, <1>3 DEF ProgramInv

(* Server.Start preserves the invariant of the program.                     *)
LEMMA ServerKeeps ==
    ASSUME ProgramInv, ServerStep \/ ServerError
    PROVE  ProgramInv' /\ UNCHANGED infraVars
<1> USE DEF ProgramInv, ProgramTypeOK, ServerInv, ShutdownInv, Filling, infraVars,
            mainVars
<1>1. CASE AssignDependencies
  BY <1>1, ZenonT(60) DEF AssignDependencies
<1>2. ASSUME NEW c \in Factories, SetDependency(c)
      PROVE  ProgramInv' /\ UNCHANGED infraVars
  BY <1>2, ZenonT(60) DEF SetDependency
<1>3. CASE Seal
  BY <1>3, ZenonT(60) DEF Seal
<1>4. CASE DiscoverServices
  BY <1>4, ZenonT(60) DEF DiscoverServices
<1>5. CASE Boot
  BY <1>5, ZenonT(60) DEF Boot
<1>6. CASE Listen
  BY <1>6, ZenonT(60) DEF Listen
<1>7. CASE ServerError
  <2>1. /\ tui' = tui /\ ui' = ui /\ main' = main /\ how' = how /\ signal' = signal
        /\ quit' = quit /\ server' = "failed" /\ deps' = deps /\ service' = service
        /\ closer' = closer /\ registry' = registry /\ launched' = launched
        /\ server \in {"booted", "listening"}
    BY <1>7 DEF ServerError
  <2>2. ProgramTypeOK'
    BY <2>1, ZenonT(30)
  <2>3. ServerInv' /\ ShutdownInv'
    BY <2>1
  <2> QED
    BY <1>7, <2>2, <2>3 DEF ServerError
<1> QED
  BY <1>1, <1>2, <1>3, <1>4, <1>5, <1>6, <1>7 DEF ServerStep

(* So does the end of a component's Close.                                  *)
LEMMA CloseKeeps ==
    ASSUME ProgramInv, registry \subseteq Factories,
           NEW c \in Factories, CloseReturns(c)
    PROVE  ProgramInv' /\ UNCHANGED infraVars
<1>1. /\ tui' = tui /\ ui' = ui /\ main' = main /\ how' = how /\ signal' = signal
      /\ quit' = quit /\ server' = server /\ deps' = deps /\ service' = service
      /\ registry' = registry /\ launched' = launched
  BY DEF CloseReturns, mainVars, serverVars, infraVars
<1>2. /\ closer' \in [Factories -> {"none", "closing", "closed"}]
      /\ closer \in [Factories -> {"none", "closing", "closed"}]
      /\ closer' = [closer EXCEPT ![c] = "closed"]
  BY DEF CloseReturns, ProgramInv, ProgramTypeOK
<1>3. ProgramTypeOK'
  BY <1>1, <1>2, ZenonT(90) DEF ProgramInv, ProgramTypeOK
<1>4. ServerInv'
  BY <1>1 DEF ProgramInv, ServerInv, Filling
<1>5. ShutdownInv'
  <2>1. \A d \in Factories : d # c => closer'[d] = closer[d]
    BY <1>2
  <2>2. closer'[c] = "closed"
    BY <1>2
  <2> QED
    BY <1>1, <2>1, <2>2 DEF ProgramInv, ShutdownInv, Filling
<1> QED
  BY <1>3, <1>4, <1>5 DEF ProgramInv, CloseReturns

(* So do main, the signals, the terminal and the closers.                   *)
LEMMA MainKeeps ==
    ASSUME ProgramInv, registry \subseteq Factories,
           \/ MainStep \/ SignalArrives \/ ConfirmExit \/ RefreshHangs
           \/ \E c \in Factories : CloseReturns(c)
    PROVE  ProgramInv' /\ UNCHANGED infraVars
<1> USE DEF ProgramInv, ProgramTypeOK, ServerInv, ShutdownInv, Filling, infraVars,
            serverVars
<1>1. CASE EnterSelect
  BY <1>1 DEF EnterSelect
<1>2. CASE TakeSignal
  BY <1>2 DEF TakeSignal
<1>3. CASE TakeServerError
  BY <1>3 DEF TakeServerError
<1>4. CASE Shutdown
  BY <1>4 DEF Shutdown
<1>5. CASE AllClosed
  BY <1>5 DEF AllClosed, Leave
<1>6. CASE ShutdownTimesOut
  BY <1>6 DEF ShutdownTimesOut, Leave
<1>7. CASE Exit
  <2>1. /\ tui' = tui /\ ui' = ui /\ main' = "exited" /\ how' = how /\ signal' = signal
        /\ quit' = quit /\ server' = server /\ deps' = deps /\ service' = service
        /\ closer' = closer /\ registry' = registry /\ launched' = launched
        /\ main = "leaving"
    BY <1>7 DEF Exit
  <2>2. ProgramTypeOK'
    BY <2>1, ZenonT(30)
  <2>3. ServerInv' /\ ShutdownInv'
    BY <2>1
  <2> QED
    BY <1>7, <2>2, <2>3 DEF Exit
<1>8. CASE SignalArrives
  BY <1>8 DEF SignalArrives
<1>9. CASE ConfirmExit
  BY <1>9, ZenonT(60) DEF ConfirmExit
<1>10. ASSUME NEW c \in Factories, CloseReturns(c)
       PROVE  ProgramInv' /\ UNCHANGED infraVars
  BY <1>10, CloseKeeps
<1>11. CASE RefreshHangs
  <2>1. /\ tui' = tui /\ ui' = "stuck" /\ main' = main /\ how' = how /\ signal' = signal
        /\ quit' = quit /\ server' = server /\ deps' = deps /\ service' = service
        /\ closer' = closer /\ registry' = registry /\ launched' = launched
    BY <1>11 DEF RefreshHangs
  <2>2. ProgramTypeOK'
    BY <2>1, ZenonT(30)
  <2>3. ServerInv' /\ ShutdownInv'
    BY <2>1
  <2> QED
    BY <1>11, <2>2, <2>3 DEF RefreshHangs
<1> QED
  BY <1>1, <1>2, <1>3, <1>4, <1>5, <1>6, <1>7, <1>8, <1>9, <1>10, <1>11 DEF MainStep

(* A request for the health report touches its reader only.                 *)
LEMMA ServeKeeps ==
    ASSUME LifecycleInv, NEW r \in Readers, ServeHealth(r)
    PROVE  LifecycleInv'
<1>1. InfraInv'
  BY StatusKeeps DEF ServeHealth, LifecycleInv
<1>2. ProgramInv'
  BY ZenonT(60) DEF ServeHealth, HealthRequest, initVars, LifecycleInv, ProgramInv,
         ProgramTypeOK, ServerInv, ShutdownInv, Filling, lifeVars, mainVars, serverVars
<1> QED
  BY <1>1, <1>2 DEF LifecycleInv

(* What leaves the initialization alone preserves its invariant.            *)
LEMMA InfraUntouched ==
    ASSUME InfraInv, UNCHANGED infraVars
    PROVE  InfraInv'
BY DEF InfraInv, InfraTypeOK, LaunchInv, CheckerInv, ReaderInv, ReadyMeansChecked,
       ready, infraVars

(* The invariant is inductive.                                              *)
LEMMA NextLifecycleInv == LifecycleInv /\ [Next]_vars => LifecycleInv'
<1> SUFFICES ASSUME LifecycleInv, [Next]_vars PROVE LifecycleInv'
  OBVIOUS
<1>1. InfraInv /\ ProgramInv /\ registry \subseteq Factories
  BY DEF LifecycleInv, InfraInv, InfraTypeOK
<1>2. CASE (SilentStep \/ (LogReturns /\ LoggingStep)) /\ UNCHANGED lifeVars
  <2>1. InfraStep
    BY <1>2 DEF InfraStep
  <2> QED
    BY <1>1, <1>2, <2>1, InfraKeeps, InfraStepKeeps DEF LifecycleInv
<1>3. CASE ServerStep \/ ServerError
  BY <1>1, <1>3, ServerKeeps, InfraUntouched DEF LifecycleInv
<1>4. CASE \/ MainStep \/ SignalArrives \/ ConfirmExit \/ RefreshHangs
           \/ \E c \in Factories : CloseReturns(c)
  BY <1>1, <1>4, MainKeeps, InfraUntouched DEF LifecycleInv
<1>5. ASSUME NEW r \in Readers, ServeHealth(r) PROVE LifecycleInv'
  BY <1>5, ServeKeeps
<1>6. CASE UNCHANGED vars
  <2>1. InfraInv'
    BY <1>1, <1>6, InfraUntouched DEF vars
  <2>2. ProgramTypeOK'
    <3>1. /\ tui' = tui /\ ui' = ui /\ main' = main /\ how' = how /\ signal' = signal
          /\ quit' = quit /\ server' = server /\ deps' = deps /\ service' = service
          /\ closer' = closer /\ registry' = registry
      BY <1>6 DEF vars, infraVars, lifeVars, mainVars, serverVars
    <3> QED
      BY <1>1, <3>1, ZenonT(90) DEF ProgramInv, ProgramTypeOK
  <2>3. ServerInv' /\ ShutdownInv'
    BY <1>1, <1>6 DEF ProgramInv, ServerInv, ShutdownInv, Filling, vars, infraVars,
       lifeVars, mainVars, serverVars
  <2> QED
    BY <2>1, <2>2, <2>3 DEF LifecycleInv, ProgramInv
<1> QED
  BY <1>2, <1>3, <1>4, <1>5, <1>6 DEF Next
-----------------------------------------------------------------------------
(* The inductive invariant holds in every reachable state.                  *)
THEOREM LifecycleInvariance == Spec => []LifecycleInv
<1>1. Init => LifecycleInv
  BY InitInfraInv, InitProgramInv DEF LifecycleInv, Init
<1>2. LifecycleInv /\ [Next]_vars => LifecycleInv'
  BY NextLifecycleInv
<1> QED
  BY <1>1, <1>2, PTL DEF Spec

(* Startup, main and the status cache stay within their types.              *)
THEOREM LifecycleTypeCorrect == Spec => []LifecycleTypeOK
<1>1. LifecycleInv => LifecycleTypeOK
  BY DEF LifecycleInv, LifecycleTypeOK, InfraInv, ProgramInv
<1> QED
  BY <1>1, LifecycleInvariance, PTL

(* IsReady never precedes the end of a component's health check, whatever    *)
(* components there are and whichever of them fail or hang.                  *)
THEOREM ReadyIsChecked == Spec => []ReadyMeansChecked
<1>1. LifecycleInv => ReadyMeansChecked
  BY DEF LifecycleInv, InfraInv
<1> QED
  BY <1>1, LifecycleInvariance, PTL

(* A shutdown that began after the seal and was not cut short has closed     *)
(* every component that was built.                                           *)
THEOREM ShutdownClosesAll == Spec => []NothingLeftOpen
<1>1. LifecycleInv => NothingLeftOpen
  BY DEF LifecycleInv, InfraInv, LaunchInv, ProgramInv, ServerInv, ShutdownInv,
         Filling, NothingLeftOpen
<1> QED
  BY <1>1, LifecycleInvariance, PTL
=============================================================================
