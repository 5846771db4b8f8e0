----------------------------- MODULE InfraInit -----------------------------
(***************************************************************************)
(* The component registry and infrastructure.InfraInitManager: the factories*)
(* run one after another, then each component gets a goroutine that reports *)
(* it initialized and checks its health for at most ten seconds; when all of*)
(* them are done the manager is ready.  GetStatus serves a snapshot of the  *)
(* reports from a cache with a time to live; a report is one entry of       *)
(* im.status and is never taken back, so a set of names stands for the map. *)
(***************************************************************************)
EXTENDS Naturals

CONSTANTS Factories,   \* the names under which factories are registered
          MayFail,     \* those that may return an error or no component
          NeverAnswer, \* those whose component's GetStatus may hang
          Readers      \* goroutines that ask for the status

ASSUME InfraAssumption == MayFail \subseteq Factories /\ NeverAnswer \subseteq Factories

VARIABLES tried,    \* the factories Initialize has called
          built,    \* those that returned a component
          registry, \* r.components, the same set once Initialize has returned
          launched, \* startAsyncInitialization has started the goroutines
          checker,  \* of each component: where its goroutine is
          status,   \* the names in im.status
          waiter,   \* the goroutine that waits for them
          cached,   \* im.cachedStatus
          fresh,    \* now is before im.cacheExpiry
          reader    \* of each reader: where it is and what it has seen

infraVars == <<tried, built, registry, launched, checker, status, waiter,
               cached, fresh, reader>>
initVars == <<tried, built, registry, launched>>
checkVars == <<checker, status, waiter>>
cacheVars == <<cached, fresh>>

ready == waiter # "wait"

\* left: how many GetStatus calls its request still makes.
Reader == [pc : {"idle", "call", "missed", "copied"}, left : 0..2, ready : BOOLEAN,
           copy : SUBSET Factories, shown : SUBSET Factories]

InfraTypeOK ==
    /\ tried \subseteq Factories /\ built \subseteq tried /\ registry \subseteq built
    /\ launched \in BOOLEAN
    /\ checker \in [Factories -> {"none", "update", "invalidate", "check", "done"}]
    /\ status \subseteq registry
    /\ waiter \in {"wait", "ready", "closed"}
    /\ cached \subseteq Factories /\ fresh \in BOOLEAN
    /\ reader \in [Readers -> Reader]

InfraInit ==
    /\ tried = {} /\ built = {} /\ registry = {} /\ launched = FALSE
    /\ checker = [c \in Factories |-> "none"] /\ status = {} /\ waiter = "wait"
    /\ cached = {} /\ fresh = FALSE
    /\ reader = [r \in Readers |-> [pc |-> "idle", left |-> 0, ready |-> FALSE,
                                    copy |-> {}, shown |-> {}]]
-----------------------------------------------------------------------------
\* Initialize: a factory that fails is logged and passed over.
RunFactory(c) ==
    /\ c \notin tried
    /\ tried' = tried \cup {c}
    /\ \/ built' = built \cup {c}
       \/ c \in MayFail /\ built' = built
    /\ UNCHANGED <<registry, launched, checkVars, cacheVars, reader>>

\* The end of Initialize, and the goroutines: wg.Add(len(components)) first.
Launch ==
    /\ tried = Factories /\ ~launched
    /\ registry' = built
    /\ launched' = TRUE
    /\ checker' = [c \in Factories |-> IF c \in built THEN "update" ELSE "none"]
    /\ UNCHANGED <<tried, built, status, waiter, cacheVars, reader>>

Advance(c, from, to) == checker[c] = from /\ checker' = [checker EXCEPT ![c] = to]

\* updateStatus writes under im.mu ...
UpdateStatus(c) ==
    /\ Advance(c, "update", "invalidate")
    /\ status' = status \cup {c}
    /\ UNCHANGED <<initVars, waiter, cacheVars, reader>>

\* ... and invalidates the cache under cacheMu.
InvalidateStatusCache(c) ==
    /\ Advance(c, "invalidate", "check")
    /\ fresh' = FALSE
    /\ UNCHANGED <<initVars, status, waiter, cached, reader>>

HealthCheckAnswers(c) ==
    /\ c \notin NeverAnswer
    /\ Advance(c, "check", "done")
    /\ UNCHANGED <<initVars, status, waiter, cacheVars, reader>>

HealthCheckTimesOut(c) ==
    /\ Advance(c, "check", "done")
    /\ UNCHANGED <<initVars, status, waiter, cacheVars, reader>>

\* Bug: each goroutine calls wg.Add(1) itself.
MarkReadyWithLateAdd ==
    /\ launched /\ waiter = "wait"
    /\ \A c \in registry : checker[c] \in {"update", "done"}
    /\ waiter' = "ready"
    /\ UNCHANGED <<initVars, checker, status, cacheVars, reader>>

\* wg.Wait returns: ready.Store(true), then close(doneChan).
MarkReady ==
    /\ launched /\ waiter = "wait"
    /\ \A c \in registry : checker[c] = "done"
    /\ waiter' = "ready"
    /\ UNCHANGED <<initVars, checker, status, cacheVars, reader>>

CloseDone ==
    /\ waiter = "ready"
    /\ waiter' = "closed"
    /\ UNCHANGED <<initVars, checker, status, cacheVars, reader>>

\* A request for the health report reads ready, then calls GetStatus itself
\* and once more through GetInitializationProgress.
HealthRequest(r) ==
    /\ reader[r].pc = "idle"
    /\ reader' = [reader EXCEPT ![r] = [pc |-> "call", left |-> 2, ready |-> ready,
                                        copy |-> {}, shown |-> {}]]
    /\ UNCHANGED <<initVars, checkVars, cacheVars>>

Return(r, result) ==
    reader' = [reader EXCEPT ![r].pc = IF reader[r].left = 2 THEN "call" ELSE "idle",
                             ![r].left = @ - 1, ![r].shown = result, ![r].copy = {}]

\* Bug: the expiry is not looked at once something is cached.
StatusHitWithoutExpiry(r) ==
    /\ reader[r].pc = "call" /\ cached # {}
    /\ Return(r, cached)
    /\ UNCHANGED <<initVars, checkVars, cacheVars>>

\* GetStatus, under cacheMu: serve the cached snapshot or give up the lock.
StatusHit(r) ==
    /\ reader[r].pc = "call" /\ fresh
    /\ Return(r, cached)
    /\ UNCHANGED <<initVars, checkVars, cacheVars>>

StatusMiss(r) ==
    /\ reader[r].pc = "call" /\ ~fresh
    /\ reader' = [reader EXCEPT ![r].pc = "missed"]
    /\ UNCHANGED <<initVars, checkVars, cacheVars>>

\* The copy under im.mu, then the store under cacheMu, whatever came between.
CopyStatus(r) ==
    /\ reader[r].pc = "missed"
    /\ reader' = [reader EXCEPT ![r].pc = "copied", ![r].copy = status]
    /\ UNCHANGED <<initVars, checkVars, cacheVars>>

StoreStatus(r) ==
    /\ reader[r].pc = "copied"
    /\ cached' = reader[r].copy /\ fresh' = TRUE
    /\ Return(r, reader[r].copy)
    /\ UNCHANGED <<initVars, checkVars>>

\* statusCacheTTL goes by.
CacheExpires ==
    /\ fresh /\ fresh' = FALSE
    /\ UNCHANGED <<initVars, checkVars, cached, reader>>

Initializing == (\E c \in Factories : RunFactory(c)) \/ Launch
ReportStep(c) == UpdateStatus(c) \/ InvalidateStatusCache(c)
CheckEnds(c) == HealthCheckAnswers(c) \/ HealthCheckTimesOut(c)
WaiterStep == MarkReady \/ CloseDone
StatusStep(r) == StatusHit(r) \/ StatusMiss(r) \/ CopyStatus(r) \/ StoreStatus(r)

\* What logs as it goes, and what does not.
LoggingStep == Initializing \/ \E c \in Factories : CheckEnds(c)
SilentStep == \/ WaiterStep \/ CacheExpires
              \/ \E c \in Factories : ReportStep(c)
              \/ \E r \in Readers : StatusStep(r)

InfraStep == LoggingStep \/ SilentStep
-----------------------------------------------------------------------------
(* IsReady is not true before every component has been reported and its     *)
(* health check has ended: wg counts all of them from the start.            *)
ReadyMeansChecked ==
    ready => status = registry /\ \A c \in registry : checker[c] = "done"
=============================================================================
