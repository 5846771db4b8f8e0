----------------------------- MODULE MCRequests -----------------------------
(***************************************************************************)
(* The parts of internal/middleware, internal/services and pkg/cache that   *)
(* serve requests, and what the operator is left with of them: the log file *)
(* and the screens of pkg/tui.  They share no state, so a behaviour         *)
(* exercises one of them, its scenario, while the others stay as they were  *)
(* initialized.                                                             *)
(***************************************************************************)
EXTENDS RateLimiter, MemoryCache, PagedLists, ServiceHandlers, CipherService,
        MiddlewareChain, FileLogger, TerminalUI, TLC

CONSTANTS Scenarios, t1, i1, i2

VARIABLE scenario

\* A row of the first tenant, and one that is not there yet.
MCHomeOf == (i1 :> t1) @@ (i2 :> Absent)

\* Requests differ in nothing but the order in which they come.
MCVisitsAlike == Permutations(Visits)

\* In the small window the pane is taller than the screen leaves it, as it is
\* in a terminal of less than nine lines.
MCPaneHeight   == ("small" :> 3) @@ ("large" :> 4)
MCScreenHeight == ("small" :> 5) @@ ("large" :> 8)

\* The parts that are not exercised start in one of their initial states.
Idle(name) == scenario # name

\* All tenants are connected until the connections are closed, and only their
\* handlers tell one database from several.
MCInit ==
    /\ scenario \in Scenarios
    /\ LimiterInit  /\ (Idle("limiter") => backend = "memory")
    /\ CacheInit
    /\ PagedInit    /\ (Idle("pages") => listing = "users" /\ perPage = 1)
    /\ HandlersInit /\ connected = Tenants
                    /\ (service \notin {"orders", "products"} => ~ shared)
                    /\ (Idle("handlers") => service = "tasks")
    /\ CipherInit   /\ encryptionKey = (CHOOSE k \in Keys : TRUE)
    /\ ChainInit    /\ (Idle("chain") => chain = <<>>)
    /\ FileLoggerInit /\ (Idle("logfile") => compress)
    /\ TerminalInit /\ (Idle("sidebar") => content = (CHOOSE n \in SidebarSizes : TRUE))
                    /\ (Idle("pane") => screen = "terminal")

othersOfLimiter  == <<cacheVars, pagedVars, handlerVars, cipherVars, chainVars, loggerVars, uiVars>>
othersOfCache    == <<limiterVars, pagedVars, handlerVars, cipherVars, chainVars, loggerVars, uiVars>>
othersOfPages    == <<limiterVars, cacheVars, handlerVars, cipherVars, chainVars, loggerVars, uiVars>>
othersOfHandlers == <<limiterVars, cacheVars, pagedVars, cipherVars, chainVars, loggerVars, uiVars>>
othersOfCipher   == <<limiterVars, cacheVars, pagedVars, handlerVars, chainVars, loggerVars, uiVars>>
othersOfChain    == <<limiterVars, cacheVars, pagedVars, handlerVars, cipherVars, loggerVars, uiVars>>
othersOfLogfile  == <<limiterVars, cacheVars, pagedVars, handlerVars, cipherVars, chainVars, uiVars>>
othersOfScreen   == <<limiterVars, cacheVars, pagedVars, handlerVars, cipherVars, chainVars, loggerVars>>

\* The sidebar beside a log that grows and is scrolled.
SidebarAndLogs == SidebarNext \/ ScrollKey \/ \E log \in Long : LogArrives(log)

MCNext ==
    /\ UNCHANGED scenario
    /\ \/ scenario = "limiter"  /\ LimiterNext  /\ UNCHANGED othersOfLimiter
       \/ scenario = "cache"    /\ CacheNext    /\ UNCHANGED othersOfCache
       \/ scenario = "pages"    /\ PagedNext    /\ UNCHANGED othersOfPages
       \/ scenario = "handlers" /\ HandlersNext /\ UNCHANGED othersOfHandlers
       \/ scenario = "cipher"   /\ CipherNext   /\ UNCHANGED othersOfCipher
       \/ scenario = "chain"    /\ ChainNext    /\ UNCHANGED othersOfChain
       \/ scenario = "logfile"  /\ FileLoggerNext /\ UNCHANGED othersOfLogfile
       \/ scenario = "pane"     /\ PaneNext     /\ UNCHANGED othersOfScreen
       \/ scenario = "sidebar"  /\ SidebarAndLogs /\ UNCHANGED othersOfScreen

requestVars == <<scenario, limiterVars, othersOfLimiter>>

MCSpec == MCInit /\ [][MCNext]_requestVars

\* Types of all parts.
RequestsTypeOK ==
    /\ LimiterTypeOK /\ CacheTypeOK /\ PagedTypeOK /\ HandlersTypeOK
    /\ CipherTypeOK /\ ChainTypeOK /\ FileLoggerTypeOK /\ TerminalTypeOK
=============================================================================
