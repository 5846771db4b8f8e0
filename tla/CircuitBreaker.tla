--------------------------- MODULE CircuitBreaker ---------------------------
(***************************************************************************)
(* One resilience.CircuitBreaker shared by a set of goroutines.            *)
(*                                                                         *)
(* A caller runs Execute (or ExecuteWithFallback): AllowRequest under cb.mu,*)
(* the protected function outside it, then RecordSuccess or RecordFailure  *)
(* under cb.mu, then the OnStateChange callback outside it.  The protected *)
(* function of one caller overlaps everything the other callers do, so a   *)
(* result may arrive in another state than the one it was admitted in.     *)
(*                                                                         *)
(* A refused request returns an error and changes nothing: it is a stutter.*)
(* The successes counter is left out (no decision reads it), and failures  *)
(* saturates at the threshold, the only value it is ever compared with.    *)
(***************************************************************************)
EXTENDS Integers, FiniteSets

CONSTANTS Callers,              \* goroutines that share the breaker
          MaxFailures,          \* CircuitBreakerConfig, as the user wrote it
          ResetTimeout,
          HalfOpenMaxRequests,
          Free                  \* value of mu when nobody holds it

ASSUME ConfigAssumption == /\ MaxFailures \in Int
                           /\ ResetTimeout \in Int
                           /\ HalfOpenMaxRequests \in Int
ASSUME CallersAssumption == IsFiniteSet(Callers) /\ Free \notin Callers

\* NewCircuitBreaker replaces the values that make no sense.
Threshold == IF MaxFailures <= 0 THEN 1 ELSE MaxFailures
Allowance == IF HalfOpenMaxRequests <= 0 THEN 1 ELSE HalfOpenMaxRequests
Timeout   == IF ResetTimeout <= 0 THEN 30 ELSE ResetTimeout

Closed   == "closed"
HalfOpen == "half-open"
Open     == "open"
States   == {Closed, HalfOpen, Open}

VARIABLES state,          \* cb.state
          failures,       \* cb.failures, saturating at Threshold
          halfOpenCount,  \* cb.halfOpenCount
          age,            \* time.Since(cb.lastFailureTime), saturating
          mu,             \* the holder of cb.mu, or Free
          pc,             \* where each caller is in Execute
          changed,        \* the caller's Record... call changed the state
          probes,         \* history: unanswered probes of this half-open episode
          lost            \* history: a probe of this episode ended unanswered

breaker == <<state, failures, halfOpenCount, age>>
history == <<probes, lost>>
vars    == <<breaker, mu, pc, changed, history>>

TypeOK ==
    /\ state \in States
    /\ failures \in 0..Threshold
    /\ halfOpenCount \in 0..Allowance
    /\ age \in 0..(Timeout + 1)
    /\ mu \in Callers \cup {Free}
    /\ pc \in [Callers -> {"idle", "running", "recorded", "callback"}]
    /\ changed \in [Callers -> BOOLEAN]
    /\ probes \subseteq Callers
    /\ lost \in BOOLEAN

Init ==
    /\ state = Closed
    /\ failures = 0
    /\ halfOpenCount = 0
    /\ age = Timeout + 1        \* the zero time is long ago
    /\ mu = Free
    /\ pc = [c \in Callers |-> "idle"]
    /\ changed = [c \in Callers |-> FALSE]
    /\ probes = {}
    /\ lost = FALSE
-----------------------------------------------------------------------------
Expired == age > Timeout

\* An operator marked "Bug" is a variant of the one after it with a plausible
\* mistake: no action uses it, it is what the properties must catch.

\* The history of a half-open episode begins and ends with the episode.
EpisodeEnds(to) ==
    IF state = to THEN UNCHANGED history ELSE probes' = {} /\ lost' = FALSE

EnterRunning(c) == pc' = [pc EXCEPT ![c] = "running"] /\ UNCHANGED <<changed, mu>>

\* AllowRequest, the three ways it returns true.
AllowWhileClosed(c) ==
    /\ mu = Free /\ pc[c] = "idle" /\ state = Closed
    /\ EnterRunning(c)
    /\ UNCHANGED <<breaker, history>>

AllowFirstProbe(c) ==
    /\ mu = Free /\ pc[c] = "idle" /\ state = Open /\ Expired
    /\ state' = HalfOpen
    /\ halfOpenCount' = 1
    /\ probes' = {c}
    /\ lost' = FALSE
    /\ EnterRunning(c)
    /\ UNCHANGED <<failures, age>>

AllowNextProbe(c) ==
    /\ mu = Free /\ pc[c] = "idle" /\ state = HalfOpen
    /\ halfOpenCount < Allowance
    /\ halfOpenCount' = halfOpenCount + 1
    /\ probes' = probes \cup {c}
    /\ EnterRunning(c)
    /\ UNCHANGED <<state, failures, age, lost>>

AllowRequest(c) == AllowWhileClosed(c) \/ AllowFirstProbe(c) \/ AllowNextProbe(c)

\* Record... ends with cb.mu still held; changed remembers what to notify.
LockAndRecord(c, newState) ==
    /\ mu = Free /\ pc[c] = "running"
    /\ mu' = c
    /\ pc' = [pc EXCEPT ![c] = "recorded"]
    /\ changed' = [changed EXCEPT ![c] = state # newState]
    /\ state' = newState
    /\ IF state = newState
         THEN probes' = probes \ {c} /\ UNCHANGED lost
         ELSE EpisodeEnds(newState)

RecordSuccess(c) ==
    LET closes == state = HalfOpen /\ halfOpenCount >= Allowance
    IN  /\ LockAndRecord(c, IF closes THEN Closed ELSE state)
        /\ failures' = IF closes \/ state = Closed THEN 0 ELSE failures
        /\ halfOpenCount' = IF closes THEN 0 ELSE halfOpenCount
        /\ UNCHANGED age

OneMoreFailure == IF failures < Threshold THEN failures + 1 ELSE Threshold

\* Bug: reopening keeps the count of the episode that failed.
RecordFailureKeepingCount(c) ==
    LET opens == \/ state = HalfOpen
                 \/ state = Closed /\ OneMoreFailure >= Threshold
    IN  /\ LockAndRecord(c, IF opens THEN Open ELSE state)
        /\ failures' = OneMoreFailure
        /\ age' = 0
        /\ UNCHANGED halfOpenCount

\* Bug: a failed probe does not reopen the breaker.
RecordFailureWhenClosed(c) ==
    LET opens == state = Closed /\ OneMoreFailure >= Threshold
    IN  /\ LockAndRecord(c, IF opens THEN Open ELSE state)
        /\ failures' = OneMoreFailure
        /\ halfOpenCount' = IF opens THEN 0 ELSE halfOpenCount
        /\ age' = 0

RecordFailure(c) ==
    LET opens == \/ state = HalfOpen
                 \/ state = Closed /\ OneMoreFailure >= Threshold
    IN  /\ LockAndRecord(c, IF opens THEN Open ELSE state)
        /\ failures' = OneMoreFailure
        /\ halfOpenCount' = IF opens THEN 0 ELSE halfOpenCount
        /\ age' = 0

\* cb.mu.Unlock comes before notify: the callback runs without the lock.
Unlock(c) ==
    /\ mu = c /\ pc[c] = "recorded"
    /\ mu' = Free
    /\ pc' = [pc EXCEPT ![c] = IF changed[c] THEN "callback" ELSE "idle"]
    /\ UNCHANGED <<breaker, changed, history>>

\* OnStateChange re-enters the breaker (GetState) and returns.
Callback(c) ==
    /\ pc[c] = "callback" /\ mu = Free
    /\ pc' = [pc EXCEPT ![c] = "idle"]
    /\ UNCHANGED <<breaker, mu, changed, history>>

\* The protected function panics: Execute has no recover, so the panic unwinds
\* to the caller's own handler and no result is ever recorded.
Panic(c) ==
    /\ pc[c] = "running"
    /\ pc' = [pc EXCEPT ![c] = "idle"]
    /\ probes' = probes \ {c}
    /\ lost' = (lost \/ c \in probes)
    /\ UNCHANGED <<breaker, mu, changed>>

\* Reset, by an operator or through CircuitBreakerManager.ResetAll.
Reset ==
    /\ mu = Free
    /\ state' = Closed
    /\ failures' = 0
    /\ halfOpenCount' = 0
    /\ EpisodeEnds(Closed)
    /\ UNCHANGED <<age, mu, pc, changed>>

Tick ==
    /\ age <= Timeout
    /\ age' = age + 1
    /\ UNCHANGED <<state, failures, halfOpenCount, mu, pc, changed, history>>

CallerStep(c) ==
    \/ AllowRequest(c)
    \/ RecordSuccess(c)
    \/ RecordFailure(c)
    \/ Unlock(c)
    \/ Callback(c)
    \/ Panic(c)

Next == Reset \/ Tick \/ \E c \in Callers : CallerStep(c)

Spec == Init /\ [][Next]_vars

\* Time passes, requests keep arriving, the protected function returns (or
\* panics), and sync.Mutex does not starve a waiter (hence strong fairness of
\* what needs cb.mu).  Nothing obliges an operator to Reset.
Fairness ==
    /\ WF_vars(Tick)
    /\ \A c \in Callers :
          /\ SF_vars(AllowRequest(c))
          /\ SF_vars(RecordSuccess(c) \/ RecordFailure(c))
          /\ WF_vars(Unlock(c))
          /\ SF_vars(Callback(c))

FairSpec == Spec /\ Fairness
-----------------------------------------------------------------------------
(* Probes are rationed: in a half-open episode between one and Allowance    *)
(* requests have been let through, never fewer than are still unanswered,   *)
(* and outside an episode the count is back to zero, whatever results of    *)
(* earlier episodes arrive in between (AllowRequest, Record..., Reset).      *)
ProbesRationed ==
    /\ state = HalfOpen => halfOpenCount \in 1..Allowance
    /\ state # HalfOpen => halfOpenCount = 0 /\ probes = {}
    /\ Cardinality(probes) <= halfOpenCount

(* A closed breaker is always below its threshold: no path into Closed, nor *)
(* a failure recorded late, leaves it one failure past MaxFailures.         *)
ClosedBelowThreshold == state = Closed => failures < Threshold

(* A half-open breaker always has a way out: a probe it still waits for, or *)
(* allowance for another, unless a probe of the episode panicked.  (With a  *)
(* lost probe the count never returns and AllowRequest refuses forever.)    *)
HalfOpenHasWayOut ==
    state = HalfOpen => \/ probes # {}
                        \/ halfOpenCount < Allowance
                        \/ lost

(* A half-open episode ends, unless one of its probes panicked.             *)
HalfOpenResolves == state = HalfOpen ~> (state # HalfOpen \/ lost)

(* A callback that re-enters the breaker cannot deadlock (comment of        *)
(* notify): whoever recorded a result gets out of Execute.                  *)
RecordReturns == \A c \in Callers : pc[c] = "recorded" ~> pc[c] = "idle"

(* The three counts agree, whatever results of an earlier episode arrive in *)
(* this one: a half-open breaker has counted its probes and has a way out,  *)
(* a closed one is below its threshold.                                     *)
BreakerConsistent == ProbesRationed /\ ClosedBelowThreshold /\ HalfOpenHasWayOut

(* Nothing is stuck: an episode ends unless a probe of it panicked, and the *)
(* caller that recorded a result gets out of a callback that re-enters.     *)
EpisodesAndCallsEnd == HalfOpenResolves /\ RecordReturns
=============================================================================
