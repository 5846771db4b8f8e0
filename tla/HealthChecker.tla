--------------------------- MODULE HealthChecker ---------------------------
(***************************************************************************)
(* resilience/health.go: checks registered and removed under a lock, and    *)
(* Check, which runs a snapshot of them at once, each with its timeout, and *)
(* makes one report of the results.                                         *)
(***************************************************************************)
CONSTANT Checks      \* names

VARIABLES checks,    \* what is registered under each name
          report,    \* Check: where it is
          snapshot,  \* the checks it runs
          probe,     \* the check function of each, in its goroutine
          verdicts,  \* results: the status of each that is in the map
          overall    \* Status of the report

\* Simple checks and critical ones; an empty one has no function.
Registrable == {"simple", "critical", "empty"}
CheckKinds == Registrable \cup {"none"}

healthVars == <<checks, report, snapshot, probe, verdicts, overall>>

HealthTypeOK ==
    /\ checks \in [Checks -> CheckKinds]
    /\ report \in {"none", "running", "made"}
    /\ snapshot \in [Checks -> CheckKinds]
    /\ probe \in [Checks -> {"none", "running", "ok", "error"}]
    /\ verdicts \in [Checks -> {"none", "healthy", "unhealthy"}]
    /\ overall \in {"none", "healthy", "degraded", "unhealthy"}

HealthInit ==
    /\ checks = [c \in Checks |-> "none"]
    /\ report = "none"
    /\ snapshot = [c \in Checks |-> "none"]
    /\ probe = [c \in Checks |-> "none"]
    /\ verdicts = [c \in Checks |-> "none"]
    /\ overall = "none"
-----------------------------------------------------------------------------
\* A check replaces the one of its name.
RegisterCheck(c, kind) ==
    /\ checks' = [checks EXCEPT ![c] = kind]
    /\ UNCHANGED <<report, snapshot, probe, verdicts, overall>>

DeregisterCheck(c) ==
    /\ checks' = [checks EXCEPT ![c] = "none"]
    /\ UNCHANGED <<report, snapshot, probe, verdicts, overall>>

\* The checks of the report.
Taken == {c \in Checks : snapshot[c] # "none"}

\* The snapshot is taken under the lock, the checks run without it.
BeginReport ==
    /\ report = "none"
    /\ report' = "running"
    /\ snapshot' = checks
    /\ UNCHANGED <<checks, probe, verdicts, overall>>

\* runCheck: without a function the result is unhealthy, and not critical.
RunCheck(c) ==
    /\ report = "running" /\ c \in Taken
    /\ probe[c] = "none" /\ verdicts[c] = "none"
    /\ IF snapshot[c] = "empty"
       THEN verdicts' = [verdicts EXCEPT ![c] = "unhealthy"] /\ UNCHANGED probe
       ELSE probe' = [probe EXCEPT ![c] = "running"] /\ UNCHANGED verdicts
    /\ UNCHANGED <<checks, report, snapshot, overall>>

\* The function returns, or panics into an error; or it never does.
ProbeReturns(c) ==
    /\ probe[c] = "running"
    /\ \E r \in {"ok", "error"} : probe' = [probe EXCEPT ![c] = r]
    /\ UNCHANGED <<checks, report, snapshot, verdicts, overall>>

CheckAnswers(c) ==
    /\ probe[c] \in {"ok", "error"} /\ verdicts[c] = "none"
    /\ verdicts' = [verdicts EXCEPT ![c] = IF probe[c] = "ok" THEN "healthy" ELSE "unhealthy"]
    /\ UNCHANGED <<checks, report, snapshot, probe, overall>>

\* The timeout of the check, or the end of the caller's context.
CheckTimesOut(c) ==
    /\ probe[c] # "none" /\ verdicts[c] = "none"
    /\ verdicts' = [verdicts EXCEPT ![c] = "unhealthy"]
    /\ UNCHANGED <<checks, report, snapshot, probe, overall>>

Unhealthy == {c \in Taken : verdicts[c] = "unhealthy"}
ResultCritical(c) == snapshot[c] = "critical"

\* Bug: the worst is overwritten by the next best.
OverallStatusInOrder ==
    CASE Unhealthy # {}                               -> "degraded"
      [] \E c \in Unhealthy : ResultCritical(c)       -> "unhealthy"
      [] OTHER                                        -> "healthy"

CalculateOverallStatus ==
    CASE \E c \in Unhealthy : ResultCritical(c) -> "unhealthy"
      [] Unhealthy # {} /\ \A c \in Unhealthy : ~ ResultCritical(c) -> "degraded"
      [] Unhealthy = {} -> "healthy"

\* wg.Wait has returned.
EndReport ==
    /\ report = "running"
    /\ \A c \in Taken : verdicts[c] # "none"
    /\ report' = "made"
    /\ overall' = CalculateOverallStatus
    /\ UNCHANGED <<checks, snapshot, probe, verdicts>>

HealthNext ==
    \/ \E c \in Checks : \/ \E kind \in Registrable : RegisterCheck(c, kind)
                         \/ DeregisterCheck(c)
                         \/ RunCheck(c) \/ ProbeReturns(c)
                         \/ CheckAnswers(c) \/ CheckTimesOut(c)
    \/ BeginReport \/ EndReport

HealthSpec == HealthInit /\ [][HealthNext]_healthVars
-----------------------------------------------------------------------------
\* IsCriticalHealthy, from the results and not from the overall status.
CriticalHealthy ==
    \A c \in Taken : ResultCritical(c) => verdicts[c] = "healthy"

\* Checks that are removed or replaced while a report is made are in it (health.go:106);
\* the overall status and IsCriticalHealthy never disagree, and a check that
\* passed in a healthy report did return in time (health.go:186, 226).
ReportIsTrue ==
    report = "made" =>
        /\ \A c \in Taken : verdicts[c] # "none"
        /\ overall = "unhealthy" <=> ~ CriticalHealthy
        /\ overall = "healthy" => \A c \in Taken : probe[c] = "ok"
=============================================================================
