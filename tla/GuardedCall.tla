---------------------------- MODULE GuardedCall ----------------------------
(***************************************************************************)
(* resilience/retry.go and timeout.go together: RetryWithContext (or Retry, *)
(* whose context never ends) around a function each call of which runs      *)
(* under WithContext.  A call that times out goes on in its goroutine while *)
(* the next attempt is made, and its late answer must reach nobody.         *)
(***************************************************************************)
EXTENDS Integers

CONSTANTS MaxTries,       \* largest MaxAttempts that is configured
          InitialDelay, MaxDelay, BackoffFactor,
          DefaultAttempts \* 3, for a configuration without attempts

ASSUME RetryAssumption ==
    /\ {MaxTries, InitialDelay, MaxDelay, BackoffFactor, DefaultAttempts} \subseteq Nat
    /\ DefaultAttempts >= 1

MostTries == IF MaxTries > DefaultAttempts THEN MaxTries ELSE DefaultAttempts
Tries     == 1..MostTries

VARIABLES maxAttempts,  \* after normalizeConfig
          retryDone,    \* the context of RetryWithContext has ended
          retry,        \* the retry loop
          tryNo,        \* attempt
          fn,           \* each call of the function, in its goroutine
          guard,        \* what WithContext returned for it
          delay,        \* how long the loop sleeps
          verdict       \* what the caller is told, and of which attempt

retryVars == <<maxAttempts, retryDone, retry, tryNo, fn, guard, delay, verdict>>

RetryTypeOK ==
    /\ maxAttempts \in Tries
    /\ retryDone \in BOOLEAN
    /\ retry \in {"idle", "check", "call", "sleep", "ended"}
    /\ tryNo \in 0..MostTries
    /\ fn \in [Tries -> {"none", "running", "ok", "error"}]
    /\ guard \in [Tries -> {"none", "waiting", "ok", "error", "timeout"}]
    /\ delay \in Nat
    /\ verdict \in [said : {"none", "ok", "error", "timeout", "ctxerr"}, of : 0..MostTries]

\* normalizeConfig: no attempts at all would report success.
NormalizeConfig(n) == IF n <= 0 THEN DefaultAttempts ELSE n

RetryInit ==
    /\ \E n \in -1..MaxTries : maxAttempts = NormalizeConfig(n)
    /\ retryDone = FALSE
    /\ retry = "idle"
    /\ tryNo = 0
    /\ fn = [i \in Tries |-> "none"]
    /\ guard = [i \in Tries |-> "none"]
    /\ delay = 0
    /\ verdict = [said |-> "none", of |-> 0]
-----------------------------------------------------------------------------
RetryGoes(from, to) == retry = from /\ retry' = to

CallRetry ==
    /\ RetryGoes("idle", "check")
    /\ tryNo' = 1
    /\ UNCHANGED <<maxAttempts, retryDone, fn, guard, delay, verdict>>

CancelRetry ==
    /\ retry # "idle" /\ ~ retryDone
    /\ retryDone' = TRUE
    /\ UNCHANGED <<maxAttempts, retry, tryNo, fn, guard, delay, verdict>>

Say(what, i) == retry' = "ended" /\ verdict' = [said |-> what, of |-> i]

RetrySeesContext ==
    /\ retry \in {"check", "sleep"} /\ retryDone
    /\ Say("ctxerr", 0)
    /\ UNCHANGED <<maxAttempts, retryDone, tryNo, fn, guard, delay>>

\* fn(): WithContext starts a goroutine and waits for it and for its timeout.
BeginTry ==
    /\ ~ retryDone
    /\ RetryGoes("check", "call")
    /\ fn' = [fn EXCEPT ![tryNo] = "running"]
    /\ guard' = [guard EXCEPT ![tryNo] = "waiting"]
    /\ UNCHANGED <<maxAttempts, retryDone, tryNo, delay, verdict>>

\* It returns, or panics into an error; the channel has room for it.
FnReturns(i) ==
    /\ fn[i] = "running"
    /\ \E r \in {"ok", "error"} : fn' = [fn EXCEPT ![i] = r]
    /\ UNCHANGED <<maxAttempts, retryDone, retry, tryNo, guard, delay, verdict>>

GuardSees(i) ==
    /\ guard[i] = "waiting" /\ fn[i] \in {"ok", "error"}
    /\ guard' = [guard EXCEPT ![i] = fn[i]]
    /\ UNCHANGED <<maxAttempts, retryDone, retry, tryNo, fn, delay, verdict>>

\* The timeout; when the answer is there as well, select takes either.
GuardTimesOut(i) ==
    /\ guard[i] = "waiting"
    /\ guard' = [guard EXCEPT ![i] = "timeout"]
    /\ UNCHANGED <<maxAttempts, retryDone, retry, tryNo, fn, delay, verdict>>

\* Bug: one channel for all attempts: an answer that is late for its own
\* attempt is taken for that of the next.
TrySucceedsLate ==
    /\ retry = "call" /\ \E i \in 1..tryNo : fn[i] = "ok"
    /\ Say("ok", tryNo)
    /\ UNCHANGED <<maxAttempts, retryDone, tryNo, fn, guard, delay>>

TrySucceeds ==
    /\ retry = "call" /\ guard[tryNo] = "ok"
    /\ Say("ok", tryNo)
    /\ UNCHANGED <<maxAttempts, retryDone, tryNo, fn, guard, delay>>

\* The last attempt, or an error RetryIf does not want to see again.
TryFailsForGood ==
    /\ retry = "call" /\ guard[tryNo] \in {"error", "timeout"}
    /\ Say(guard[tryNo], tryNo)
    /\ UNCHANGED <<maxAttempts, retryDone, tryNo, fn, guard, delay>>

Power[n \in Nat] == IF n = 0 THEN 1 ELSE BackoffFactor * Power[n - 1]
Least(a, b) == IF a <= b THEN a ELSE b

\* calculateDelay: up to half of it in jitter, then the ceiling.
CalculateDelay(n) ==
    LET raw == InitialDelay * Power[n - 1]
    IN  {Least(raw + jitter, MaxDelay) : jitter \in 0..(raw \div 2)}

TryFails ==
    /\ RetryGoes("call", "sleep")
    /\ guard[tryNo] \in {"error", "timeout"} /\ tryNo < maxAttempts
    /\ delay' \in CalculateDelay(tryNo)
    /\ UNCHANGED <<maxAttempts, retryDone, tryNo, fn, guard, verdict>>

RetryWakes ==
    /\ RetryGoes("sleep", "check")
    /\ tryNo' = tryNo + 1
    /\ UNCHANGED <<maxAttempts, retryDone, fn, guard, delay, verdict>>

RetryNext ==
    \/ CallRetry \/ CancelRetry \/ RetrySeesContext \/ BeginTry
    \/ \E i \in Tries : FnReturns(i) \/ GuardSees(i) \/ GuardTimesOut(i)
    \/ TrySucceeds \/ TryFailsForGood \/ TryFails \/ RetryWakes

RetrySpec == RetryInit /\ [][RetryNext]_retryVars
-----------------------------------------------------------------------------
\* The answer is that of the attempt it stands for, and a success only of one
\* that ended in time, whatever earlier attempts still do; every attempt but
\* the last has failed; at least one was made unless the context ended; no
\* sleep exceeds MaxDelay (retry.go:37, 127; timeout.go:31).
VerdictIsOfItsAttempt ==
    /\ verdict.said \in {"ok", "error", "timeout"} =>
        /\ verdict.of = tryNo /\ verdict.of >= 1
        /\ verdict.said = guard[tryNo]
        /\ verdict.said # "timeout" => fn[tryNo] = verdict.said
    /\ \A i \in 1..(tryNo - 1) : guard[i] \in {"error", "timeout"}
    /\ delay <= MaxDelay
=============================================================================
