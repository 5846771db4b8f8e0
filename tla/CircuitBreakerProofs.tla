------------------------ MODULE CircuitBreakerProofs ------------------------
(***************************************************************************)
(* For every set of callers and every configuration: the circuit breaker    *)
(* rations its probes, is never closed at its threshold, and is never stuck *)
(* half-open while none of its probes has panicked.                         *)
(***************************************************************************)
EXTENDS CircuitBreaker, TLAPS, FiniteSetTheorems

(* The four invariants of the run are inductive together.                   *)
BreakerInv == /\ TypeOK
              /\ ProbesRationed
              /\ ClosedBelowThreshold
              /\ HalfOpenHasWayOut

(* NewCircuitBreaker leaves only usable configuration values.               *)
LEMMA ConfigClamped == /\ Threshold \in Nat \ {0}
                       /\ Allowance \in Nat \ {0}
                       /\ Timeout \in Nat \ {0}
BY ConfigAssumption DEF Threshold, Allowance, Timeout

(* One caller joins or leaves the probes: the count moves by at most one.   *)
LEMMA ProbeCount ==
    ASSUME TypeOK, NEW c \in Callers
    PROVE  /\ Cardinality(probes) \in Nat
           /\ Cardinality(probes \cup {c}) <= Cardinality(probes) + 1
           /\ Cardinality(probes \ {c}) <= Cardinality(probes)
           /\ Cardinality({c}) = 1
<1>1. IsFiniteSet(probes)
  BY CallersAssumption, FS_Subset DEF TypeOK
<1>2. Cardinality(probes) \in Nat
  BY <1>1, FS_CardinalityType
<1>3. Cardinality(probes \cup {c}) <= Cardinality(probes) + 1
  <2>1. Cardinality(probes \cup {c})
          = IF c \in probes THEN Cardinality(probes) ELSE Cardinality(probes) + 1
    BY <1>1, FS_AddElement
  <2> QED
    BY <1>2, <2>1
<1>4. Cardinality(probes \ {c}) <= Cardinality(probes)
  <2>1. Cardinality(probes \ {c})
          = IF c \in probes THEN Cardinality(probes) - 1 ELSE Cardinality(probes)
    BY <1>1, FS_RemoveElement
  <2> QED
    BY <1>2, <2>1
<1>5. Cardinality({c}) = 1
  BY FS_Singleton
<1> QED
  BY <1>2, <1>3, <1>4, <1>5

(* A new breaker is closed, with no failure and no probe.                   *)
LEMMA InitBreakerInv == Init => BreakerInv
<1> SUFFICES ASSUME Init PROVE BreakerInv
  OBVIOUS
<1>1. TypeOK
  <2>1. /\ failures \in 0..Threshold
        /\ halfOpenCount \in 0..Allowance
        /\ age \in 0..(Timeout + 1)
    BY ConfigClamped DEF Init
  <2>2. pc \in [Callers -> {"idle", "running", "recorded", "callback"}]
    BY DEF Init
  <2> QED
    BY <2>1, <2>2 DEF Init, TypeOK, States, Closed
<1>2. ProbesRationed
  BY FS_EmptySet DEF Init, ProbesRationed, Closed, HalfOpen
<1>3. ClosedBelowThreshold /\ HalfOpenHasWayOut
  BY ConfigClamped DEF Init, ClosedBelowThreshold, HalfOpenHasWayOut, Closed, HalfOpen
<1> QED
  BY <1>1, <1>2, <1>3 DEF BreakerInv

(* Admitting a request, as the first probe, a later one or while closed.    *)
LEMMA AllowPreserves ==
    ASSUME BreakerInv, NEW c \in Callers, AllowRequest(c)
    PROVE  BreakerInv'
<1> USE ConfigClamped
<1>1. CASE AllowWhileClosed(c)
  BY <1>1, SMTT(30) DEF BreakerInv, TypeOK, ProbesRationed, ClosedBelowThreshold,
     HalfOpenHasWayOut, AllowWhileClosed, EnterRunning, breaker, history
<1>2. CASE AllowFirstProbe(c)
  <2>1. TypeOK'
    <3>1. pc' \in [Callers -> {"idle", "running", "recorded", "callback"}]
      BY <1>2 DEF BreakerInv, TypeOK, AllowFirstProbe, EnterRunning
    <3>2. halfOpenCount' \in 0..Allowance /\ state' \in States
      BY <1>2 DEF AllowFirstProbe, States
    <3> QED
      BY <1>2, <3>1, <3>2 DEF BreakerInv, TypeOK, AllowFirstProbe, EnterRunning
  <2>2. ProbesRationed'
    <3>1. Cardinality(probes') = 1
      BY <1>2, ProbeCount DEF AllowFirstProbe, BreakerInv
    <3> QED
      BY <1>2, <3>1 DEF ProbesRationed, AllowFirstProbe, HalfOpen
  <2>3. ClosedBelowThreshold' /\ HalfOpenHasWayOut'
    BY <1>2 DEF ClosedBelowThreshold, HalfOpenHasWayOut, AllowFirstProbe,
       HalfOpen, Closed
  <2> QED
    BY <2>1, <2>2, <2>3 DEF BreakerInv
<1>3. CASE AllowNextProbe(c)
  <2>1. TypeOK'
    BY <1>3 DEF BreakerInv, TypeOK, AllowNextProbe, EnterRunning
  <2>2. ProbesRationed'
    <3>1. Cardinality(probes') <= Cardinality(probes) + 1 /\ Cardinality(probes) \in Nat
      BY <1>3, ProbeCount DEF AllowNextProbe, BreakerInv
    <3>2. Cardinality(probes') \in Nat
      BY <2>1, CallersAssumption, FS_Subset, FS_CardinalityType DEF TypeOK
    <3> QED
      BY <1>3, <3>1, <3>2 DEF BreakerInv, TypeOK, ProbesRationed, AllowNextProbe
  <2>3. ClosedBelowThreshold' /\ HalfOpenHasWayOut'
    BY <1>3 DEF BreakerInv, ClosedBelowThreshold, HalfOpenHasWayOut,
       AllowNextProbe, HalfOpen, Closed
  <2> QED
    BY <2>1, <2>2, <2>3 DEF BreakerInv
<1> QED
  BY <1>1, <1>2, <1>3 DEF AllowRequest

(* A result that changes the state ends the episode: its probes are         *)
(* forgotten.  One that does not takes its caller out of the probes.        *)
LEMMA ResultLeavesProbes ==
    ASSUME BreakerInv, NEW c \in Callers, NEW s \in States, LockAndRecord(c, s)
    PROVE  /\ state' = s
           /\ mu' \in Callers \cup {Free}
           /\ pc' \in [Callers -> {"idle", "running", "recorded", "callback"}]
           /\ changed' \in [Callers -> BOOLEAN]
           /\ probes' \subseteq Callers /\ lost' \in BOOLEAN
           /\ state # s => probes' = {} /\ Cardinality(probes') = 0
           /\ state = s => /\ probes' = probes \ {c} /\ lost' = lost
                           /\ Cardinality(probes') <= Cardinality(probes)
           /\ Cardinality(probes) \in Nat /\ Cardinality(probes') \in Nat
<1>1. /\ state' = s
      /\ mu' \in Callers \cup {Free}
      /\ pc' \in [Callers -> {"idle", "running", "recorded", "callback"}]
      /\ changed' \in [Callers -> BOOLEAN]
  BY DEF LockAndRecord, BreakerInv, TypeOK
<1>2. /\ state # s => probes' = {} /\ lost' = FALSE
      /\ state = s => probes' = probes \ {c} /\ lost' = lost
  BY DEF LockAndRecord, EpisodeEnds, history
<1>3. probes' \subseteq Callers /\ lost' \in BOOLEAN
  BY <1>2 DEF BreakerInv, TypeOK
<1>4. state # s => Cardinality(probes') = 0
  BY <1>2, FS_EmptySet
<1>5. state = s => Cardinality(probes') <= Cardinality(probes)
  BY <1>2, ProbeCount DEF BreakerInv
<1>6. Cardinality(probes) \in Nat /\ Cardinality(probes') \in Nat
  BY <1>3, CallersAssumption, FS_Subset, FS_CardinalityType DEF BreakerInv, TypeOK
<1> QED
  BY <1>1, <1>2, <1>3, <1>4, <1>5, <1>6

(* A success in any state, of a probe or of a request of an earlier state.  *)
LEMMA SuccessPreserves ==
    ASSUME BreakerInv, NEW c \in Callers, RecordSuccess(c)
    PROVE  BreakerInv'
<1> USE ConfigClamped
<1> DEFINE closes == state = HalfOpen /\ halfOpenCount >= Allowance
           s == IF closes THEN Closed ELSE state
<1>1. s \in States
  BY DEF BreakerInv, TypeOK, States, Closed
<1>2. LockAndRecord(c, s)
  BY DEF RecordSuccess
<1>3. /\ failures' = IF closes \/ state = Closed THEN 0 ELSE failures
      /\ halfOpenCount' = IF closes THEN 0 ELSE halfOpenCount
      /\ age' = age
  BY DEF RecordSuccess
<1> HIDE DEF s
<1>4. /\ state' = s
      /\ mu' \in Callers \cup {Free}
      /\ pc' \in [Callers -> {"idle", "running", "recorded", "callback"}]
      /\ changed' \in [Callers -> BOOLEAN]
      /\ probes' \subseteq Callers /\ lost' \in BOOLEAN
      /\ state # s => probes' = {} /\ Cardinality(probes') = 0
      /\ state = s => /\ probes' = probes \ {c} /\ lost' = lost
                      /\ Cardinality(probes') <= Cardinality(probes)
      /\ Cardinality(probes) \in Nat /\ Cardinality(probes') \in Nat
  BY <1>1, <1>2, ResultLeavesProbes
<1>5. TypeOK'
  BY <1>1, <1>3, <1>4 DEF BreakerInv, TypeOK
<1>6. ProbesRationed'
  BY <1>3, <1>4 DEF BreakerInv, TypeOK, ProbesRationed, s, States, Closed, HalfOpen, Open
<1>7. ClosedBelowThreshold'
  BY <1>3, <1>4 DEF BreakerInv, TypeOK, ClosedBelowThreshold, s, Closed, HalfOpen
<1>8. HalfOpenHasWayOut'
  BY <1>3, <1>4 DEF BreakerInv, TypeOK, HalfOpenHasWayOut, s, Closed, HalfOpen
<1> QED
  BY <1>5, <1>6, <1>7, <1>8 DEF BreakerInv

(* A failure in any state, of a probe or of a request of an earlier state.  *)
LEMMA FailurePreserves ==
    ASSUME BreakerInv, NEW c \in Callers, RecordFailure(c)
    PROVE  BreakerInv'
<1> USE ConfigClamped
<1> DEFINE opens == state = HalfOpen \/ (state = Closed /\ OneMoreFailure >= Threshold)
           s == IF opens THEN Open ELSE state
<1>1. s \in States
  BY DEF BreakerInv, TypeOK, States, Open
<1>2. LockAndRecord(c, s)
  BY DEF RecordFailure
<1>3. /\ failures' = OneMoreFailure
      /\ halfOpenCount' = IF opens THEN 0 ELSE halfOpenCount
      /\ age' = 0
  BY DEF RecordFailure
<1>0. OneMoreFailure \in 0..Threshold
  BY DEF OneMoreFailure, BreakerInv, TypeOK
<1> HIDE DEF s
<1>4. /\ state' = s
      /\ mu' \in Callers \cup {Free}
      /\ pc' \in [Callers -> {"idle", "running", "recorded", "callback"}]
      /\ changed' \in [Callers -> BOOLEAN]
      /\ probes' \subseteq Callers /\ lost' \in BOOLEAN
      /\ state # s => probes' = {} /\ Cardinality(probes') = 0
      /\ state = s => /\ probes' = probes \ {c} /\ lost' = lost
                      /\ Cardinality(probes') <= Cardinality(probes)
      /\ Cardinality(probes) \in Nat /\ Cardinality(probes') \in Nat
  BY <1>1, <1>2, ResultLeavesProbes
<1>5. TypeOK'
  BY <1>0, <1>1, <1>3, <1>4 DEF BreakerInv, TypeOK
<1>6. ProbesRationed'
  BY <1>3, <1>4 DEF BreakerInv, TypeOK, ProbesRationed, s, States, Closed, HalfOpen, Open
<1>7. ClosedBelowThreshold'
  BY <1>0, <1>3, <1>4 DEF ClosedBelowThreshold, s, Closed, Open
<1>8. HalfOpenHasWayOut'
  BY <1>4 DEF HalfOpenHasWayOut, s, HalfOpen, Open
<1> QED
  BY <1>5, <1>6, <1>7, <1>8 DEF BreakerInv

(* A panic removes a probe without an answer, and says so in lost.          *)
LEMMA PanicPreserves ==
    ASSUME BreakerInv, NEW c \in Callers, Panic(c)
    PROVE  BreakerInv'
<1>1. TypeOK'
  BY DEF BreakerInv, TypeOK, Panic, breaker
<1>2. ProbesRationed'
  <2>1. Cardinality(probes') <= Cardinality(probes) /\ Cardinality(probes) \in Nat
    BY ProbeCount DEF Panic, BreakerInv
  <2>2. Cardinality(probes') \in Nat
    BY <1>1, CallersAssumption, FS_Subset, FS_CardinalityType DEF TypeOK
  <2> QED
    BY <2>1, <2>2 DEF BreakerInv, TypeOK, ProbesRationed, Panic, breaker
<1>3. ClosedBelowThreshold' /\ HalfOpenHasWayOut'
  BY DEF BreakerInv, ClosedBelowThreshold, HalfOpenHasWayOut, Panic, breaker
<1> QED
  BY <1>1, <1>2, <1>3 DEF BreakerInv

(* Reset closes the breaker from any state, in the middle of an episode too. *)
LEMMA ResetPreserves ==
    ASSUME BreakerInv, Reset
    PROVE  BreakerInv'
<1> USE ConfigClamped
<1>1. probes' = {} /\ lost' \in BOOLEAN
  BY DEF BreakerInv, TypeOK, ProbesRationed, Reset, EpisodeEnds, history,
     Closed, HalfOpen
<1>2. TypeOK'
  BY <1>1 DEF BreakerInv, TypeOK, Reset, States, Closed
<1>3. ProbesRationed'
  BY <1>1, FS_EmptySet DEF ProbesRationed, Reset, Closed, HalfOpen
<1>4. ClosedBelowThreshold' /\ HalfOpenHasWayOut'
  BY DEF ClosedBelowThreshold, HalfOpenHasWayOut, Reset, Closed, HalfOpen
<1> QED
  BY <1>2, <1>3, <1>4 DEF BreakerInv

(* The invariant is inductive: one step per action of the breaker.          *)
LEMMA NextBreakerInv == BreakerInv /\ [Next]_vars => BreakerInv'
<1> SUFFICES ASSUME BreakerInv, [Next]_vars PROVE BreakerInv'
  OBVIOUS
<1>1. CASE Reset
  BY <1>1, ResetPreserves
<1>2. CASE Tick
  <2>1. TypeOK'
    BY <1>2, ConfigClamped DEF Tick, BreakerInv, TypeOK, history
  <2>2. ProbesRationed' /\ ClosedBelowThreshold' /\ HalfOpenHasWayOut'
    BY <1>2 DEF Tick, BreakerInv, ProbesRationed, ClosedBelowThreshold,
       HalfOpenHasWayOut, history
  <2> QED
    BY <2>1, <2>2 DEF BreakerInv
<1>3. ASSUME NEW c \in Callers, CallerStep(c) PROVE BreakerInv'
  <2>1. CASE AllowRequest(c)
    BY <2>1, AllowPreserves
  <2>2. CASE RecordSuccess(c)
    BY <2>2, SuccessPreserves
  <2>3. CASE RecordFailure(c)
    BY <2>3, FailurePreserves
  <2>4. CASE Unlock(c)
    <3>1. TypeOK'
      BY <2>4 DEF Unlock, BreakerInv, TypeOK, breaker, history
    <3>2. ProbesRationed' /\ ClosedBelowThreshold' /\ HalfOpenHasWayOut'
      BY <2>4 DEF Unlock, BreakerInv, ProbesRationed, ClosedBelowThreshold,
         HalfOpenHasWayOut, breaker, history
    <3> QED
      BY <3>1, <3>2 DEF BreakerInv
  <2>5. CASE Callback(c)
    <3>1. TypeOK'
      BY <2>5 DEF Callback, BreakerInv, TypeOK, breaker, history
    <3>2. ProbesRationed' /\ ClosedBelowThreshold' /\ HalfOpenHasWayOut'
      BY <2>5 DEF Callback, BreakerInv, ProbesRationed, ClosedBelowThreshold,
         HalfOpenHasWayOut, breaker, history
    <3> QED
      BY <3>1, <3>2 DEF BreakerInv
  <2>6. CASE Panic(c)
    BY <2>6, PanicPreserves
  <2> QED
    BY <1>3, <2>1, <2>2, <2>3, <2>4, <2>5, <2>6 DEF CallerStep
<1>4. CASE UNCHANGED vars
  BY <1>4 DEF vars, breaker, history, BreakerInv, TypeOK, ProbesRationed,
     ClosedBelowThreshold, HalfOpenHasWayOut
<1> QED
  BY <1>1, <1>2, <1>3, <1>4 DEF Next

(* Every reachable state satisfies the inductive invariant.                 *)
THEOREM BreakerInvariance == Spec => []BreakerInv
BY InitBreakerInv, NextBreakerInv, PTL DEF Spec

(* The breaker's variables keep their types; the counters keep their bounds *)
(* for every number of callers.                                             *)
THEOREM BreakerTypeCorrect == Spec => []TypeOK
<1>1. BreakerInv => TypeOK
  BY DEF BreakerInv
<1> QED
  BY <1>1, BreakerInvariance, PTL

(* At most HalfOpenMaxRequests probes are let through per half-open episode. *)
THEOREM ProbesAreRationed == Spec => []ProbesRationed
<1>1. BreakerInv => ProbesRationed
  BY DEF BreakerInv
<1> QED
  BY <1>1, BreakerInvariance, PTL

(* A closed breaker is below its threshold.                                 *)
THEOREM ClosedIsBelowThreshold == Spec => []ClosedBelowThreshold
<1>1. BreakerInv => ClosedBelowThreshold
  BY DEF BreakerInv
<1> QED
  BY <1>1, BreakerInvariance, PTL

(* Only a panicking probe can leave the breaker half-open for good.         *)
THEOREM HalfOpenAlwaysHasWayOut == Spec => []HalfOpenHasWayOut
<1>1. BreakerInv => HalfOpenHasWayOut
  BY DEF BreakerInv
<1> QED
  BY <1>1, BreakerInvariance, PTL

(* The three together, for every configuration and set of callers.          *)
THEOREM BreakerIsConsistent == Spec => []BreakerConsistent
<1>1. BreakerInv => BreakerConsistent
  BY DEF BreakerInv, BreakerConsistent
<1> QED
  BY <1>1, BreakerInvariance, PTL
=============================================================================
