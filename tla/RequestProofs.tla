--------------------------- MODULE RequestProofs ----------------------------
(*****************************************************************************)
(* What requests leave behind in the process, proved for any lines, users and*)
(* callers: the log file loses no line it took, a round trip through encrypt *)
(* and decrypt gives the text back or fails after a rotation, the cache and  *)
(* the handlers answer what was right during the call, a request gets the    *)
(* answer it was given on its way through the middlewares, the limiter keeps *)
(* to its rate, a walk through a list has shown all of it, and the screen    *)
(* shows what was logged.                                                    *)
(*****************************************************************************)
EXTENDS FileLogger, CipherService, MemoryCache, ServiceHandlers,
        MiddlewareChain, RateLimiter, PagedLists, TerminalUI, TLAPS,
        SequenceTheorems, FiniteSetTheorems, WellFoundedInduction

-----------------------------------------------------------------------------
\* The log file.  The argument is about dates: the archive of a day is begun
\* once only, while the current date is that day and the clock has moved on, so
\* no rotation truncates an archive that another has filled; and the original is
\* removed only when its lines are in the archive or known to be spoilt.

Rotating == {"rotate", "copy", "remove", "reopen"}

\* The current date lags behind the clock, strictly so while rotate is under
\* way, which has closed the file; an open file exists.
DateInv ==
    /\ logger # "down" => currentDate <= day
    /\ logger \in Rotating => currentDate < day /\ file = NoFile
    /\ file # NoFile => plain[file] # NoFile

\* Archives are of past days, and of days before the current date unless one
\* is being written; what is about to be removed is archived or spoilt.
ArchiveInv ==
    /\ \A d \in Days : gz[d] # NoFile =>
          d < day /\ (logger \in {"init", "idle", "rotate", "append"} => d < currentDate)
    /\ logger = "copy" => gz[currentDate] = {} /\ plain[currentDate] # NoFile
    /\ logger = "remove" => Kept(plain[currentDate]) \subseteq Kept(gz[currentDate]) \cup spoilt

\* NoLineLost, line by line.
Found(l) == l \in spoilt \/ \E d \in Days : l \in Kept(plain[d]) \/ l \in Kept(gz[d])
LinesFound == \A l \in accepted : Found(l)

LoggerInv == FileLoggerTypeOK /\ DateInv /\ ArchiveInv /\ LinesFound
-----------------------------------------------------------------------------
(* A line is found if its loss would be one.                                *)
LEMMA FoundIsKept == LinesFound <=> NoLineLost
BY DEF LinesFound, Found, NoLineLost

\* Where no line leaves a file, every line found before is found after.
LEMMA NothingLeaves ==
    ASSUME LinesFound, accepted' = accepted, spoilt \subseteq spoilt',
           \A d \in Days : Kept(plain[d]) \cup Kept(gz[d]) \subseteq
                              Kept(plain[d])' \cup Kept(gz[d])' \cup spoilt'
    PROVE  LinesFound'
BY DEF LinesFound, Found

\* Opening the file of the day creates it or leaves it.
LEMMA OpeningKeeps ==
    ASSUME FileLoggerTypeOK, OpenCurrentFile
    PROVE  /\ file' \in Days \cup {NoFile} /\ shut' \in BOOLEAN
           /\ plain' \in [Days -> {NoFile} \cup SUBSET Lines]
           /\ file' # NoFile => plain'[file'] # NoFile
           /\ \A d \in Days : Kept(plain[d]) \subseteq Kept(plain'[d])
<1> USE FileLoggerAssumption DEF FileLoggerTypeOK, Days, Kept
<1>1. CASE OpenAppends(day)
  BY <1>1 DEF OpenAppends
<1>2. CASE file' = NoFile /\ shut' = FALSE /\ UNCHANGED plain
  BY <1>2
<1> QED
  BY <1>1, <1>2 DEF OpenCurrentFile

(* The factory, the first half of Write, Close, the clock and a crash leave *)
(* the files alone or open the day's.                                       *)
LEMMA OutsideKeeps ==
    ASSUME LoggerInv,
           \/ StartLogger \/ StartedLogger \/ CloseLogger \/ Crash \/ Midnight
           \/ \E l \in Lines : WriteLine(l)
    PROVE  LoggerInv'
<1> USE FileLoggerAssumption
    DEF LoggerInv, FileLoggerTypeOK, DateInv, ArchiveInv, LinesFound, Found, Kept,
        Rotating, LoggerGoes, diskVars, Days
<1>1. CASE StartLogger
  BY <1>1 DEF StartLogger
<1>2. CASE StartedLogger
  <2>1. FileLoggerTypeOK'
    BY <1>2, OpeningKeeps DEF StartedLogger
  <2>2. DateInv' /\ ArchiveInv'
    BY <1>2, OpeningKeeps DEF StartedLogger
  <2>3. LinesFound'
    BY <1>2, OpeningKeeps DEF StartedLogger
  <2> QED
    BY <2>1, <2>2, <2>3
<1>3. CASE CloseLogger
  BY <1>3 DEF CloseLogger
<1>4. CASE Crash
  <2>1. FileLoggerTypeOK'
    <3>1. /\ logger' = "down" /\ file' = NoFile /\ shut' = FALSE /\ writing' \subseteq Lines
          /\ currentDate' \in 0..LastDay
      BY <1>4 DEF Crash
    <3>2. /\ day' = day /\ compress' = compress /\ plain' = plain /\ gz' = gz
          /\ accepted' = accepted /\ spoilt' = spoilt
      BY <1>4 DEF Crash
    <3> QED
      BY <3>1, <3>2, ZenonT(30)
  <2>2. DateInv' /\ ArchiveInv'
    BY <1>4 DEF Crash
  <2>3. LinesFound'
    BY <1>4 DEF Crash
  <2> QED
    BY <2>1, <2>2, <2>3
<1>5. CASE Midnight
  BY <1>5 DEF Midnight
<1>6. ASSUME NEW l \in Lines, WriteLine(l) PROVE LoggerInv'
  <2>1. FileLoggerTypeOK'
    BY <1>6 DEF WriteLine, NeedsRotation
  <2>2. DateInv' /\ ArchiveInv'
    BY <1>6 DEF WriteLine, NeedsRotation
  <2>3. LinesFound'
    BY <1>6 DEF WriteLine, NeedsRotation
  <2> QED
    BY <2>1, <2>2, <2>3
<1> QED
  BY <1>1, <1>2, <1>3, <1>4, <1>5, <1>6

(* The steps of rotate, and the second half of Write.                       *)
LEMMA WritingKeeps ==
    ASSUME LoggerInv,
           Rotate \/ CompressFile \/ RemoveOld \/ SetCurrentDate \/ Reopen \/ AppendLine
    PROVE  LoggerInv'
<1> USE FileLoggerAssumption
    DEF LoggerInv, FileLoggerTypeOK, DateInv, ArchiveInv, LinesFound, Found, Kept,
        Rotating, LoggerGoes, diskVars, Days
<1>1. CASE Rotate
  BY <1>1, SMTT(30) DEF Rotate
<1>2. CASE CompressFile
  <2>1. FileLoggerTypeOK'
    <3>1. logger' = "remove" /\ plain[currentDate] \subseteq Lines
      BY <1>2 DEF CompressFile
    <3>3. gz' \in [0..LastDay -> {NoFile} \cup SUBSET Lines] /\ spoilt' \subseteq Lines
      BY <1>2, <3>1 DEF CompressFile
    <3>2. /\ day' = day /\ compress' = compress /\ plain' = plain /\ file' = file
          /\ accepted' = accepted /\ shut' = shut /\ writing' = writing
          /\ currentDate' = currentDate
      BY <1>2 DEF CompressFile
    <3> QED
      BY <3>1, <3>3, <3>2, ZenonT(30)
  <2>2. DateInv' /\ ArchiveInv'
    BY <1>2 DEF CompressFile
  <2>3. LinesFound'
    BY <1>2 DEF CompressFile
  <2> QED
    BY <2>1, <2>2, <2>3
<1>3. CASE RemoveOld
  BY <1>3 DEF RemoveOld
<1>4. CASE SetCurrentDate
  BY <1>4 DEF SetCurrentDate
<1>5. CASE Reopen
  <2>1. FileLoggerTypeOK'
    BY <1>5, OpeningKeeps DEF Reopen
  <2>2. DateInv' /\ ArchiveInv'
    BY <1>5, OpeningKeeps DEF Reopen
  <2>3. LinesFound'
    BY <1>5, OpeningKeeps DEF Reopen
  <2> QED
    BY <2>1, <2>2, <2>3
<1>6. CASE AppendLine
  <2>1. /\ logger' = "idle" /\ file # NoFile /\ gz' = gz /\ spoilt' = spoilt
        /\ day' = day /\ compress' = compress /\ shut' = shut /\ file' = file
        /\ currentDate' = currentDate /\ writing' = {} /\ logger = "append"
    BY <1>6 DEF AppendLine
  <2>2. \/ /\ plain' = [plain EXCEPT ![file] = plain[file] \cup writing]
           /\ accepted' = accepted \cup writing
        \/ plain' = plain /\ accepted' = accepted
    BY <1>6 DEF AppendLine
  <2>3. /\ plain' \in [0..LastDay -> {NoFile} \cup SUBSET Lines] /\ accepted' \subseteq Lines
        /\ plain'[file] # NoFile
        /\ \A d \in 0..LastDay : Kept(plain[d]) \subseteq Kept(plain'[d])
        /\ accepted' \subseteq accepted \cup Kept(plain'[file])
    <3>1. /\ file \in 0..LastDay /\ plain[file] # NoFile /\ plain[file] \subseteq Lines
          /\ (plain[file] \cup writing) \subseteq Lines
      BY <2>1
    <3>2. plain[file] \cup writing # NoFile
      BY <3>1
    <3> QED
      BY <2>1, <2>2, <3>1, <3>2
  <2>4. FileLoggerTypeOK'
    BY <2>1, <2>3, ZenonT(30)
  <2>5. DateInv' /\ ArchiveInv'
    BY <2>1, <2>3
  <2>6. LinesFound'
    <3>1. ASSUME NEW l \in accepted' PROVE Found(l)'
      BY <2>1, <2>3
    <3> QED
      BY <3>1
  <2> QED
    BY <2>4, <2>5, <2>6
<1> QED
  BY <1>1, <1>2, <1>3, <1>4, <1>5, <1>6

(* The inductive invariant holds in every reachable state.                  *)
THEOREM LoggerInvariance == FileLoggerSpec => []LoggerInv
<1>1. FileLoggerInit => LoggerInv
  <2> SUFFICES ASSUME FileLoggerInit PROVE LoggerInv
    OBVIOUS
  <2>1. 0 \in Days
    BY FileLoggerAssumption DEF Days
  <2>2. FileLoggerTypeOK
    <3>1. /\ plain \in [Days -> {NoFile} \cup SUBSET Lines]
          /\ gz \in [Days -> {NoFile} \cup SUBSET Lines]
      BY DEF FileLoggerInit
    <3>2. /\ day \in Days /\ currentDate \in Days /\ compress \in BOOLEAN
          /\ logger = "down" /\ file = NoFile /\ shut = FALSE /\ writing \subseteq Lines
          /\ accepted \subseteq Lines /\ spoilt \subseteq Lines
      BY <2>1 DEF FileLoggerInit
    <3> QED
      BY <3>1, <3>2, ZenonT(30) DEF FileLoggerTypeOK
  <2>3. DateInv /\ ArchiveInv /\ LinesFound
    BY FileLoggerAssumption DEF FileLoggerInit, DateInv, ArchiveInv, LinesFound, Rotating
  <2> QED
    BY <2>2, <2>3 DEF LoggerInv
<1>2. LoggerInv /\ UNCHANGED loggerVars => LoggerInv'
  BY DEF LoggerInv, FileLoggerTypeOK, DateInv, ArchiveInv, LinesFound, Found, Kept,
     loggerVars, diskVars, Days
<1>3. LoggerInv /\ [FileLoggerNext]_loggerVars => LoggerInv'
  BY <1>2, OutsideKeeps, WritingKeeps DEF FileLoggerNext
<1> QED
  BY <1>1, <1>3, PTL DEF FileLoggerSpec

(* The logger and its files stay within their types.                        *)
THEOREM FileLoggerTypeCorrect == FileLoggerSpec => []FileLoggerTypeOK
<1>1. LoggerInv => FileLoggerTypeOK
  BY DEF LoggerInv
<1> QED
  BY <1>1, LoggerInvariance, PTL

(* Through any rotations, failures, crashes and midnights, a line that was  *)
(* taken stays in a file unless the compression of its file failed.         *)
THEOREM NoTakenLineIsLost == FileLoggerSpec => []NoLineLost
<1>1. LoggerInv => NoLineLost
  BY FoundIsKept DEF LoggerInv
<1> QED
  BY <1>1, LoggerInvariance, PTL
-----------------------------------------------------------------------------
\* The cipher.  The key of each call and of each box is the service's until a
\* rotation comes in between.

\* A rotation since the round trip began is the only way in which the key that
\* a call took, or that a box was sealed with, is not the service's.
RoundTripInv ==
    \A u \in Users :
        /\ session[u] = "sealing" => taken[u] \in Keys
        /\ session[u] = "sealing" => rotated[u] = TRUE \/ taken[u] = encryptionKey
        /\ session[u] = "sealed"  => rotated[u] = TRUE \/ box[u].key = encryptionKey
        /\ session[u] = "opening" => rotated[u] = TRUE \/ taken[u] = box[u].key
        /\ session[u] \in {"sealed", "opening"} => box[u].text = u
        /\ session[u] = "opened" => opened[u] = u
        /\ session[u] = "failed" => rotated[u] = TRUE

CipherInv == CipherTypeOK /\ RoundTripInv
-----------------------------------------------------------------------------
(* A call takes the key, works with it and answers; each step is one user's.*)
LEMMA SessionKeeps ==
    ASSUME CipherInv, NEW u \in Users,
           \/ EncryptTakesKey(u) \/ Seal(u) \/ DecryptTakesKey(u) \/ Open(u) \/ AskAgain(u)
    PROVE  CipherInv'
<1> USE CipherAssumption DEF CipherInv, CipherTypeOK, RoundTripInv, SessionGoes, TakeKey
<1>1. CASE EncryptTakesKey(u)
  BY <1>1 DEF EncryptTakesKey
<1>2. CASE Seal(u)
  <2>1. taken[u] \in Keys /\ [key |-> taken[u], text |-> u] \in [key : Keys, text : Users]
    BY <1>2 DEF Seal
  <2>2. CipherTypeOK'
    BY <1>2, <2>1 DEF Seal
  <2>3. RoundTripInv'
    BY <1>2 DEF Seal
  <2> QED
    BY <2>2, <2>3
<1>3. CASE DecryptTakesKey(u)
  BY <1>3 DEF DecryptTakesKey
<1>4. CASE Open(u)
  BY <1>4 DEF Open
<1>5. CASE AskAgain(u)
  BY <1>5 DEF AskAgain, NoBox
<1> QED
  BY <1>1, <1>2, <1>3, <1>4, <1>5

(* A rotation reaches every round trip that is under way.                   *)
LEMMA RotationKeeps ==
    ASSUME CipherInv, NEW key \in Keys, NEW long \in BOOLEAN, RotateKey(key, long)
    PROVE  CipherInv'
BY DEF RotateKey, CipherInv, CipherTypeOK, RoundTripInv

(* The inductive invariant holds in every reachable state.                  *)
THEOREM CipherInvariance == CipherSpec => []CipherInv
<1>1. CipherInit => CipherInv
  BY DEF CipherInit, CipherInv, CipherTypeOK, RoundTripInv
<1>2. CipherInv /\ UNCHANGED cipherVars => CipherInv'
  BY DEF cipherVars, CipherInv, CipherTypeOK, RoundTripInv
<1>3. CipherInv /\ [CipherNext]_cipherVars => CipherInv'
  BY <1>2, SessionKeeps, RotationKeeps DEF CipherNext
<1> QED
  BY <1>1, <1>3, PTL DEF CipherSpec

(* The service and its callers stay within their types.                     *)
THEOREM CipherTypeCorrect == CipherSpec => []CipherTypeOK
<1>1. CipherInv => CipherTypeOK
  BY DEF CipherInv
<1> QED
  BY <1>1, CipherInvariance, PTL

(* However many users encrypt and decrypt while keys are rotated, a text    *)
(* comes back as it was, or not at all and then because of a rotation.      *)
THEOREM RoundTripsHold == CipherSpec => []RoundTripUnlessRotated
<1>1. CipherInv => RoundTripUnlessRotated
  BY DEF CipherInv, RoundTripInv, RoundTripUnlessRotated
<1> QED
  BY <1>1, CipherInvariance, PTL
-----------------------------------------------------------------------------
\* The cache.  An answer is recorded as possible at the very moments the call
\* is under way, and a sweep works with a moment that has passed.

\* Every Get that is told has an answer that was right at a moment of the call,
\* an item about to be stored is one, and a sweep's clock is in the past.
CacheInv ==
    /\ now \in Nat
    /\ getter \in [Getters -> {"idle", "locked", "expired", "told"}]
    /\ setter \in [Setters -> {"idle", "timed", "stored"}]
    /\ got \in [Getters -> Answers] /\ could \in [Getters -> SUBSET Answers]
    /\ item \in [value : Setters, expiration : Nat] \cup {NoItem}
    /\ \A s \in Setters : setter[s] = "timed" =>
          fresh[s] \in [value : Setters, expiration : Nat]
    /\ fresh \in [Setters -> [value : Setters, expiration : Nat] \cup {NoItem}]
    /\ sweep \in Int /\ sweep <= now
    /\ GetsAreRight

(* An item, or none, gives an answer.                                       *)
LEMMA ItemFacts ==
    ASSUME NEW it \in [value : Setters, expiration : Nat] \cup {NoItem}, NEW t
    PROVE  it.expiration \in Int /\ RightAnswer(it, t) \in Answers
<1>1. NoItem.expiration = -1 /\ NoItem.value = "none"
  BY DEF NoItem
<1> QED
  BY <1>1 DEF RightAnswer, Answers

\* Gets that are under way, or not, and not told.
LEMMA GettersKept ==
    ASSUME CacheInv, Remember, got' = got,
           item' \in [value : Setters, expiration : Nat] \cup {NoItem},
           getter' \in [Getters -> {"idle", "locked", "expired", "told"}],
           \A g \in Getters : getter'[g] = "told" => getter[g] = "told"
    PROVE  could' \in [Getters -> SUBSET Answers] /\ GetsAreRight'
<1>1. RightAnswer(item, now) \in Answers /\ RightAnswer(item', now') \in Answers
  BY ItemFacts DEF CacheInv
<1>2. could' \in [Getters -> SUBSET Answers]
  BY <1>1 DEF CacheInv, Remember
<1>3. GetsAreRight'
  BY DEF CacheInv, Remember, GetsAreRight
<1> QED
  BY <1>2, <1>3

(* The steps of the cache, which keep the invariant and take only what has  *)
(* expired or is deleted.                                                   *)
LEMMA CacheStepKeeps ==
    ASSUME CacheInv, [CacheNext]_cacheVars
    PROVE  CacheInv' /\ TakesOnlyExpired
<1> USE CacheAssumption DEF CacheInv
<1>0. item.expiration \in Int
  BY ItemFacts
<1>1. CASE CacheTick
  <2>1. now' \in Nat /\ now' = now + 1 /\ UNCHANGED <<item, getter, got, setter, fresh, sweep>> /\ Remember
    BY <1>1 DEF CacheTick, Times
  <2>2. could' \in [Getters -> SUBSET Answers] /\ GetsAreRight'
    BY <2>1, GettersKept
  <2> QED
    BY <2>1, <2>2 DEF TakesOnlyExpired
<1>2. ASSUME NEW g \in Getters, CallGet(g) \/ GetSeesExpired(g) PROVE CacheInv' /\ TakesOnlyExpired
  <2>1. /\ getter' = [getter EXCEPT ![g] = "locked"] \/ getter' = [getter EXCEPT ![g] = "expired"]
        /\ UNCHANGED <<now, item, got, setter, fresh, sweep>> /\ Remember
    BY <1>2 DEF CallGet, GetSeesExpired, GetterGoes
  <2>2. could' \in [Getters -> SUBSET Answers] /\ GetsAreRight'
    BY <2>1, GettersKept
  <2> QED
    BY <2>1, <2>2 DEF TakesOnlyExpired
<1>3. ASSUME NEW g \in Getters, GetReads(g) \/ GetVerifies(g) PROVE CacheInv' /\ TakesOnlyExpired
  <2> DEFINE right == RightAnswer(item, now)
  <2>1. /\ getter' = [getter EXCEPT ![g] = "told"] /\ got' = [got EXCEPT ![g] = right]
        /\ could' = [could EXCEPT ![g] = could[g] \cup {right}]
        /\ UNCHANGED <<now, setter, fresh, sweep>>
        /\ item' = item \/ (item' = NoItem /\ Expires(item, now))
    BY <1>3 DEF GetReads, GetVerifies, GetterGoes, Tells, RightAnswer
  <2>2. right \in Answers
    BY ItemFacts
  <2> HIDE DEF right
  <2>3. GetsAreRight'
    BY <2>1, <2>2 DEF GetsAreRight
  <2> QED
    BY <2>1, <2>2, <2>3 DEF TakesOnlyExpired
<1>4. ASSUME NEW g \in Getters, GetReturns(g) PROVE CacheInv' /\ TakesOnlyExpired
  <2>1. /\ getter' = [getter EXCEPT ![g] = "idle"] /\ got' = [got EXCEPT ![g] = "none"]
        /\ could' = [could EXCEPT ![g] = {}]
        /\ UNCHANGED <<now, item, setter, fresh, sweep>>
    BY <1>4 DEF GetReturns, GetterGoes
  <2> QED
    BY <2>1 DEF GetsAreRight, Answers, TakesOnlyExpired
<1>5. ASSUME NEW s \in Setters, NEW ttl \in 0..MaxTTL, CallSet(s, ttl)
      PROVE  CacheInv' /\ TakesOnlyExpired
  <2> DEFINE it == [value |-> s, expiration |-> IF ttl > 0 THEN now + ttl ELSE Forever]
  <2>1. /\ setter' = [setter EXCEPT ![s] = "timed"] /\ fresh' = [fresh EXCEPT ![s] = it]
        /\ UNCHANGED <<now, item, getter, got, sweep>> /\ Remember
    BY <1>5 DEF CallSet, SetterGoes
  <2>2. it \in [value : Setters, expiration : Nat]
    BY DEF Forever
  <2> HIDE DEF it
  <2>3. could' \in [Getters -> SUBSET Answers] /\ GetsAreRight'
    BY <2>1, GettersKept
  <2> QED
    BY <2>1, <2>2, <2>3 DEF TakesOnlyExpired
<1>6. ASSUME NEW s \in Setters, SetStores(s) PROVE CacheInv' /\ TakesOnlyExpired
  <2>1. /\ setter[s] = "timed" /\ setter' = [setter EXCEPT ![s] = "stored"] /\ item' = fresh[s]
        /\ UNCHANGED <<now, getter, got, fresh, sweep>> /\ Remember
    BY <1>6 DEF SetStores, SetterGoes
  <2>2. item' \in [value : Setters, expiration : Nat]
    BY <2>1
  <2>3. item' # NoItem
    <3>1. NoItem.expiration = -1
      BY DEF NoItem
    <3> QED
      BY <2>2, <3>1
  <2>4. could' \in [Getters -> SUBSET Answers] /\ GetsAreRight'
    BY <2>1, <2>2, GettersKept
  <2> QED
    BY <2>1, <2>2, <2>3, <2>4 DEF TakesOnlyExpired
<1>7. CASE DeleteItem
  <2>1. item' = NoItem /\ UNCHANGED <<now, getter, got, setter, fresh, sweep>> /\ Remember
    BY <1>7 DEF DeleteItem
  <2>2. could' \in [Getters -> SUBSET Answers] /\ GetsAreRight'
    BY <2>1, GettersKept
  <2> QED
    BY <1>7, <2>1, <2>2 DEF TakesOnlyExpired
<1>8. CASE CleanupBegins
  <2>1. sweep' = now /\ UNCHANGED <<now, item, getter, got, setter, fresh>> /\ Remember
    BY <1>8 DEF CleanupBegins
  <2>2. could' \in [Getters -> SUBSET Answers] /\ GetsAreRight'
    BY <2>1, GettersKept
  <2> QED
    BY <2>1, <2>2 DEF TakesOnlyExpired
<1>9. CASE Cleanup
  <2>1. /\ sweep' = -1 /\ UNCHANGED <<now, getter, got, setter, fresh>> /\ Remember
        /\ item' = item \/ (item' = NoItem /\ Expires(item, sweep))
    BY <1>9 DEF Cleanup
  <2>2. could' \in [Getters -> SUBSET Answers] /\ GetsAreRight'
    BY <2>1, GettersKept
  <2>3. Expires(item, sweep) => Expires(item, now)
    BY <1>0 DEF Expires
  <2> QED
    BY <2>1, <2>2, <2>3 DEF TakesOnlyExpired
<1>10. CASE UNCHANGED cacheVars
  <2>1. UNCHANGED <<now, item, getter, got, setter, fresh, sweep, could>>
    BY <1>10 DEF cacheVars
  <2> QED
    BY <2>1 DEF GetsAreRight, TakesOnlyExpired
<1> QED
  BY <1>1, <1>2, <1>3, <1>4, <1>5, <1>6, <1>7, <1>8, <1>9, <1>10 DEF CacheNext

(* The inductive invariant of the cache.                                    *)
THEOREM CacheInvariance == CacheSpec => []CacheInv
<1>1. CacheInit => CacheInv
  BY DEF CacheInit, CacheInv, GetsAreRight, Answers
<1>2. CacheInv /\ [CacheNext]_cacheVars => CacheInv'
  BY CacheStepKeeps
<1> QED
  BY <1>1, <1>2, PTL DEF CacheSpec

(* However Get, Set, Delete and Cleanup interleave: a Get answers what was  *)
(* right at a moment of the call, and nothing but Delete takes an item away *)
(* that has not expired.                                                    *)
THEOREM CacheAnswersRight == CacheSpec => FreshItemsStay
<1>1. CacheInv => GetsAreRight
  BY DEF CacheInv
<1>2. CacheInv /\ [CacheNext]_cacheVars => [TakesOnlyExpired]_cacheVars
  BY CacheStepKeeps
<1> QED
  BY <1>1, <1>2, CacheInvariance, PTL DEF CacheSpec, FreshItemsStay
-----------------------------------------------------------------------------
\* The handlers of the services.  Each goes through its plan step by step, so
\* the argument is about where in its plan a client can be: before the end it
\* has changed nothing, and what it updates it has found the step before.

Choosing == {"tenantDB", "connection"}
Updating == {"fields", "update"}
Writing  == {"insert", "update", "updateOne", "upsert", "delete", "deleteAnyway", "deleteOrOutage"}

\* What the proof needs of a plan: it has steps, ends with a step that reaches
\* the database, writes at its end only, resolves a connection once, and updates
\* an order it has found, after a look at the fields.
WellPlanned(s, p) ==
    /\ Len(p) \in Nat \ {0}
    /\ \A i \in 1..Len(p) :
        /\ p[i] \in Writing => i = Len(p)
        /\ p[i] \in {"parse", "bind", "fields"} \cup Choosing => i < Len(p)
        /\ \A j \in 1..Len(p) : p[i] \in Choosing /\ p[j] \in Choosing => i = j
        /\ s = "orders" /\ p[i] = "update" => i > 1 /\ p[i - 1] = "fields"
        /\ p[i] = "fields" => i > 1 /\ p[i - 1] = "first"
        /\ s = "products" => p[i] # "update"
        /\ s \in {"orders", "products"} => p[i] \notin {"deleteAnyway", "deleteOrOutage"}
        /\ s # "dashboards" => p[i] # "upsert"
    /\ p \in {DeleteOrder, DeleteProduct} => p[Len(p)] = "delete"
    /\ p = UpdateProduct => p[Len(p)] = "updateOne"

(* Each plan is such a one.                                                 *)
LEMMA PlansAreWell ==
    ASSUME NEW s \in Services, NEW p \in Plans(s)
    PROVE  WellPlanned(s, p)
<1> USE DEF WellPlanned, Choosing, Writing, DeleteOrder, DeleteProduct, UpdateProduct
<1>1. CASE s = "orders"
  <2> USE <1>1
  <2>1. CASE p = ListOrders BY <2>1 DEF ListOrders
  <2>2. CASE p = CreateOrder BY <2>2 DEF CreateOrder
  <2>3. CASE p = GetOrder BY <2>3 DEF GetOrder
  <2>4. CASE p = UpdateOrder BY <2>4 DEF UpdateOrder
  <2>5. CASE p = DeleteOrder BY <2>5 DEF DeleteOrder
  <2> QED
    BY <2>1, <2>2, <2>3, <2>4, <2>5 DEF Plans
<1>2. CASE s = "products"
  <2> USE <1>2
  <2>1. CASE p = ListProductsByTenant BY <2>1 DEF ListProductsByTenant
  <2>2. CASE p = CreateProduct BY <2>2 DEF CreateProduct
  <2>3. CASE p = GetProductByTenant BY <2>3 DEF GetProductByTenant
  <2>4. CASE p = UpdateProduct BY <2>4 DEF UpdateProduct
  <2>5. CASE p = DeleteProduct BY <2>5 DEF DeleteProduct
  <2>6. CASE p = SearchProducts BY <2>6 DEF SearchProducts
  <2>7. CASE p = GetProductAnalytics BY <2>7 DEF GetProductAnalytics
  <2> QED
    BY <2>1, <2>2, <2>3, <2>4, <2>5, <2>6, <2>7 DEF Plans
<1>3. CASE s = "tasks"
  <2> USE <1>3
  <2>1. CASE p = ListTasks BY <2>1 DEF ListTasks
  <2>2. CASE p = CreateTask BY <2>2 DEF CreateTask
  <2>3. CASE p = UpdateTask BY <2>3 DEF UpdateTask
  <2>4. CASE p = DeleteTask BY <2>4 DEF DeleteTask
  <2> QED
    BY <2>1, <2>2, <2>3, <2>4 DEF Plans
<1>4. CASE s = "dashboards"
  <2> USE <1>4
  <2>1. CASE p = PostDashboard BY <2>1 DEF PostDashboard
  <2>2. CASE p = PutDashboard BY <2>2 DEF PutDashboard
  <2>3. CASE p = ShowDashboard BY <2>3 DEF ShowDashboard
  <2>4. CASE p = DropDashboard BY <2>4 DEF DropDashboard
  <2>5. CASE p = ListDashboardsHandler BY <2>5 DEF ListDashboardsHandler
  <2>6. CASE p = PostDataSource BY <2>6 DEF PostDataSource
  <2>7. CASE p = PostAnnotation BY <2>7 DEF PostAnnotation
  <2>8. CASE p = ShowHealth BY <2>8 DEF ShowHealth
  <2> QED
    BY <2>1, <2>2, <2>3, <2>4, <2>5, <2>6, <2>7, <2>8 DEF Plans
<1> QED
  BY <1>1, <1>2, <1>3, <1>4 DEF Services

\* How far a client is.  Until its handler ends it has done nothing, and has
\* answered only if tenantDB did; the connection is resolved by a step to come,
\* by one that is behind it, or by none.
Progress(c) ==
    /\ step[c] = 0 => conn[c] = "unset" /\ answers[c] = <<>> /\ effect[c] = "none"
    /\ step[c] > 0 => WellPlanned(service, ask[c].plan)
    /\ step[c] > 0 /\ ~ Ended(c) =>
          /\ ask[c].id \in Rows /\ ask[c].tenant \in Tenants
          /\ effect[c] = "none"
          /\ conn[c] = "nil" \/ answers[c] = <<>>
          /\ conn[c] # "unset" =>
                \A i \in step[c]..Len(ask[c].plan) : ask[c].plan[i] \notin Choosing
    /\ step[c] > 0 /\ Ended(c) /\ ~ RefusedByTenantDB(c) =>
          /\ Len(answers[c]) = 1
          /\ Said(c) = 201 => effect[c] = "created"
          /\ Said(c) \in {400, 404, 503} => effect[c] = "none"
          /\ Said(c) = 200 /\ ask[c].plan \in {DeleteOrder, DeleteProduct} => effect[c] = "deleted"
          /\ Said(c) = 200 /\ ask[c].plan = UpdateProduct => effect[c] = "updated"

\* Whoever is about to update an order has found it, and its row is the
\* tenant's as long as there is one, since no id is given out twice.
FoundItsOwn(c) ==
    service = "orders" /\ At(c, Updating) =>
        ask[c].id \in issued /\ table[ask[c].id] \in {Absent, ask[c].tenant}

IssuedIds == service # "dashboards" => \A r \in Rows : r \notin issued => table[r] = Absent

\* Each client has its own of everything.
Apart ==
    /\ step \in [Clients -> Nat] /\ conn \in [Clients -> {"unset", "nil", "open"}]
    /\ answers \in [Clients -> Seq(Nat)]
    /\ DOMAIN ask = Clients /\ DOMAIN effect = Clients

HandlersInv ==
    /\ service \in Services /\ Apart
    /\ table \in [Rows -> Tenants \cup {Absent}] /\ foreign \in BOOLEAN
    /\ IssuedIds /\ TenantsApart
    /\ \A c \in Clients : Progress(c) /\ FoundItsOwn(c)

Same(d) ==
    /\ ask'[d] = ask[d] /\ step'[d] = step[d] /\ conn'[d] = conn[d]
    /\ answers'[d] = answers[d] /\ effect'[d] = effect[d]

(* Who does not move is as far as before.                                   *)
LEMMA ProgressStays ==
    ASSUME NEW d \in Clients, Same(d), service' = service, Progress(d)
    PROVE  Progress(d)'
BY DEF Same, Progress, Ended, RefusedByTenantDB, Said

(* An order that was found stays found or goes.                             *)
LEMMA FoundStays ==
    ASSUME NEW d \in Clients, Same(d), service' = service, Progress(d), FoundItsOwn(d),
           issued \subseteq issued',
           service = "orders" => \A r \in issued \cap Rows : table'[r] \in {table[r], Absent}
    PROVE  FoundItsOwn(d)'
BY DEF Same, Progress, FoundItsOwn, At, Ended

(* A step that goes on to the next.                                         *)
LEMMA GoesOn ==
    ASSUME HandlersInv, NEW c \in Clients, step[c] > 0, step[c] < Len(ask[c].plan),
           GoOn(c), UNCHANGED <<service, ask, conn, effect>>
    PROVE  Progress(c)'
<1>1. Len(ask[c].plan) \in Nat /\ step[c] \in Nat
  BY DEF HandlersInv, Apart, Progress, WellPlanned
<1>2. step'[c] = step[c] + 1 /\ answers' = answers
  BY DEF GoOn, HandlersInv, Apart
<1>3. ~ Ended(c) /\ ~ Ended(c)'
  BY <1>1, <1>2 DEF Ended
<1> QED
  BY <1>1, <1>2, <1>3 DEF Progress, HandlersInv, Apart

(* A step that answers, and with what.                                      *)
LEMMA AnswerGiven ==
    ASSUME HandlersInv, NEW c \in Clients, step[c] > 0, ~ Ended(c), NEW s \in Nat,
           Answer(c, s), UNCHANGED <<service, ask, conn>>,
           s = 201 => effect'[c] = "created",
           s \in {400, 404, 503} => effect'[c] = "none",
           s = 200 /\ ask[c].plan \in {DeleteOrder, DeleteProduct} => effect'[c] = "deleted",
           s = 200 /\ ask[c].plan = UpdateProduct => effect'[c] = "updated"
    PROVE  Progress(c)' /\ ~ At(c, Updating)'
<1>1. Len(ask[c].plan) \in Nat /\ step[c] \in Nat
  BY DEF HandlersInv, Apart, Progress, WellPlanned
<1>2. step'[c] = Len(ask[c].plan) + 1 /\ answers'[c] = Append(answers[c], s)
  <2>1. step \in [Clients -> Nat] /\ answers \in [Clients -> Seq(Nat)]
    BY DEF HandlersInv, Apart
  <2> QED
    BY <2>1 DEF Answer
<1>3. Ended(c)' /\ step'[c] > 0
  <2>1. ask' = ask /\ Len(ask'[c].plan) = Len(ask[c].plan)
    OBVIOUS
  <2>2. step'[c] > Len(ask'[c].plan) /\ step'[c] > 0
    BY <1>1, <1>2, <2>1
  <2> QED
    BY <2>2 DEF Ended
<1>4. conn[c] = "nil" \/ answers[c] = <<>>
  BY DEF HandlersInv, Progress
<1>5. answers[c] = <<>> => Len(answers'[c]) = 1 /\ Said(c)' = s
  BY <1>2 DEF Said
<1>6. WellPlanned(service, ask[c].plan)
  BY DEF HandlersInv, Progress
<1> QED
  BY <1>1, <1>2, <1>3, <1>4, <1>5, <1>6 DEF Progress, RefusedByTenantDB, At

(* One client moves: what is left to show is that it moves rightly and does *)
(* the table no harm.                                                       *)
LEMMA OneMoves ==
    ASSUME HandlersInv, NEW c \in Clients,
           \A d \in Clients \ {c} : Same(d), Apart', service' = service,
           Progress(c)', FoundItsOwn(c)',
           table' \in [Rows -> Tenants \cup {Absent}], foreign' \in BOOLEAN,
           IssuedIds', TenantsApart', issued \subseteq issued',
           service = "orders" => \A r \in issued \cap Rows : table'[r] \in {table[r], Absent}
    PROVE  HandlersInv'
<1>1. ASSUME NEW d \in Clients \ {c} PROVE Progress(d)' /\ FoundItsOwn(d)'
  BY <1>1, ProgressStays, FoundStays DEF HandlersInv
<1> QED
  BY <1>1 DEF HandlersInv

(* One client moves and leaves the table as it is.                          *)
LEMMA TableUntouched ==
    ASSUME HandlersInv, NEW c \in Clients,
           \A d \in Clients \ {c} : Same(d), Apart',
           UNCHANGED <<service, shared, table, issued, foreign>>,
           Progress(c)', FoundItsOwn(c)'
    PROVE  HandlersInv'
<1>1. IssuedIds' /\ TenantsApart'
  BY DEF HandlersInv, IssuedIds, TenantsApart
<1> QED
  BY <1>1, OneMoves DEF HandlersInv

(* A step that goes on or answers is its client's alone.                    *)
LEMMA OwnStep ==
    ASSUME HandlersInv, NEW c \in Clients, step[c] > 0, UNCHANGED <<ask, conn>>,
           GoOn(c) \/ (\E s \in Nat : Answer(c, s)),
           effect' = effect \/ \E w : effect' = [effect EXCEPT ![c] = w]
    PROVE  (\A d \in Clients \ {c} : Same(d)) /\ Apart'
<1>1. Len(ask[c].plan) \in Nat
  BY DEF HandlersInv, Progress, WellPlanned
<1>2. CASE GoOn(c)
  BY <1>2 DEF HandlersInv, Apart, GoOn, Same
<1>3. ASSUME NEW s \in Nat, Answer(c, s) PROVE (\A d \in Clients \ {c} : Same(d)) /\ Apart'
  <2>1. answers[c] \in Seq(Nat) /\ Append(answers[c], s) \in Seq(Nat)
    BY DEF HandlersInv, Apart
  <2> QED
    BY <1>1, <1>3, <2>1 DEF HandlersInv, Apart, Answer, Same
<1> QED
  BY <1>2, <1>3

(* The steps before the database.                                           *)
LEMMA PreparationKeeps ==
    ASSUME HandlersInv, NEW c \in Clients, CheckParameters(c) \/ Bind(c)
    PROVE  HandlersInv'
<1>1. /\ step[c] > 0 /\ ~ Ended(c) /\ ask[c].plan[step[c]] \in {"parse", "bind", "fields"}
      /\ GoOn(c) \/ Answer(c, 400)
      /\ UNCHANGED <<service, shared, table, issued, ask, conn, effect, foreign>>
  BY DEF CheckParameters, Bind, At
<1>2. /\ WellPlanned(service, ask[c].plan) /\ effect[c] = "none"
      /\ Len(ask[c].plan) \in Nat /\ step[c] \in 1..Len(ask[c].plan)
      /\ step[c] < Len(ask[c].plan)
  <2>1. WellPlanned(service, ask[c].plan) /\ effect[c] = "none" /\ step[c] \in Nat
    BY <1>1 DEF HandlersInv, Apart, Progress
  <2> QED
    BY <1>1, <2>1 DEF WellPlanned, Ended
<1>3. (\A d \in Clients \ {c} : Same(d)) /\ Apart'
  BY <1>1, OwnStep
<1>4. CASE Answer(c, 400)
  BY <1>1, <1>2, <1>3, <1>4, AnswerGiven, TableUntouched DEF FoundItsOwn
<1>5. CASE GoOn(c)
  <2>1. Progress(c)'
    BY <1>1, <1>2, <1>5, GoesOn
  <2>2. step'[c] = step[c] + 1
    BY <1>5 DEF GoOn, HandlersInv, Apart
  <2>3. service = "orders" /\ ask[c].plan[step[c] + 1] \in Updating
            => ask[c].plan[step[c]] = "fields"
    BY <1>1, <1>2, SMTT(30) DEF WellPlanned, Updating
  <2>4. FoundItsOwn(c)'
    <3>1. FoundItsOwn(c)
      BY DEF HandlersInv
    <3> QED
      BY <1>1, <2>2, <2>3, <3>1 DEF FoundItsOwn, At, Updating
  <2> QED
    BY <1>1, <1>3, <2>1, <2>4, TableUntouched
<1> QED
  BY <1>1, <1>4, <1>5

(* The connection is resolved.                                              *)
LEMMA ResolvingKeeps ==
    ASSUME HandlersInv, NEW c \in Clients, ResolveConnection(c) \/ ResolveTenantDB(c)
    PROVE  HandlersInv'
<1>1. /\ step[c] > 0 /\ ~ Ended(c) /\ ask[c].plan[step[c]] \in Choosing
      /\ UNCHANGED <<service, shared, table, issued, ask, effect, foreign>>
  BY DEF ResolveConnection, ResolveTenantDB, At, Choosing
<1>2. /\ WellPlanned(service, ask[c].plan) /\ effect[c] = "none"
      /\ Len(ask[c].plan) \in Nat /\ step[c] \in 1..Len(ask[c].plan)
      /\ step[c] < Len(ask[c].plan)
      /\ conn[c] = "unset" /\ answers[c] = <<>>
  <2>1. /\ WellPlanned(service, ask[c].plan) /\ effect[c] = "none" /\ step[c] \in Nat
        /\ conn[c] = "unset" /\ answers[c] = <<>>
    <3>1. /\ conn[c] # "unset" =>
                \A i \in step[c]..Len(ask[c].plan) : ask[c].plan[i] \notin Choosing
          /\ conn[c] = "nil" \/ answers[c] = <<>>
          /\ WellPlanned(service, ask[c].plan) /\ effect[c] = "none" /\ step[c] \in Nat
      BY <1>1 DEF HandlersInv, Apart, Progress
    <3>2. step[c] \in step[c]..Len(ask[c].plan)
      BY <1>1, <3>1 DEF Ended, WellPlanned
    <3> QED
      BY <1>1, <3>1, <3>2
  <2> QED
    BY <1>1, <2>1 DEF WellPlanned, Ended, Choosing
<1>3. \A i \in (step[c] + 1)..Len(ask[c].plan) : ask[c].plan[i] \notin Choosing
  BY <1>1, <1>2 DEF WellPlanned
<1>4. service = "orders" => ask[c].plan[step[c] + 1] \notin Updating
  <2>1. step[c] + 1 \in 1..Len(ask[c].plan) /\ (step[c] + 1) - 1 = step[c]
    BY <1>2
  <2>2. ask[c].plan[step[c]] \notin {"first", "fields"}
    BY <1>1 DEF Choosing
  <2> QED
    BY <1>2, <2>1, <2>2 DEF WellPlanned, Updating
<1>5. CASE ResolveConnection(c) /\ Answer(c, 404) /\ UNCHANGED conn
  BY <1>1, <1>2, <1>5, OwnStep, AnswerGiven, TableUntouched DEF FoundItsOwn
<1>6. CASE \/ /\ GoOn(c) /\ conn' = [conn EXCEPT ![c] = "open"]
           \/ /\ step' = [step EXCEPT ![c] = @ + 1]
              /\ conn' = [conn EXCEPT ![c] = "open"] /\ UNCHANGED answers
           \/ /\ step' = [step EXCEPT ![c] = @ + 1]
              /\ conn' = [conn EXCEPT ![c] = "nil"]
              /\ \E s \in {404, 503} : answers' = [answers EXCEPT ![c] = Append(@, s)]
  <2>1. /\ step' = [step EXCEPT ![c] = step[c] + 1]
        /\ \E k \in {"open", "nil"} : conn' = [conn EXCEPT ![c] = k]
        /\ conn'[c] = "nil" \/ answers'[c] = <<>>
    BY <1>2, <1>6 DEF GoOn, HandlersInv, Apart
  <2>5. answers' \in [Clients -> Seq(Nat)] /\ \A d \in Clients \ {c} : answers'[d] = answers[d]
    <3>1. ASSUME NEW s \in {404, 503}, answers' = [answers EXCEPT ![c] = Append(@, s)]
          PROVE  /\ answers' \in [Clients -> Seq(Nat)]
                 /\ \A d \in Clients \ {c} : answers'[d] = answers[d]
      <4>1. answers[c] \in Seq(Nat) /\ Append(answers[c], s) \in Seq(Nat)
        BY DEF HandlersInv, Apart
      <4> QED
        BY <3>1, <4>1 DEF HandlersInv, Apart
    <3> QED
      BY <1>6, <3>1 DEF GoOn, HandlersInv, Apart
  <2>2. (\A d \in Clients \ {c} : Same(d)) /\ Apart'
    <3>1. /\ step' \in [Clients -> Nat] /\ conn' \in [Clients -> {"unset", "nil", "open"}]
          /\ \A d \in Clients \ {c} : step'[d] = step[d] /\ conn'[d] = conn[d]
      BY <2>1 DEF HandlersInv, Apart
    <3> QED
      BY <1>1, <2>5, <3>1 DEF HandlersInv, Apart, Same
  <2>3. Progress(c)'
    <3>1. step'[c] = step[c] + 1 /\ ~ Ended(c)'
      BY <1>1, <1>2, <2>1 DEF HandlersInv, Apart, Ended
    <3> QED
      BY <1>1, <1>2, <1>3, <2>1, <3>1 DEF HandlersInv, Progress
  <2>4. FoundItsOwn(c)'
    BY <1>1, <1>4, <2>1 DEF HandlersInv, Apart, FoundItsOwn, At
  <2> QED
    BY <1>1, <2>2, <2>3, <2>4, TableUntouched
<1> QED
  BY <1>5, <1>6 DEF ResolveConnection, ResolveTenantDB

(* What every step at the database finds: its plan, nothing done, and       *)
(* nothing answered unless the connection is missing.                       *)
LEMMA AtDatabase ==
    ASSUME HandlersInv, NEW c \in Clients, NEW names \in SUBSET DBSteps, At(c, names)
    PROVE  /\ step[c] > 0 /\ ~ Ended(c) /\ ask[c].plan[step[c]] \in names
           /\ WellPlanned(service, ask[c].plan)
           /\ Len(ask[c].plan) \in Nat /\ step[c] \in 1..Len(ask[c].plan)
           /\ ask[c].id \in Rows /\ ask[c].tenant \in Tenants
           /\ effect[c] = "none"
<1>1. step[c] > 0 /\ ~ Ended(c) /\ ask[c].plan[step[c]] \in names
  BY DEF At
<1>2. /\ WellPlanned(service, ask[c].plan) /\ effect[c] = "none" /\ step[c] \in Nat
      /\ ask[c].id \in Rows /\ ask[c].tenant \in Tenants
  BY <1>1 DEF HandlersInv, Apart, Progress
<1>3. Len(ask[c].plan) \in Nat
  BY <1>2 DEF WellPlanned
<1> QED
  BY <1>1, <1>2, <1>3 DEF Ended

(* The missing connection, and the database that fails.                     *)
LEMMA FailureKeeps ==
    ASSUME HandlersInv, NEW c \in Clients, UseNil(c) \/ FailDB(c)
    PROVE  HandlersInv'
<1>1. At(c, DBSteps) /\ UNCHANGED <<service, shared, table, issued, ask, conn, foreign>>
  BY DEF UseNil, FailDB
<1>2. /\ step[c] > 0 /\ ~ Ended(c) /\ WellPlanned(service, ask[c].plan)
      /\ Len(ask[c].plan) \in Nat /\ step[c] \in 1..Len(ask[c].plan)
      /\ effect[c] = "none"
  BY <1>1, AtDatabase
<1>3. CASE FailDB(c)
  <2>1. PICK s \in {404, 503, 500} : Answer(c, s)
    BY <1>3 DEF FailDB
  <2>2. effect' = effect
    BY <1>3 DEF FailDB
  <2> QED
    BY <1>1, <1>2, <2>1, <2>2, OwnStep, AnswerGiven, TableUntouched DEF FoundItsOwn
<1>4. CASE UseNil(c)
  <2>1. /\ conn[c] = "nil" /\ answers' = answers
        /\ step' = [step EXCEPT ![c] = Len(ask[c].plan) + 1]
        /\ effect' = [effect EXCEPT ![c] = "panicked"]
    BY <1>4 DEF UseNil, Connected
  <2>2. (\A d \in Clients \ {c} : Same(d)) /\ Apart'
    BY <1>1, <1>2, <2>1 DEF HandlersInv, Apart, Same
  <2>3. Ended(c)' /\ step'[c] > 0
    BY <1>1, <1>2, <2>1 DEF HandlersInv, Apart, Ended
  <2>4. Progress(c)' /\ FoundItsOwn(c)'
    BY <1>1, <1>2, <2>1, <2>3 DEF Progress, RefusedByTenantDB, FoundItsOwn, At
  <2> QED
    BY <1>1, <2>2, <2>4, TableUntouched
<1> QED
  BY <1>3, <1>4

Reading == {"count", "find", "ping", "first", "firstOrOutage"}

(* A step that has read goes on, or ends its handler with a 200.            *)
LEMMA Proceeds ==
    ASSUME HandlersInv, NEW c \in Clients, At(c, Reading), Proceed(c),
           UNCHANGED <<service, ask, conn, effect>>
    PROVE  /\ Progress(c)' /\ (\A d \in Clients \ {c} : Same(d)) /\ Apart'
           /\ At(c, Updating)' => GoOn(c) /\ step[c] < Len(ask[c].plan)
<1>1. At(c, DBSteps) /\ ask[c].plan[step[c]] \in Reading
  BY DEF At, DBSteps, Reading
<1>2. /\ step[c] > 0 /\ ~ Ended(c) /\ WellPlanned(service, ask[c].plan)
      /\ Len(ask[c].plan) \in Nat /\ step[c] \in 1..Len(ask[c].plan)
      /\ effect[c] = "none"
  BY <1>1, AtDatabase
<1>3. CASE step[c] = Len(ask[c].plan)
  <2>1. Answer(c, 200)
    BY <1>1, <1>3 DEF Proceed, Success, At, Reading
  <2>2. ask[c].plan \notin {DeleteOrder, DeleteProduct, UpdateProduct}
    BY <1>1, <1>2, <1>3 DEF WellPlanned, Reading
  <2> QED
    BY <1>2, <2>1, <2>2, AnswerGiven, OwnStep
<1>4. CASE step[c] # Len(ask[c].plan)
  <2>1. GoOn(c) /\ step[c] < Len(ask[c].plan)
    BY <1>2, <1>4 DEF Proceed
  <2> QED
    BY <1>2, <2>1, GoesOn, OwnStep
<1> QED
  BY <1>3, <1>4

(* The steps that read.  An order that First finds is one of its tenant.    *)
LEMMA ReadingKeeps ==
    ASSUME HandlersInv, NEW c \in Clients, ReadRows(c) \/ ReadRow(c)
    PROVE  HandlersInv'
<1>1. At(c, Reading) /\ UNCHANGED <<service, shared, table, issued, ask, conn, effect, foreign>>
  BY DEF ReadRows, ReadRow, At, Reading
<1>2. /\ At(c, DBSteps) /\ ask[c].plan[step[c]] \in Reading
      /\ step[c] > 0 /\ ~ Ended(c) /\ WellPlanned(service, ask[c].plan)
      /\ Len(ask[c].plan) \in Nat /\ step[c] \in 1..Len(ask[c].plan)
      /\ ask[c].id \in Rows /\ ask[c].tenant \in Tenants /\ effect[c] = "none"
  <2>1. At(c, DBSteps) /\ ask[c].plan[step[c]] \in Reading
    BY <1>1 DEF At, DBSteps, Reading
  <2> QED
    BY <2>1, AtDatabase
<1>3. CASE ReadRow(c) /\ Answer(c, 404)
  BY <1>1, <1>2, <1>3, OwnStep, AnswerGiven, TableUntouched DEF FoundItsOwn
<1>4. CASE Proceed(c) /\ (ask[c].plan[step[c]] = "first" => Visible(c, ask[c].id))
  <2>1. /\ Progress(c)' /\ (\A d \in Clients \ {c} : Same(d)) /\ Apart'
        /\ At(c, Updating)' => GoOn(c) /\ step[c] < Len(ask[c].plan)
    BY <1>1, <1>4, Proceeds
  <2>2. FoundItsOwn(c)'
    <3> SUFFICES ASSUME service = "orders", At(c, Updating)'
                 PROVE  ask[c].id \in issued /\ table[ask[c].id] \in {Absent, ask[c].tenant}
      BY <1>1 DEF FoundItsOwn
    <3>1. /\ step'[c] = step[c] + 1 /\ ask[c].plan[step[c] + 1] \in Updating
      BY <1>1, <2>1 DEF GoOn, HandlersInv, Apart, At
    <3>2. step[c] + 1 \in 1..Len(ask[c].plan) /\ (step[c] + 1) - 1 = step[c]
      BY <1>2, <2>1
    <3>3. ask[c].plan[step[c]] = "first"
      BY <1>2, <3>1, <3>2 DEF WellPlanned, Updating, Reading
    <3>4. table[ask[c].id] = ask[c].tenant
      BY <1>4, <3>3 DEF Visible
    <3> QED
      BY <1>2, <3>4, HandlersAssumption DEF HandlersInv, IssuedIds
  <2> QED
    BY <1>1, <2>1, <2>2, TableUntouched
<1> QED
  BY <1>2, <1>3, <1>4 DEF ReadRows, ReadRow, At

(* The steps that write, each the last of its handler.                      *)
LEMMA OneWrites ==
    ASSUME HandlersInv, NEW c \in Clients, At(c, Writing), Proceed(c),
           UNCHANGED <<service, shared, ask, conn>>,
           NEW what, NEW id \in Rows, NEW owner \in Tenants \cup {Absent},
           Writes(c, what, id, owner),
           At(c, {"insert"}) => what = "created",
           At(c, {"delete"}) => what = "deleted",
           At(c, {"updateOne"}) => what = "updated",
           service = "orders" \/ (service = "products" /\ ~ shared)
                => table[id] \in {Absent, ask[c].tenant},
           service = "orders" => owner \in {table[id], Absent} \/ id \notin issued,
           issued \subseteq issued',
           service # "dashboards" /\ owner # Absent => id \in issued'
    PROVE  HandlersInv'
<1>1. At(c, DBSteps) /\ ask[c].plan[step[c]] \in Writing
  BY DEF At, DBSteps, Writing
<1>2. /\ step[c] > 0 /\ ~ Ended(c) /\ WellPlanned(service, ask[c].plan)
      /\ Len(ask[c].plan) \in Nat /\ step[c] \in 1..Len(ask[c].plan)
      /\ ask[c].id \in Rows /\ ask[c].tenant \in Tenants /\ effect[c] = "none"
  BY <1>1, AtDatabase
<1>3. step[c] = Len(ask[c].plan)
  BY <1>1, <1>2 DEF WellPlanned
<1>4. effect' = [effect EXCEPT ![c] = what] /\ effect'[c] = what
  BY DEF Writes, HandlersInv, Apart
<1>5. Answer(c, Success(c)) /\ Success(c) \in {200, 201}
  BY <1>3 DEF Proceed, Success
<1>6. Success(c) = 201 => what = "created"
  BY DEF Success
<1>7. /\ ask[c].plan \in {DeleteOrder, DeleteProduct} => what = "deleted"
      /\ ask[c].plan = UpdateProduct => what = "updated"
  BY <1>1, <1>2, <1>3 DEF WellPlanned, At
<1>8. Progress(c)' /\ ~ At(c, Updating)'
  BY <1>2, <1>4, <1>5, <1>6, <1>7, AnswerGiven
<1>9. (\A d \in Clients \ {c} : Same(d)) /\ Apart'
  <2>1. Success(c) \in Nat
    BY <1>5
  <2>2. \E s \in Nat : Answer(c, s)
    BY <1>5, <2>1
  <2>3. effect' = effect \/ \E w : effect' = [effect EXCEPT ![c] = w]
    BY <1>4
  <2>4. UNCHANGED <<ask, conn>>
    OBVIOUS
  <2> QED
    BY <1>2, <2>2, <2>3, <2>4, OwnStep
<1>10. /\ table' = [table EXCEPT ![id] = owner]
       /\ foreign' = (foreign \/ table[id] \notin {Absent, ask[c].tenant})
  BY DEF Writes
<1>11. IssuedIds'
  <2>1. IssuedIds /\ table \in [Rows -> Tenants \cup {Absent}]
    BY DEF HandlersInv
  <2> QED
    BY <1>10, <2>1 DEF IssuedIds
<1>13. TenantsApart' /\ foreign' \in BOOLEAN
  <2>1. CASE table[id] \in {Absent, ask[c].tenant}
    <3>1. foreign' = foreign
      BY <1>10, <2>1 DEF HandlersInv
    <3> QED
      BY <3>1 DEF HandlersInv, TenantsApart
  <2>2. CASE table[id] \notin {Absent, ask[c].tenant}
    BY <1>10, <2>2 DEF TenantsApart
  <2> QED
    BY <2>1, <2>2
<1>12. /\ table' \in [Rows -> Tenants \cup {Absent}]
       /\ service = "orders" => \A r \in issued \cap Rows : table'[r] \in {table[r], Absent}
  BY <1>10 DEF HandlersInv
<1> QED
  BY <1>8, <1>9, <1>11, <1>12, <1>13, OneMoves DEF FoundItsOwn

(* A write that was refused, or changed nothing, ends its handler as well.  *)
LEMMA NothingWritten ==
    ASSUME HandlersInv, NEW c \in Clients, At(c, Writing),
           UNCHANGED <<service, shared, table, issued, ask, conn, effect, foreign>>,
           \/ Answer(c, 404) \/ Answer(c, 500)
           \/ Proceed(c) /\ ~ At(c, {"insert", "delete", "updateOne"})
    PROVE  HandlersInv'
<1>1. At(c, DBSteps) /\ ask[c].plan[step[c]] \in Writing
  BY DEF At, DBSteps, Writing
<1>2. /\ step[c] > 0 /\ ~ Ended(c) /\ WellPlanned(service, ask[c].plan)
      /\ Len(ask[c].plan) \in Nat /\ step[c] \in 1..Len(ask[c].plan)
      /\ effect[c] = "none"
  BY <1>1, AtDatabase
<1>3. ASSUME NEW s \in {404, 500}, Answer(c, s) PROVE HandlersInv'
  BY <1>2, <1>3, OwnStep, AnswerGiven, TableUntouched DEF FoundItsOwn
<1>4. CASE Proceed(c) /\ ~ At(c, {"insert", "delete", "updateOne"})
  <2>1. step[c] = Len(ask[c].plan)
    BY <1>1, <1>2 DEF WellPlanned
  <2>2. Answer(c, 200)
    BY <1>4, <2>1 DEF Proceed, Success, At
  <2>3. ask[c].plan[step[c]] \notin {"delete", "updateOne"}
    BY <1>2, <1>4 DEF At
  <2>4. ask[c].plan \notin {DeleteOrder, DeleteProduct, UpdateProduct}
    BY <1>2, <2>1, <2>3 DEF WellPlanned
  <2> QED
    BY <1>2, <2>2, <2>4, OwnStep, AnswerGiven, TableUntouched DEF FoundItsOwn
<1> QED
  BY <1>3, <1>4

(* The steps that write.                                                    *)
LEMMA TableWriteKeeps ==
    ASSUME HandlersInv, NEW c \in Clients,
           \/ InsertInto(c) \/ UpdateFound(c) \/ Upsert(c) \/ ChangeRow(c) \/ DeleteRowAnyway(c)
    PROVE  HandlersInv'
<1> DEFINE id == ask[c].id
<1>1. At(c, Writing) /\ UNCHANGED <<service, shared, ask, conn>>
  BY DEF InsertInto, UpdateFound, Upsert, ChangeRow, DeleteRowAnyway, At, Writing
<1>2. /\ ask[c].plan[step[c]] \in Writing /\ WellPlanned(service, ask[c].plan)
      /\ step[c] \in 1..Len(ask[c].plan)
      /\ id \in Rows /\ ask[c].tenant \in Tenants /\ effect[c] = "none"
  <2>1. At(c, DBSteps) /\ ask[c].plan[step[c]] \in Writing
    BY <1>1 DEF At, DBSteps, Writing
  <2> QED
    BY <2>1, AtDatabase
<1>3. /\ service \in Services /\ FoundItsOwn(c) /\ table[id] \in Tenants \cup {Absent}
      /\ service # "dashboards" => \A r \in Rows : r \notin issued => table[r] = Absent
  BY <1>2 DEF HandlersInv, IssuedIds
<1>4. CASE InsertInto(c)
  <2>1. PICK new \in Rows \ TakenIds :
          Writes(c, "created", new, ask[c].tenant) /\ issued' = issued \cup {new}
    BY <1>4 DEF InsertInto
  <2>2. table[new] = Absent /\ (service # "dashboards" => new \notin issued)
    BY <1>3, <2>1 DEF TakenIds
  <2>3. At(c, {"insert"}) /\ Proceed(c)
    BY <1>4 DEF InsertInto
  <2> QED
    BY <1>1, <1>2, <2>1, <2>2, <2>3, OneWrites DEF At
<1>5. CASE UpdateFound(c)
  <2>1. At(c, {"update"}) /\ Proceed(c) /\ issued' = issued
    BY <1>5 DEF UpdateFound
  <2>2. CASE table[id] = Absent
    BY <1>1, <1>5, <2>1, <2>2, NothingWritten DEF UpdateFound, At
  <2>3. CASE table[id] # Absent
    <3>1. Writes(c, "updated", id, table[id])
      BY <1>5, <2>3 DEF UpdateFound
    <3>2. /\ service = "orders" => table[id] \in {Absent, ask[c].tenant}
          /\ service # "products"
      BY <1>2, <1>3, <2>1 DEF FoundItsOwn, WellPlanned, At, Updating
    <3> QED
      BY <1>1, <1>2, <1>3, <2>1, <3>1, <3>2, OneWrites DEF At
  <2> QED
    BY <2>2, <2>3
<1>6. CASE Upsert(c)
  <2>1. /\ At(c, {"upsert"}) /\ Proceed(c) /\ issued' = issued
        /\ Writes(c, "updated", id, ask[c].tenant)
    BY <1>6 DEF Upsert
  <2>2. service = "dashboards"
    BY <1>2, <2>1 DEF WellPlanned, At
  <2> QED
    BY <1>1, <1>2, <2>1, <2>2, OneWrites DEF At
<1>7. CASE ChangeRow(c)
  <2>1. At(c, {"updateOne", "delete"}) /\ issued' = issued
    BY <1>7 DEF ChangeRow
  <2>2. CASE ~ Visible(c, id)
    BY <1>1, <1>7, <2>1, <2>2, NothingWritten DEF ChangeRow
  <2>3. CASE Visible(c, id)
    <3>1. /\ table[id] # Absent
          /\ service = "orders" \/ (service = "products" /\ ~ shared) => table[id] = ask[c].tenant
      BY <1>2, <1>3, <2>3, HandlersAssumption DEF Visible, Services
    <3>2. Proceed(c) /\ Change(c, IF At(c, {"delete"}) THEN Absent ELSE table[id])
      BY <1>7, <2>3 DEF ChangeRow
    <3>3. CASE At(c, {"delete"})
      <4>1. Writes(c, "deleted", id, Absent)
        BY <3>2, <3>3 DEF Change
      <4> QED
        BY <1>1, <1>2, <2>1, <3>1, <3>2, <3>3, <4>1, OneWrites DEF At
    <3>4. CASE ~ At(c, {"delete"})
      <4>1. Writes(c, "updated", id, table[id])
        BY <3>1, <3>2, <3>4 DEF Change
      <4> QED
        BY <1>1, <1>2, <1>3, <2>1, <3>1, <3>2, <3>4, <4>1, OneWrites DEF At
    <3> QED
      BY <3>3, <3>4
  <2> QED
    BY <2>2, <2>3
<1>8. CASE DeleteRowAnyway(c)
  <2>1. At(c, {"deleteAnyway", "deleteOrOutage"}) /\ issued' = issued
    BY <1>8 DEF DeleteRowAnyway
  <2>2. service \notin {"orders", "products"}
    BY <1>2, <2>1 DEF WellPlanned, At
  <2>3. CASE table[id] = Absent
    BY <1>1, <1>8, <2>1, <2>3, NothingWritten DEF DeleteRowAnyway, At
  <2>4. CASE table[id] # Absent
    BY <1>1, <1>2, <1>8, <2>1, <2>2, <2>4, OneWrites DEF DeleteRowAnyway, At
  <2> QED
    BY <2>3, <2>4
<1> QED
  BY <1>4, <1>5, <1>6, <1>7, <1>8

(* A request comes in.                                                      *)
LEMMA ReceivingKeeps ==
    ASSUME HandlersInv, NEW c \in Clients, NEW plan \in Plans(service), NEW t \in Tenants,
           NEW id \in Rows, Receive(c, plan, t, id)
    PROVE  HandlersInv'
<1>1. /\ step[c] = 0 /\ step' = [step EXCEPT ![c] = 1]
      /\ ask' = [ask EXCEPT ![c] = [plan |-> plan, tenant |-> t, id |-> id]]
      /\ UNCHANGED <<service, shared, table, issued, conn, answers, effect, foreign>>
  BY DEF Receive
<1>2. WellPlanned(service, plan)
  BY PlansAreWell DEF HandlersInv
<1>3. (\A d \in Clients \ {c} : Same(d)) /\ Apart'
  BY <1>1 DEF HandlersInv, Apart, Same
<1>4. /\ ask'[c] = [plan |-> plan, tenant |-> t, id |-> id] /\ step'[c] = 1
      /\ conn[c] = "unset" /\ answers[c] = <<>> /\ effect[c] = "none"
  BY <1>1 DEF HandlersInv, Apart, Progress
<1>5. ~ Ended(c)'
  BY <1>2, <1>4 DEF Ended, WellPlanned
<1>6. Progress(c)'
  BY <1>1, <1>2, <1>4, <1>5 DEF Progress
<1>7. FoundItsOwn(c)'
  BY <1>1, <1>2, <1>4 DEF FoundItsOwn, At, WellPlanned, Updating
<1> QED
  BY <1>1, <1>3, <1>6, <1>7, TableUntouched

(* The handlers, step by step.                                              *)
LEMMA HandlersKeep ==
    ASSUME HandlersInv, [HandlersNext]_handlerVars
    PROVE  HandlersInv'
<1>1. CASE CloseConnections \/ UNCHANGED handlerVars
  <2>1. UNCHANGED <<service, shared, table, issued, ask, step, conn, answers, effect, foreign>>
    BY <1>1 DEF CloseConnections, handlerVars
  <2>2. \A d \in Clients : Same(d)
    BY <2>1 DEF Same
  <2>3. \A d \in Clients : Progress(d)' /\ FoundItsOwn(d)'
    BY <2>1, <2>2, ProgressStays DEF HandlersInv, FoundItsOwn, At, Ended
  <2> QED
    BY <2>1, <2>3 DEF HandlersInv, Apart, IssuedIds, TenantsApart
<1>2. ASSUME NEW c \in Clients, HandlerStep(c) PROVE HandlersInv'
  BY <1>2, PreparationKeeps, ResolvingKeeps, FailureKeeps, ReadingKeeps, TableWriteKeeps
     DEF HandlerStep
<1> QED
  BY <1>1, <1>2, ReceivingKeeps DEF HandlersNext

(* The inductive invariant of the handlers and their table.                 *)
THEOREM HandlersInvariance == HandlersSpec => []HandlersInv
<1>1. HandlersInit => HandlersInv
  <2> SUFFICES ASSUME HandlersInit PROVE HandlersInv
    OBVIOUS
  <2>1. Apart /\ IssuedIds /\ TenantsApart
    BY DEF HandlersInit, Apart, IssuedIds, TenantsApart
  <2>2. \A c \in Clients : Progress(c) /\ FoundItsOwn(c)
    BY DEF HandlersInit, Progress, FoundItsOwn, At
  <2> QED
    BY <2>1, <2>2, HandlersAssumption DEF HandlersInit, HandlersInv
<1>2. HandlersInv /\ [HandlersNext]_handlerVars => HandlersInv'
  BY HandlersKeep
<1> QED
  BY <1>1, <1>2, PTL DEF HandlersSpec

(* However many requests, tenants and rows there are, and whenever the      *)
(* connections are closed: an answer tells what was done, and no request    *)
(* changes a row of another tenant.                                         *)
THEOREM HandlersTellTheTruth == HandlersSpec => []AnswersAreTrue
<1>1. HandlersInv => AnswersAreTrue
  BY DEF HandlersInv, Apart, Progress, AnswersTell, AnswersAreTrue
<1> QED
  BY <1>1, HandlersInvariance, PTL
-----------------------------------------------------------------------------
\* The chain of middlewares.  The argument follows a request on its way: as long
\* as it is inside, nothing is written but what its guard or its handler gave it;
\* a writer that gzip took from the pool belongs to it alone until it comes out
\* through gzip again; only who is answered by Echo after all of them, because he
\* failed, may still have a writer that has gone back.

\* The chain of a process: no name twice.
ChainInv ==
    /\ Len(chain) \in Nat /\ DOMAIN chain = 1..Len(chain)
    /\ \A i \in 1..Len(chain) : chain[i] \in DOMAIN MiddlewareOf \cup {"gzip"}
    /\ \A i, j \in 1..Len(chain) : chain[i] = chain[j] => i = j

\* It has taken a writer and has not come out through gzip yet.
Holds(h) ==
    /\ zipper[h] # Nobody /\ going[h] \in {"in", "out", "error", "panic"}
    /\ \E i \in 1..Len(chain) : chain[i] = "gzip" /\ i <= place[h]

\* The writers of requests under way are their own, and in nobody's pool.
WritersApart ==
    /\ zipper \in [Hits -> Hits \cup {Nobody}] /\ target \in [Hits -> Hits \cup {Nobody}]
    /\ idle \subseteq Hits
    /\ \A h \in Hits : Holds(h) => zipper[h] \notin idle /\ target[zipper[h]] = h
    /\ \A h \in Hits : going[h] = "in" /\ zipper[h] # Nobody =>
          \E i \in 1..Len(chain) : chain[i] = "gzip" /\ i < place[h]

Fresh(h) == status[h] = 200 /\ ~ committed[h] /\ wire[h] = 0 /\ recorded[h] = 0

\* Answered while it was inside, by a guard or by the handler.
Told(h) ==
    /\ committed[h] /\ wire[h] = status[h] /\ wire[h] # 0 /\ RecordedRightly(h)
    /\ \/ Answered(h) /\ wire[h] = 200
       \/ Refused(h) /\ wire[h] = Refusal(hit[h].refusedBy) /\ ~ ran[h]

\* Not answered: by nobody, or by gzip in its place.
Untold(h) ==
    /\ Failed(h) /\ ~ committed[h]
    /\ wire[h] = IF zipper[h] # Nobody /\ ~ Holds(h) THEN 200 ELSE 0

Limited(h) ==
    hit[h].refusedBy = "body_limit" /\ place[h] = 0 /\ Fresh(h) /\ ~ ran[h] /\ zipper[h] = Nobody

Settled(h) ==
    /\ Refused(h) => wire[h] = Refusal(hit[h].refusedBy) /\ ~ ran[h]
    /\ Answered(h) => wire[h] = 200
    /\ Failed(h) => wire[h] = IF zipper[h] # Nobody THEN 200 ELSE 500
    /\ RecordedRightly(h) \/ Failed(h)

\* How far a request is.
HitInv(h) ==
    /\ hit[h] \in HitKinds
    /\ going[h] \in {"idle", "in", "out", "error", "panic", "done"}
    /\ place[h] \in 0..(Len(chain) + 1)
    /\ going[h] = "idle" => Fresh(h) /\ ~ ran[h] /\ zipper[h] = Nobody
    /\ going[h] = "in" =>
          /\ Fresh(h) /\ ~ ran[h] /\ hit[h].refusedBy # "body_limit" /\ place[h] >= 1
          /\ \A i \in 1..Len(chain) : i < place[h] => chain[i] # hit[h].refusedBy
    /\ going[h] \in {"out", "error", "panic"} => place[h] <= Len(chain)
    /\ going[h] = "out" => Told(h)
    /\ going[h] = "error" => Untold(h) \/ Limited(h)
    /\ going[h] = "panic" => Untold(h) \/ Told(h)
    /\ going[h] = "done" => Settled(h)

OnlyLateStray ==
    strayed # {} => \E h \in Hits : Failed(h) /\ going[h] = "done" /\ zipper[h] # Nobody

Ways == {"idle", "in", "out", "error", "panic", "done"}

Separate ==
    /\ going \in [Hits -> Ways]
    /\ DOMAIN hit = Hits /\ DOMAIN place = Hits /\ DOMAIN status = Hits
    /\ DOMAIN committed = Hits /\ DOMAIN wire = Hits /\ DOMAIN recorded = Hits /\ DOMAIN ran = Hits

MiddlewareInv ==
    /\ ChainInv /\ Separate /\ WritersApart /\ OnlyLateStray
    /\ \A h \in Hits : HitInv(h)

\* What belongs to request d alone is as it was.
Unmoved(d) ==
    /\ hit'[d] = hit[d] /\ place'[d] = place[d] /\ going'[d] = going[d]
    /\ status'[d] = status[d] /\ committed'[d] = committed[d] /\ wire'[d] = wire[d]
    /\ zipper'[d] = zipper[d] /\ recorded'[d] = recorded[d] /\ ran'[d] = ran[d]

(* The names: guards and those that pass are the registered middlewares but *)
(* for gzip, and whoever refuses has a status to say so.                    *)
LEMMA NamesApart ==
    /\ Guards \cup Passing = DOMAIN MiddlewareOf /\ Guards \cap Passing = {}
    /\ Watching \subseteq DOMAIN MiddlewareOf
    /\ "gzip" \notin DOMAIN MiddlewareOf /\ "nobody" \notin DOMAIN MiddlewareOf
    /\ "body_limit" \notin DOMAIN MiddlewareOf
    /\ \A g \in Guards : Refusal(g) \in Nat \ {0}
<1>1. DOMAIN MiddlewareOf = {"request_id", "security", "logger", "audit", "prometheus",
                             "permission_check", "jwt", "cors", "ratelimit"}
  BY DEF MiddlewareOf
<1>2. \A g \in Guards : g # "body_limit" /\ MiddlewareOf[g].refusal \in Nat \ {0}
  BY <1>1 DEF Guards, Passing, MiddlewareOf, Passer, Watcher, Guardian, RequestID, Security,
              Logger, Audit, Prometheus, PermissionCheck, JWT, CORS, RateLimit
<1>3. \A g \in Guards : Refusal(g) = MiddlewareOf[g].refusal
  BY <1>2 DEF Refusal
<1> QED
  BY <1>1, <1>2, <1>3 DEF Guards, Passing, Watching

(* Who does not move is as far as before.                                   *)
LEMMA UnmovedStays ==
    ASSUME NEW d \in Hits, HitInv(d), Unmoved(d), chain' = chain
    PROVE  HitInv(d)'
<1>1. (Holds(d) <=> Holds(d)') /\ (Refused(d) <=> Refused(d)')
  BY DEF Unmoved, Holds, Refused
<1>2. (Answered(d) <=> Answered(d)') /\ (Failed(d) <=> Failed(d)')
  BY <1>1 DEF Unmoved, Answered, Failed
<1> QED
  BY <1>1, <1>2 DEF HitInv, Unmoved, Fresh, Told, Untold, Limited, Settled, RecordedRightly

(* A step of one request preserves the invariant if it does for that one,   *)
(* for the writers and for what has strayed.                                *)
LEMMA OneRequestMoves ==
    ASSUME NEW h \in Hits, MiddlewareInv, chain' = chain,
           \A d \in Hits \ {h} : Unmoved(d), HitInv(h)',
           Separate', WritersApart', OnlyLateStray'
    PROVE  MiddlewareInv'
<1>1. ChainInv'
  BY DEF MiddlewareInv, ChainInv
<1>2. \A d \in Hits \ {h} : HitInv(d)'
  BY UnmovedStays DEF MiddlewareInv
<1> QED
  BY <1>1, <1>2 DEF MiddlewareInv

(* Nothing strays and no writer changes hands.                              *)
LEMMA NothingStrays ==
    ASSUME NEW h \in Hits, MiddlewareInv, chain' = chain,
           going[h] # "done", \A d \in Hits \ {h} : Unmoved(d), strayed' = strayed
    PROVE  OnlyLateStray'
<1>1. CASE strayed = {}
  BY <1>1 DEF OnlyLateStray
<1>2. CASE strayed # {}
  <2>1. PICK d \in Hits : Failed(d) /\ going[d] = "done" /\ zipper[d] # Nobody
    BY <1>2 DEF MiddlewareInv, OnlyLateStray
  <2>2. d # h /\ Unmoved(d)
    BY <2>1
  <2>3. Failed(d)'
    BY <2>1, <2>2 DEF Failed, Refused, Unmoved
  <2> QED
    BY <2>1, <2>2, <2>3 DEF OnlyLateStray, Unmoved
<1> QED
  BY <1>1, <1>2

(* Nor does a request that goes on, or out, or is answered.                 *)
LEMMA WritersStay ==
    ASSUME NEW h \in Hits, MiddlewareInv, chain' = chain, zipper' = zipper,
           target' = target, idle' = idle, \A d \in Hits \ {h} : Unmoved(d),
           Holds(h)' => Holds(h),
           going'[h] = "in" /\ zipper[h] # Nobody =>
               going[h] = "in" /\ place[h] <= place'[h] /\ place'[h] \in Nat
    PROVE  WritersApart'
<1>1. \A d \in Hits : Holds(d)' => Holds(d)
  BY DEF Unmoved, Holds
<1>2. \A d \in Hits \ {h} : going'[d] = going[d] /\ place'[d] = place[d]
  BY DEF Unmoved
<1>3. place[h] \in Int
  BY DEF MiddlewareInv, HitInv
<1> QED
  BY <1>1, <1>2, <1>3 DEF MiddlewareInv, WritersApart, ChainInv

(* BodyLimit lets a request in or turns it away.                            *)
LEMMA ComingKeeps ==
    ASSUME MiddlewareInv, NEW h \in Hits, NEW kind \in HitKinds, Come(h, kind)
    PROVE  MiddlewareInv'
<1>1. \A d \in Hits \ {h} : Unmoved(d)
  BY DEF Come, Goes, Unmoved, MiddlewareInv, Separate
<1>2. /\ going[h] = "idle" /\ hit'[h] = kind /\ Fresh(h)' /\ ~ ran'[h] /\ zipper'[h] = Nobody
      /\ chain' = chain /\ strayed' = strayed /\ Separate'
      /\ zipper' = zipper /\ target' = target /\ idle' = idle
  BY DEF Come, Goes, MiddlewareInv, Separate, HitInv, Fresh, Ways
<1>3. \/ kind.refusedBy = "body_limit" /\ going'[h] = "error" /\ place'[h] = 0
      \/ kind.refusedBy # "body_limit" /\ going'[h] = "in" /\ place'[h] = 1
  BY DEF Come, Goes, MiddlewareInv, Separate
<1>4. HitInv(h)'
  <2>1. Len(chain') \in Nat
    BY <1>2 DEF MiddlewareInv, ChainInv
  <2> QED
    BY <1>2, <1>3, <2>1 DEF HitInv, Limited
<1>5. WritersApart'
  BY <1>1, <1>2, <1>3, WritersStay DEF Holds
<1>6. OnlyLateStray'
  BY <1>1, <1>2, NothingStrays
<1> QED
  BY <1>1, <1>2, <1>4, <1>5, <1>6, OneRequestMoves

(* On the way in: going on past a middleware that does not refuse.          *)
LEMMA FurtherKeeps ==
    ASSUME MiddlewareInv, NEW h \in Hits, going[h] = "in", place[h] <= Len(chain),
           chain[place[h]] # hit[h].refusedBy, Further(h),
           UNCHANGED <<chain, hit, status, committed, wire, recorded, strayed, ran>>
    PROVE  /\ HitInv(h)' /\ Separate' /\ going'[h] = "in" /\ place'[h] = place[h] + 1
           /\ (\A d \in Hits \ {h} : zipper'[d] = zipper[d]) =>
                  (\A d \in Hits \ {h} : Unmoved(d)) /\ OnlyLateStray'
<1>1. Separate' /\ going'[h] = "in" /\ place'[h] = place[h] + 1
  BY DEF Further, Goes, MiddlewareInv, Separate, Ways
<1>2. HitInv(h)'
  BY <1>1 DEF MiddlewareInv, ChainInv, HitInv, Fresh
<1>3. ASSUME \A d \in Hits \ {h} : zipper'[d] = zipper[d]
      PROVE  (\A d \in Hits \ {h} : Unmoved(d)) /\ OnlyLateStray'
  <2>1. \A d \in Hits \ {h} : Unmoved(d)
    BY <1>3 DEF Further, Goes, MiddlewareInv, Separate, Unmoved
  <2> QED
    BY <2>1, NothingStrays
<1> QED
  BY <1>1, <1>2, <1>3

(* A middleware that lets the request pass.                                 *)
LEMMA PassingKeeps ==
    ASSUME MiddlewareInv, NEW h \in Hits, going[h] = "in", place[h] <= Len(chain),
           chain[place[h]] # hit[h].refusedBy, Further(h),
           UNCHANGED <<chain, hit, status, committed, wire, zipper, target, idle, recorded,
                       strayed, ran>>
    PROVE  MiddlewareInv'
<1>1. /\ HitInv(h)' /\ Separate' /\ going'[h] = "in" /\ place'[h] = place[h] + 1
      /\ (\A d \in Hits \ {h} : Unmoved(d)) /\ OnlyLateStray'
  BY FurtherKeeps
<1>2. place[h] \in Nat /\ (zipper[h] # Nobody => Holds(h))
  BY DEF MiddlewareInv, HitInv, WritersApart, Holds, ChainInv
<1>3. Holds(h)' => Holds(h)
  BY <1>2 DEF Holds
<1>4. WritersApart'
  BY <1>1, <1>2, <1>3, WritersStay
<1> QED
  BY <1>1, <1>4, OneRequestMoves

(* The gzip middleware takes a writer nobody holds.                         *)
LEMMA GzipKeeps ==
    ASSUME MiddlewareInv, NEW h \in Hits, Gzip(h)
    PROVE  MiddlewareInv'
<1>1. /\ going[h] = "in" /\ place[h] <= Len(chain) /\ chain[place[h]] = "gzip" /\ Further(h)
      /\ UNCHANGED <<chain, hit, status, committed, wire, recorded, strayed, ran>>
  BY DEF Gzip, InAt
<1>2. hit[h].refusedBy # "gzip"
  <2>1. hit[h].refusedBy \in Guards \cup {"body_limit", "nobody"}
    BY DEF MiddlewareInv, HitInv, HitKinds
  <2> QED
    BY <2>1, NamesApart
<1>3. CASE UNCHANGED <<zipper, target, idle>>
  BY <1>1, <1>2, <1>3, PassingKeeps
<1>4. ASSUME NEW z \in idle \cup {y \in Zippers : target[y] = Nobody}, z \in Hits, Takes(h, z)
      PROVE  MiddlewareInv'
  <2>1. /\ zipper'[h] = z /\ target'[z] = h /\ idle' = idle \ {z}
        /\ \A d \in Hits \ {h} : zipper'[d] = zipper[d]
        /\ \A y \in Hits \ {z} : target'[y] = target[y]
        /\ zipper' \in [Hits -> Hits \cup {Nobody}] /\ target' \in [Hits -> Hits \cup {Nobody}]
        /\ idle' \subseteq Hits
    BY <1>4 DEF Takes, MiddlewareInv, WritersApart
  <2>2. /\ HitInv(h)' /\ Separate' /\ going'[h] = "in" /\ place'[h] = place[h] + 1
        /\ (\A d \in Hits \ {h} : Unmoved(d)) /\ OnlyLateStray'
    BY <1>1, <1>2, <2>1, FurtherKeeps
  <2>3. \A d \in Hits \ {h} : Holds(d)' => zipper[d] \notin idle' /\ target'[zipper[d]] = d
    <3>1. SUFFICES ASSUME NEW d \in Hits \ {h}, Holds(d)'
                   PROVE  zipper[d] \notin idle' /\ target'[zipper[d]] = d
      OBVIOUS
    <3>2. Holds(d)
      BY <1>1, <2>2, <3>1 DEF Unmoved, Holds
    <3>3. zipper[d] \in Hits /\ zipper[d] \notin idle /\ target[zipper[d]] = d
      BY <3>2 DEF MiddlewareInv, WritersApart, Holds
    <3>4. zipper[d] # z
      BY <1>4, <3>3, ChainAssumption
    <3> QED
      BY <2>1, <3>3, <3>4
  <2>4. \A d \in Hits \ {h} : going'[d] = "in" /\ zipper'[d] # Nobody =>
            \E i \in 1..Len(chain) : chain[i] = "gzip" /\ i < place'[d]
    BY <2>2 DEF Unmoved, MiddlewareInv, WritersApart
  <2>5. place[h] \in 1..Len(chain)
    BY <1>1 DEF MiddlewareInv, HitInv, ChainInv
  <2>6. WritersApart'
    BY <1>1, <2>1, <2>2, <2>3, <2>4, <2>5 DEF WritersApart
  <2> QED
    BY <1>1, <2>2, <2>6, OneRequestMoves
<1>5. idle \subseteq Hits
  BY DEF MiddlewareInv, WritersApart
<1> QED
  BY <1>3, <1>4, <1>5 DEF Gzip, Zippers

(* Whoever answers from inside answers his own client.                      *)
LEMMA InsideSends ==
    ASSUME MiddlewareInv, NEW h \in Hits, going[h] = "in", NEW code \in Nat \ {0}, Sends(h, code)
    PROVE  /\ status'[h] = code /\ wire'[h] = code /\ committed'[h] = TRUE /\ strayed' = strayed
           /\ DOMAIN status' = Hits /\ DOMAIN wire' = Hits /\ DOMAIN committed' = Hits
           /\ \A d \in Hits \ {h} : status'[d] = status[d] /\ wire'[d] = wire[d]
                                    /\ committed'[d] = committed[d]
<1>1. zipper[h] # Nobody => Holds(h)
  <2>1. place[h] \in Nat
    BY DEF MiddlewareInv, HitInv, ChainInv
  <2> QED
    BY <2>1 DEF MiddlewareInv, WritersApart, Holds, ChainInv
<1>2. zipper[h] # Nobody => target[zipper[h]] = h
  BY <1>1 DEF MiddlewareInv, WritersApart
<1>3. wire[h] = 0
  BY DEF MiddlewareInv, HitInv, Fresh
<1> QED
  BY <1>2, <1>3 DEF Sends, MiddlewareInv, Separate

(* A guard that refuses turns the request back.                             *)
LEMMA RefusalKeeps ==
    ASSUME MiddlewareInv, NEW h \in Hits, Guard(h), hit[h].refusedBy = chain[place[h]]
    PROVE  MiddlewareInv'
<1>1. /\ going[h] = "in" /\ place[h] <= Len(chain) /\ chain[place[h]] \in Guards
      /\ Goes(h, "out", place[h] - 1) /\ Sends(h, Refusal(chain[place[h]]))
      /\ UNCHANGED <<chain, hit, zipper, target, idle, recorded, ran>>
  BY DEF Guard, InAt
<1>2. place[h] \in 1..Len(chain) /\ Refusal(chain[place[h]]) \in Nat \ {0}
  BY <1>1, NamesApart DEF MiddlewareInv, HitInv, ChainInv
<1>3. /\ status'[h] = wire'[h] /\ wire'[h] = Refusal(hit[h].refusedBy) /\ wire'[h] # 0
      /\ committed'[h] = TRUE /\ strayed' = strayed
      /\ DOMAIN status' = Hits /\ DOMAIN wire' = Hits /\ DOMAIN committed' = Hits
      /\ \A d \in Hits \ {h} : status'[d] = status[d] /\ wire'[d] = wire[d]
                               /\ committed'[d] = committed[d]
  BY <1>1, <1>2, InsideSends, ZenonT(90)
<1>4. /\ going'[h] = "out" /\ place'[h] = place[h] - 1
      /\ going' \in [Hits -> Ways] /\ DOMAIN place' = Hits
      /\ \A d \in Hits \ {h} : going'[d] = going[d] /\ place'[d] = place[d]
  BY <1>1 DEF Goes, MiddlewareInv, Separate, Ways
<1>5. \A d \in Hits \ {h} : Unmoved(d)
  BY <1>1, <1>3, <1>4 DEF Unmoved
<1>6. Separate'
  BY <1>1, <1>3, <1>4 DEF MiddlewareInv, Separate
<1>7. HitInv(h)'
  <2>1. Refused(h)'
    BY <1>1, <1>2 DEF Refused, MiddlewareInv, ChainInv
  <2>2. recorded'[h] = 0 /\ ~ ran'[h] /\ hit'[h] \in HitKinds
    BY <1>1 DEF MiddlewareInv, HitInv, Fresh
  <2>3. Told(h)'
    BY <1>1, <1>3, <2>1, <2>2 DEF Told, RecordedRightly
  <2> QED
    BY <1>1, <1>2, <1>4, <2>2, <2>3 DEF HitInv
<1>8. Holds(h)' => Holds(h)
  BY <1>1, <1>2, <1>4 DEF Holds
<1>9. WritersApart'
  BY <1>1, <1>4, <1>5, <1>8, WritersStay
<1> QED
  BY <1>1, <1>3, <1>5, <1>6, <1>7, <1>9, OneRequestMoves, NothingStrays

(* The handler answers, fails or both.                                      *)
LEMMA HandlingKeeps ==
    ASSUME MiddlewareInv, NEW h \in Hits, HandleHit(h)
    PROVE  MiddlewareInv'
<1>1. /\ going[h] = "in" /\ place[h] = Len(chain) + 1 /\ ran'[h] = TRUE
      /\ UNCHANGED <<chain, hit, zipper, target, idle, recorded>>
      /\ DOMAIN ran' = Hits /\ \A d \in Hits \ {h} : ran'[d] = ran[d]
  BY DEF HandleHit, MiddlewareInv, Separate
<1>2. PICK how \in {"out", "error", "panic"} : Goes(h, how, Len(chain))
  <2>1. hit[h].outcome \in {"answer", "stumble"} => Goes(h, "out", Len(chain)) \/ Goes(h, "panic", Len(chain))
    BY DEF HandleHit
  <2> QED
    BY <2>1 DEF HandleHit
<1>3. /\ going'[h] = how /\ place'[h] = Len(chain)
      /\ going' \in [Hits -> Ways] /\ DOMAIN place' = Hits
      /\ \A d \in Hits \ {h} : going'[d] = going[d] /\ place'[d] = place[d]
  BY <1>2 DEF Goes, MiddlewareInv, Separate, Ways
<1>4. ~ Refused(h) /\ ~ Refused(h)'
  BY <1>1 DEF MiddlewareInv, HitInv, ChainInv, Refused
<1>5. Fresh(h) /\ hit[h] \in HitKinds /\ Len(chain) \in Nat
  BY <1>1 DEF MiddlewareInv, HitInv, ChainInv
<1>6. Holds(h)' => Holds(h)
  BY <1>1, <1>3, <1>5 DEF Holds
<1>7. zipper[h] # Nobody => Holds(h)'
  BY <1>1, <1>3, <1>5 DEF MiddlewareInv, WritersApart, Holds
<1>8. CASE hit[h].outcome \in {"answer", "stumble"}
  <2>1. Sends(h, 200) /\ 200 \in Nat \ {0}
    BY <1>8 DEF HandleHit
  <2>2. /\ status'[h] = 200 /\ wire'[h] = 200 /\ committed'[h] = TRUE /\ strayed' = strayed
        /\ DOMAIN status' = Hits /\ DOMAIN wire' = Hits /\ DOMAIN committed' = Hits
        /\ \A d \in Hits \ {h} : status'[d] = status[d] /\ wire'[d] = wire[d]
                                 /\ committed'[d] = committed[d]
    BY <1>1, <2>1, InsideSends, ZenonT(30)
  <2>3. how \in {"out", "panic"}
    BY <1>3, <1>8 DEF HandleHit, Goes, MiddlewareInv, Separate
  <2>4. \A d \in Hits \ {h} : Unmoved(d)
    BY <1>1, <1>3, <2>2 DEF Unmoved
  <2>5. Separate'
    BY <1>1, <1>3, <2>2 DEF MiddlewareInv, Separate
  <2>6. Told(h)'
    BY <1>1, <1>4, <1>5, <1>8, <2>2 DEF Told, Answered, RecordedRightly, Fresh
  <2>7. HitInv(h)'
    BY <1>1, <1>3, <1>5, <2>3, <2>6 DEF HitInv
  <2>8. WritersApart'
    BY <1>1, <1>3, <1>6, <2>4, WritersStay
  <2> QED
    BY <1>1, <2>2, <2>4, <2>5, <2>7, <2>8, OneRequestMoves, NothingStrays
<1>9. CASE hit[h].outcome \notin {"answer", "stumble"}
  <2>1. /\ hit[h].outcome \in {"error", "panic"} /\ Goes(h, hit[h].outcome, Len(chain))
        /\ UNCHANGED <<status, committed, wire, strayed>>
    BY <1>9 DEF HandleHit
  <2>3. how \in {"error", "panic"}
    BY <1>3, <2>1 DEF Goes, MiddlewareInv, Separate, Ways
  <2>4. \A d \in Hits \ {h} : Unmoved(d)
    BY <1>1, <1>3, <2>1 DEF Unmoved
  <2>5. Separate'
    BY <1>1, <1>3, <2>1 DEF MiddlewareInv, Separate
  <2>6. Untold(h)'
    BY <1>1, <1>4, <1>5, <1>7, <2>1 DEF Untold, Failed, Fresh
  <2>7. HitInv(h)'
    BY <1>1, <1>3, <1>5, <2>3, <2>6 DEF HitInv
  <2>8. WritersApart'
    BY <1>1, <1>3, <1>6, <2>4, WritersStay
  <2> QED
    BY <1>1, <2>1, <2>4, <2>5, <2>7, <2>8, OneRequestMoves, NothingStrays
<1> QED
  BY <1>8, <1>9

(* What changes on the way out: the place, and what Gzip and a watcher do.  *)
LEMMA GoesOut ==
    ASSUME MiddlewareInv, NEW h \in Hits, going[h] \in {"out", "error", "panic"}, place[h] > 0,
           Leaves(h), UNCHANGED <<chain, hit, status, committed, zipper, target, strayed, ran>>
    PROVE  /\ place[h] \in 1..Len(chain) /\ place'[h] = place[h] - 1 /\ going' = going
           /\ DOMAIN place' = Hits /\ \A d \in Hits \ {h} : place'[d] = place[d]
           /\ Holds(h)' => Holds(h)
<1>1. going[h] # "in" /\ place[h] \in 1..Len(chain) /\ Len(chain) \in Nat
  BY DEF MiddlewareInv, HitInv, ChainInv
<1>2. /\ place'[h] = place[h] - 1 /\ going' = going
      /\ DOMAIN place' = Hits /\ \A d \in Hits \ {h} : place'[d] = place[d]
  BY DEF Leaves, Goes, MiddlewareInv, Separate
<1> QED
  BY <1>1, <1>2 DEF Holds

(* Out through a middleware that records nothing, or what the client got.   *)
LEMMA LeavingKeeps ==
    ASSUME MiddlewareInv, NEW h \in Hits, LeavePlain(h) \/ LeaveWatching(h)
    PROVE  MiddlewareInv'
<1>1. /\ going[h] \in {"out", "error", "panic"} /\ place[h] > 0 /\ Leaves(h)
      /\ UNCHANGED <<chain, hit, status, committed, zipper, target, strayed, ran>>
      /\ UNCHANGED <<wire, idle>>
      /\ chain[place[h]] \in DOMAIN MiddlewareOf
  BY NamesApart DEF LeavePlain, LeaveWatching, OutAt
<1>2. /\ place[h] \in 1..Len(chain) /\ place'[h] = place[h] - 1 /\ going' = going
      /\ DOMAIN place' = Hits /\ \A d \in Hits \ {h} : place'[d] = place[d]
      /\ Holds(h)' => Holds(h)
  BY <1>1, GoesOut
<1>3. /\ DOMAIN recorded' = Hits /\ \A d \in Hits \ {h} : recorded'[d] = recorded[d]
      /\ recorded' = recorded \/ (recorded'[h] = status[h] /\ going[h] # "panic")
  BY DEF LeavePlain, LeaveWatching, MiddlewareInv, Separate
<1>4. (\A d \in Hits \ {h} : Unmoved(d)) /\ Separate'
  BY <1>1, <1>2, <1>3 DEF Unmoved, MiddlewareInv, Separate
<1>5. WritersApart'
  BY <1>1, <1>2, <1>4, WritersStay
<1>6. Holds(h) => Holds(h)'
  <2>1. chain[place[h]] # "gzip"
    BY <1>1, NamesApart
  <2>2. \A i \in 1..Len(chain) : chain[i] = "gzip" /\ i <= place[h] => i <= place[h] - 1
    BY <1>2, <2>1
  <2> QED
    BY <1>1, <1>2, <2>2 DEF Holds
<1>7. Told(h) => Told(h)'
  BY <1>1, <1>2, <1>3 DEF Told, Answered, Refused, RecordedRightly
<1>8. Untold(h) => Untold(h)'
  BY <1>1, <1>2, <1>6 DEF Untold, Failed, Refused
<1>9. HitInv(h)'
  <2>1. /\ going[h] = "out" => Told(h)
        /\ going[h] = "error" => Untold(h)
        /\ going[h] = "panic" => Untold(h) \/ Told(h)
        /\ hit[h] \in HitKinds /\ Len(chain) \in Nat
    BY <1>1 DEF MiddlewareInv, HitInv, Limited, ChainInv
  <2> QED
    BY <1>1, <1>2, <1>7, <1>8, <2>1 DEF HitInv
<1> QED
  BY <1>1, <1>4, <1>5, <1>9, OneRequestMoves, NothingStrays

(* Out through gzip: the writer goes back, and no request under way has it. *)
LEMMA GzipLeft ==
    ASSUME MiddlewareInv, NEW h \in Hits, LeaveGzip(h)
    PROVE  MiddlewareInv'
<1>1. /\ going[h] \in {"out", "error", "panic"} /\ place[h] > 0 /\ Leaves(h)
      /\ UNCHANGED <<chain, hit, status, committed, zipper, target, strayed, ran>>
      /\ recorded' = recorded /\ chain[place[h]] = "gzip"
  BY DEF LeaveGzip, OutAt
<1>2. /\ place[h] \in 1..Len(chain) /\ place'[h] = place[h] - 1 /\ going' = going
      /\ DOMAIN place' = Hits /\ \A d \in Hits \ {h} : place'[d] = place[d]
      /\ Holds(h)' => Holds(h)
  BY <1>1, GoesOut
<1>3. /\ zipper[h] # Nobody => wire'[h] = (IF wire[h] = 0 THEN 200 ELSE wire[h])
                               /\ idle' = idle \cup {zipper[h]}
      /\ zipper[h] = Nobody => wire' = wire /\ idle' = idle
      /\ DOMAIN wire' = Hits /\ \A d \in Hits \ {h} : wire'[d] = wire[d]
  BY DEF LeaveGzip, MiddlewareInv, Separate
<1>4. (\A d \in Hits \ {h} : Unmoved(d)) /\ Separate'
  BY <1>1, <1>2, <1>3 DEF Unmoved, MiddlewareInv, Separate
<1>5. ~ Holds(h)'
  <2>1. \A i \in 1..Len(chain) : chain[i] = "gzip" => i = place[h]
    BY <1>1, <1>2 DEF MiddlewareInv, ChainInv
  <2> QED
    BY <1>1, <1>2, <2>1 DEF Holds
<1>6. zipper[h] # Nobody => Holds(h)
  BY <1>1, <1>2 DEF Holds
<1>7. WritersApart'
  <2>1. \A d \in Hits \ {h} : Holds(d)' => Holds(d)
    BY <1>1, <1>4 DEF Holds, Unmoved
  <2>2. \A d \in Hits \ {h} : Holds(d) => zipper[d] # zipper[h]
    BY <1>6 DEF MiddlewareInv, WritersApart, Holds
  <2>3. \A d \in Hits : Holds(d)' => zipper[d] \notin idle' /\ target[zipper[d]] = d
    BY <1>3, <1>5, <2>1, <2>2 DEF MiddlewareInv, WritersApart
  <2>4. idle' \subseteq Hits
    BY <1>3 DEF MiddlewareInv, WritersApart
  <2>5. \A d \in Hits : going'[d] = "in" => place'[d] = place[d]
    BY <1>1, <1>2
  <2> QED
    BY <1>1, <1>2, <2>3, <2>4, <2>5 DEF MiddlewareInv, WritersApart
<1>8. Told(h) => Told(h)'
  BY <1>1, <1>2, <1>3 DEF Told, Answered, Refused, RecordedRightly
<1>9. Untold(h) => Untold(h)'
  BY <1>1, <1>2, <1>3, <1>5, <1>6 DEF Untold, Failed, Refused
<1>10. HitInv(h)'
  BY <1>1, <1>2, <1>8, <1>9 DEF MiddlewareInv, HitInv, Limited
<1> QED
  BY <1>1, <1>4, <1>7, <1>10, OneRequestMoves, NothingStrays

(* The end: the answer is there, or Echo's error handler gives one.         *)
LEMMA EndingKeeps ==
    ASSUME MiddlewareInv, NEW h \in Hits, Finish(h) \/ AnswerLate(h)
    PROVE  MiddlewareInv'
<1>1. /\ going[h] \in {"out", "error", "panic"} /\ place[h] = 0 /\ Goes(h, "done", 0)
      /\ UNCHANGED <<chain, hit, zipper, target, idle, recorded, ran>>
  BY DEF Finish, AnswerLate
<1>2. /\ going'[h] = "done" /\ place'[h] = 0
      /\ going' \in [Hits -> Ways] /\ DOMAIN place' = Hits
      /\ \A d \in Hits \ {h} : going'[d] = going[d] /\ place'[d] = place[d]
  BY <1>1 DEF Goes, MiddlewareInv, Separate, Ways
<1>3. /\ DOMAIN status' = Hits /\ DOMAIN committed' = Hits /\ DOMAIN wire' = Hits
      /\ \A d \in Hits \ {h} : status'[d] = status[d] /\ wire'[d] = wire[d]
                               /\ committed'[d] = committed[d]
  BY DEF Finish, AnswerLate, Sends, MiddlewareInv, Separate
<1>4. (\A d \in Hits \ {h} : Unmoved(d)) /\ Separate'
  BY <1>1, <1>2, <1>3 DEF Unmoved, MiddlewareInv, Separate
<1>5. ~ Holds(h) /\ ~ Holds(h)'
  BY <1>1, <1>2 DEF Holds, MiddlewareInv, ChainInv
<1>6. WritersApart'
  BY <1>1, <1>2, <1>4, <1>5, WritersStay
<1>7. (Refused(h) <=> Refused(h)') /\ (Answered(h) <=> Answered(h)') /\ (Failed(h) <=> Failed(h)')
  BY <1>1 DEF Refused, Answered, Failed
<1>8. ~ (Refused(h) /\ Answered(h)) /\ ~ (Refused(h) /\ Failed(h)) /\ ~ (Answered(h) /\ Failed(h))
  BY DEF Answered, Failed
<1>9. Settled(h)' /\ (strayed' = strayed \/ (Failed(h) /\ zipper[h] # Nobody))
  <2>1. CASE Told(h)
    <3>1. wire'[h] = wire[h] /\ strayed' = strayed
      BY <2>1 DEF Finish, AnswerLate, Told
    <3> QED
      <4>1. RecordedRightly(h)'
        BY <1>1, <2>1, <3>1 DEF Told, RecordedRightly
      <4>2. CASE Answered(h) /\ wire[h] = 200
        <5>1. Answered(h)' /\ ~ Refused(h)' /\ ~ Failed(h)'
          BY <1>7, <1>8, <4>2
        <5> QED
          BY <3>1, <4>1, <4>2, <5>1 DEF Settled
      <4>3. CASE Refused(h) /\ wire[h] = Refusal(hit[h].refusedBy) /\ ~ ran[h]
        <5>1. ~ Answered(h)' /\ ~ Failed(h)'
          BY <1>7, <1>8, <4>3
        <5>2. wire'[h] = Refusal(hit'[h].refusedBy) /\ ~ ran'[h]
          BY <1>1, <3>1, <4>3
        <5> QED
          BY <3>1, <4>1, <5>1, <5>2 DEF Settled
      <4> QED
        BY <2>1, <4>2, <4>3 DEF Told
  <2>2. CASE Untold(h)
    <3>1. hit[h].refusedBy # "body_limit" /\ going[h] # "out"
      BY <2>2 DEF Untold, Failed, Refused, MiddlewareInv, HitInv, Told
    <3>2. Sends(h, 500)
      BY <2>2, <3>1 DEF Finish, AnswerLate, Untold
    <3>3. wire'[h] = (IF wire[h] = 0 THEN 500 ELSE wire[h])
      BY <3>2 DEF Sends, MiddlewareInv, Separate
    <3>4. wire'[h] = IF zipper[h] # Nobody THEN 200 ELSE 500
      BY <1>5, <2>2, <3>3 DEF Untold
    <3>5. zipper[h] = Nobody => strayed' = strayed
      BY <3>2 DEF Sends
    <3>6. Failed(h) /\ Failed(h)' /\ ~ Refused(h)' /\ ~ Answered(h)'
      BY <1>7, <1>8, <2>2 DEF Untold
    <3>7. wire'[h] = IF zipper'[h] # Nobody THEN 200 ELSE 500
      BY <1>1, <3>4
    <3>8. Settled(h)'
      BY <3>6, <3>7 DEF Settled
    <3> QED
      BY <3>5, <3>6, <3>8
  <2>3. CASE Limited(h)
    <3>1. ~ Told(h) /\ Refused(h)
      BY <2>3 DEF Limited, Fresh, Told, Refused
    <3>2. going[h] # "out"
      BY <3>1 DEF MiddlewareInv, HitInv
    <3>3. Sends(h, 413)
      BY <2>3, <3>2 DEF Finish, AnswerLate, Limited, Fresh
    <3>4. wire'[h] = 413 /\ strayed' = strayed
      BY <2>3, <3>3 DEF Sends, Limited, Fresh, MiddlewareInv, Separate
    <3>5. Refusal(hit'[h].refusedBy) = 413
      BY <1>1, <2>3 DEF Limited, Refusal
    <3>6. ~ Answered(h)' /\ ~ Failed(h)'
      BY <1>7, <1>8, <3>1
    <3>7. ~ ran'[h] /\ RecordedRightly(h)'
      BY <1>1, <2>3 DEF Limited, Fresh, RecordedRightly
    <3>8. Settled(h)'
      BY <3>4, <3>5, <3>6, <3>7 DEF Settled
    <3> QED
      BY <3>4, <3>8
  <2> QED
    BY <1>1, <2>1, <2>2, <2>3 DEF MiddlewareInv, HitInv
<1>10. HitInv(h)'
  BY <1>1, <1>2, <1>9 DEF MiddlewareInv, HitInv, ChainInv
<1>11. OnlyLateStray'
  <2>1. CASE strayed' = strayed
    BY <1>1, <1>4, <2>1, NothingStrays
  <2>2. CASE Failed(h) /\ zipper[h] # Nobody
    BY <1>1, <1>2, <1>7, <2>2 DEF OnlyLateStray
  <2> QED
    BY <1>9, <2>1, <2>2
<1> QED
  BY <1>1, <1>4, <1>6, <1>10, <1>11, OneRequestMoves

(* A chain is made of the middlewares that are enabled and do not fail, in  *)
(* some order.                                                              *)
LEMMA ChainIsMade ==
    ASSUME ChainInit
    PROVE  ChainInv
<1>1. PICK enabled \in SUBSET Registered : chain \in AutoDiscoverMiddlewares(enabled)
  BY DEF ChainInit
<1>2. PICK broken \in SUBSET (Failing \cap enabled) : chain \in SetToSeqs(enabled \ broken)
  BY <1>1 DEF AutoDiscoverMiddlewares
<1> DEFINE S == enabled \ broken
<1>3. Cardinality(S) \in Nat
  BY ChainAssumption, FS_Subset, FS_CardinalityType
<1>4. /\ chain \in [1..Cardinality(S) -> S]
      /\ \A i, j \in 1..Cardinality(S) : i # j => chain[i] # chain[j]
  BY <1>2 DEF SetToSeqs
<1> HIDE DEF S
<1>5. Len(chain) = Cardinality(S) /\ DOMAIN chain = 1..Cardinality(S)
  BY <1>3, <1>4
<1>6. \A i \in 1..Cardinality(S) : chain[i] \in DOMAIN MiddlewareOf \cup {"gzip"}
  BY <1>4, ChainAssumption DEF S
<1> QED
  BY <1>3, <1>4, <1>5, <1>6 DEF ChainInv

(* The inductive invariant of the requests in the chain.                    *)
THEOREM ChainInvariance == ChainSpec => []MiddlewareInv
<1>1. ChainInit => MiddlewareInv
  <2> SUFFICES ASSUME ChainInit PROVE MiddlewareInv
    OBVIOUS
  <2>1. ChainInv
    BY ChainIsMade
  <2>2. NoHit \in HitKinds
    BY DEF NoHit, HitKinds, Outcomes
  <2>3. \A h \in Hits : HitInv(h)
    BY <2>1, <2>2 DEF ChainInit, HitInv, Fresh, ChainInv
  <2>4. WritersApart
    BY DEF ChainInit, WritersApart, Holds, Zippers
  <2> QED
    BY <2>1, <2>3, <2>4 DEF ChainInit, MiddlewareInv, Separate, OnlyLateStray, Ways
<1>2. MiddlewareInv /\ [ChainNext]_chainVars => MiddlewareInv'
  <2> SUFFICES ASSUME MiddlewareInv, [ChainNext]_chainVars PROVE MiddlewareInv'
    OBVIOUS
  <2>1. ASSUME NEW h \in Hits, NEW kind \in HitKinds, Come(h, kind) PROVE MiddlewareInv'
    BY <2>1, ComingKeeps
  <2>2. ASSUME NEW h \in Hits, PassIn(h) PROVE MiddlewareInv'
    <3>1. chain[place[h]] # hit[h].refusedBy
      <4>1. hit[h].refusedBy \in Guards \cup {"body_limit", "nobody"}
        BY DEF MiddlewareInv, HitInv, HitKinds
      <4> QED
        BY <2>2, <4>1, NamesApart DEF PassIn, InAt
    <3> QED
      BY <2>2, <3>1, PassingKeeps DEF PassIn, InAt
  <2>3. ASSUME NEW h \in Hits, Guard(h) PROVE MiddlewareInv'
    <3>1. CASE hit[h].refusedBy = chain[place[h]]
      BY <2>3, <3>1, RefusalKeeps
    <3>2. CASE hit[h].refusedBy # chain[place[h]]
      BY <2>3, <3>2, PassingKeeps DEF Guard, InAt
    <3> QED
      BY <3>1, <3>2
  <2>4. ASSUME NEW h \in Hits, Gzip(h) PROVE MiddlewareInv'
    BY <2>4, GzipKeeps
  <2>5. ASSUME NEW h \in Hits, HandleHit(h) PROVE MiddlewareInv'
    BY <2>5, HandlingKeeps
  <2>6. ASSUME NEW h \in Hits, LeavePlain(h) \/ LeaveWatching(h) PROVE MiddlewareInv'
    BY <2>6, LeavingKeeps
  <2>7. ASSUME NEW h \in Hits, LeaveGzip(h) PROVE MiddlewareInv'
    BY <2>7, GzipLeft
  <2>8. ASSUME NEW h \in Hits, Finish(h) \/ AnswerLate(h) PROVE MiddlewareInv'
    BY <2>8, EndingKeeps
  <2>9. CASE UNCHANGED chainVars
    <3>1. \A h \in Hits : Unmoved(h) /\ (Holds(h)' => Holds(h)) /\ (Failed(h) => Failed(h)')
      BY <2>9 DEF chainVars, Unmoved, Holds, Failed, Refused
    <3>2. \A h \in Hits : HitInv(h)'
      BY <2>9, <3>1, UnmovedStays DEF MiddlewareInv, chainVars
    <3>3. WritersApart' /\ ChainInv' /\ Separate'
      BY <2>9, <3>1 DEF MiddlewareInv, chainVars, WritersApart, ChainInv, Separate
    <3>4. OnlyLateStray'
      BY <2>9, <3>1 DEF MiddlewareInv, chainVars, OnlyLateStray
    <3> QED
      BY <3>2, <3>3, <3>4 DEF MiddlewareInv
  <2> QED
    BY <2>1, <2>2, <2>3, <2>4, <2>5, <2>6, <2>7, <2>8, <2>9 DEF ChainNext
<1> QED
  BY <1>1, <1>2, PTL DEF ChainSpec

(* For any middlewares in any order and any number of requests at once: who *)
(* is refused is told so and does not reach the handler, who is answered    *)
(* gets that answer, and nothing but a late answer strays.                  *)
THEOREM AnswersAreKept == ChainSpec => []AnswersKept
<1>1. MiddlewareInv => AnswersKept
  BY DEF MiddlewareInv, HitInv, Settled, OnlyLateStray, AnswersKept
<1> QED
  BY <1>1, ChainInvariance, PTL
-----------------------------------------------------------------------------
\* The rate limiter.  What was let through since a moment is a sum over the clock,
\* a recursive function: its laws are proved by induction, for which the least
\* natural that is not in a set serves.  In memory a visitor's count is no less
\* than what was let through since the window began or the cleanup last took him.
\* In Redis each request of the window that was granted is in the set, unless it
\* was lost, and so is each that is about to be counted; and who is let through in
\* a window without having begun in it was under way when it began.

(* Induction over the natural numbers, for a set of them.                   *)
LEMMA NatSetInduction ==
    ASSUME NEW S, 0 \in S, \A n \in Nat : n \in S => n + 1 \in S
    PROVE  \A n \in Nat : n \in S
<1> SUFFICES ASSUME Nat \ S # {} PROVE FALSE
  OBVIOUS
<1>1. IsWellFoundedOn(OpToRel(<, Nat), Nat)
  BY NatLessThanWellFounded, Zenon
<1>2. PICK x \in Nat \ S : \A y \in Nat \ S : ~ (<<y, x>> \in OpToRel(<, Nat))
  BY <1>1, WFMin, Zenon
<1>3. \A y \in Nat \ S : ~ (y < x)
  BY <1>2 DEF OpToRel
<1>4. x - 1 \in Nat /\ x - 1 \in S
  BY <1>3
<1> QED
  BY <1>4

(* Sums is the function its definition asks for.                            *)
LEMMA SumsDefined ==
    ASSUME NEW c
    PROVE  Sums(c) = [n \in 0..(MaxMoment + 1) |->
                         IF n = 0 THEN 0 ELSE Sums(c)[n - 1] + c[n - 1]]
<1> DEFINE Good(m, f) == f = [n \in 0..m |-> IF n = 0 THEN 0 ELSE f[n - 1] + c[n - 1]]
           S == {m \in Nat : \E f : Good(m, f)}
<1>1. 0 \in S
  <2>1. Good(0, [n \in 0..0 |-> 0])
    OBVIOUS
  <2> QED
    BY <2>1
<1>2. ASSUME NEW m \in Nat, m \in S PROVE m + 1 \in S
  <2>1. PICK f : Good(m, f)
    BY <1>2
  <2> DEFINE g == [n \in 0..(m + 1) |-> IF n <= m THEN f[n] ELSE f[m] + c[m]]
  <2>2. Good(m + 1, g)
    BY <2>1
  <2> HIDE DEF g, Good
  <2> QED
    BY <2>2
<1>3. MaxMoment + 1 \in S
  <2> HIDE DEF S
  <2> QED
    BY <1>1, <1>2, NatSetInduction, LimiterAssumption
<1> QED
  BY <1>3 DEF Sums

(* They are naturals, each the one before and what is counted there.        *)
LEMMA SumsStep ==
    ASSUME NEW c \in Counts
    PROVE  /\ Sums(c) \in [0..(MaxMoment + 1) -> Nat] /\ Sums(c)[0] = 0
           /\ \A n \in Moments : Sums(c)[n + 1] = Sums(c)[n] + c[n]
<1>1. /\ DOMAIN Sums(c) = 0..(MaxMoment + 1) /\ Sums(c)[0] = 0
      /\ \A n \in 0..(MaxMoment + 1) : n # 0 => Sums(c)[n] = Sums(c)[n - 1] + c[n - 1]
  BY SumsDefined, LimiterAssumption
<1>2. \A n \in Moments : Sums(c)[n + 1] = Sums(c)[n] + c[n]
  BY <1>1, LimiterAssumption DEF Moments
<1> DEFINE S == {n \in Nat : n <= MaxMoment + 1 => Sums(c)[n] \in Nat}
<1>3. 0 \in S
  BY <1>1
<1>4. ASSUME NEW n \in Nat, n \in S PROVE n + 1 \in S
  BY <1>2, <1>4, LimiterAssumption, SMTT(30) DEF Moments, Counts
<1>5. \A n \in Nat : n \in S
  <2> HIDE DEF S
  <2> QED
    BY <1>3, <1>4, NatSetInduction
<1>6. Sums(c) \in [0..(MaxMoment + 1) -> Nat]
  BY <1>1, <1>5, SumsDefined, LimiterAssumption
<1> QED
  BY <1>1, <1>2, <1>6

(* Where less is counted at each moment of a span, the span's sum is less.  *)
LEMMA SpansCompare ==
    ASSUME NEW c \in Counts, NEW d \in Counts,
           NEW j \in 0..(MaxMoment + 1), NEW k \in 0..(MaxMoment + 1), j <= k,
           \A n \in Moments : j <= n /\ n < k => c[n] <= d[n]
    PROVE  Sums(c)[k] - Sums(c)[j] <= Sums(d)[k] - Sums(d)[j]
<1> DEFINE S == {n \in Nat : n <= k - j =>
                     Sums(c)[j + n] - Sums(c)[j] <= Sums(d)[j + n] - Sums(d)[j]}
<1>1. 0 \in S
  BY SumsStep, LimiterAssumption
<1>2. ASSUME NEW n \in Nat, n \in S PROVE n + 1 \in S
  <2> SUFFICES ASSUME n + 1 <= k - j
               PROVE  Sums(c)[j + (n + 1)] - Sums(c)[j] <= Sums(d)[j + (n + 1)] - Sums(d)[j]
    OBVIOUS
  <2>1. j + n \in Moments /\ j + (n + 1) = (j + n) + 1 /\ j + n \in 0..(MaxMoment + 1)
    BY LimiterAssumption DEF Moments
  <2>2. c[j + n] <= d[j + n] /\ c[j + n] \in Nat /\ d[j + n] \in Nat
    BY <2>1 DEF Counts
  <2>3. Sums(c)[j + n] - Sums(c)[j] <= Sums(d)[j + n] - Sums(d)[j]
    BY <1>2
  <2>4. /\ Sums(c)[j + (n + 1)] = Sums(c)[j + n] + c[j + n]
        /\ Sums(d)[j + (n + 1)] = Sums(d)[j + n] + d[j + n]
    BY <2>1, SumsStep
  <2>5. /\ Sums(c)[j + n] \in Nat /\ Sums(c)[j] \in Nat
        /\ Sums(d)[j + n] \in Nat /\ Sums(d)[j] \in Nat
    BY <2>1, SumsStep
  <2> QED
    BY <2>2, <2>3, <2>4, <2>5
<1>3. \A n \in Nat : n \in S
  <2> HIDE DEF S
  <2> QED
    BY <1>1, <1>2, NatSetInduction
<1>4. k - j \in S
  BY <1>3
<1>5. j + (k - j) = k
  OBVIOUS
<1> QED
  BY <1>4, <1>5

(* What is counted besides adds to every span its moment is in.             *)
LEMMA SpanExtended ==
    ASSUME NEW c \in Counts, NEW m \in Moments, NEW x \in Nat, NEW d \in Counts,
           d[m] = c[m] + x, \A i \in Moments \ {m} : d[i] = c[i],
           NEW j \in 0..(MaxMoment + 1), NEW k \in 0..(MaxMoment + 1), j <= m, m < k
    PROVE  Sums(d)[k] - Sums(d)[j] = Sums(c)[k] - Sums(c)[j] + x
<1>1. d \in Counts /\ d[m] = c[m] + x /\ \A n \in Moments \ {m} : d[n] = c[n]
  OBVIOUS
<1>2. m \in 0..(MaxMoment + 1) /\ m + 1 \in 0..(MaxMoment + 1) /\ m + 1 <= k
  BY LimiterAssumption DEF Moments
<1>3. /\ Sums(c)[j] \in Nat /\ Sums(c)[m] \in Nat /\ Sums(c)[m + 1] \in Nat /\ Sums(c)[k] \in Nat
      /\ Sums(d)[j] \in Nat /\ Sums(d)[m] \in Nat /\ Sums(d)[m + 1] \in Nat /\ Sums(d)[k] \in Nat
      /\ c[m] \in Nat
  BY <1>1, <1>2, SumsStep DEF Counts
<1>4. Sums(d)[m] - Sums(d)[j] = Sums(c)[m] - Sums(c)[j]
  <2>1. \A n \in Moments : j <= n /\ n < m => c[n] <= d[n] /\ d[n] <= c[n]
    BY <1>1 DEF Moments, Counts
  <2>2. Sums(d)[m] - Sums(d)[j] <= Sums(c)[m] - Sums(c)[j]
    BY <1>1, <1>2, <2>1, SpansCompare
  <2>3. Sums(c)[m] - Sums(c)[j] <= Sums(d)[m] - Sums(d)[j]
    BY <1>1, <1>2, <2>1, SpansCompare
  <2> QED
    BY <1>3, <2>2, <2>3
<1>5. Sums(d)[k] - Sums(d)[m + 1] = Sums(c)[k] - Sums(c)[m + 1]
  <2>1. \A n \in Moments : m + 1 <= n /\ n < k => c[n] <= d[n] /\ d[n] <= c[n]
    BY <1>1 DEF Moments, Counts
  <2>2. Sums(d)[k] - Sums(d)[m + 1] <= Sums(c)[k] - Sums(c)[m + 1]
    BY <1>1, <1>2, <2>1, SpansCompare
  <2>3. Sums(c)[k] - Sums(c)[m + 1] <= Sums(d)[k] - Sums(d)[m + 1]
    BY <1>1, <1>2, <2>1, SpansCompare
  <2> QED
    BY <1>3, <2>2, <2>3
<1>6. Sums(d)[m + 1] = Sums(d)[m] + d[m] /\ Sums(c)[m + 1] = Sums(c)[m] + c[m]
  BY <1>1, SumsStep
<1>7. Sums(d)[m + 1] = Sums(c)[m] + (Sums(d)[m] - Sums(c)[m]) + c[m] + x
  BY <1>1, <1>3, <1>6
<1>8. Sums(d)[m + 1] - Sums(c)[m + 1] = Sums(d)[j] - Sums(c)[j] + x
  BY <1>3, <1>4, <1>6, <1>7
<1>9. Sums(d)[k] - Sums(c)[k] = Sums(d)[m + 1] - Sums(c)[m + 1]
  BY <1>3, <1>5
<1>10. Sums(d)[k] - Sums(c)[k] = Sums(d)[j] - Sums(c)[j] + x
  BY <1>8, <1>9
<1> QED
  BY <1>3, <1>10

\* Memory: nothing was let through after the last request of the visitor there
\* is, and that one was; since the window began and cleanup last took a visitor
\* that had come back, no more than he is counted for.
CountedAllowed ==
    /\ Since(allowed, (IF overrun > moment - Window THEN overrun ELSE moment - Window) + 1) <= visitor.count
    /\ Recent <= (IF overrun > moment - Window THEN Rate ELSE 0) + visitor.count
    /\ visitor.count > 0 =>
          /\ overrun <= visitor.lastSeen /\ visitor.lastSeen <= moment
          /\ allowed[visitor.lastSeen] > 0
          /\ \A t \in Moments : t > visitor.lastSeen => allowed[t] = 0
    /\ expired => overrun < moment - Window
    /\ \A v \in Visits : visit[v] = "idle"

\* Redis: the requests that are about to be counted, those that are granted and
\* not yet past EXPIRE, with what has been granted, by stamp; and those that may
\* yet be let through in a window that begins after moment t without being counted
\* in it.
AboutToCount(t) == {v \in Visits : visit[v] = "count" /\ v \notin lost /\ stamp[v] = t}
Held(t)         == {v \in Visits : visit[v] = "granted" /\ v \notin lost /\ stamp[v] = t}
Granted         == [t \in Moments |-> counted[t] + Cardinality(Held(t))]
Owing(t)        == {v \in Visits : /\ visit[v] # "idle"
                                   /\ stamp[v] <= t \/ v \in lost \/ visit[v] = "passing"}

\* Nothing is of the future.
StampsInv ==
    /\ \A t \in Moments : t > moment => counted[t] = 0 /\ caught[t] = 0
    /\ \A v \in Visits : stamp[v] <= moment
    /\ \A v \in lost : visit[v] # "idle"

\* What was granted in the window is in the set, as is each request that is about
\* to be counted; the set stays for as long as the window of each that is past
\* EXPIRE.
GrantedInv ==
    /\ \A t \in Moments : t > moment - Window =>
           Granted[t] + Cardinality(AboutToCount(t)) <= zset[t]
    /\ Since(Granted, moment - Window + 1) <= Rate
    /\ \A t \in Moments : counted[t] > 0 => t <= expiry - Window

\* Who was let through in a window had begun in it and was counted, was under way
\* when it began, or was lost in it.
PassedInv ==
    \A t \in BeforeWindows \cup {-1} : t < moment =>
        Since(allowed, t + 1) + Cardinality(Owing(t))
            <= Since(counted, t + 1) + UnderWayAfter(t) + Since(caught, t + 1)

LimiterInv ==
    /\ LimiterTypeOK
    /\ overrun <= moment /\ refusal > 0
    /\ \A t \in Moments : t > moment => allowed[t] = 0
    /\ backend = "memory" => CountedAllowed
    /\ backend = "redis" =>
          /\ ~ expired /\ visitor = NoVisitor
          /\ StampsInv /\ GrantedInv /\ PassedInv

\* Since, of any counts and at any moment.
SinceAt(c, m, t) == Sums(c)[m + 1] - Sums(c)[IF t > 0 THEN t ELSE 0]

(* Nothing adds up to nothing.                                              *)
LEMMA SumsOfNothing ==
    ASSUME NEW n \in 0..(MaxMoment + 1)
    PROVE  Sums([t \in Moments |-> 0])[n] = 0
<1> DEFINE c == [t \in Moments |-> 0]
           S == {i \in Nat : i <= MaxMoment + 1 => Sums(c)[i] = 0}
<1>1. c \in Counts /\ \A i \in Moments : c[i] = 0
  BY DEF Counts
<1>2. Sums(c)[0] = 0 /\ \A i \in Moments : Sums(c)[i + 1] = Sums(c)[i] + c[i]
  BY <1>1, SumsStep
<1> HIDE DEF c
<1>3. 0 \in S
  BY <1>2
<1>4. ASSUME NEW i \in Nat, i \in S PROVE i + 1 \in S
  BY <1>1, <1>2, <1>4, LimiterAssumption DEF Moments
<1>5. \A i \in Nat : i \in S
  <2> HIDE DEF S
  <2> QED
    BY <1>3, <1>4, NatSetInduction
<1> QED
  BY <1>5, LimiterAssumption DEF c

(* The later a span begins, the smaller is its sum.                         *)
LEMMA SinceShrinks ==
    ASSUME NEW c \in Counts, NEW m \in Moments, NEW s \in Int, NEW t \in Int, s <= t, t <= m + 1
    PROVE  /\ SinceAt(c, m, t) \in Nat /\ SinceAt(c, m, s) \in Nat
           /\ SinceAt(c, m, t) <= SinceAt(c, m, s)
<1> DEFINE none == [n \in Moments |-> 0]
           from(n) == IF n > 0 THEN n ELSE 0
<1>1. none \in Counts /\ \A n \in Moments : none[n] = 0 /\ none[n] <= c[n]
  BY DEF Counts
<1>2. /\ from(s) \in 0..(MaxMoment + 1) /\ from(t) \in 0..(MaxMoment + 1)
      /\ m + 1 \in 0..(MaxMoment + 1) /\ from(s) <= from(t) /\ from(t) <= m + 1
  BY LimiterAssumption DEF Moments
<1>3. /\ Sums(none)[from(s)] = 0 /\ Sums(none)[from(t)] = 0 /\ Sums(none)[m + 1] = 0
  BY <1>2, SumsOfNothing
<1> HIDE DEF none, from
<1>4. Sums(none)[from(t)] - Sums(none)[from(s)] <= Sums(c)[from(t)] - Sums(c)[from(s)]
  BY <1>1, <1>2, SpansCompare
<1>5. Sums(none)[m + 1] - Sums(none)[from(t)] <= Sums(c)[m + 1] - Sums(c)[from(t)]
  BY <1>1, <1>2, SpansCompare
<1>6. Sums(c)[from(s)] \in Nat /\ Sums(c)[from(t)] \in Nat /\ Sums(c)[m + 1] \in Nat
  BY <1>2, SumsStep
<1>7. /\ SinceAt(c, m, t) = Sums(c)[m + 1] - Sums(c)[from(t)]
      /\ SinceAt(c, m, s) = Sums(c)[m + 1] - Sums(c)[from(s)]
  BY DEF SinceAt, from
<1> QED
  BY <1>3, <1>4, <1>5, <1>6, <1>7

(* A span in which nothing is counted.                                      *)
LEMMA SinceNothing ==
    ASSUME NEW c \in Counts, NEW m \in Moments, NEW t \in Int, t <= m + 1,
           \A n \in Moments : t <= n /\ n <= m => c[n] = 0
    PROVE  SinceAt(c, m, t) = 0
<1> DEFINE none == [n \in Moments |-> 0]
           from == IF t > 0 THEN t ELSE 0
<1>1. none \in Counts /\ \A n \in Moments : from <= n /\ n < m + 1 => c[n] <= none[n]
  BY DEF Counts, Moments
<1>2. from \in 0..(MaxMoment + 1) /\ m + 1 \in 0..(MaxMoment + 1) /\ from <= m + 1
  BY LimiterAssumption DEF Moments
<1>3. Sums(none)[from] = 0 /\ Sums(none)[m + 1] = 0
  BY <1>2, SumsOfNothing
<1>4. SinceAt(c, m, t) = Sums(c)[m + 1] - Sums(c)[from] /\ SinceAt(c, m, t) \in Nat
  BY SinceShrinks DEF SinceAt
<1> HIDE DEF none, from
<1>5. Sums(c)[m + 1] - Sums(c)[from] <= Sums(none)[m + 1] - Sums(none)[from]
  BY <1>1, <1>2, SpansCompare
<1> QED
  BY <1>3, <1>4, <1>5

(* Each moment of a span is part of its sum.                                *)
LEMMA SinceCounts ==
    ASSUME NEW c \in Counts, NEW m \in Moments, NEW n \in Moments, n <= m, NEW t \in Int, t <= n
    PROVE  SinceAt(c, m, t) >= c[n]
<1>1. SinceAt(c, m, n) <= SinceAt(c, m, t) /\ SinceAt(c, m, t) \in Nat
  BY SinceShrinks DEF Moments
<1>2. SinceAt(c, m, n + 1) <= SinceAt(c, m, n) /\ SinceAt(c, m, n + 1) \in Nat
  BY SinceShrinks DEF Moments
<1>3. Sums(c)[n + 1] = Sums(c)[n] + c[n]
  BY SumsStep
<1>4. /\ SinceAt(c, m, n) = Sums(c)[m + 1] - Sums(c)[n]
      /\ SinceAt(c, m, n + 1) = Sums(c)[m + 1] - Sums(c)[n + 1]
  BY DEF SinceAt, Moments
<1>5. Sums(c)[m + 1] \in Nat /\ Sums(c)[n] \in Nat /\ Sums(c)[n + 1] \in Nat /\ c[n] \in Nat
  <2>1. /\ m + 1 \in 0..(MaxMoment + 1) /\ n \in 0..(MaxMoment + 1)
        /\ n + 1 \in 0..(MaxMoment + 1)
    BY LimiterAssumption DEF Moments
  <2> QED
    BY <2>1, SumsStep DEF Counts
<1>6. SinceAt(c, m, n) = SinceAt(c, m, n + 1) + c[n]
  BY <1>3, <1>4, <1>5
<1> QED
  BY <1>1, <1>2, <1>5, <1>6

(* One more now, and the same when the clock has moved on.                  *)
LEMMA SinceMoves ==
    ASSUME NEW c \in Counts, NEW m \in Moments, NEW t \in Int
    PROVE  /\ t <= m => SinceAt([c EXCEPT ![m] = @ + 1], m, t) = SinceAt(c, m, t) + 1
           /\ m + 1 \in Moments /\ c[m + 1] = 0 => SinceAt(c, m + 1, t) = SinceAt(c, m, t)
<1> DEFINE from == IF t > 0 THEN t ELSE 0
<1>1. ASSUME t <= m PROVE SinceAt([c EXCEPT ![m] = @ + 1], m, t) = SinceAt(c, m, t) + 1
  <2>1. /\ from \in 0..(MaxMoment + 1) /\ m + 1 \in 0..(MaxMoment + 1)
        /\ from <= m /\ m < m + 1
    BY <1>1, LimiterAssumption DEF Moments
  <2> DEFINE d == [c EXCEPT ![m] = @ + 1]
  <2>2. SinceAt(d, m, t) = Sums(d)[m + 1] - Sums(d)[from] /\ SinceAt(c, m, t) = Sums(c)[m + 1] - Sums(c)[from]
    BY DEF SinceAt
  <2>4. d \in Counts /\ d[m] = c[m] + 1 /\ \A i \in Moments \ {m} : d[i] = c[i]
    BY DEF Counts
  <2> HIDE DEF from, d
  <2>3. Sums(d)[m + 1] - Sums(d)[from] = Sums(c)[m + 1] - Sums(c)[from] + 1
    BY <2>1, <2>4, SpanExtended
  <2> QED
    BY <2>2, <2>3 DEF d
<1>2. ASSUME m + 1 \in Moments, c[m + 1] = 0 PROVE SinceAt(c, m + 1, t) = SinceAt(c, m, t)
  <2>1. Sums(c)[(m + 1) + 1] = Sums(c)[m + 1] + 0
    BY <1>2, SumsStep
  <2>2. Sums(c)[m + 1] \in Nat
    BY SumsStep, LimiterAssumption DEF Moments
  <2>3. Sums(c)[(m + 1) + 1] = Sums(c)[m + 1]
    BY <2>1, <2>2
  <2> QED
    BY <2>3 DEF SinceAt
<1> QED
  BY <1>1, <1>2

(* What is counted besides at a moment is in every span that has begun by it. *)
LEMMA SinceAdds ==
    ASSUME NEW c \in Counts, NEW m \in Moments, NEW n \in Moments, n <= m,
           NEW x \in Nat, NEW d \in Counts, d[n] = c[n] + x,
           \A i \in Moments \ {n} : d[i] = c[i], NEW t \in Int, t <= m + 1
    PROVE  SinceAt(d, m, t) = SinceAt(c, m, t) + (IF t <= n THEN x ELSE 0)
<1> DEFINE from == IF t > 0 THEN t ELSE 0
<1>1. d \in Counts /\ d[n] = c[n] + x /\ \A i \in Moments \ {n} : d[i] = c[i]
  OBVIOUS
<1>2. /\ from \in 0..(MaxMoment + 1) /\ m + 1 \in 0..(MaxMoment + 1) /\ from <= m + 1
      /\ n \in Nat /\ (t <= n => from <= n) /\ n < m + 1 /\ (~ (t <= n) => n < from)
  BY LimiterAssumption DEF Moments
<1>3. /\ SinceAt(d, m, t) = Sums(d)[m + 1] - Sums(d)[from]
      /\ SinceAt(c, m, t) = Sums(c)[m + 1] - Sums(c)[from]
  BY DEF SinceAt
<1>4. /\ Sums(c)[from] \in Nat /\ Sums(c)[m + 1] \in Nat
      /\ Sums(d)[from] \in Nat /\ Sums(d)[m + 1] \in Nat
  BY <1>1, <1>2, SumsStep
<1> HIDE DEF from
<1>5. CASE t <= n
  <2> DEFINE k == m + 1
  <2>1. from <= n /\ n < k /\ k \in 0..(MaxMoment + 1) /\ from \in 0..(MaxMoment + 1)
    BY <1>2, <1>5
  <2> HIDE DEF k
  <2>2. Sums(d)[k] - Sums(d)[from] = Sums(c)[k] - Sums(c)[from] + x
    BY <1>1, <2>1, SpanExtended
  <2> QED
    BY <1>1, <1>3, <1>4, <1>5, <2>2 DEF k
<1>6. CASE ~ (t <= n)
  <2>1. \A i \in Moments : from <= i /\ i < m + 1 => c[i] <= d[i] /\ d[i] <= c[i]
    <3> SUFFICES ASSUME NEW i \in Moments, from <= i PROVE c[i] <= d[i] /\ d[i] <= c[i]
      OBVIOUS
    <3>1. i # n /\ c[i] \in Nat
      BY <1>2, <1>6 DEF Moments, Counts
    <3> QED
      BY <1>1, <3>1
  <2>2. Sums(d)[m + 1] - Sums(d)[from] <= Sums(c)[m + 1] - Sums(c)[from]
    BY <1>1, <1>2, <2>1, SpansCompare
  <2>3. Sums(c)[m + 1] - Sums(c)[from] <= Sums(d)[m + 1] - Sums(d)[from]
    BY <1>1, <1>2, <2>1, SpansCompare
  <2> QED
    BY <1>1, <1>3, <1>4, <1>6, <2>2, <2>3
<1> QED
  BY <1>1, <1>5, <1>6

(* Where less is counted at each moment, less is counted since.             *)
LEMMA SinceCompares ==
    ASSUME NEW c \in Counts, NEW d \in Counts, NEW m \in Moments, NEW t \in Int, t <= m + 1,
           \A n \in Moments : t <= n /\ n <= m => c[n] <= d[n]
    PROVE  SinceAt(c, m, t) <= SinceAt(d, m, t)
<1> DEFINE from == IF t > 0 THEN t ELSE 0
<1>1. from \in 0..(MaxMoment + 1) /\ m + 1 \in 0..(MaxMoment + 1) /\ from <= m + 1
  BY LimiterAssumption DEF Moments
<1>2. \A n \in Moments : from <= n /\ n < m + 1 => c[n] <= d[n]
  BY DEF Moments
<1> HIDE DEF from
<1>3. Sums(c)[m + 1] - Sums(c)[from] <= Sums(d)[m + 1] - Sums(d)[from]
  BY <1>1, <1>2, SpansCompare
<1> QED
  BY <1>3 DEF SinceAt, from

\* Where the window begins, and where it does for who came back after cleanup.
WindowStart == moment - Window + 1
CountStart  == (IF overrun > moment - Window THEN overrun ELSE moment - Window) + 1

(* The sums of the invariant, as sums of what is allowed up to the moment.  *)
LEMMA SumsOfInvariant ==
    /\ Recent = SinceAt(allowed, moment, WindowStart)
    /\ RecentOrAt = SinceAt(allowed, moment, moment - Window)
    /\ Since(allowed, (IF overrun > moment - Window THEN overrun ELSE moment - Window) + 1)
           = SinceAt(allowed, moment, CountStart)
BY DEF Recent, RecentOrAt, Since, SinceAt, WindowStart, CountStart

\* What the proofs need of the clock and of the sums.
Clock ==
    /\ moment \in Moments /\ allowed \in Counts /\ overrun \in -1..MaxMoment
    /\ overrun <= moment
    /\ WindowStart \in Int /\ CountStart \in Int /\ WindowStart <= CountStart
    /\ WindowStart <= moment /\ CountStart <= moment + 1

(* It holds wherever the types do.                                          *)
LEMMA ClockRuns ==
    ASSUME moment \in Moments, allowed \in Counts, overrun \in -1..MaxMoment, overrun <= moment
    PROVE  Clock
BY LimiterAssumption DEF Clock, WindowStart, CountStart, Moments

(* One request is let through now, and is counted.                          *)
LEMMA CountedOnce ==
    ASSUME Clock, UNCHANGED <<moment, overrun>>, LetThrough
    PROVE  /\ Recent' = Recent + 1 /\ allowed' \in Counts
           /\ SinceAt(allowed', moment', CountStart') <= SinceAt(allowed, moment, CountStart) + 1
           /\ SinceAt(allowed, moment, CountStart) \in Nat /\ Recent \in Nat
           /\ allowed'[moment] = allowed[moment] + 1
           /\ \A t \in Moments \ {moment} : allowed'[t] = allowed[t]
<1>1. /\ allowed' = [allowed EXCEPT ![moment] = @ + 1] /\ moment' = moment
      /\ CountStart' = CountStart /\ WindowStart' = WindowStart
  BY DEF LetThrough, CountStart, WindowStart
<1>2. /\ allowed' \in Counts /\ allowed'[moment] = allowed[moment] + 1
      /\ \A t \in Moments \ {moment} : allowed'[t] = allowed[t]
  BY <1>1 DEF Clock, Counts
<1>3. Recent' = SinceAt(allowed', moment, WindowStart) /\ Recent = SinceAt(allowed, moment, WindowStart)
  BY <1>1, SumsOfInvariant DEF Recent, Since, SinceAt, WindowStart
<1>4. Recent' = Recent + 1
  BY <1>1, <1>3, SinceMoves DEF Clock
<1>5. SinceAt(allowed, moment, CountStart) \in Nat /\ Recent \in Nat
  BY <1>3, SinceShrinks DEF Clock
<1>6. SinceAt(allowed', moment, CountStart) <= SinceAt(allowed, moment, CountStart) + 1
  <2>1. CASE CountStart <= moment
    <3>1. SinceAt(allowed', moment, CountStart) = SinceAt(allowed, moment, CountStart) + 1
      BY <1>1, <2>1, SinceMoves DEF Clock
    <3> QED
      BY <1>5, <3>1
  <2>2. CASE CountStart = moment + 1
    <3>1. \A n \in Moments : CountStart <= n /\ n <= moment => allowed'[n] = 0
      BY <2>2 DEF Clock, Moments
    <3>2. SinceAt(allowed', moment, CountStart) = 0
      BY <1>2, <3>1, SinceNothing DEF Clock
    <3> QED
      BY <1>5, <3>2
  <2> QED
    BY <2>1, <2>2 DEF Clock, Moments
<1> QED
  BY <1>1, <1>2, <1>4, <1>5, <1>6

\* What each step preserves without more ado.
LimiterShape ==
    /\ LimiterTypeOK /\ overrun <= moment /\ refusal > 0
    /\ \A t \in Moments : t > moment => allowed[t] = 0

(* Sets of requests are finite, and count one more or one less.             *)
LEMMA VisitsCounted ==
    ASSUME NEW A, A \subseteq Visits, NEW B, B \subseteq Visits, NEW v \in Visits
    PROVE  /\ Cardinality(A) \in Nat /\ Cardinality(B) \in Nat
           /\ A \subseteq B => Cardinality(A) <= Cardinality(B)
           /\ v \notin A /\ B = A \cup {v} => Cardinality(B) = Cardinality(A) + 1
           /\ v \in A /\ B = A \ {v} => Cardinality(B) = Cardinality(A) - 1
<1>1. IsFiniteSet(A) /\ IsFiniteSet(B)
  BY FS_Subset, LimiterAssumption
<1>2. Cardinality(A) \in Nat /\ Cardinality(B) \in Nat
  BY <1>1, FS_CardinalityType
<1>3. A \subseteq B => Cardinality(A) <= Cardinality(B)
  BY <1>1, FS_Subset
<1>4. v \notin A /\ B = A \cup {v} => Cardinality(B) = Cardinality(A) + 1
  BY <1>1, FS_AddElement
<1>5. v \in A /\ B = A \ {v} => Cardinality(B) = Cardinality(A) - 1
  BY <1>1, FS_RemoveElement
<1> QED
  BY <1>2, <1>3, <1>4, <1>5

(* The sums of the Redis invariant, as sums up to the moment.               *)
LEMMA SinceIsAt ==
    ASSUME NEW c, NEW t
    PROVE  Since(c, t) = SinceAt(c, moment, t)
BY DEF Since, SinceAt

(* What the types say of Redis.                                             *)
LEMMA RedisShape ==
    ASSUME LimiterTypeOK
    PROVE  /\ moment \in Moments /\ moment \in Nat /\ Moments \subseteq Nat
           /\ Window \in Nat /\ Window > 0 /\ Rate \in Nat /\ MaxMoment \in Nat
           /\ Never = MaxMoment + Window + 1 /\ Never \in Nat
           /\ expiry \in Nat /\ stamp \in [Visits -> Moments] /\ visit \in [Visits -> VisitStates]
           /\ zset \in Counts /\ allowed \in Counts /\ counted \in Counts /\ caught \in Counts
           /\ Granted \in Counts
           /\ \A t : Cardinality(AboutToCount(t)) \in Nat /\ Cardinality(Held(t)) \in Nat
                     /\ Cardinality(Owing(t)) \in Nat
           /\ \A t \in BeforeWindows \cup {-1} : t \in Int /\ UnderWayAfter(t) \in Nat
<1>1. /\ moment \in Moments /\ moment \in Nat /\ Moments \subseteq Nat
      /\ Window \in Nat /\ Window > 0 /\ Rate \in Nat /\ MaxMoment \in Nat
      /\ Never = MaxMoment + Window + 1 /\ Never \in Nat /\ expiry \in Nat
  BY LimiterAssumption DEF LimiterTypeOK, Moments, Never
<1>2. ASSUME NEW t PROVE /\ Cardinality(AboutToCount(t)) \in Nat /\ Cardinality(Held(t)) \in Nat
                         /\ Cardinality(Owing(t)) \in Nat
  <2>1. AboutToCount(t) \subseteq Visits /\ Held(t) \subseteq Visits /\ Owing(t) \subseteq Visits
    BY DEF AboutToCount, Held, Owing
  <2> QED
    BY <2>1, FS_Subset, FS_CardinalityType, LimiterAssumption
<1>3. Granted \in Counts
  BY <1>2 DEF Granted, Counts, LimiterTypeOK
<1>4. ASSUME NEW t \in BeforeWindows \cup {-1} PROVE t \in Int /\ UnderWayAfter(t) \in Nat
  <2>1. t = -1 \/ (t \in BeforeWindows /\ t \in Nat)
    BY <1>1 DEF BeforeWindows
  <2> QED
    BY <2>1 DEF UnderWayAfter, LimiterTypeOK
<1> QED
  BY <1>1, <1>2, <1>3, <1>4 DEF LimiterTypeOK

(* The clock moves on, in Redis: whoever is under way when a window begins  *)
(* is recorded.                                                             *)
LEMMA TickKeepsMembers ==
    ASSUME LimiterInv, LimiterTick, backend = "redis"
    PROVE  StampsInv' /\ GrantedInv' /\ PassedInv'
<1>1. /\ moment' = moment + 1 /\ moment < MaxMoment
      /\ underWay' = [t \in BeforeWindows |-> IF t = moment THEN Cardinality(UnderWay) ELSE underWay[t]]
      /\ UNCHANGED <<zset, expiry, visit, stamp, lost, counted, caught, allowed>>
  BY DEF LimiterTick, setVars
<1>2. /\ moment \in Moments /\ moment \in Nat /\ Moments \subseteq Nat
      /\ Window \in Nat /\ Window > 0 /\ Rate \in Nat /\ MaxMoment \in Nat
      /\ stamp \in [Visits -> Moments] /\ allowed \in Counts /\ counted \in Counts
      /\ caught \in Counts /\ Granted \in Counts /\ expiry \in Nat
  BY RedisShape DEF LimiterInv
<1>3. /\ \A t \in Moments : t > moment => counted[t] = 0 /\ caught[t] = 0 /\ allowed[t] = 0
      /\ \A v \in Visits : stamp[v] <= moment
      /\ \A v \in lost : visit[v] # "idle"
  BY DEF LimiterInv, StampsInv
<1>4. moment + 1 \in Moments /\ moment + 1 > moment
  BY <1>1, <1>2 DEF Moments
<1>5. \A t : Held(t)' = Held(t) /\ AboutToCount(t)' = AboutToCount(t) /\ Owing(t)' = Owing(t)
  BY <1>1 DEF Held, AboutToCount, Owing
<1>6. Granted' = Granted
  BY <1>1, <1>5 DEF Granted
<1>7. StampsInv'
  <2>1. \A t \in Moments : t > moment + 1 => t > moment
    BY <1>2
  <2>2. ASSUME NEW v \in Visits PROVE stamp[v] <= moment + 1
    <3>1. stamp[v] \in Nat /\ stamp[v] <= moment
      BY <1>2, <1>3
    <3> QED
      BY <1>2, <3>1
  <2> QED
    BY <1>1, <1>3, <2>1, <2>2 DEF StampsInv
<1>8. GrantedInv'
  <2>1. Granted[moment + 1] = 0
    <3>1. Held(moment + 1) = {}
      BY <1>2, <1>3, <1>4 DEF Held
    <3>2. Granted[moment + 1] = counted[moment + 1] + Cardinality(Held(moment + 1))
      BY <1>4 DEF Granted
    <3> QED
      BY <1>3, <1>4, <3>1, <3>2, FS_EmptySet
  <2>2. /\ moment - Window + 1 \in Int /\ moment - Window + 2 \in Int
        /\ moment - Window + 1 <= moment - Window + 2 /\ moment - Window + 2 <= moment + 1
        /\ moment' - Window + 1 = moment - Window + 2
    BY <1>1, <1>2
  <2>3. /\ SinceAt(Granted, moment, moment - Window + 2) <= SinceAt(Granted, moment, moment - Window + 1)
        /\ SinceAt(Granted, moment, moment - Window + 2) \in Nat
        /\ SinceAt(Granted, moment, moment - Window + 1) \in Nat
    BY <1>2, <2>2, SinceShrinks
  <2>4. SinceAt(Granted, moment + 1, moment - Window + 2) = SinceAt(Granted, moment, moment - Window + 2)
    BY <1>2, <1>4, <2>1, <2>2, SinceMoves
  <2>5. Since(Granted, moment - Window + 1) <= Rate
    BY DEF LimiterInv, GrantedInv
  <2>6. SinceAt(Granted, moment, moment - Window + 1) <= Rate
    BY <2>5, SinceIsAt
  <2>7. SinceAt(Granted, moment + 1, moment - Window + 2) <= Rate
    BY <1>2, <2>3, <2>4, <2>6
  <2>8. Since(Granted, moment - Window + 1)' = SinceAt(Granted', moment', moment' - Window + 1)
    BY DEF Since, SinceAt
  <2>9. Since(Granted, moment - Window + 1)' <= Rate
    BY <1>1, <1>6, <2>2, <2>7, <2>8
  <2>10. \A t \in Moments : t > moment' - Window =>
             Granted'[t] + Cardinality(AboutToCount(t)') <= zset'[t]
    BY <1>1, <1>2, <1>5, <1>6 DEF LimiterInv, GrantedInv
  <2>11. \A t \in Moments : counted'[t] > 0 => t <= expiry' - Window
    BY <1>1 DEF LimiterInv, GrantedInv
  <2> QED
    BY <2>9, <2>10, <2>11 DEF GrantedInv
<1>9. PassedInv'
  <2> SUFFICES ASSUME NEW t \in BeforeWindows \cup {-1}, t < moment'
               PROVE  Since(allowed, t + 1)' + Cardinality(Owing(t)')
                        <= Since(counted, t + 1)' + UnderWayAfter(t)' + Since(caught, t + 1)'
    BY DEF PassedInv
  <2>1. /\ Since(allowed, t + 1)' = SinceAt(allowed, moment + 1, t + 1)
        /\ Since(counted, t + 1)' = SinceAt(counted, moment + 1, t + 1)
        /\ Since(caught, t + 1)' = SinceAt(caught, moment + 1, t + 1)
    BY <1>1 DEF Since, SinceAt
  <2>2. t \in Int /\ t + 1 \in Int /\ t <= moment
    BY <1>1, <1>2 DEF BeforeWindows
  <2>3. /\ SinceAt(allowed, moment + 1, t + 1) = SinceAt(allowed, moment, t + 1)
        /\ SinceAt(counted, moment + 1, t + 1) = SinceAt(counted, moment, t + 1)
        /\ SinceAt(caught, moment + 1, t + 1) = SinceAt(caught, moment, t + 1)
    BY <1>2, <1>3, <1>4, <2>2, SinceMoves
  <2>4. CASE t < moment
    <3>2. Since(allowed, t + 1) + Cardinality(Owing(t))
              <= Since(counted, t + 1) + UnderWayAfter(t) + Since(caught, t + 1)
      BY <2>4 DEF LimiterInv, PassedInv
    <3>3. UnderWayAfter(t)' = UnderWayAfter(t)
      <4>1. t < 0 \/ (t \in BeforeWindows /\ t # moment)
        BY <2>2, <2>4
      <4> QED
        BY <1>1, <4>1 DEF UnderWayAfter
    <3> QED
      BY <1>5, <2>1, <2>3, <3>2, <3>3, SinceIsAt
  <2>5. CASE t = moment
    <3>1. UnderWayAfter(t)' = Cardinality(UnderWay)
      <4>1. t \in BeforeWindows /\ ~ (t < 0)
        BY <1>2, <2>5
      <4> QED
        BY <1>1, <2>5, <4>1 DEF UnderWayAfter
    <3>2. Owing(t) = UnderWay
      BY <1>3, <2>5 DEF Owing, UnderWay
    <3>3. \A n \in Moments : t + 1 <= n /\ n <= moment => allowed[n] = 0 /\ counted[n] = 0 /\ caught[n] = 0
      BY <1>2, <2>5
    <3>4. /\ SinceAt(allowed, moment, t + 1) = 0 /\ SinceAt(counted, moment, t + 1) = 0
          /\ SinceAt(caught, moment, t + 1) = 0
      <4>1. t + 1 <= moment + 1
        BY <1>2, <2>2
      <4> QED
        BY <1>2, <2>2, <3>3, <4>1, SinceNothing
    <3>5. Cardinality(UnderWay) \in Nat
      BY FS_Subset, FS_CardinalityType, LimiterAssumption DEF UnderWay
    <3> QED
      BY <1>5, <2>1, <2>3, <3>1, <3>2, <3>4, <3>5
  <2> QED
    BY <1>2, <2>2, <2>4, <2>5
<1> QED
  BY <1>7, <1>8, <1>9

(* The clock moves on: windows begin later.                                 *)
LEMMA TickKeeps ==
    ASSUME LimiterInv, LimiterTick
    PROVE  LimiterInv'
<1>1. /\ moment' = moment + 1 /\ moment' \in Moments /\ overrun <= moment
      /\ UNCHANGED <<backend, visitorVars, setVars, allowed>>
      /\ UNCHANGED <<visitor, expired, overrun, refusal>>
      /\ UNCHANGED <<zset, expiry, visit, stamp, lost, counted, caught>>
  BY LimiterAssumption DEF LimiterTick, LimiterInv, LimiterTypeOK, Moments, visitorVars, setVars
<1>2. Clock /\ Clock'
  <2>1. Clock
    BY ClockRuns DEF LimiterInv, LimiterTypeOK
  <2>2. moment' \in Moments /\ allowed' \in Counts /\ overrun' \in -1..MaxMoment /\ overrun' <= moment'
    BY <1>1 DEF LimiterInv, LimiterTypeOK, Moments
  <2>3. WindowStart' = moment' - Window + 1 /\ CountStart' = (IF overrun' > moment' - Window THEN overrun' ELSE moment' - Window) + 1
    BY <1>1 DEF WindowStart, CountStart
  <2>4. moment' \in 0..MaxMoment /\ Window \in Nat \ {0} /\ MaxMoment \in Nat
    BY <1>1, LimiterAssumption DEF Moments
  <2>5. /\ WindowStart' \in Int /\ CountStart' \in Int /\ WindowStart' <= CountStart'
        /\ WindowStart' <= moment' /\ CountStart' <= moment' + 1
    <3>1. ASSUME NEW m \in Nat, NEW o \in Int, o <= m
          PROVE  LET start == (IF o > m - Window THEN o ELSE m - Window) + 1
                 IN  /\ start \in Int /\ m - Window + 1 \in Int /\ m - Window + 1 <= start
                     /\ m - Window + 1 <= m /\ start <= m + 1
      <4>1. Window \in Nat /\ Window >= 1
        BY LimiterAssumption
      <4>2. CASE o > m - Window
        BY <3>1, <4>1, <4>2
      <4>3. CASE ~ (o > m - Window)
        BY <3>1, <4>1, <4>3
      <4> QED
        BY <4>2, <4>3
    <3>2. moment' \in Nat /\ overrun' \in Int /\ overrun' <= moment'
      BY <2>2, <2>4
    <3> QED
      BY <2>3, <3>1, <3>2, Zenon
  <2>6. Clock'
    BY <2>2, <2>5 DEF Clock
  <2> QED
    BY <2>1, <2>6
<1>3. allowed[moment + 1] = 0
  <2>1. moment \in Nat /\ moment + 1 \in Moments /\ moment + 1 > moment
    BY <1>1, LimiterAssumption DEF LimiterInv, LimiterTypeOK, Moments
  <2> QED
    BY <2>1 DEF LimiterInv
<1>4. \A t \in Int : t <= moment + 1 =>
          SinceAt(allowed', moment', t) = SinceAt(allowed, moment, t)
  BY <1>1, <1>2, <1>3, SinceMoves DEF Clock
<1>5. WindowStart' = WindowStart + 1 /\ CountStart <= CountStart' /\ CountStart' <= moment + 1
  BY <1>1, <1>2, LimiterAssumption DEF WindowStart, CountStart, Clock, Moments
<1>6. Recent' <= Recent /\ Recent \in Nat /\ Recent' \in Nat
  <2>1. Recent' = SinceAt(allowed', moment', WindowStart')
    BY DEF Recent, Since, SinceAt, WindowStart
  <2>2. Recent = SinceAt(allowed, moment, WindowStart)
    BY SumsOfInvariant
  <2>3. WindowStart + 1 <= moment + 1 /\ WindowStart + 1 \in Int
    BY <1>2 DEF Clock, Moments
  <2>4. /\ SinceAt(allowed, moment, WindowStart + 1) <= SinceAt(allowed, moment, WindowStart)
        /\ SinceAt(allowed, moment, WindowStart + 1) \in Nat
        /\ SinceAt(allowed, moment, WindowStart) \in Nat
    BY <1>2, <2>3, SinceShrinks DEF Clock
  <2> QED
    BY <1>4, <1>5, <2>1, <2>2, <2>3, <2>4
<1>7. /\ SinceAt(allowed', moment', CountStart') <= SinceAt(allowed, moment, CountStart)
      /\ SinceAt(allowed', moment', CountStart') \in Nat
      /\ SinceAt(allowed, moment, CountStart) \in Nat
  <2>1. /\ SinceAt(allowed, moment, CountStart') <= SinceAt(allowed, moment, CountStart)
        /\ SinceAt(allowed, moment, CountStart') \in Nat
        /\ SinceAt(allowed, moment, CountStart) \in Nat
    BY <1>2, <1>5, SinceShrinks DEF Clock
  <2> QED
    BY <1>2, <1>4, <1>5, <2>1 DEF Clock
<1>8. LimiterShape'
  <2>1. underWay' \in [BeforeWindows -> Nat]
    BY FS_Subset, FS_CardinalityType, LimiterAssumption DEF LimiterTick, UnderWay, LimiterInv, LimiterTypeOK
  <2> QED
    BY <1>1, <2>1 DEF LimiterInv, LimiterTypeOK, LimiterShape, Moments
<1>9. ASSUME backend = "memory" PROVE CountedAllowed'
  <2>1. /\ SinceAt(allowed, moment, CountStart) <= visitor.count /\ visitor.count \in Nat
        /\ Recent <= (IF overrun > moment - Window THEN Rate ELSE 0) + visitor.count
    BY <1>9, SumsOfInvariant DEF LimiterInv, CountedAllowed, LimiterTypeOK
  <2>2. SinceAt(allowed', moment', CountStart') <= visitor.count
    BY <1>7, <2>1
  <2>3. Recent' <= (IF overrun > moment' - Window THEN Rate ELSE 0) + visitor.count
    <3>1. CASE overrun > moment' - Window
      BY <1>1, <1>6, <2>1, <3>1, LimiterAssumption DEF Moments, LimiterInv, LimiterTypeOK
    <3>2. CASE ~ (overrun > moment' - Window)
      <4>1. CountStart' = WindowStart'
        BY <1>1, <3>2, LimiterAssumption DEF CountStart, WindowStart, Moments, LimiterInv, LimiterTypeOK
      <4>2. Recent' = SinceAt(allowed', moment', WindowStart')
        BY DEF Recent, Since, SinceAt, WindowStart
      <4> QED
        BY <2>1, <2>2, <3>2, <4>1, <4>2
    <3> QED
      BY <3>1, <3>2
  <2>4. Since(allowed, (IF overrun > moment - Window THEN overrun ELSE moment - Window) + 1)'
            = SinceAt(allowed', moment', CountStart')
    BY DEF Since, SinceAt, CountStart
  <2> QED
    BY <1>1, <1>9, <2>2, <2>3, <2>4, LimiterAssumption DEF LimiterInv, CountedAllowed, LimiterTypeOK, Moments
<1>10. ASSUME backend = "redis" PROVE StampsInv' /\ GrantedInv' /\ PassedInv'
  BY <1>10, TickKeepsMembers
<1> QED
  BY <1>1, <1>8, <1>9, <1>10 DEF LimiterInv, LimiterShape

(* isAllowed, in memory.                                                    *)
LEMMA AllowingKeeps ==
    ASSUME LimiterInv, IsAllowed
    PROVE  LimiterInv'
<1>1. /\ backend = "memory" /\ UNCHANGED <<backend, moment, expired, overrun, underWay>>
      /\ UNCHANGED <<zset, expiry, visit, stamp, lost, counted, caught>>
      /\ CountedAllowed
  BY DEF IsAllowed, LimiterInv, setVars
<1>2. Clock
  BY ClockRuns DEF LimiterInv, LimiterTypeOK
<1>3. /\ SinceAt(allowed, moment, CountStart) <= visitor.count
      /\ Recent <= (IF overrun > moment - Window THEN Rate ELSE 0) + visitor.count
      /\ visitor.count \in 0..Rate /\ visitor.lastSeen \in Moments
      /\ moment \in Nat
  BY <1>1, SumsOfInvariant DEF CountedAllowed, LimiterInv, LimiterTypeOK, Moments
<1>4. Since(allowed, (IF overrun > moment - Window THEN overrun ELSE moment - Window) + 1)'
          = SinceAt(allowed', moment', CountStart')
  BY DEF Since, SinceAt, CountStart
<1>5. CASE Known /\ visitor.count >= Rate /\ Refuse /\ UNCHANGED visitor
  <2>1. RecentOrAt >= allowed[visitor.lastSeen] /\ allowed[visitor.lastSeen] > 0
    <3>1. /\ visitor.count > 0 /\ moment - Window <= visitor.lastSeen
          /\ visitor.lastSeen <= moment /\ allowed[visitor.lastSeen] > 0
      <4>1. visitor.count >= Rate /\ moment - visitor.lastSeen <= Window
        BY <1>5 DEF Known
      <4>2. visitor.count > 0 /\ moment - Window <= visitor.lastSeen
        BY <1>3, <4>1, LimiterAssumption DEF Moments
      <4> QED
        BY <1>1, <4>2 DEF CountedAllowed
    <3>2. SinceAt(allowed, moment, moment - Window) >= allowed[visitor.lastSeen]
      <4>1. moment - Window \in Int
        BY <1>3, LimiterAssumption
      <4> QED
        BY <1>2, <1>3, <3>1, <4>1, SinceCounts DEF Clock
    <3> QED
      BY <3>1, <3>2, SumsOfInvariant
  <2>2. RecentOrAt \in Nat
    <3>1. moment - Window \in Int /\ moment - Window <= moment + 1
      BY <1>3, LimiterAssumption
    <3> QED
      BY <1>2, <3>1, SinceShrinks, SumsOfInvariant DEF Clock
  <2>3. allowed[visitor.lastSeen] \in Nat
    BY <1>2, <1>3 DEF Clock, Counts
  <2>4. refusal' \in Nat /\ refusal' > 0 /\ allowed' = allowed /\ visitor' = visitor
    BY <1>5, <2>1, <2>2, <2>3 DEF Refuse
  <2>5. LimiterShape' /\ CountedAllowed'
    BY <1>1, <2>4 DEF LimiterShape, LimiterInv, LimiterTypeOK, CountedAllowed, Since, Recent
  <2> QED
    BY <1>1, <2>5 DEF LimiterInv, LimiterShape
<1>6. CASE LetThrough /\ visitor'.count \in 1..Rate /\ visitor' = [count |-> visitor'.count, lastSeen |-> moment]
           /\ SinceAt(allowed, moment, CountStart) + 1 <= visitor'.count
           /\ Recent + 1 <= (IF overrun > moment - Window THEN Rate ELSE 0) + visitor'.count
  <2>1. /\ Recent' = Recent + 1 /\ allowed' \in Counts
        /\ SinceAt(allowed', moment', CountStart') <= SinceAt(allowed, moment, CountStart) + 1
        /\ SinceAt(allowed, moment, CountStart) \in Nat /\ Recent \in Nat
        /\ allowed'[moment] = allowed[moment] + 1
        /\ \A t \in Moments \ {moment} : allowed'[t] = allowed[t]
    BY <1>1, <1>2, <1>6, CountedOnce
  <2>2. refusal' = refusal /\ visitor'.lastSeen = moment /\ visitor' \in [count : 0..Rate, lastSeen : Moments]
    <3>1. moment \in Moments /\ visitor'.count \in 0..Rate
      BY <1>2, <1>6, LimiterAssumption DEF Clock
    <3> QED
      BY <1>6, <3>1 DEF LetThrough
  <2>3. LimiterShape'
    BY <1>1, <2>1, <2>2 DEF LimiterShape, LimiterInv, LimiterTypeOK, Moments
  <2>4. SinceAt(allowed', moment', CountStart') <= visitor'.count
    <3>1. moment + 1 \in Int /\ CountStart' = CountStart /\ moment' = moment
      BY <1>1, <1>3 DEF CountStart
    <3>2. SinceAt(allowed', moment', CountStart') \in Nat
      BY <1>2, <2>1, <3>1, SinceShrinks DEF Clock
    <3> QED
      BY <1>6, <2>1, <3>2
  <2>5. Recent' <= (IF overrun' > moment' - Window THEN Rate ELSE 0) + visitor'.count
    BY <1>1, <1>6, <2>1
  <2>6. allowed'[moment] > 0 /\ \A t \in Moments : t > moment => allowed'[t] = 0
    <3>1. allowed[moment] \in Nat
      BY <1>2 DEF Clock, Counts
    <3> QED
      BY <1>3, <2>1, <3>1 DEF LimiterInv, Moments
  <2>7. CountedAllowed'
    BY <1>1, <1>2, <1>3, <1>4, <2>2, <2>4, <2>5, <2>6 DEF CountedAllowed, Clock
  <2> QED
    BY <1>1, <2>3, <2>7 DEF LimiterInv, LimiterShape
<1>7. SinceAt(allowed, moment, CountStart) \in Nat /\ Recent \in Nat
  BY <1>2, SinceShrinks, SumsOfInvariant DEF Clock
<1>8. CASE Known /\ visitor.count < Rate /\ CountVisit
  <2>1. visitor'.count = visitor.count + 1 /\ visitor' = [count |-> visitor'.count, lastSeen |-> moment] /\ LetThrough
    BY <1>8 DEF CountVisit
  <2> QED
    BY <1>3, <1>6, <1>7, <1>8, <2>1, LimiterAssumption
<1>9. CASE ~ Known /\ visitor' = [count |-> 1, lastSeen |-> moment] /\ LetThrough
  <2>1. SinceAt(allowed, moment, CountStart) = 0
        /\ Recent <= (IF overrun > moment - Window THEN Rate ELSE 0)
    <3>1. CASE visitor.count = 0
      BY <1>3, <1>7, <3>1, LimiterAssumption
    <3>2. CASE visitor.count > 0
      <4>1. \A n \in Moments : WindowStart <= n => allowed[n] = 0
        BY <1>1, <1>3, <1>9, <3>2, LimiterAssumption DEF Known, CountedAllowed, WindowStart, Moments
      <4>2. SinceAt(allowed, moment, WindowStart) = 0
        BY <1>2, <1>3, <4>1, SinceNothing DEF Clock
      <4>3. SinceAt(allowed, moment, CountStart) <= SinceAt(allowed, moment, WindowStart)
        BY <1>2, SinceShrinks DEF Clock
      <4> QED
        BY <1>7, <4>2, <4>3, SumsOfInvariant, LimiterAssumption
    <3> QED
      BY <1>3, <3>1, <3>2
  <2> QED
    BY <1>6, <1>7, <1>9, <2>1, LimiterAssumption
<1> QED
  BY <1>5, <1>8, <1>9 DEF IsAllowed

(* The cleanup's two halves.                                                *)
LEMMA CleanupKeeps ==
    ASSUME LimiterInv, CleanupCollects \/ CleanupDeletes
    PROVE  LimiterInv'
<1>1. /\ backend = "memory" /\ CountedAllowed
      /\ UNCHANGED <<backend, moment, allowed, refusal, underWay>>
      /\ UNCHANGED <<zset, expiry, visit, stamp, lost, counted, caught>>
  BY DEF CleanupCollects, CleanupDeletes, LimiterInv, LimiterTypeOK, setVars
<1>2. Clock
  BY ClockRuns DEF LimiterInv, LimiterTypeOK
<1>3. /\ visitor.count \in 0..Rate /\ visitor.lastSeen \in Moments /\ moment \in 0..MaxMoment
      /\ overrun \in -1..MaxMoment
  BY DEF LimiterInv, LimiterTypeOK, Moments
<1>4. CASE CleanupCollects
  <2>1. expired' = TRUE /\ UNCHANGED <<visitor, overrun>> /\ overrun < moment - Window
    BY <1>1, <1>3, <1>4, LimiterAssumption DEF CleanupCollects, CountedAllowed, Moments
  <2>2. LimiterShape'
    BY <1>1, <2>1 DEF LimiterShape, LimiterInv, LimiterTypeOK
  <2>3. CountedAllowed'
    BY <1>1, <2>1 DEF CountedAllowed, Since, Recent
  <2> QED
    BY <1>1, <2>2, <2>3 DEF LimiterInv, LimiterShape
<1>5. CASE CleanupDeletes
  <2>1. /\ expired /\ expired' = FALSE /\ visitor' = NoVisitor /\ overrun < moment - Window
        /\ overrun' = IF Known THEN moment ELSE overrun
    BY <1>1, <1>5 DEF CleanupDeletes, CountedAllowed
  <2>2. overrun' \in -1..MaxMoment /\ overrun' <= moment /\ 0 \in 0..Rate /\ 0 \in Moments
    BY <1>2, <1>3, <2>1, LimiterAssumption DEF Clock, Moments
  <2>3. LimiterShape'
    BY <1>1, <2>1, <2>2 DEF LimiterShape, LimiterInv, LimiterTypeOK, NoVisitor
  <2>4. Recent <= visitor.count /\ Recent \in Nat /\ Recent' = Recent
    <3>1. Recent \in Nat
      BY <1>2, SinceShrinks, SumsOfInvariant DEF Clock
    <3> QED
      BY <1>1, <1>3, <2>1, <3>1, LimiterAssumption DEF CountedAllowed, Recent, Since
  <2>5. /\ SinceAt(allowed', moment', CountStart') <= 0
        /\ Recent' <= (IF overrun' > moment - Window THEN Rate ELSE 0)
    <3>1. CASE Known
      <4>1. overrun' = moment /\ CountStart' = moment + 1
        BY <1>1, <1>3, <2>1, <3>1, LimiterAssumption DEF CountStart
      <4>2. \A n \in Moments : moment + 1 <= n /\ n <= moment => allowed[n] = 0
        BY <1>3 DEF Moments
      <4>3. SinceAt(allowed, moment, moment + 1) = 0
        BY <1>2, <1>3, <4>2, SinceNothing DEF Clock
      <4> QED
        BY <1>1, <1>3, <2>4, <4>1, <4>3, LimiterAssumption
    <3>2. CASE ~ Known
      <4>1. overrun' = overrun /\ CountStart' = WindowStart
        BY <1>1, <1>3, <2>1, <3>2, LimiterAssumption DEF CountStart, WindowStart
      <4>2. Recent = 0
        <5>1. CASE visitor.count = 0
          BY <2>4, <5>1
        <5>2. CASE visitor.count > 0
          <6>1. \A n \in Moments : WindowStart <= n => allowed[n] = 0
            BY <1>1, <1>3, <3>2, <5>2, LimiterAssumption DEF Known, CountedAllowed, WindowStart, Moments
          <6>2. SinceAt(allowed, moment, WindowStart) = 0
            BY <1>2, <1>3, <6>1, SinceNothing DEF Clock
          <6> QED
            BY <6>2, SumsOfInvariant
        <5> QED
          BY <1>3, <5>1, <5>2
      <4>3. SinceAt(allowed', moment', CountStart') = 0
        BY <1>1, <4>1, <4>2, SumsOfInvariant
      <4> QED
        BY <2>4, <4>2, <4>3, LimiterAssumption
    <3> QED
      BY <3>1, <3>2
  <2>6. Since(allowed, (IF overrun > moment - Window THEN overrun ELSE moment - Window) + 1)'
            = SinceAt(allowed', moment', CountStart')
    BY DEF Since, SinceAt, CountStart
  <2>7. visitor'.count = 0
    BY <2>1 DEF NoVisitor
  <2>8. Recent' <= (IF overrun' > moment' - Window THEN Rate ELSE 0) + visitor'.count
    BY <1>1, <2>5, <2>7, <2>4, LimiterAssumption
  <2>9. CountedAllowed'
    BY <1>1, <2>1, <2>5, <2>6, <2>7, <2>8 DEF CountedAllowed
  <2> QED
    BY <1>1, <2>3, <2>9 DEF LimiterInv, LimiterShape
<1> QED
  BY <1>4, <1>5

(* A span of the set holds at most all its members.                         *)
LEMMA MembersBound ==
    ASSUME NEW c \in Counts, NEW j \in 0..(MaxMoment + 1), NEW k \in 0..(MaxMoment + 1), j <= k
    PROVE  Sums(c)[k] - Sums(c)[j] <= Sums(c)[MaxMoment + 1]
<1> DEFINE none == [n \in Moments |-> 0]
<1>1. none \in Counts /\ \A n \in Moments : none[n] = 0 /\ none[n] <= c[n]
  BY DEF Counts
<1>2. MaxMoment + 1 \in 0..(MaxMoment + 1) /\ k <= MaxMoment + 1
  BY LimiterAssumption
<1>3. Sums(none)[k] = 0 /\ Sums(none)[MaxMoment + 1] = 0
  BY <1>2, SumsOfNothing
<1> HIDE DEF none
<1>4. Sums(none)[MaxMoment + 1] - Sums(none)[k] <= Sums(c)[MaxMoment + 1] - Sums(c)[k]
  BY <1>1, <1>2, SpansCompare
<1>5. Sums(c)[j] \in Nat /\ Sums(c)[k] \in Nat /\ Sums(c)[MaxMoment + 1] \in Nat
  BY <1>2, SumsStep
<1> QED
  BY <1>3, <1>4, <1>5

(* Nobody is granted, and nobody begins to be counted.                      *)
LEMMA GrantedStays ==
    ASSUME LimiterTypeOK, GrantedInv,
           UNCHANGED <<moment, counted>>,
           \A t \in Moments : t > moment - Window => zset'[t] = zset[t],
           \A t \in Moments : counted[t] > 0 => t <= expiry' - Window,
           \A t : Held(t)' \subseteq Held(t) /\ AboutToCount(t)' \subseteq AboutToCount(t)
    PROVE  GrantedInv'
<1>1. /\ moment \in Moments /\ moment \in Nat /\ Moments \subseteq Nat /\ Rate \in Nat
      /\ Window \in Nat /\ Window > 0 /\ zset \in Counts /\ counted \in Counts /\ Granted \in Counts
      /\ \A t : Cardinality(AboutToCount(t)) \in Nat /\ Cardinality(Held(t)) \in Nat
  BY RedisShape
<1>2. \A t : /\ Cardinality(Held(t)') \in Nat /\ Cardinality(AboutToCount(t)') \in Nat
             /\ Cardinality(Held(t)') <= Cardinality(Held(t))
             /\ Cardinality(AboutToCount(t)') <= Cardinality(AboutToCount(t))
  <2> SUFFICES ASSUME NEW t
               PROVE  /\ Cardinality(Held(t)') \in Nat /\ Cardinality(AboutToCount(t)') \in Nat
                      /\ Cardinality(Held(t)') <= Cardinality(Held(t))
                      /\ Cardinality(AboutToCount(t)') <= Cardinality(AboutToCount(t))
    OBVIOUS
  <2>1. Held(t) \subseteq Visits /\ AboutToCount(t) \subseteq Visits
    BY DEF Held, AboutToCount
  <2>2. Held(t)' \subseteq Visits /\ AboutToCount(t)' \subseteq Visits
    BY <2>1
  <2> QED
    BY <2>1, <2>2, FS_Subset, FS_CardinalityType, LimiterAssumption
<1>3. /\ Granted' \in Counts
      /\ \A t \in Moments : Granted'[t] <= Granted[t] /\ Granted'[t] \in Nat /\ Granted[t] \in Nat
  BY <1>1, <1>2 DEF Granted, Counts
<1>4. Since(Granted, moment - Window + 1)' <= Rate
  <2>1. moment - Window + 1 \in Int /\ moment - Window + 1 <= moment + 1
    BY <1>1
  <2>2. /\ SinceAt(Granted', moment, moment - Window + 1) <= SinceAt(Granted, moment, moment - Window + 1)
        /\ SinceAt(Granted', moment, moment - Window + 1) \in Nat
        /\ SinceAt(Granted, moment, moment - Window + 1) \in Nat
    BY <1>1, <1>3, <2>1, SinceCompares, SinceShrinks
  <2>3. SinceAt(Granted, moment, moment - Window + 1) <= Rate
    BY SinceIsAt DEF GrantedInv
  <2>4. Since(Granted, moment - Window + 1)' = SinceAt(Granted', moment, moment - Window + 1)
    BY DEF Since, SinceAt
  <2> QED
    BY <1>1, <2>2, <2>3, <2>4
<1>5. ASSUME NEW t \in Moments, t > moment - Window
      PROVE  Granted'[t] + Cardinality(AboutToCount(t)') <= zset'[t]
  <2>1. Granted[t] + Cardinality(AboutToCount(t)) <= zset[t] /\ zset'[t] = zset[t] /\ zset[t] \in Nat
    BY <1>1, <1>5 DEF GrantedInv, Counts
  <2> QED
    BY <1>1, <1>2, <1>3, <2>1
<1> QED
  BY <1>4, <1>5 DEF GrantedInv

(* Nobody is let through, and nobody comes to owe it.                       *)
LEMMA PassedStays ==
    ASSUME LimiterTypeOK, PassedInv,
           UNCHANGED <<moment, allowed, counted, caught, underWay>>,
           \A t \in BeforeWindows \cup {-1} : t < moment => Owing(t)' \subseteq Owing(t)
    PROVE  PassedInv'
<1> SUFFICES ASSUME NEW t \in BeforeWindows \cup {-1}, t < moment
             PROVE  Since(allowed, t + 1)' + Cardinality(Owing(t)')
                      <= Since(counted, t + 1)' + UnderWayAfter(t)' + Since(caught, t + 1)'
  BY DEF PassedInv
<1>1. /\ Since(allowed, t + 1)' = Since(allowed, t + 1) /\ Since(counted, t + 1)' = Since(counted, t + 1)
      /\ Since(caught, t + 1)' = Since(caught, t + 1) /\ UnderWayAfter(t)' = UnderWayAfter(t)
  BY DEF Since, UnderWayAfter
<1>2. Cardinality(Owing(t)') <= Cardinality(Owing(t)) /\ Cardinality(Owing(t)') \in Nat
  <2>1. Owing(t) \subseteq Visits /\ Owing(t)' \subseteq Owing(t)
    BY DEF Owing
  <2>2. Owing(t)' \subseteq Visits
    BY <2>1
  <2> QED
    BY <2>1, <2>2, FS_Subset, FS_CardinalityType, LimiterAssumption
<1>3. /\ Since(allowed, t + 1) \in Nat /\ Since(counted, t + 1) \in Nat /\ Since(caught, t + 1) \in Nat
      /\ UnderWayAfter(t) \in Nat /\ Cardinality(Owing(t)) \in Nat
  <2>1. /\ t \in Int /\ t + 1 \in Int /\ t + 1 <= moment + 1 /\ moment \in Moments
        /\ allowed \in Counts /\ counted \in Counts /\ caught \in Counts
        /\ UnderWayAfter(t) \in Nat /\ Cardinality(Owing(t)) \in Nat
    BY RedisShape
  <2> QED
    BY <2>1, SinceShrinks, SinceIsAt
<1>4. Since(allowed, t + 1) + Cardinality(Owing(t))
          <= Since(counted, t + 1) + UnderWayAfter(t) + Since(caught, t + 1)
  BY DEF PassedInv
<1> QED
  BY <1>1, <1>2, <1>3, <1>4

(* The steps of a pipeline are taken in Redis, and touch no visitor.        *)
LEMMA PipelinesAreRedis ==
    ASSUME LimiterInv, NEW v \in Visits, visit[v] # "idle" \/ BeginVisit(v)
    PROVE  backend = "redis" /\ StampsInv /\ GrantedInv /\ PassedInv /\ ~ expired /\ visitor = NoVisitor
           /\ LimiterTypeOK
<1>1. backend = "redis"
  BY DEF BeginVisit, LimiterInv, LimiterTypeOK, CountedAllowed
<1> QED
  BY <1>1 DEF LimiterInv

(* The commands up to the count.                                            *)
LEMMA CommandsKeep ==
    ASSUME LimiterInv, NEW v \in Visits,
           BeginVisit(v) \/ Prune(v) \/ AddMember(v) \/ CountMembers(v)
    PROVE  LimiterInv'
<1>1. /\ backend = "redis" /\ StampsInv /\ GrantedInv /\ PassedInv /\ ~ expired /\ visitor = NoVisitor
      /\ LimiterTypeOK
  BY PipelinesAreRedis DEF BeginVisit, Prune, AddMember, CountMembers, VisitGoes
<1>2. UNCHANGED <<backend, moment, visitor, expired, overrun, refusal, lost, counted, caught, allowed, underWay>>
  BY DEF BeginVisit, Prune, AddMember, CountMembers, visitorVars
<1>3. /\ moment \in Moments /\ moment \in Nat /\ Moments \subseteq Nat /\ Rate \in Nat
      /\ Window \in Nat /\ Window > 0 /\ MaxMoment \in Nat /\ Never = MaxMoment + Window + 1
      /\ expiry \in Nat /\ stamp \in [Visits -> Moments] /\ visit \in [Visits -> VisitStates]
      /\ zset \in Counts /\ counted \in Counts /\ Granted \in Counts
      /\ \A t : Cardinality(AboutToCount(t)) \in Nat /\ Cardinality(Held(t)) \in Nat
  BY <1>1, RedisShape
<1>4. /\ \A t \in Moments : t > moment => counted[t] = 0 /\ caught[t] = 0
      /\ \A w \in Visits : stamp[w] <= moment
      /\ \A w \in lost : visit[w] # "idle"
      /\ \A t \in Moments : counted[t] > 0 => t <= expiry - Window
  BY <1>1 DEF StampsInv, GrantedInv
<1>5. ASSUME /\ visit' \in [Visits -> VisitStates] /\ stamp' \in [Visits -> Moments]
             /\ zset' \in Counts /\ expiry' \in 0..Never
             /\ \A w \in Visits : stamp'[w] <= moment
             /\ visit'[v] # "idle" /\ \A w \in Visits \ {v} : visit'[w] = visit[w]
             /\ GrantedInv' /\ PassedInv'
      PROVE  LimiterInv'
  <2>1. LimiterShape'
    BY <1>1, <1>2, <1>5 DEF LimiterShape, LimiterInv, LimiterTypeOK
  <2>2. StampsInv'
    BY <1>1, <1>2, <1>4, <1>5 DEF StampsInv, LimiterTypeOK
  <2> QED
    BY <1>1, <1>2, <1>5, <2>1, <2>2 DEF LimiterInv, LimiterShape, NoVisitor
<1>6. CASE BeginVisit(v)
  <2>1. /\ visit[v] = "idle" /\ visit' = [visit EXCEPT ![v] = "prune"]
        /\ stamp' = [stamp EXCEPT ![v] = moment] /\ zset' = zset /\ expiry' = expiry
    BY <1>6 DEF BeginVisit, VisitGoes
  <2>2. /\ visit' \in [Visits -> VisitStates] /\ stamp' \in [Visits -> Moments]
        /\ visit'[v] = "prune" /\ stamp'[v] = moment
        /\ \A w \in Visits \ {v} : visit'[w] = visit[w] /\ stamp'[w] = stamp[w]
    BY <1>3, <2>1 DEF VisitStates
  <2>3. v \notin lost
    BY <1>4, <2>1
  <2>4. \A t : /\ Held(t)' \subseteq Held(t) /\ AboutToCount(t)' \subseteq AboutToCount(t)
    BY <1>2, <2>2 DEF Held, AboutToCount
  <2>5. \A t \in BeforeWindows \cup {-1} : t < moment => Owing(t)' \subseteq Owing(t)
    <3> SUFFICES ASSUME NEW t \in BeforeWindows \cup {-1}, t < moment
                 PROVE  Owing(t)' \subseteq Owing(t)
      OBVIOUS
    <3>1. ~ (moment <= t)
      BY <1>3 DEF BeforeWindows
    <3> QED
      BY <1>2, <2>2, <2>3, <3>1 DEF Owing
  <2>6. GrantedInv'
    BY <1>1, <1>2, <1>4, <2>1, <2>4, GrantedStays
  <2>7. PassedInv'
    BY <1>1, <1>2, <2>5, PassedStays
  <2> QED
    BY <1>1, <1>3, <1>4, <1>5, <2>1, <2>2, <2>6, <2>7 DEF LimiterTypeOK
<1>7. CASE Prune(v)
  <2>1. /\ visit[v] = "prune" /\ visit' = [visit EXCEPT ![v] = "add"] /\ stamp' = stamp
        /\ zset' = [t \in Moments |-> IF t <= stamp[v] - Window THEN 0 ELSE zset[t]]
        /\ expiry' = Never \/ expiry' = expiry
    BY <1>7 DEF Prune, VisitGoes
  <2>2. /\ visit' \in [Visits -> VisitStates] /\ visit'[v] = "add"
        /\ \A w \in Visits \ {v} : visit'[w] = visit[w]
    BY <1>3, <2>1 DEF VisitStates
  <2>3. \A t : /\ Held(t)' \subseteq Held(t) /\ AboutToCount(t)' \subseteq AboutToCount(t)
               /\ Owing(t)' \subseteq Owing(t)
    BY <1>2, <2>1, <2>2 DEF Held, AboutToCount, Owing
  <2>4. zset' \in Counts /\ \A t \in Moments : t > moment - Window => zset'[t] = zset[t]
    <3>1. stamp[v] \in Nat /\ stamp[v] <= moment
      BY <1>3, <1>4
    <3>2. \A t \in Moments : t > moment - Window => ~ (t <= stamp[v] - Window)
      BY <1>3, <3>1
    <3> QED
      BY <1>3, <2>1, <3>2 DEF Counts
  <2>5. \A t \in Moments : counted[t] > 0 => t <= expiry' - Window
    BY <1>3, <1>4, <2>1 DEF Moments
  <2>6. GrantedInv'
    BY <1>1, <1>2, <2>3, <2>4, <2>5, GrantedStays
  <2>7. PassedInv'
    BY <1>1, <1>2, <2>3, PassedStays
  <2>8. expiry' \in 0..Never
    BY <1>1, <1>3, <2>1 DEF LimiterTypeOK
  <2> QED
    BY <1>3, <1>4, <1>5, <2>1, <2>2, <2>4, <2>6, <2>7, <2>8
<1>8. CASE AddMember(v)
  <2> DEFINE s == stamp[v]
  <2>1. /\ visit[v] = "add" /\ visit' = [visit EXCEPT ![v] = "count"] /\ stamp' = stamp
        /\ zset' = [zset EXCEPT ![s] = @ + 1] /\ expiry' = expiry /\ s \in Moments
    BY <1>3, <1>8 DEF AddMember, VisitGoes
  <2>2. /\ visit' \in [Visits -> VisitStates] /\ visit'[v] = "count"
        /\ \A w \in Visits \ {v} : visit'[w] = visit[w]
    BY <1>3, <2>1 DEF VisitStates
  <2>3. \A t : /\ Held(t)' = Held(t) /\ Owing(t)' \subseteq Owing(t)
               /\ v \notin AboutToCount(t)
               /\ AboutToCount(t)' = AboutToCount(t) \/ (t = s /\ AboutToCount(t)' = AboutToCount(t) \cup {v})
    BY <1>2, <2>1, <2>2 DEF Held, AboutToCount, Owing
  <2>4. /\ zset' \in Counts /\ zset'[s] = zset[s] + 1 /\ zset[s] \in Nat
        /\ \A t \in Moments \ {s} : zset'[t] = zset[t]
    <3> HIDE DEF s
    <3> QED
      BY <1>3, <2>1 DEF Counts
  <2>5. Granted' = Granted
    BY <1>2, <2>3 DEF Granted
  <2>6. ASSUME NEW t \in Moments, t > moment - Window
        PROVE  Granted'[t] + Cardinality(AboutToCount(t)') <= zset'[t]
    <3>1. /\ Granted[t] + Cardinality(AboutToCount(t)) <= zset[t] /\ Granted[t] \in Nat /\ zset[t] \in Nat
          /\ Cardinality(AboutToCount(t)) \in Nat
      BY <1>1, <1>3, <2>6 DEF GrantedInv, Counts
    <3>2. CASE AboutToCount(t)' = AboutToCount(t)
      BY <2>4, <2>5, <3>1, <3>2
    <3>3. CASE t = s /\ AboutToCount(t)' = AboutToCount(t) \cup {v}
      <4>1. AboutToCount(t) \subseteq Visits /\ AboutToCount(t)' \subseteq Visits
        BY <3>3 DEF AboutToCount
      <4>2. Cardinality(AboutToCount(t)') = Cardinality(AboutToCount(t)) + 1
        BY <2>3, <3>3, <4>1, VisitsCounted
      <4> HIDE DEF s
      <4> QED
        BY <2>4, <2>5, <3>1, <3>3, <4>2
    <3> QED
      BY <2>3, <3>2, <3>3
  <2>7. Since(Granted, moment - Window + 1)' <= Rate
    BY <1>1, <1>2, <2>5 DEF GrantedInv, Since
  <2>8. GrantedInv'
    BY <1>2, <1>4, <2>1, <2>6, <2>7 DEF GrantedInv
  <2>9. PassedInv'
    BY <1>1, <1>2, <2>3, PassedStays
  <2> QED
    BY <1>1, <1>3, <1>4, <1>5, <2>1, <2>2, <2>4, <2>8, <2>9 DEF LimiterTypeOK
<1>9. CASE CountMembers(v)
  <2> DEFINE s == stamp[v]
  <2>1. /\ visit[v] = "count" /\ stamp' = stamp /\ zset' = zset /\ expiry' = expiry /\ s \in Moments
        /\ visit' = [visit EXCEPT ![v] = IF Members <= Rate THEN "granted" ELSE "denied"]
    BY <1>3, <1>9 DEF CountMembers, VisitGoes
  <2>2. /\ visit' \in [Visits -> VisitStates] /\ visit'[v] \in {"granted", "denied"}
        /\ visit'[v] = "granted" => Members <= Rate
        /\ \A w \in Visits \ {v} : visit'[w] = visit[w]
    BY <1>3, <2>1 DEF VisitStates
  <2>3. \A t : /\ Owing(t)' \subseteq Owing(t) /\ AboutToCount(t)' \subseteq AboutToCount(t)
    BY <1>2, <2>1, <2>2 DEF AboutToCount, Owing
  <2>4. PassedInv'
    BY <1>1, <1>2, <2>3, PassedStays
  <2>5. GrantedInv'
    <3>1. CASE visit'[v] = "denied" \/ v \in lost
      <4>1. \A t : Held(t)' \subseteq Held(t)
        BY <1>2, <2>1, <2>2, <3>1 DEF Held
      <4> QED
        BY <1>1, <1>2, <1>4, <2>1, <2>3, <4>1, GrantedStays
    <3>2. CASE visit'[v] = "granted" /\ v \notin lost
      <4>1. \A t \in Moments : t # s => Held(t)' = Held(t)
        BY <1>2, <2>1, <2>2 DEF Held
      <4>2. /\ v \notin Held(s) /\ Held(s)' = Held(s) \cup {v}
            /\ v \in AboutToCount(s) /\ AboutToCount(s)' = AboutToCount(s) \ {v}
        BY <1>2, <2>1, <2>2, <3>2 DEF Held, AboutToCount
      <4>3. /\ Held(s) \subseteq Visits /\ AboutToCount(s) \subseteq Visits
            /\ Held(s)' \subseteq Visits /\ AboutToCount(s)' \subseteq Visits
        BY <4>2 DEF Held, AboutToCount
      <4>4. /\ Cardinality(Held(s)') = Cardinality(Held(s)) + 1
            /\ Cardinality(AboutToCount(s)') = Cardinality(AboutToCount(s)) - 1
        BY <4>2, <4>3, VisitsCounted
      <4>5. Granted' = [Granted EXCEPT ![s] = @ + 1]
        <5>1. \A t \in Moments : Granted'[t] = IF t = s THEN Granted[t] + 1 ELSE Granted[t]
          <6> SUFFICES ASSUME NEW t \in Moments
                       PROVE  Granted'[t] = IF t = s THEN Granted[t] + 1 ELSE Granted[t]
            OBVIOUS
          <6>1. Granted'[t] = counted[t] + Cardinality(Held(t)') /\ Granted[t] = counted[t] + Cardinality(Held(t))
            BY <1>2 DEF Granted
          <6>2. counted[t] \in Nat /\ Cardinality(Held(t)) \in Nat
            BY <1>3 DEF Counts
          <6>3. CASE t = s
            <7>1. Cardinality(Held(t)') = Cardinality(Held(t)) + 1
              BY <2>1, <4>4, <6>3
            <7> QED
              BY <6>1, <6>2, <6>3, <7>1
          <6>4. CASE t # s
            BY <4>1, <6>1, <6>4
          <6> QED
            BY <6>3, <6>4
        <5>2. DOMAIN Granted' = Moments /\ DOMAIN Granted = Moments
          BY DEF Granted
        <5>3. Granted' = [t \in Moments |-> Granted'[t]]
          BY DEF Granted
        <5> QED
          BY <1>3, <5>1, <5>2, <5>3 DEF Counts
      <4>6. Granted' \in Counts /\ Granted'[s] = Granted[s] + 1
            /\ \A t \in Moments \ {s} : Granted'[t] = Granted[t]
        <5> HIDE DEF s
        <5> QED
          BY <1>3, <2>1, <4>5 DEF Counts
      <4>7. ASSUME NEW t \in Moments, t > moment - Window
            PROVE  Granted'[t] + Cardinality(AboutToCount(t)') <= zset'[t]
        <5>1. /\ Granted[t] + Cardinality(AboutToCount(t)) <= zset[t] /\ Granted[t] \in Nat
              /\ Cardinality(AboutToCount(t)) \in Nat /\ zset[t] \in Nat
          BY <1>1, <1>3, <4>7 DEF GrantedInv, Counts
        <5>2. CASE t = s
          BY <2>1, <4>4, <4>6, <5>1, <5>2
        <5>3. CASE t # s
          <6>1. AboutToCount(t)' = AboutToCount(t)
            BY <1>2, <2>1, <2>2, <5>3 DEF AboutToCount
          <6> QED
            BY <2>1, <4>6, <5>1, <5>3, <6>1
        <5> QED
          BY <5>2, <5>3
      <4>8. Since(Granted, moment - Window + 1)' <= Rate
        <5> DEFINE start == moment - Window + 1
                   from  == IF start > 0 THEN start ELSE 0
        <5>1. /\ start \in Int /\ start <= moment + 1
              /\ from \in 0..(MaxMoment + 1) /\ moment + 1 \in 0..(MaxMoment + 1) /\ from <= moment + 1
          BY <1>3 DEF Moments
        <5>2. ASSUME NEW n \in Moments, start <= n PROVE Granted'[n] <= zset[n]
          <6>1. Granted'[n] + Cardinality(AboutToCount(n)') <= zset[n]
            BY <1>3, <2>1, <4>7, <5>2
          <6>2. Cardinality(AboutToCount(n)') \in Nat
            <7>1. AboutToCount(n) \subseteq Visits /\ AboutToCount(n)' \subseteq AboutToCount(n)
              BY <2>3 DEF AboutToCount
            <7> QED
              BY <7>1, FS_Subset, FS_CardinalityType, LimiterAssumption
          <6>3. Granted'[n] \in Nat /\ zset[n] \in Nat
            BY <1>3, <4>6 DEF Counts
          <6> QED
            BY <6>1, <6>2, <6>3
        <5>3. SinceAt(Granted', moment, start) <= SinceAt(zset, moment, start)
          BY <1>3, <4>6, <5>1, <5>2, SinceCompares
        <5>4. SinceAt(zset, moment, start) <= Members
          BY <1>3, <5>1, MembersBound DEF Members, SinceAt
        <5>5. /\ SinceAt(Granted', moment, start) \in Nat /\ SinceAt(zset, moment, start) \in Nat
              /\ Members \in Nat
          <6>1. MaxMoment + 1 \in 0..(MaxMoment + 1)
            BY <1>3
          <6>2. Members \in Nat
            BY <1>3, <6>1, SumsStep DEF Members
          <6>3. SinceAt(Granted', moment, start) \in Nat /\ SinceAt(zset, moment, start) \in Nat
            BY <1>3, <4>6, <5>1, SinceShrinks
          <6> QED
            BY <6>2, <6>3
        <5>6. Since(Granted, moment - Window + 1)' = SinceAt(Granted', moment, start)
          BY <1>2 DEF Since, SinceAt
        <5>7. Members <= Rate
          BY <2>2, <3>2
        <5> HIDE DEF start
        <5> QED
          BY <1>3, <5>3, <5>4, <5>5, <5>6, <5>7
      <4> QED
        BY <1>2, <1>4, <2>1, <4>7, <4>8 DEF GrantedInv
    <3> QED
      BY <2>2, <3>1, <3>2
  <2> QED
    BY <1>1, <1>3, <1>4, <1>5, <2>1, <2>2, <2>4, <2>5 DEF LimiterTypeOK
<1> QED
  BY <1>6, <1>7, <1>8, <1>9

(* EXPIRE and the end of a pipeline.                                        *)
LEMMA EndsKeep ==
    ASSUME LimiterInv, NEW v \in Visits, Expire(v) \/ PassOn(v) \/ FailOpen(v)
    PROVE  LimiterInv'
<1>1. /\ backend = "redis" /\ StampsInv /\ GrantedInv /\ PassedInv /\ ~ expired /\ visitor = NoVisitor
      /\ LimiterTypeOK
  BY PipelinesAreRedis DEF Expire, PassOn, FailOpen, VisitGoes
<1>2. UNCHANGED <<backend, moment, visitor, expired, overrun, refusal, zset, caught, underWay>>
  BY DEF Expire, PassOn, FailOpen, visitorVars, LetThrough
<1>3. /\ moment \in Moments /\ moment \in Nat /\ Moments \subseteq Nat /\ Rate \in Nat
      /\ Window \in Nat /\ Window > 0 /\ MaxMoment \in Nat /\ Never = MaxMoment + Window + 1
      /\ expiry \in Nat /\ stamp \in [Visits -> Moments] /\ visit \in [Visits -> VisitStates]
      /\ zset \in Counts /\ counted \in Counts /\ allowed \in Counts /\ caught \in Counts
      /\ Granted \in Counts
      /\ \A t : /\ Cardinality(AboutToCount(t)) \in Nat /\ Cardinality(Held(t)) \in Nat
                /\ Cardinality(Owing(t)) \in Nat
      /\ \A t \in BeforeWindows \cup {-1} : t \in Int /\ UnderWayAfter(t) \in Nat
  BY <1>1, RedisShape
<1>4. /\ \A t \in Moments : t > moment => counted[t] = 0 /\ caught[t] = 0 /\ allowed[t] = 0
      /\ \A w \in Visits : stamp[w] <= moment
      /\ \A w \in lost : visit[w] # "idle"
      /\ \A t \in Moments : counted[t] > 0 => t <= expiry - Window
  BY <1>1 DEF StampsInv, GrantedInv, LimiterInv
<1>5. ASSUME /\ visit' \in [Visits -> VisitStates] /\ stamp' \in [Visits -> Moments]
             /\ expiry' \in 0..Never /\ lost' \subseteq Visits
             /\ allowed' \in Counts /\ counted' \in Counts
             /\ \A t \in Moments : t > moment => counted'[t] = 0 /\ allowed'[t] = 0
             /\ \A w \in Visits : stamp'[w] <= moment
             /\ \A w \in lost' : visit'[w] # "idle"
             /\ GrantedInv' /\ PassedInv'
      PROVE  LimiterInv'
  <2>1. LimiterShape'
    BY <1>1, <1>2, <1>5 DEF LimiterShape, LimiterInv, LimiterTypeOK
  <2>2. StampsInv'
    BY <1>1, <1>2, <1>4, <1>5 DEF StampsInv
  <2> QED
    BY <1>1, <1>2, <1>5, <2>1, <2>2 DEF LimiterInv, LimiterShape, NoVisitor
<1>6. ASSUME VisitEnds(v), visit[v] # "idle", counted' = counted,
             \A t \in Moments : counted[t] > 0 => t <= expiry' - Window
      PROVE  /\ visit' \in [Visits -> VisitStates] /\ stamp' \in [Visits -> Moments] /\ lost' \subseteq Visits
             /\ \A w \in Visits : stamp'[w] <= moment
             /\ \A w \in lost' : visit'[w] # "idle"
             /\ \A t : Owing(t)' = Owing(t) \ {v}
             /\ GrantedInv'
  <2>1. /\ visit' = [visit EXCEPT ![v] = "idle"] /\ stamp' = [stamp EXCEPT ![v] = 0] /\ lost' = lost \ {v}
    BY <1>6 DEF VisitEnds
  <2>2. /\ visit' \in [Visits -> VisitStates] /\ stamp' \in [Visits -> Moments] /\ lost' \subseteq Visits
        /\ visit'[v] = "idle" /\ stamp'[v] = 0
        /\ \A w \in Visits \ {v} : visit'[w] = visit[w] /\ stamp'[w] = stamp[w]
    BY <1>1, <1>3, <2>1 DEF VisitStates, Moments, LimiterTypeOK
  <2>3. \A w \in lost' : visit'[w] # "idle"
    BY <1>1, <1>4, <2>1, <2>2 DEF LimiterTypeOK
  <2>4. \A t : /\ Held(t)' \subseteq Held(t) /\ AboutToCount(t)' \subseteq AboutToCount(t)
    BY <2>1, <2>2 DEF Held, AboutToCount
  <2>5. \A t : Owing(t)' = Owing(t) \ {v}
    BY <2>1, <2>2 DEF Owing
  <2>6. GrantedInv'
    BY <1>1, <1>2, <1>6, <2>4, GrantedStays
  <2>7. \A w \in Visits : stamp'[w] <= moment
    BY <1>3, <1>4, <2>2
  <2> QED
    BY <2>2, <2>3, <2>5, <2>6, <2>7
<1>7. ASSUME expiry' = IF Members = 0 THEN Never ELSE moment + Window
      PROVE  /\ expiry' \in 0..Never
             /\ \A t \in Moments : t <= moment => t <= expiry' - Window
  <2>1. moment <= MaxMoment
    BY <1>3 DEF Moments
  <2>2. expiry' = Never \/ expiry' = moment + Window
    BY <1>7
  <2> QED
    BY <1>3, <2>1, <2>2
<1>8. CASE FailOpen(v)
  <2>1. /\ visit[v] # "idle" /\ VisitEnds(v) /\ expiry' = expiry /\ counted' = counted /\ allowed' = allowed
    BY <1>8 DEF FailOpen
  <2>2. /\ visit' \in [Visits -> VisitStates] /\ stamp' \in [Visits -> Moments] /\ lost' \subseteq Visits
        /\ \A w \in Visits : stamp'[w] <= moment
        /\ \A w \in lost' : visit'[w] # "idle"
        /\ \A t : Owing(t)' = Owing(t) \ {v}
        /\ GrantedInv'
    BY <1>4, <1>6, <2>1
  <2>3. PassedInv'
    BY <1>1, <1>2, <2>1, <2>2, PassedStays
  <2> QED
    BY <1>1, <1>3, <1>4, <1>5, <2>1, <2>2, <2>3 DEF LimiterTypeOK
<1>9. CASE Expire(v) /\ visit[v] = "denied"
  <2>1. /\ VisitEnds(v) /\ counted' = counted /\ allowed' = allowed
        /\ expiry' = IF Members = 0 THEN Never ELSE moment + Window
    BY <1>9 DEF Expire, VisitGoes
  <2>2. /\ expiry' \in 0..Never /\ \A t \in Moments : counted[t] > 0 => t <= expiry' - Window
    <3>1. \A t \in Moments : counted[t] > 0 => t <= moment
      BY <1>3, <1>4
    <3> QED
      BY <1>7, <2>1, <3>1
  <2>3. /\ visit' \in [Visits -> VisitStates] /\ stamp' \in [Visits -> Moments] /\ lost' \subseteq Visits
        /\ \A w \in Visits : stamp'[w] <= moment
        /\ \A w \in lost' : visit'[w] # "idle"
        /\ \A t : Owing(t)' = Owing(t) \ {v}
        /\ GrantedInv'
    BY <1>6, <1>9, <2>1, <2>2
  <2>4. PassedInv'
    BY <1>1, <1>2, <2>1, <2>3, PassedStays
  <2> QED
    BY <1>3, <1>4, <1>5, <2>1, <2>2, <2>3, <2>4
<1>10. CASE PassOn(v)
  <2>1. /\ visit[v] = "passing" /\ VisitEnds(v) /\ expiry' = expiry /\ counted' = counted
        /\ allowed' = [allowed EXCEPT ![moment] = @ + 1]
    BY <1>10 DEF PassOn, LetThrough
  <2>2. /\ visit' \in [Visits -> VisitStates] /\ stamp' \in [Visits -> Moments] /\ lost' \subseteq Visits
        /\ \A w \in Visits : stamp'[w] <= moment
        /\ \A w \in lost' : visit'[w] # "idle"
        /\ \A t : Owing(t)' = Owing(t) \ {v}
        /\ GrantedInv'
    BY <1>4, <1>6, <2>1
  <2>3. allowed' \in Counts /\ \A t \in Moments : t > moment => allowed'[t] = 0
    BY <1>3, <1>4, <2>1 DEF Counts
  <2>4. PassedInv'
    <3> SUFFICES ASSUME NEW t \in BeforeWindows \cup {-1}, t < moment
                 PROVE  Since(allowed, t + 1)' + Cardinality(Owing(t)')
                          <= Since(counted, t + 1)' + UnderWayAfter(t)' + Since(caught, t + 1)'
      BY <1>2 DEF PassedInv
    <3>1. t \in Int /\ t + 1 \in Int /\ t + 1 <= moment /\ t + 1 <= moment + 1 /\ UnderWayAfter(t) \in Nat
      BY <1>3
    <3>2. /\ Since(counted, t + 1)' = Since(counted, t + 1) /\ Since(caught, t + 1)' = Since(caught, t + 1)
          /\ UnderWayAfter(t)' = UnderWayAfter(t)
      BY <1>2, <2>1 DEF Since, UnderWayAfter
    <3>3. Since(allowed, t + 1)' = Since(allowed, t + 1) + 1
      <4>1. SinceAt(allowed', moment, t + 1) = SinceAt(allowed, moment, t + 1) + 1
        BY <1>3, <2>1, <3>1, SinceMoves
      <4> QED
        BY <1>2, <4>1 DEF Since, SinceAt
    <3>4. Cardinality(Owing(t)') = Cardinality(Owing(t)) - 1
      <4>1. v \in Owing(t) /\ Owing(t) \subseteq Visits /\ Owing(t)' = Owing(t) \ {v}
        BY <2>1, <2>2 DEF Owing
      <4>2. Owing(t)' \subseteq Visits
        BY <4>1
      <4> QED
        BY <4>1, <4>2, VisitsCounted
    <3>5. Since(allowed, t + 1) + Cardinality(Owing(t))
              <= Since(counted, t + 1) + UnderWayAfter(t) + Since(caught, t + 1)
      BY <1>1 DEF PassedInv
    <3>6. /\ Since(allowed, t + 1) \in Nat /\ Since(counted, t + 1) \in Nat /\ Since(caught, t + 1) \in Nat
      BY <1>3, <3>1, SinceShrinks, SinceIsAt
    <3>7. Cardinality(Owing(t)) \in Nat
      BY <1>3
    <3> QED
      BY <3>1, <3>2, <3>3, <3>4, <3>5, <3>6, <3>7
  <2> QED
    BY <1>1, <1>3, <1>4, <1>5, <2>1, <2>2, <2>3, <2>4 DEF LimiterTypeOK
<1>11. CASE Expire(v) /\ visit[v] = "granted"
  <2> DEFINE s == stamp[v]
  <2>1. /\ visit' = [visit EXCEPT ![v] = "passing"] /\ stamp' = stamp /\ lost' = lost /\ allowed' = allowed
        /\ counted' = IF v \in lost THEN counted ELSE [counted EXCEPT ![s] = @ + 1]
        /\ expiry' = IF Members = 0 THEN Never ELSE moment + Window
        /\ s \in Moments /\ s <= moment
    BY <1>3, <1>4, <1>11 DEF Expire, VisitGoes
  <2>2. /\ visit' \in [Visits -> VisitStates] /\ visit'[v] = "passing"
        /\ \A w \in Visits \ {v} : visit'[w] = visit[w]
    BY <1>3, <2>1 DEF VisitStates
  <2>3. \A t : AboutToCount(t)' = AboutToCount(t)
    BY <1>11, <2>1, <2>2 DEF AboutToCount
  <2>4. expiry' \in 0..Never /\ \A t \in Moments : t <= moment => t <= expiry' - Window
    BY <1>7, <2>1
  <2>5. CASE v \in lost
    <3>1. \A t : Held(t)' \subseteq Held(t) /\ Owing(t)' \subseteq Owing(t)
      BY <1>11, <2>1, <2>2, <2>5 DEF Held, Owing
    <3>2. counted' = counted /\ \A t \in Moments : counted[t] > 0 => t <= expiry' - Window
      <4>1. \A t \in Moments : counted[t] > 0 => t <= moment
        BY <1>3, <1>4
      <4> QED
        BY <2>1, <2>4, <2>5, <4>1
    <3>3. GrantedInv'
      BY <1>1, <1>2, <2>3, <3>1, <3>2, GrantedStays
    <3>4. PassedInv'
      BY <1>1, <1>2, <2>1, <3>1, <3>2, PassedStays
    <3>5. \A w \in lost' : visit'[w] # "idle"
      BY <1>1, <1>4, <2>1, <2>2 DEF LimiterTypeOK
    <3> QED
      BY <1>1, <1>3, <1>4, <1>5, <2>1, <2>2, <2>4, <3>2, <3>3, <3>4, <3>5 DEF LimiterTypeOK
  <2>6. CASE v \notin lost
    <3>1. counted' = [counted EXCEPT ![s] = @ + 1]
      BY <2>1, <2>6
    <3> HIDE DEF s
    <3>2. /\ counted' \in Counts /\ counted'[s] = counted[s] + 1
          /\ \A t \in Moments \ {s} : counted'[t] = counted[t]
      BY <1>3, <2>1, <3>1 DEF Counts
    <3>3. \A t \in Moments : t > moment => counted'[t] = 0
      <4>1. \A t \in Moments : t > moment => t # s
        BY <1>3, <2>1
      <4> QED
        BY <1>4, <3>2, <4>1
    <3>4. Granted' = Granted
      <4>1. ASSUME NEW t \in Moments
            PROVE  counted'[t] + Cardinality(Held(t)') = counted[t] + Cardinality(Held(t))
        <5>1. CASE t # s
          <6>1. Held(t)' = Held(t)
            BY <1>11, <2>1, <2>2, <5>1 DEF Held, s
          <6> QED
            BY <3>2, <5>1, <6>1
        <5>2. CASE t = s
          <6>1. v \in Held(t) /\ Held(t)' = Held(t) \ {v} /\ Held(t) \subseteq Visits
            BY <1>11, <2>1, <2>2, <2>6, <5>2 DEF Held, s
          <6>2. Held(t)' \subseteq Visits
            BY <6>1
          <6>3. Cardinality(Held(t)') = Cardinality(Held(t)) - 1
            BY <6>1, <6>2, VisitsCounted
          <6>4. counted[t] \in Nat /\ Cardinality(Held(t)) \in Nat
            BY <1>3 DEF Counts
          <6> QED
            BY <3>2, <5>2, <6>3, <6>4
        <5> QED
          BY <5>1, <5>2
      <4> QED
        BY <4>1 DEF Granted
    <3>5. GrantedInv'
      <4>1. \A t \in Moments : t > moment' - Window =>
                Granted'[t] + Cardinality(AboutToCount(t)') <= zset'[t]
        BY <1>1, <1>2, <2>3, <3>4 DEF GrantedInv
      <4>2. Since(Granted, moment - Window + 1)' <= Rate
        BY <1>1, <1>2, <3>4 DEF GrantedInv, Since
      <4>3. \A t \in Moments : counted'[t] > 0 => t <= expiry' - Window
        <5>1. \A t \in Moments : counted'[t] > 0 => t <= moment
          BY <1>3, <3>3
        <5> QED
          BY <2>4, <5>1
      <4> QED
        BY <4>1, <4>2, <4>3 DEF GrantedInv
    <3>6. PassedInv'
      <4> SUFFICES ASSUME NEW t \in BeforeWindows \cup {-1}, t < moment
                   PROVE  Since(allowed, t + 1)' + Cardinality(Owing(t)')
                            <= Since(counted, t + 1)' + UnderWayAfter(t)' + Since(caught, t + 1)'
        BY <1>2 DEF PassedInv
      <4>1. t \in Int /\ t + 1 \in Int /\ t + 1 <= moment + 1 /\ UnderWayAfter(t) \in Nat
        BY <1>3
      <4>2. /\ Since(allowed, t + 1)' = Since(allowed, t + 1) /\ Since(caught, t + 1)' = Since(caught, t + 1)
            /\ UnderWayAfter(t)' = UnderWayAfter(t)
        BY <1>2, <2>1 DEF Since, UnderWayAfter
      <4>3. Since(counted, t + 1)' = Since(counted, t + 1) + (IF t + 1 <= s THEN 1 ELSE 0)
        <5>1. SinceAt(counted', moment, t + 1) = SinceAt(counted, moment, t + 1) + (IF t + 1 <= s THEN 1 ELSE 0)
          <6> DEFINE from == t + 1
          <6>1. /\ from \in Int /\ from <= moment + 1 /\ 1 \in Nat /\ moment \in Moments /\ counted \in Counts
                /\ s \in Moments /\ s <= moment
            BY <1>3, <2>1, <4>1
          <6> HIDE DEF from
          <6>2. SinceAt(counted', moment, from) = SinceAt(counted, moment, from) + (IF from <= s THEN 1 ELSE 0)
            BY <3>2, <6>1, SinceAdds
          <6> QED
            BY <6>2 DEF from
        <5> QED
          BY <1>2, <5>1 DEF Since, SinceAt
      <4>4. /\ Cardinality(Owing(t)') \in Nat
            /\ Cardinality(Owing(t)') <= Cardinality(Owing(t)) + (IF t + 1 <= s THEN 1 ELSE 0)
        <5>1. /\ Owing(t) \subseteq Visits /\ Owing(t)' \subseteq Visits
              /\ Owing(t)' = Owing(t) \cup {v}
              /\ s <= t => Owing(t)' = Owing(t)
          <6>1. visit'[v] # "idle" /\ visit[v] # "idle"
            BY <1>11, <2>2
          <6>2. Owing(t)' = Owing(t) \cup {v} /\ Owing(t) \subseteq Visits
            BY <1>11, <2>1, <2>2, <6>1 DEF Owing
          <6>3. s <= t => v \in Owing(t)
            BY <6>1 DEF Owing, s
          <6> QED
            BY <6>2, <6>3
        <5>2. CASE v \in Owing(t)
          <6>1. Owing(t)' = Owing(t)
            BY <5>1, <5>2
          <6> QED
            BY <1>3, <6>1
        <5>3. CASE v \notin Owing(t)
          <6>1. ~ (s <= t)
            BY <5>1, <5>3
          <6>2. t + 1 <= s
            BY <1>3, <2>1, <4>1, <6>1
          <6>3. Cardinality(Owing(t)') = Cardinality(Owing(t)) + 1 /\ Cardinality(Owing(t)') \in Nat
            BY <5>1, <5>3, VisitsCounted
          <6> QED
            BY <1>3, <6>2, <6>3
        <5> QED
          BY <5>2, <5>3
      <4>5. Since(allowed, t + 1) + Cardinality(Owing(t))
                <= Since(counted, t + 1) + UnderWayAfter(t) + Since(caught, t + 1)
        BY <1>1 DEF PassedInv
      <4>6. /\ Since(allowed, t + 1) \in Nat /\ Since(counted, t + 1) \in Nat /\ Since(caught, t + 1) \in Nat
        BY <1>3, <4>1, SinceShrinks, SinceIsAt
      <4>7. Cardinality(Owing(t)) \in Nat
        BY <1>3
      <4> QED
        BY <4>1, <4>2, <4>3, <4>4, <4>5, <4>6, <4>7
    <3>7. \A w \in lost' : visit'[w] # "idle"
      BY <1>1, <1>4, <2>1, <2>2 DEF LimiterTypeOK
    <3> QED
      BY <1>1, <1>3, <1>4, <1>5, <2>1, <2>2, <2>4, <3>2, <3>3, <3>5, <3>6, <3>7 DEF LimiterTypeOK
  <2> QED
    BY <2>5, <2>6
<1> QED
  BY <1>8, <1>9, <1>10, <1>11 DEF Expire, VisitGoes

(* The key goes: whoever has a member in it that is of the window has not   *)
(* come to EXPIRE, and is lost.                                             *)
LEMMA ExpiryKeeps ==
    ASSUME LimiterInv, KeyExpires
    PROVE  LimiterInv'
<1> DEFINE losing == {v \in Visits : visit[v] \in {"count", "granted"}} \ lost
<1>1. /\ expiry <= moment /\ zset' = [t \in Moments |-> 0] /\ expiry' = Never
      /\ lost' = lost \cup losing /\ caught' = [caught EXCEPT ![moment] = @ + Cardinality(losing)]
      /\ UNCHANGED <<backend, moment, visitor, expired, overrun, refusal, visit, stamp,
                     counted, allowed, underWay>>
  BY DEF KeyExpires, visitorVars
<1>2. LimiterTypeOK
  BY DEF LimiterInv
<1>3. /\ moment \in Moments /\ moment \in Nat /\ Moments \subseteq Nat /\ Rate \in Nat
      /\ Window \in Nat /\ Window > 0 /\ MaxMoment \in Nat /\ Never = MaxMoment + Window + 1
      /\ expiry \in Nat
      /\ zset \in Counts /\ counted \in Counts /\ allowed \in Counts /\ caught \in Counts
      /\ \A t : Cardinality(Owing(t)) \in Nat
      /\ \A t \in BeforeWindows \cup {-1} : t \in Int /\ UnderWayAfter(t) \in Nat
  BY <1>2, RedisShape
<1>4. losing \subseteq Visits /\ Cardinality(losing) \in Nat
  BY FS_Subset, FS_CardinalityType, LimiterAssumption
<1>5. /\ caught' \in Counts /\ zset' \in Counts /\ expiry' \in 0..Never /\ lost' \subseteq Visits
      /\ caught'[moment] = caught[moment] + Cardinality(losing)
      /\ \A t \in Moments \ {moment} : caught'[t] = caught[t]
  <2> HIDE DEF losing
  <2>1. /\ caught' \in Counts /\ caught'[moment] = caught[moment] + Cardinality(losing)
        /\ \A t \in Moments \ {moment} : caught'[t] = caught[t]
    BY <1>1, <1>3, <1>4 DEF Counts
  <2>2. lost' \subseteq Visits
    BY <1>1, <1>2, <1>4 DEF LimiterTypeOK
  <2>3. zset' \in Counts /\ expiry' \in 0..Never
    BY <1>1, <1>3 DEF Counts
  <2> QED
    BY <2>1, <2>2, <2>3
<1>6. LimiterShape'
  BY <1>1, <1>2, <1>5 DEF LimiterShape, LimiterInv, LimiterTypeOK
<1>7. CASE backend = "memory"
  <2>1. CountedAllowed'
    BY <1>1, <1>7 DEF LimiterInv, CountedAllowed, Since, Recent
  <2> QED
    BY <1>1, <1>6, <1>7, <2>1 DEF LimiterInv, LimiterShape
<1>8. CASE backend = "redis"
  <2>1. /\ StampsInv /\ GrantedInv /\ PassedInv /\ ~ expired /\ visitor = NoVisitor
    BY <1>8 DEF LimiterInv
  <2>2. StampsInv'
    <3>1. \A w \in lost' : visit'[w] # "idle"
      BY <1>1, <2>1 DEF StampsInv
    <3>2. \A t \in Moments : t > moment => counted'[t] = 0 /\ caught'[t] = 0
      BY <1>1, <1>3, <1>5, <2>1 DEF StampsInv
    <3> QED
      BY <1>1, <2>1, <3>1, <3>2 DEF StampsInv
  <2>3. GrantedInv'
    <3>1. \A t : Held(t)' = {} /\ AboutToCount(t)' = {}
      BY <1>1 DEF Held, AboutToCount
    <3>2. \A t \in Moments : Granted'[t] = counted[t] + 0
      BY <1>1, <3>1, FS_EmptySet DEF Granted
    <3>3. \A t \in Moments : counted[t] \in Nat /\ Granted'[t] = counted[t]
      BY <1>3, <3>2 DEF Counts
    <3>4. \A t \in Moments : t > moment - Window => counted[t] = 0
      <4> SUFFICES ASSUME NEW t \in Moments, t > moment - Window, counted[t] > 0 PROVE FALSE
        BY <3>3
      <4>1. t <= expiry - Window
        BY <2>1 DEF GrantedInv
      <4> QED
        BY <1>1, <1>3, <4>1
    <3>5. Granted' \in Counts
      <4>1. Granted' = [t \in Moments |-> Granted'[t]]
        BY DEF Granted
      <4> QED
        BY <3>3, <4>1 DEF Counts
    <3>6. Since(Granted, moment - Window + 1)' <= Rate
      <4>1. /\ moment - Window + 1 \in Int /\ moment - Window + 1 <= moment + 1
            /\ \A n \in Moments : moment - Window + 1 <= n => n > moment - Window
        BY <1>3
      <4>2. SinceAt(Granted', moment, moment - Window + 1) = 0
        BY <1>3, <3>3, <3>4, <3>5, <4>1, SinceNothing
      <4>3. Since(Granted, moment - Window + 1)' = SinceAt(Granted', moment, moment - Window + 1)
        BY <1>1 DEF Since, SinceAt
      <4> QED
        BY <1>3, <4>2, <4>3
    <3>7. \A t \in Moments : t > moment' - Window =>
              Granted'[t] + Cardinality(AboutToCount(t)') <= zset'[t]
      BY <1>1, <3>1, <3>3, <3>4, FS_EmptySet
    <3>8. \A t \in Moments : counted'[t] > 0 => t <= expiry' - Window
      BY <1>1, <1>3 DEF Moments
    <3> QED
      BY <3>6, <3>7, <3>8 DEF GrantedInv
  <2>4. PassedInv'
    <3> SUFFICES ASSUME NEW t \in BeforeWindows \cup {-1}, t < moment
                 PROVE  Since(allowed, t + 1)' + Cardinality(Owing(t)')
                          <= Since(counted, t + 1)' + UnderWayAfter(t)' + Since(caught, t + 1)'
      BY <1>1 DEF PassedInv
    <3>1. t \in Int /\ t + 1 \in Int /\ t + 1 <= moment /\ t + 1 <= moment + 1 /\ UnderWayAfter(t) \in Nat
      BY <1>3
    <3>2. /\ Since(counted, t + 1)' = Since(counted, t + 1) /\ Since(allowed, t + 1)' = Since(allowed, t + 1)
          /\ UnderWayAfter(t)' = UnderWayAfter(t)
      BY <1>1 DEF Since, UnderWayAfter
    <3>3. Since(caught, t + 1)' = Since(caught, t + 1) + Cardinality(losing)
      <4> HIDE DEF losing
      <4>1. SinceAt(caught', moment, t + 1) = SinceAt(caught, moment, t + 1) + Cardinality(losing)
        <5>1. SinceAt(caught', moment, t + 1)
                  = SinceAt(caught, moment, t + 1) + (IF t + 1 <= moment THEN Cardinality(losing) ELSE 0)
          <6> DEFINE from == t + 1
                     x == Cardinality(losing)
                     n == moment
          <6>1. /\ from \in Int /\ from <= moment + 1 /\ x \in Nat /\ moment \in Moments /\ caught \in Counts /\ n \in Moments /\ n <= moment
                /\ caught' \in Counts /\ caught'[n] = caught[n] + x
                /\ \A i \in Moments \ {n} : caught'[i] = caught[i]
            BY <1>3, <1>4, <1>5, <3>1
          <6> HIDE DEF from, x, n
          <6>2. SinceAt(caught', moment, from) = SinceAt(caught, moment, from) + (IF from <= n THEN x ELSE 0)
            BY <6>1, SinceAdds
          <6> QED
            BY <6>2 DEF from, x, n
        <5> QED
          BY <3>1, <5>1
      <4> QED
        BY <1>1, <4>1 DEF Since, SinceAt
    <3>4. /\ Cardinality(Owing(t)') \in Nat
          /\ Cardinality(Owing(t)') <= Cardinality(Owing(t)) + Cardinality(losing)
      <4>1. /\ Owing(t) \subseteq Visits /\ Owing(t)' \subseteq Owing(t) \cup losing
        BY <1>1 DEF Owing
      <4> HIDE DEF losing
      <4>2. IsFiniteSet(Owing(t)) /\ IsFiniteSet(losing) /\ IsFiniteSet(Owing(t) \cup losing)
        BY <1>4, <4>1, FS_Subset, FS_Union, LimiterAssumption
      <4>3. /\ Cardinality(Owing(t) \cup losing)
                  = Cardinality(Owing(t)) + Cardinality(losing) - Cardinality(Owing(t) \cap losing)
        BY <4>2, FS_Union
      <4>4. Cardinality(Owing(t) \cap losing) \in Nat /\ Cardinality(Owing(t) \cup losing) \in Nat
        BY <4>2, FS_Intersection, FS_CardinalityType
      <4>5. Cardinality(Owing(t)') \in Nat /\ Cardinality(Owing(t)') <= Cardinality(Owing(t) \cup losing)
        BY <4>1, <4>2, FS_Subset, FS_CardinalityType
      <4> QED
        BY <1>3, <1>4, <4>3, <4>4, <4>5
    <3>5. Since(allowed, t + 1) + Cardinality(Owing(t))
              <= Since(counted, t + 1) + UnderWayAfter(t) + Since(caught, t + 1)
      BY <2>1 DEF PassedInv
    <3>6. /\ Since(allowed, t + 1) \in Nat /\ Since(counted, t + 1) \in Nat /\ Since(caught, t + 1) \in Nat
      BY <1>3, <3>1, SinceShrinks, SinceIsAt
    <3>7. Cardinality(Owing(t)) \in Nat
      BY <1>3
    <3> HIDE DEF losing
    <3> QED
      BY <1>4, <3>1, <3>2, <3>3, <3>4, <3>5, <3>6, <3>7
  <2> QED
    BY <1>1, <1>6, <1>8, <2>1, <2>2, <2>3, <2>4 DEF LimiterInv, LimiterShape, NoVisitor
<1> QED
  BY <1>2, <1>7, <1>8 DEF LimiterTypeOK

(* LimiterInv holds of every run.                                           *)
THEOREM LimiterInvariance == LimiterSpec => []LimiterInv
<1>1. ASSUME LimiterInit PROVE LimiterInv
  <2> USE <1>1 DEF LimiterInit
  <2>1. /\ LimiterTypeOK /\ overrun <= moment /\ refusal > 0
        /\ \A t \in Moments : allowed[t] = 0 /\ zset[t] = 0
    <3>1. 0 \in Moments /\ 0 \in 0..Rate /\ -1 \in -1..MaxMoment
      BY LimiterAssumption DEF Moments
    <3>2. visitor \in [count : 0..Rate, lastSeen : Moments]
      BY <3>1 DEF NoVisitor
    <3>3. /\ [t \in Moments |-> 0] \in [Moments -> Nat] /\ \A t \in Moments : [n \in Moments |-> 0][t] = 0
          /\ [t \in BeforeWindows |-> 0] \in [BeforeWindows -> Nat]
      OBVIOUS
    <3>4. [v \in Visits |-> "idle"] \in [Visits -> VisitStates]
      BY DEF VisitStates
    <3>5. [v \in Visits |-> 0] \in [Visits -> Moments]
      BY <3>1
    <3>6. refusal \in Nat /\ refusal > 0
      OBVIOUS
    <3>7. expired \in BOOLEAN
      BY Zenon
    <3>8. overrun \in -1..MaxMoment /\ overrun <= moment /\ Never \in 0..Never
      BY LimiterAssumption DEF Never
    <3> QED
      BY <3>1, <3>2, <3>3, <3>4, <3>5, <3>6, <3>7, <3>8, Zenon DEF LimiterTypeOK, Counts
  <2>2. Clock
    BY <2>1, ClockRuns DEF LimiterTypeOK
  <2>3. Recent = 0 /\ SinceAt(allowed, moment, CountStart) = 0
    <3>1. \A t \in Int : t <= moment + 1 => SinceAt(allowed, moment, t) = 0
      BY <2>1, <2>2, SinceNothing DEF Clock
    <3>2. WindowStart <= moment + 1
      BY <2>2, LimiterAssumption DEF WindowStart
    <3> QED
      BY <2>2, <3>1, <3>2, SumsOfInvariant DEF Clock
  <2>4. ASSUME backend = "memory" PROVE CountedAllowed
    <3>1. Since(allowed, (IF overrun > moment - Window THEN overrun ELSE moment - Window) + 1) = 0
      BY <2>3, SumsOfInvariant
    <3> QED
      BY <2>3, <3>1, LimiterAssumption DEF CountedAllowed, NoVisitor
  <2>5. ASSUME backend = "redis" PROVE StampsInv /\ GrantedInv /\ PassedInv
    <3>1. \A t : AboutToCount(t) = {} /\ Held(t) = {} /\ Owing(t) = {}
      BY DEF AboutToCount, Held, Owing
    <3>2. \A t \in Moments : Granted[t] = 0 /\ counted[t] = 0 /\ caught[t] = 0
      BY <3>1, FS_EmptySet DEF Granted
    <3>3. StampsInv
      BY <3>2, LimiterAssumption DEF StampsInv
    <3>4. Granted \in Counts /\ counted \in Counts /\ caught \in Counts /\ moment \in Moments
      BY <2>1, RedisShape
    <3>5. Since(Granted, moment - Window + 1) = 0
      <4>1. moment - Window + 1 \in Int /\ moment - Window + 1 <= moment + 1
        BY LimiterAssumption
      <4> QED
        BY <3>2, <3>4, <4>1, SinceNothing, SinceIsAt
    <3>6. GrantedInv
      BY <2>1, <3>1, <3>2, <3>5, FS_EmptySet, LimiterAssumption DEF GrantedInv
    <3>7. PassedInv
      <4>1. \A t \in BeforeWindows \cup {-1} : t < moment => t = -1
        BY LimiterAssumption DEF BeforeWindows, Moments
      <4>2. Since(allowed, 0) = 0 /\ Since(counted, 0) = 0 /\ Since(caught, 0) = 0
        <5>1. allowed \in Counts /\ 0 \in Int /\ 0 <= moment + 1
          BY <2>1 DEF LimiterTypeOK
        <5> QED
          BY <2>1, <3>2, <3>4, <5>1, SinceNothing, SinceIsAt
      <4>3. UnderWayAfter(-1) = 0 /\ Cardinality(Owing(-1)) = 0 /\ -1 + 1 = 0
        BY <3>1, FS_EmptySet DEF UnderWayAfter
      <4> QED
        BY <4>1, <4>2, <4>3 DEF PassedInv
    <3> QED
      BY <3>3, <3>6, <3>7
  <2> QED
    BY <2>1, <2>4, <2>5, LimiterAssumption DEF LimiterInv, Moments
<1>2. ASSUME LimiterInv, [LimiterNext]_limiterVars PROVE LimiterInv'
  <2>1. CASE LimiterTick
    BY <1>2, <2>1, TickKeeps
  <2>2. CASE IsAllowed
    BY <1>2, <2>2, AllowingKeeps
  <2>3. CASE CleanupCollects \/ CleanupDeletes
    BY <1>2, <2>3, CleanupKeeps
  <2>4. ASSUME NEW v \in Visits,
               BeginVisit(v) \/ Prune(v) \/ AddMember(v) \/ CountMembers(v)
        PROVE  LimiterInv'
    BY <1>2, <2>4, CommandsKeep
  <2>5. ASSUME NEW v \in Visits, Expire(v) \/ PassOn(v) \/ FailOpen(v) PROVE LimiterInv'
    BY <1>2, <2>5, EndsKeep
  <2>6. CASE KeyExpires
    BY <1>2, <2>6, ExpiryKeeps
  <2>7. CASE UNCHANGED limiterVars
    BY <1>2, <2>7 DEF limiterVars, visitorVars, setVars, LimiterInv, LimiterTypeOK,
       CountedAllowed, StampsInv, GrantedInv, PassedInv, Granted, Held, AboutToCount, Owing,
       UnderWayAfter, Recent, Since
  <2> QED
    BY <1>2, <2>1, <2>2, <2>3, <2>4, <2>5, <2>6, <2>7 DEF LimiterNext
<1> QED
  BY <1>1, <1>2, PTL DEF LimiterSpec

(* The allowance is kept with either backend, for every rate and window.    *)
THEOREM AllowanceIsKept == LimiterSpec => []AllowanceHolds
<1>1. ASSUME LimiterInv PROVE AllowanceHolds
  <2>1. Clock
    BY <1>1, ClockRuns DEF LimiterInv, LimiterTypeOK
  <2>2. Recent \in Nat
    BY <2>1, SinceShrinks, SumsOfInvariant DEF Clock
  <2>3. ASSUME backend = "memory" PROVE VisitorsKept
    <3>1. /\ Recent <= (IF overrun > moment - Window THEN Rate ELSE 0) + visitor.count
          /\ visitor.count \in 0..Rate
      BY <1>1, <2>3 DEF LimiterInv, CountedAllowed, LimiterTypeOK
    <3> QED
      BY <1>1, <2>2, <3>1, LimiterAssumption DEF VisitorsKept, LimiterInv
  <2>4. ASSUME backend = "redis" PROVE PipelinesKept
    <3>1. LimiterTypeOK /\ StampsInv /\ GrantedInv /\ PassedInv
      BY <1>1, <2>4 DEF LimiterInv
    <3>2. /\ moment \in Moments /\ moment \in Nat /\ Window \in Nat /\ Window > 0 /\ Rate \in Nat
          /\ MaxMoment \in Nat /\ Moments \subseteq Nat /\ moment <= MaxMoment
          /\ allowed \in Counts /\ counted \in Counts /\ caught \in Counts /\ Granted \in Counts
          /\ \A t : Cardinality(Held(t)) \in Nat /\ Cardinality(Owing(t)) \in Nat
          /\ \A t \in BeforeWindows \cup {-1} : t \in Int /\ UnderWayAfter(t) \in Nat
      BY <3>1, RedisShape DEF Moments
    <3> DEFINE start == moment - Window + 1
               before == IF moment - Window < 0 THEN -1 ELSE moment - Window
    <3>3. /\ start \in Int /\ start <= moment + 1 /\ before + 1 \in Int /\ before < moment
          /\ before \in BeforeWindows \cup {-1} /\ before + 1 <= moment + 1
      BY <3>2 DEF BeforeWindows, Moments
    <3>4. Since(counted, start) <= Rate /\ Since(counted, start) \in Nat
      <4>1. \A n \in Moments : counted[n] <= Granted[n]
        BY <3>2 DEF Granted, Counts
      <4>2. /\ SinceAt(counted, moment, start) <= SinceAt(Granted, moment, start)
            /\ SinceAt(counted, moment, start) \in Nat /\ SinceAt(Granted, moment, start) \in Nat
        BY <3>2, <3>3, <4>1, SinceCompares, SinceShrinks
      <4>3. SinceAt(Granted, moment, start) <= Rate
        BY <3>1, SinceIsAt DEF GrantedInv
      <4> HIDE DEF start
      <4> QED
        BY <3>2, <4>2, <4>3, SinceIsAt
    <3>5. \A c : Since(c, start) = Since(c, before + 1)
      BY <3>2 DEF Since
    <3>6. UnderWayAfter(before) = UnderWayAfter(moment - Window)
      BY <3>2 DEF UnderWayAfter
    <3>7. Since(allowed, before + 1) + Cardinality(Owing(before))
              <= Since(counted, before + 1) + UnderWayAfter(before) + Since(caught, before + 1)
      BY <3>1, <3>3 DEF PassedInv
    <3>8. /\ Since(allowed, start) \in Nat /\ Since(caught, start) \in Nat
          /\ UnderWayAfter(before) \in Nat /\ Cardinality(Owing(before)) \in Nat
      <4>1. Since(allowed, start) \in Nat /\ Since(caught, start) \in Nat
        BY <3>2, <3>3, SinceShrinks, SinceIsAt
      <4> QED
        BY <3>2, <3>3, <4>1
    <3>9. Since(allowed, start) <= Rate + UnderWayAfter(moment - Window) + Since(caught, start)
      <4> HIDE DEF start, before
      <4>1. Since(allowed, start) + Cardinality(Owing(before))
                <= Since(counted, start) + UnderWayAfter(before) + Since(caught, start)
        BY <3>5, <3>7
      <4> QED
        BY <3>2, <3>4, <3>6, <3>8, <4>1
    <3> QED
      BY <3>4, <3>9 DEF PipelinesKept, Recent
  <2> QED
    BY <1>1, <2>3, <2>4 DEF LimiterInv, LimiterTypeOK, AllowanceHolds
<1> QED
  BY <1>1, LimiterInvariance, PTL
-----------------------------------------------------------------------------
\* The lists.  The pages up to the one that is asked for next are a prefix of
\* the list; a page number too large for an int is clamped to one beyond the list.

(* A page that is no larger than the list and its page fits into an int.    *)
LEMMA PagesFit ==
    ASSUME listing \in Listings, perPage \in Asked
    PROVE  /\ PerPage \in 1..MaxPerPage /\ PerPage \in Nat \ {0}
           /\ MaxEntries \in Nat \ {0} /\ WordMax \in Nat
           /\ MaxEntries + 2 * PerPage <= WordMax + 1 /\ MaxEntries < WordMax
<1>1. /\ MaxEntries \in Nat \ {0} /\ WordMax \in Nat /\ MaxPerPage \in Nat \ {0}
      /\ DefaultPerPage \in 1..MaxPerPage /\ GrafanaPerPage \in 1..MaxPerPage
      /\ MaxEntries + 2 * MaxPerPage <= WordMax + 1
  BY PagedAssumption
<1>2. PerPage \in 1..MaxPerPage
  <2>1. perPage \in Int
    BY <1>1 DEF Asked
  <2>2. /\ UsersPerPage(perPage) \in 1..MaxPerPage /\ GetPerPage(perPage) \in 1..MaxPerPage
        /\ DashboardsPerPage(perPage) \in 1..MaxPerPage
    BY <1>1, <2>1 DEF UsersPerPage, GetPerPage, DashboardsPerPage
  <2> QED
    BY <2>2 DEF PerPage, Listings, Tables
<1> QED
  BY <1>1, <1>2

(* What fits is not wrapped.                                                *)
LEMMA WrapFits ==
    ASSUME NEW n \in 0..WordMax
    PROVE  Wrap(n) = n
<1>1. WordMax \in Nat
  BY PagedAssumption
<1>2. n + WordMax + 1 \in Nat /\ 2 * (WordMax + 1) \in Nat /\ n + WordMax + 1 < 2 * (WordMax + 1)
  BY <1>1
<1>3. \A k \in Nat, d \in Nat : k < d => k % d = k
  OBVIOUS
<1>4. (n + WordMax + 1) % (2 * (WordMax + 1)) = n + WordMax + 1
  BY <1>2, <1>3
<1> QED
  BY <1>1, <1>4 DEF Wrap

(* Products of naturals grow with their factors.                            *)
LEMMA TimesGrows ==
    ASSUME NEW a \in Nat, NEW b \in Nat, NEW p \in Nat \ {0}
    PROVE  /\ a * p \in Nat /\ b * p \in Nat /\ a <= a * p
           /\ a < b => a * p + p <= b * p
           /\ a <= b => a * p <= b * p
OBVIOUS

(* Of n entries there are as many pages as it takes to show them.           *)
LEMMA MetaCounts ==
    ASSUME NEW n \in Nat, NEW page \in Nat, PerPage \in Nat \ {0}
    PROVE  /\ CalculateMeta(n) \in 0..n /\ page * PerPage \in Nat
           /\ page < CalculateMeta(n) <=> page * PerPage < n
<1>1. ASSUME NEW p \in Nat \ {0}
      PROVE  /\ n = (n \div p) * p + (n % p) /\ n \div p \in Nat /\ n % p \in 0..(p - 1)
  OBVIOUS
<1>2. ASSUME NEW p \in Nat \ {0}, NEW q \in Nat, NEW r \in 0..(p - 1), n = q * p + r
      PROVE  LET meta == q + (IF r > 0 THEN 1 ELSE 0)
             IN  meta \in 0..n /\ page * p \in Nat /\ (page < meta <=> page * p < n)
  <2>1. page * p \in Nat /\ q * p \in Nat /\ q <= q * p
    BY TimesGrows
  <2>2. page < q => page * p + p <= q * p
    BY TimesGrows
  <2>3. q < page => q * p + p <= page * p
    BY TimesGrows
  <2>4. CASE r = 0
    BY <1>2, <2>1, <2>2, <2>3, <2>4
  <2>5. CASE r > 0
    BY <1>2, <2>1, <2>2, <2>3, <2>5
  <2> QED
    BY <2>4, <2>5
<1>3. CalculateMeta(n) = (n \div PerPage) + (IF n % PerPage > 0 THEN 1 ELSE 0)
  BY DEF CalculateMeta
<1> QED
  BY <1>1, <1>2, <1>3, Zenon

\* How many entries the pages before this one have.
Before(page) == (page - 1) * PerPage

\* The list is the users', or nobody has disturbed the walk.
Whole == listing = "users" \/ ~ disturbed

\* Users are only added, and each is where its id says.
UsersGrow ==
    listing = "users" =>
        /\ entries = Oldest(Len(entries)) /\ usersIdx = entries
        /\ began = Oldest(Len(began)) /\ Len(began) <= Len(entries)
        /\ walk.at # "counted"

\* What has been seen while the walk goes on: the list up to this page.
SeenSoFar ==
    /\ Before(walk.page) <= Len(entries)
    /\ walk.page > 1 => Before(walk.page) < Len(entries)
    /\ seen = SubSeq(entries, 1, Before(walk.page))
    /\ listing # "users" => entries = began
    /\ walk.at = "counted" => total = Len(entries)

\* And what has been seen when it is over.
SeenAll ==
    IF listing = "users" THEN /\ seen \in Seq(Nat) /\ seen = Oldest(Len(seen))
                              /\ Len(began) <= Len(seen)
                         ELSE disturbed \/ seen = began

PagedInv ==
    /\ PagedTypeOK
    /\ entries \in Seq(Nat) /\ began \in Seq(Nat)
    /\ UsersGrow
    /\ listing # "users" => Len(entries) < nextEntry
    /\ walk.at = "idle" => walk.page = 1 /\ began = <<>> /\ seen = <<>>
    /\ walk.at \in {"ask", "counted"} /\ ~ FarWalk => Before(walk.page) < MaxEntries
    /\ walk.at \in {"ask", "counted"} /\ ~ FarWalk /\ Whole => SeenSoFar
    /\ walk.at = "end" /\ ~ FarWalk => SeenAll
    /\ walk.at = "refused" => FarWalk \/ began = <<>>
    /\ FarWalk => seen = <<>>

(* A page of the list.                                                      *)
LEMMA SliceShows ==
    ASSUME listing \in Listings, perPage \in Asked, entries \in Seq(Nat),
           Len(entries) <= MaxEntries, NEW page \in Nat \ {0},
           Before(page) <= Len(entries)
    PROVE  Slice(page) = SubSeq(entries, Before(page) + 1,
                                IF page * PerPage > Len(entries) THEN Len(entries)
                                                                 ELSE page * PerPage)
<1> DEFINE p == PerPage
           full == WordMax \div p
           w == WordMax
<1>1. /\ p \in Nat \ {0} /\ w \in Nat /\ MaxEntries \in Nat /\ MaxEntries + 2 * p <= w + 1
      /\ Len(entries) \in Nat
  BY PagesFit
<1>2. Before(page) \in Nat /\ page * p = Before(page) + p /\ page * p \in Nat
  BY <1>1 DEF Before
<1>3. page * p <= w
  BY <1>1, <1>2
<1>4. page <= full
  <2>1. full \in Nat /\ w < full * p + p
    BY <1>1
  <2> HIDE DEF p, full, w
  <2>2. full * p \in Nat /\ (full < page => full * p + p <= page * p)
    BY <1>1, <2>1, TimesGrows
  <2>3. ~ (full < page)
    BY <1>1, <1>2, <1>3, <2>1, <2>2, SMTT(30)
  <2> QED
    BY <2>1, <2>3
<1>5. full \in Nat
  BY <1>1
<1>6. ClampPage(page) = page
  BY <1>4, <1>5 DEF ClampPage
<1>7. GetOffset(page) = Before(page)
  BY <1>1, <1>2, <1>3, <1>6, WrapFits DEF GetOffset, Before
<1>8. Wrap(GetOffset(page) + p) = page * p
  BY <1>1, <1>2, <1>3, <1>7, WrapFits
<1> QED
  BY <1>7, <1>8 DEF Slice

(* The farthest page shows nothing.                                         *)
LEMMA FarSliceIsEmpty ==
    ASSUME listing \in Listings, perPage \in Asked, entries \in Seq(Nat),
           Len(entries) <= MaxEntries, listing # "users"
    PROVE  Slice(WordMax) = <<>>
<1> DEFINE p == PerPage
           full == WordMax \div p
           w == WordMax
<1>1. /\ p \in Nat \ {0} /\ w \in Nat /\ MaxEntries \in Nat /\ MaxEntries + 2 * p <= w + 1
      /\ Len(entries) \in Nat
  BY PagesFit
<1>2. full \in Nat /\ full * p <= w /\ w < full * p + p /\ full * p \in Nat
  BY <1>1
<1>3. ClampPage(w) = full
  <2>1. full <= full * p
    BY <1>1, <1>2
  <2>2. full <= w
    BY <1>1, <1>2, <2>1
  <2> QED
    BY <1>1, <1>2, <2>2 DEF ClampPage
<1>4. full # 0
  BY <1>1, <1>2
<1>5. (full - 1) * p = full * p - p
  BY <1>1, <1>2
<1> HIDE DEF p, full, w
<1>6. (full - 1) * p \in 0..w /\ (full - 1) * p >= MaxEntries /\ (full - 1) * p + p \in 0..w
  BY <1>1, <1>2, <1>5
<1>7. GetOffset(w) = (full - 1) * p
  BY <1>3, <1>6, WrapFits DEF GetOffset, p, w
<1>8. Wrap(GetOffset(w) + p) = full * p
  BY <1>1, <1>2, <1>5, <1>6, <1>7, WrapFits DEF w
<1>9. Slice(w) = SubSeq(entries, (full - 1) * p + 1,
                        IF full * p > Len(entries) THEN Len(entries) ELSE full * p)
  BY <1>7, <1>8 DEF Slice, p
<1>10. full * p > Len(entries)
  BY <1>1, <1>2, <1>5, <1>6
<1>11. Len(entries) < (full - 1) * p + 1
  BY <1>1, <1>2, <1>5, <1>6
<1> QED
  BY <1>1, <1>2, <1>5, <1>9, <1>10, <1>11, SubSeqEmpty DEF w

(* The lists in order.                                                      *)
LEMMA OldestIsSeq ==
    ASSUME NEW n \in Nat
    PROVE  /\ Oldest(n) \in Seq(Nat) /\ Len(Oldest(n)) = n /\ DOMAIN Oldest(n) = 1..n
           /\ \A i \in 1..n : Oldest(n)[i] = i
           /\ Append(Oldest(n), n + 1) = Oldest(n + 1)
           /\ \A k \in 0..n : SubSeq(Oldest(n), 1, k) = Oldest(k)
           /\ n = 0 => Oldest(n) = <<>>
<1>1. \A m \in Nat : /\ Oldest(m) \in Seq(Nat) /\ Len(Oldest(m)) = m /\ DOMAIN Oldest(m) = 1..m
                     /\ \A i \in 1..m : Oldest(m)[i] = i
  <2> TAKE m \in Nat
  <2>1. Oldest(m) \in [1..m -> Nat]
    BY DEF Oldest
  <2>2. Oldest(m) \in Seq(Nat)
    BY <2>1
  <2> QED
    BY <2>1, <2>2, LenProperties DEF Oldest
<1>2. Append(Oldest(n), n + 1) = Oldest(n + 1)
  <2> DEFINE a == Append(Oldest(n), n + 1)
  <2>1. /\ a \in Seq(Nat) /\ Len(a) = n + 1 /\ a[n + 1] = n + 1
        /\ \A i \in 1..n : a[i] = i
    <3>1. Oldest(n) \in Seq(Nat) /\ n + 1 \in Nat /\ Len(Oldest(n)) = n
      BY <1>1
    <3> QED
      <4>1. /\ a \in Seq(Nat) /\ Len(a) = n + 1 /\ a[n + 1] = n + 1
            /\ \A i \in 1..n : a[i] = Oldest(n)[i]
        BY <3>1, AppendProperties
      <4> QED
        BY <1>1, <4>1
  <2>2. /\ Oldest(n + 1) \in Seq(Nat) /\ Len(Oldest(n + 1)) = n + 1
        /\ \A i \in 1..(n + 1) : Oldest(n + 1)[i] = i
    BY <1>1
  <2> HIDE DEF a
  <2>3. \A i \in 1..(n + 1) : a[i] = Oldest(n + 1)[i]
    BY <2>1, <2>2
  <2>4. a = Oldest(n + 1)
    BY <2>1, <2>2, <2>3, SeqEqual
  <2> QED
    BY <2>4 DEF a
<1>3. ASSUME NEW k \in 0..n PROVE SubSeq(Oldest(n), 1, k) = Oldest(k)
  <2> DEFINE s == SubSeq(Oldest(n), 1, k)
  <2>1. \A i \in 1..k : Oldest(n)[i] \in Nat /\ Oldest(n)[i] = i
    <3>1. \A i \in 1..n : Oldest(n)[i] = i
      BY <1>1
    <3>2. \A i \in 1..k : i \in 1..n /\ i \in Nat
      OBVIOUS
    <3> QED
      BY <3>1, <3>2
  <2> k \in Int
    OBVIOUS
  <2>2. /\ s \in Seq(Nat) /\ Len(s) = k
        /\ \A i \in 1..k : s[i] = i
    <3>1. /\ s \in Seq(Nat) /\ Len(s) = (IF 1 <= k THEN k - 1 + 1 ELSE 0)
          /\ \A i \in 1..(k - 1 + 1) : s[i] = Oldest(n)[1 + i - 1]
      BY <2>1, SubSeqProperties
    <3> HIDE DEF s
    <3> QED
      BY <2>1, <3>1
  <2>3. /\ Oldest(k) \in Seq(Nat) /\ Len(Oldest(k)) = k
        /\ \A i \in 1..k : Oldest(k)[i] = i
    BY <1>1
  <2> HIDE DEF s
  <2>4. s = Oldest(k)
    BY <2>2, <2>3, SeqEqual
  <2> QED
    BY <2>4 DEF s
<1>4. n = 0 => Oldest(n) = <<>>
  BY <1>1, EmptySeq
<1> QED
  BY <1>1, <1>2, <1>3, <1>4

(* The page after what has been seen so far.                                *)
LEMMA PageAddsOn ==
    ASSUME listing \in Listings, perPage \in Asked, entries \in Seq(Nat),
           Len(entries) <= MaxEntries, NEW page \in Nat \ {0}, Before(page) <= Len(entries)
    PROVE  LET shown == SubSeq(entries, 1, Before(page)) \o Slice(page)
           IN  IF page < CalculateMeta(Len(entries))
               THEN shown = SubSeq(entries, 1, Before(page + 1)) /\ Before(page + 1) < Len(entries)
               ELSE shown = entries
<1>1. PerPage \in Nat \ {0} /\ Len(entries) \in Nat
  BY PagesFit
<1>2. /\ page * PerPage \in Nat
      /\ page < CalculateMeta(Len(entries)) <=> page * PerPage < Len(entries)
  BY <1>1, MetaCounts
<1>3. Before(page + 1) = page * PerPage
  BY <1>1, <1>2 DEF Before
<1>4. Before(page) \in Nat /\ Before(page) <= page * PerPage
  BY <1>1 DEF Before
<1> DEFINE until == IF page * PerPage > Len(entries) THEN Len(entries) ELSE page * PerPage
<1>5. Slice(page) = SubSeq(entries, Before(page) + 1, until)
  BY SliceShows
<1>6. until \in Before(page)..Len(entries) /\ Before(page) \in 0..Len(entries)
  BY <1>1, <1>2, <1>4
<1>7. SubSeq(entries, 1, Before(page)) \o Slice(page) = SubSeq(entries, 1, until)
  <2> HIDE DEF until
  <2>1. 1 \in 1..(Len(entries) + 1) /\ Before(page) \in (1 - 1)..Len(entries)
    BY <1>1, <1>6
  <2> QED
    BY <1>5, <1>6, <2>1, ConcatAdjacentSubSeq
<1>8. CASE page < CalculateMeta(Len(entries))
  <2>1. page * PerPage < Len(entries) /\ until = page * PerPage
    BY <1>1, <1>2, <1>8
  <2> QED
    BY <1>3, <1>7, <1>8, <2>1
<1>9. CASE ~ (page < CalculateMeta(Len(entries)))
  <2>1. until = Len(entries)
    BY <1>1, <1>2, <1>9
  <2> QED
    BY <1>7, <1>9, <2>1, SubSeqFull
<1> QED
  BY <1>8, <1>9

(* A page that is shown, out of a list of which n entries were counted.     *)
LEMMA ShowPageKeeps ==
    ASSUME PagedInv, NEW n \in Nat, ShowPage(n), n <= MaxEntries, walk.at \in {"ask", "counted"},
           Whole => n = Len(entries), FarWalk => listing # "users",
           walk.at = "counted" => listing # "users"
    PROVE  PagedInv'
<1>1. /\ listing \in Listings /\ perPage \in Asked /\ entries \in Seq(Nat)
      /\ Len(entries) <= MaxEntries /\ Len(entries) \in Nat
      /\ walk \in [at : {"idle", "ask", "counted", "end", "refused"}, page : 1..WordMax]
      /\ walk.page \in 1..WordMax
  BY DEF PagedInv, PagedTypeOK
<1>2. PerPage \in Nat \ {0} /\ MaxEntries \in Nat /\ WordMax \in Nat /\ MaxEntries < WordMax
  BY <1>1, PagesFit
<1>3. /\ UNCHANGED <<listing, perPage, entries, usersIdx, nextEntry, total, began, disturbed>>
      /\ PerPage' = PerPage
  BY DEF ShowPage, PerPage, UsersPerPage, GetPerPage, DashboardsPerPage
<1>4. walk.page \in Nat \ {0} /\ CalculateMeta(n) \in 0..n /\ walk.page * PerPage \in Nat
      /\ (walk.page < CalculateMeta(n) <=> walk.page * PerPage < n)
  <2>1. walk.page \in Nat \ {0} /\ walk.page \in Nat
    BY <1>1, <1>2
  <2> QED
    BY <1>2, <2>1, MetaCounts
<1>5. /\ lastPage' \in 0..MaxEntries
      /\ seen' = seen \o Slice(walk.page)
      /\ \/ walk.page < CalculateMeta(n) /\ walk' = [at |-> "ask", page |-> walk.page + 1]
         \/ ~ (walk.page < CalculateMeta(n)) /\ walk' = [at |-> "end", page |-> walk.page]
  <2>1. lastPage' = CalculateMeta(n) /\ lastPage' \in 0..MaxEntries
    BY <1>2, <1>4 DEF ShowPage
  <2>2. [walk EXCEPT !.at = "end"] = [at |-> "end", page |-> walk.page]
    BY <1>1
  <2> QED
    BY <2>1, <2>2 DEF ShowPage
<1>6. walk' \in [at : {"idle", "ask", "counted", "end", "refused"}, page : 1..WordMax]
  BY <1>1, <1>2, <1>4, <1>5
<1>7. PagedTypeOK'
  BY <1>3, <1>5, <1>6 DEF PagedInv, PagedTypeOK
<1>8. /\ entries' \in Seq(Nat) /\ began' \in Seq(Nat) /\ UsersGrow'
      /\ (listing' # "users" => Len(entries') < nextEntry')
      /\ walk'.at \notin {"idle", "refused", "counted"}
  BY <1>3, <1>5 DEF PagedInv, UsersGrow
<1>9. CASE FarWalk
  <2>1. ~ (walk.page < CalculateMeta(n))
    BY <1>2, <1>4, <1>9 DEF FarWalk
  <2>2. seen = <<>> /\ Slice(walk.page) = <<>>
    BY <1>1, <1>9, FarSliceIsEmpty DEF FarWalk, PagedInv
  <2>3. seen' = <<>>
    BY <1>5, <2>2, ConcatEmptySeq
  <2>4. walk' = [at |-> "end", page |-> walk.page] /\ FarWalk'
    BY <1>5, <1>9, <2>1 DEF FarWalk
  <2> QED
    BY <1>7, <1>8, <2>3, <2>4 DEF PagedInv
<1>10. CASE ~ FarWalk /\ walk.page < CalculateMeta(n)
  <2>1. /\ walk' = [at |-> "ask", page |-> walk.page + 1] /\ walk.page * PerPage < n
        /\ walk'.page = walk.page + 1 /\ walk'.at = "ask"
    BY <1>4, <1>5, <1>10
  <2>2. Before(walk.page)' = walk.page * PerPage /\ Before(walk.page)' = Before(walk.page + 1)
    <3>1. (walk.page + 1) - 1 = walk.page
      BY <1>4
    <3> QED
      BY <1>3, <2>1, <3>1 DEF Before
  <2>3. Before(walk.page)' < MaxEntries
    BY <1>2, <1>4, <2>1, <2>2
  <2>4. ~ FarWalk'
    BY <1>2, <1>4, <2>1 DEF FarWalk
  <2>5. ASSUME Whole' PROVE SeenSoFar'
    <3>1. Whole /\ n = Len(entries)
      BY <1>3, <2>5 DEF Whole
    <3>2. SeenSoFar
      BY <1>10, <3>1 DEF PagedInv
    <3>3. /\ seen' = SubSeq(entries, 1, Before(walk.page + 1))
          /\ Before(walk.page + 1) < Len(entries)
      BY <1>1, <1>4, <1>5, <1>10, <3>1, <3>2, PageAddsOn DEF SeenSoFar
    <3>4. Before(walk.page + 1) \in Nat
      BY <1>4, <2>2, <2>3
    <3> QED
      BY <1>1, <1>3, <2>1, <2>2, <3>2, <3>3, <3>4 DEF SeenSoFar
  <2> QED
    BY <1>7, <1>8, <2>1, <2>3, <2>4, <2>5 DEF PagedInv
<1>11. CASE ~ FarWalk /\ ~ (walk.page < CalculateMeta(n))
  <2>1. walk' = [at |-> "end", page |-> walk.page] /\ walk'.at = "end" /\ ~ FarWalk'
    BY <1>5, <1>11 DEF FarWalk
  <2>2. SeenAll'
    <3>1. CASE Whole
      <4>1. SeenSoFar /\ n = Len(entries)
        BY <1>11, <3>1 DEF PagedInv
      <4>2. seen' = entries
        BY <1>1, <1>4, <1>5, <1>11, <4>1, PageAddsOn DEF SeenSoFar
      <4> QED
        BY <1>3, <4>1, <4>2 DEF SeenAll, SeenSoFar, PagedInv, UsersGrow
    <3>2. CASE ~ Whole
      BY <1>3, <3>2 DEF SeenAll, Whole
    <3> QED
      BY <3>1, <3>2
  <2> QED
    BY <1>7, <1>8, <2>1, <2>2 DEF PagedInv
<1> QED
  BY <1>9, <1>10, <1>11

(* The walk begins, anywhere or too far away.                               *)
LEMMA BeginKeeps ==
    ASSUME PagedInv, BeginWalk \/ BeginFarWalk
    PROVE  PagedInv'
<1>1. /\ UNCHANGED <<listing, perPage, entries, usersIdx, nextEntry, total, lastPage, seen>>
      /\ walk.at = "idle" /\ walk'.at = "ask" /\ began' = entries /\ disturbed' = FALSE
      /\ walk'.page \in {walk.page, WordMax} /\ walk' = [at |-> "ask", page |-> walk'.page]
  BY DEF BeginWalk, BeginFarWalk, PagedInv, PagedTypeOK
<1>2. /\ listing \in Listings /\ perPage \in Asked /\ entries \in Seq(Nat) /\ Len(entries) \in Nat
      /\ walk.page = 1 /\ seen = <<>>
  BY <1>1 DEF PagedInv, PagedTypeOK
<1>3. PerPage \in Nat \ {0} /\ MaxEntries \in Nat \ {0} /\ WordMax \in Nat /\ MaxEntries < WordMax
  BY <1>2, PagesFit
<1>4. PagedTypeOK'
  <2>1. walk' \in [at : {"idle", "ask", "counted", "end", "refused"}, page : 1..WordMax]
    BY <1>1, <1>2, <1>3
  <2> QED
    BY <1>1, <2>1, Zenon DEF PagedInv, PagedTypeOK
<1>5. UsersGrow'
  BY <1>1, <1>2 DEF UsersGrow, PagedInv
<1>6. FarWalk' \/ Before(walk.page)' = 0
  <2>1. FarWalk' \/ walk'.page = 1
    BY <1>1, <1>2 DEF FarWalk
  <2>2. PerPage' = PerPage
    BY <1>1 DEF PerPage, UsersPerPage, GetPerPage, DashboardsPerPage
  <2> QED
    BY <1>3, <2>1, <2>2 DEF Before
<1>7. SeenSoFar' \/ FarWalk'
  <2>1. SubSeq(entries, 1, 0) = <<>>
    BY <1>2, SubSeqEmpty
  <2>2. FarWalk' \/ walk'.page = 1
    BY <1>1, <1>2 DEF FarWalk
  <2> QED
    BY <1>1, <1>2, <1>6, <2>1, <2>2 DEF SeenSoFar
<1> QED
  BY <1>1, <1>2, <1>3, <1>4, <1>5, <1>6, <1>7 DEF PagedInv

(* The steps that read the list.                                            *)
LEMMA PageReadingKeeps ==
    ASSUME PagedInv, ListUsers \/ RefusePage \/ ListDashboards \/ CountRows \/ FindRows
    PROVE  PagedInv'
<1>1. /\ listing \in Listings /\ perPage \in Asked /\ entries \in Seq(Nat) /\ began \in Seq(Nat)
      /\ Len(entries) <= MaxEntries /\ Len(entries) \in Nat /\ Len(began) \in Nat
      /\ walk \in [at : {"idle", "ask", "counted", "end", "refused"}, page : 1..WordMax]
      /\ total \in 0..MaxEntries
  BY DEF PagedInv, PagedTypeOK
<1>2. PerPage \in Nat \ {0} /\ MaxEntries \in Nat \ {0} /\ WordMax \in Nat /\ MaxEntries < WordMax
  BY <1>1, PagesFit
<1>3. CASE ListUsers
  <2>1. walk.at = "ask" /\ ShowPage(Len(entries)) /\ ~ FarWalk
    BY <1>1, <1>2, <1>3 DEF ListUsers, FarWalk
  <2> QED
    BY <1>1, <2>1, ShowPageKeeps
<1>4. CASE ListDashboards
  <2>1. walk.at = "ask" /\ ShowPage(Len(entries)) /\ listing # "users"
    BY <1>4 DEF ListDashboards
  <2> QED
    BY <1>1, <2>1, ShowPageKeeps
<1>5. CASE FindRows
  <2>1. walk.at = "counted" /\ ShowPage(total) /\ listing # "users" /\ total \in Nat /\ total <= MaxEntries
    BY <1>1, <1>2, <1>5 DEF FindRows, PagedInv, UsersGrow
  <2>2. CASE FarWalk /\ Whole
    <3>1. walk.page = WordMax /\ walk' = [walk EXCEPT !.at = "end"]
      <4>1. CalculateMeta(total) \in 0..total
        BY <1>2, <2>1, MetaCounts
      <4> QED
        BY <1>2, <2>1, <2>2, <4>1 DEF ShowPage, FarWalk
    <3>2. walk' = [at |-> "end", page |-> WordMax]
      BY <1>1, <3>1
    <3>3. seen' = <<>>
      <4>1. seen = <<>> /\ Slice(walk.page) = <<>>
        BY <1>1, <2>1, <2>2, FarSliceIsEmpty DEF FarWalk, PagedInv
      <4> QED
        BY <2>1, <4>1, ConcatEmptySeq DEF ShowPage
    <3>4. /\ UNCHANGED <<listing, perPage, entries, usersIdx, nextEntry, total, began, disturbed>>
          /\ lastPage' \in 0..MaxEntries
      <4>1. CalculateMeta(total) \in 0..total
        BY <1>2, <2>1, MetaCounts
      <4> QED
        BY <1>2, <2>1, <4>1 DEF ShowPage
    <3>5. PagedTypeOK'
      <4>1. walk' \in [at : {"idle", "ask", "counted", "end", "refused"}, page : 1..WordMax]
        BY <1>2, <3>2
      <4> QED
        BY <3>4, <4>1 DEF PagedInv, PagedTypeOK
    <3> QED
      BY <2>1, <3>2, <3>3, <3>4, <3>5 DEF PagedInv, UsersGrow, FarWalk
  <2>3. CASE ~ FarWalk \/ ~ Whole
    <3>1. Whole => total = Len(entries)
      BY <2>1, <2>3 DEF PagedInv, SeenSoFar
    <3> QED
      BY <2>1, <3>1, ShowPageKeeps
  <2> QED
    BY <2>2, <2>3
<1>6. CASE RefusePage
  <2>1. /\ listing = "users" /\ walk.at = "ask" /\ walk.page > Len(entries)
        /\ walk' = [at |-> "refused", page |-> walk.page]
        /\ UNCHANGED <<listing, perPage, entries, usersIdx, nextEntry, total, lastPage, seen, began, disturbed>>
    BY <1>1, <1>6 DEF RefusePage
  <2>2. PagedTypeOK'
    <3>1. walk' \in [at : {"idle", "ask", "counted", "end", "refused"}, page : 1..WordMax]
      BY <1>1, <2>1
    <3> QED
      BY <2>1, <3>1 DEF PagedInv, PagedTypeOK
  <2>3. FarWalk \/ began = <<>>
    <3> SUFFICES ASSUME ~ FarWalk PROVE began = <<>>
      OBVIOUS
    <3>1. SeenSoFar /\ Len(began) <= Len(entries)
      BY <2>1 DEF PagedInv, Whole, UsersGrow
    <3>2. walk.page = 1
      <4>1. walk.page \in Nat \ {0} /\ walk.page - 1 \in Nat
        BY <1>1, <1>2
      <4>2. walk.page - 1 <= Before(walk.page) /\ Before(walk.page) \in Nat
        BY <1>2, <4>1, TimesGrows DEF Before
      <4> QED
        BY <1>1, <2>1, <3>1, <4>1, <4>2 DEF SeenSoFar
    <3> QED
      BY <1>1, <2>1, <3>1, <3>2, EmptySeq
  <2> QED
    BY <2>1, <2>2, <2>3 DEF PagedInv, UsersGrow, FarWalk
<1>7. CASE CountRows
  <2>1. /\ listing # "users" /\ walk.at = "ask" /\ total' = Len(entries)
        /\ walk' = [at |-> "counted", page |-> walk.page]
        /\ UNCHANGED <<listing, perPage, entries, usersIdx, nextEntry, lastPage, seen, began, disturbed>>
    BY <1>1, <1>7 DEF CountRows, Tables
  <2>2. PagedTypeOK'
    <3>1. walk' \in [at : {"idle", "ask", "counted", "end", "refused"}, page : 1..WordMax]
      BY <1>1, <2>1
    <3> QED
      BY <1>1, <1>2, <2>1, <3>1 DEF PagedInv, PagedTypeOK
  <2>3. Before(walk.page)' = Before(walk.page) /\ (FarWalk' <=> FarWalk) /\ (Whole' <=> Whole)
    BY <2>1 DEF Before, FarWalk, Whole, PerPage, UsersPerPage, GetPerPage, DashboardsPerPage
  <2>4. ASSUME ~ FarWalk, Whole PROVE SeenSoFar'
    BY <2>1, <2>3, <2>4 DEF PagedInv, SeenSoFar
  <2> QED
    BY <2>1, <2>2, <2>3, <2>4 DEF PagedInv, UsersGrow
<1> QED
  BY <1>3, <1>4, <1>5, <1>6, <1>7

(* Users come, or are replaced, while a client walks.                       *)
LEMMA UsersKeep ==
    ASSUME PagedInv, CreateUser \/ \E id \in 1..MaxEntries : UpdateUser(id)
    PROVE  PagedInv'
<1>1. /\ listing = "users" /\ disturbed' = TRUE
      /\ UNCHANGED <<listing, perPage, nextEntry, walk, total, lastPage, seen, began>>
  BY DEF CreateUser, UpdateUser
<1>2. /\ entries = Oldest(Len(entries)) /\ usersIdx = entries
      /\ began = Oldest(Len(began)) /\ Len(began) <= Len(entries) /\ walk.at # "counted"
      /\ entries \in Seq(Nat) /\ Len(entries) \in Nat /\ Len(entries) <= MaxEntries
      /\ Len(began) \in Nat
      /\ listing \in Listings /\ perPage \in Asked
  BY <1>1 DEF PagedInv, UsersGrow, PagedTypeOK
<1>3. MaxEntries \in Nat /\ PerPage \in Nat \ {0}
  BY <1>2, PagesFit
<1>4. PICK k \in Nat : /\ k <= MaxEntries /\ Len(entries) <= k
                       /\ entries' = Oldest(k) /\ usersIdx' = Oldest(k)
  <2>1. CASE CreateUser
    <3>1. Append(entries, Len(entries) + 1) = Oldest(Len(entries) + 1)
      BY <1>2, OldestIsSeq
    <3> QED
      BY <1>2, <1>3, <2>1, <3>1, SMTT(30) DEF CreateUser
  <2>2. ASSUME NEW id \in 1..MaxEntries, UpdateUser(id)
        PROVE  entries' = Oldest(Len(entries)) /\ usersIdx' = Oldest(Len(entries))
    <3>1. /\ DOMAIN Oldest(Len(entries)) = 1..Len(entries)
          /\ \A i \in 1..Len(entries) : Oldest(Len(entries))[i] = i
      BY <1>2, OldestIsSeq
    <3>2. /\ id \in 1..Len(entries) /\ entries[id] = id /\ usersIdx[id] = id
          /\ DOMAIN entries = 1..Len(entries)
      BY <1>2, <2>2, <3>1 DEF UpdateUser
    <3>3. [entries EXCEPT ![id] = id] = entries
      BY <1>2, <3>2
    <3> QED
      BY <1>2, <2>2, <3>2, <3>3 DEF UpdateUser
  <2> QED
    BY <1>2, <2>1, <2>2
<1>5. /\ entries' \in Seq(Nat) /\ Len(entries') = k
      /\ \A m \in 0..k : SubSeq(entries', 1, m) = Oldest(m)
      /\ \A m \in 0..Len(entries) : SubSeq(entries, 1, m) = Oldest(m)
      /\ \A m \in 0..Len(entries) : m \in 0..k
  <2>1. /\ Oldest(k) \in Seq(Nat) /\ Len(Oldest(k)) = k
        /\ \A m \in 0..k : SubSeq(Oldest(k), 1, m) = Oldest(m)
    BY OldestIsSeq
  <2>2. \A n \in Nat : \A m \in 0..n : SubSeq(Oldest(n), 1, m) = Oldest(m)
    BY OldestIsSeq
  <2>3. \A m \in 0..Len(entries) : SubSeq(Oldest(Len(entries)), 1, m) = Oldest(m)
    BY <1>2, <2>2
  <2>4. \A m \in 0..Len(entries) : m \in 0..k
    BY <1>2, <1>4
  <2> QED
    BY <1>2, <1>4, <2>1, <2>3, <2>4, Zenon
<1>6. PagedTypeOK'
  <2>1. Oldest(k) \in [1..k -> 1..(MaxEntries + 1)]
    BY <1>3, <1>4 DEF Oldest
  <2>2. k \in 0..MaxEntries
    BY <1>3, <1>4
  <2>3. usersIdx' \in IdList
    BY <1>4, <2>1, <2>2 DEF IdList
  <2>4. /\ listing' \in Listings /\ perPage' \in Asked /\ Len(entries') <= MaxEntries
        /\ nextEntry' \in 1..(MaxEntries + 1)
        /\ walk' \in [at : {"idle", "ask", "counted", "end", "refused"}, page : 1..WordMax]
        /\ total' \in 0..MaxEntries /\ lastPage' \in 0..MaxEntries
    BY <1>1, <1>4, <1>5 DEF PagedInv, PagedTypeOK
  <2>5. disturbed' \in BOOLEAN
    BY <1>1, Zenon
  <2> QED
    BY <2>3, <2>4, <2>5 DEF PagedTypeOK
<1>7. UsersGrow'
  BY <1>1, <1>2, <1>4, <1>5 DEF UsersGrow
<1>8. Before(walk.page)' = Before(walk.page) /\ (FarWalk' <=> FarWalk)
  BY <1>1 DEF Before, FarWalk, PerPage, UsersPerPage, GetPerPage, DashboardsPerPage
<1>9. ASSUME ~ FarWalk, walk.at = "ask" PROVE SeenSoFar'
  <2>1. SeenSoFar
    BY <1>1, <1>9 DEF PagedInv, Whole
  <2>2. Before(walk.page) \in 0..Len(entries)
    <3>1. walk.page \in Nat \ {0}
      BY DEF PagedInv, PagedTypeOK
    <3>2. Before(walk.page) \in Nat
      BY <1>3, <3>1 DEF Before
    <3> QED
      BY <1>2, <2>1, <3>2 DEF SeenSoFar
  <2>3. SubSeq(entries', 1, Before(walk.page)) = SubSeq(entries, 1, Before(walk.page))
    BY <1>5, <2>2
  <2> QED
    <3>1. /\ Before(walk.page) <= Len(entries) /\ seen = SubSeq(entries, 1, Before(walk.page))
          /\ walk.page > 1 => Before(walk.page) < Len(entries)
      BY <2>1 DEF SeenSoFar
    <3>2. Before(walk.page) <= Len(entries') /\ (walk.page > 1 => Before(walk.page) < Len(entries'))
      BY <1>2, <1>4, <1>5, <2>2, <3>1
    <3>3. seen' = SubSeq(entries', 1, Before(walk.page)) /\ walk' = walk /\ listing' = "users"
      BY <1>1, <2>3, <3>1
    <3> QED
      BY <1>8, <1>9, <3>2, <3>3 DEF SeenSoFar
<1> QED
  BY <1>1, <1>2, <1>5, <1>6, <1>7, <1>8, <1>9 DEF PagedInv, SeenAll

(* Rows come and go: the walk is disturbed, and no longer said anything of. *)
LEMMA RowsKeep ==
    ASSUME PagedInv, InsertRow \/ \E id \in 1..MaxEntries : DeleteRow(id)
    PROVE  PagedInv'
<1>1. /\ listing # "users" /\ disturbed' = TRUE
      /\ UNCHANGED <<listing, perPage, usersIdx, walk, total, lastPage, seen, began>>
  BY DEF InsertRow, DeleteRow
<1>2. /\ entries \in Seq(Nat) /\ Len(entries) \in Nat /\ Len(entries) <= MaxEntries
      /\ nextEntry \in 1..(MaxEntries + 1) /\ Len(entries) < nextEntry /\ MaxEntries \in Nat
      /\ listing \in Listings /\ perPage \in Asked
  BY <1>1, PagedAssumption DEF PagedInv, PagedTypeOK
<1>3. /\ entries' \in Seq(Nat) /\ Len(entries') <= MaxEntries /\ Len(entries') < nextEntry'
      /\ nextEntry' \in 1..(MaxEntries + 1)
  <2>1. CASE InsertRow
    <3>1. nextEntry \in Nat /\ nextEntry <= MaxEntries /\ nextEntry' = nextEntry + 1
      BY <1>2, <2>1 DEF InsertRow
    <3>2. /\ <<nextEntry>> \in Seq(Nat) /\ Len(<<nextEntry>>) = 1
      BY <3>1
    <3>3. /\ <<nextEntry>> \o entries \in Seq(Nat)
          /\ Len(<<nextEntry>> \o entries) = 1 + Len(entries)
      BY <1>2, <3>2, ConcatProperties
    <3>4. /\ Append(entries, nextEntry) \in Seq(Nat)
          /\ Len(Append(entries, nextEntry)) = Len(entries) + 1
      BY <1>2, <3>1, AppendProperties
    <3>5. entries' \in Seq(Nat) /\ Len(entries') = Len(entries) + 1
      BY <1>2, <2>1, <3>3, <3>4 DEF InsertRow
    <3> QED
      BY <1>2, <3>1, <3>5
  <2>2. ASSUME NEW id \in 1..MaxEntries, DeleteRow(id)
        PROVE  entries' \in Seq(Nat) /\ Len(entries') = Len(entries) - 1 /\ nextEntry' = nextEntry
    <3>1. PICK i \in DOMAIN entries :
              entries' = SubSeq(entries, 1, i - 1) \o SubSeq(entries, i + 1, Len(entries))
      BY <2>2 DEF DeleteRow
    <3>2. i \in 1..Len(entries) /\ \A j \in 1..Len(entries) : entries[j] \in Nat
      BY <1>2
    <3>3. SubSeq(entries, 1, i - 1) \in Seq(Nat) /\ Len(SubSeq(entries, 1, i - 1)) = i - 1
      BY <1>2, <3>2, SubSeqProperties
    <3>4. /\ SubSeq(entries, i + 1, Len(entries)) \in Seq(Nat)
          /\ Len(SubSeq(entries, i + 1, Len(entries))) = Len(entries) - i
      BY <1>2, <3>2, SubSeqProperties, SMTT(30)
    <3>5. entries' \in Seq(Nat) /\ Len(entries') = (i - 1) + (Len(entries) - i)
      BY <3>1, <3>3, <3>4, ConcatProperties
    <3> QED
      <4>1. nextEntry' = nextEntry
        BY <2>2 DEF DeleteRow
      <4>2. i \in Int
        BY <3>2
      <4> QED
        BY <1>2, <3>5, <4>1, <4>2
  <2>3. CASE \E id \in 1..MaxEntries : DeleteRow(id)
    BY <1>2, <2>2, <2>3
  <2> QED
    BY <2>1, <2>3
<1>4. PagedTypeOK'
  <2>1. disturbed' \in BOOLEAN
    BY <1>1, Zenon
  <2> QED
    BY <1>1, <1>3, <2>1 DEF PagedInv, PagedTypeOK
<1>5. Before(walk.page)' = Before(walk.page) /\ (FarWalk' <=> FarWalk) /\ ~ Whole'
  <2>1. ~ Whole'
    BY <1>1, Zenon DEF Whole
  <2> QED
    BY <1>1, <2>1 DEF Before, FarWalk, PerPage, UsersPerPage, GetPerPage, DashboardsPerPage
<1>6. SeenAll'
  BY <1>1, Zenon DEF SeenAll
<1> QED
  BY <1>1, <1>3, <1>4, <1>5, <1>6 DEF PagedInv, UsersGrow

(* PagedInv holds of every run.                                             *)
THEOREM PagedInvariance == PagedSpec => []PagedInv
<1>1. ASSUME PagedInit PROVE PagedInv
  <2>1. /\ StartEntries \in 0..MaxEntries /\ MaxEntries \in Nat /\ WordMax \in Nat
        /\ StartEntries \in Nat /\ listing \in Listings /\ perPage \in Asked
        /\ walk = [at |-> "idle", page |-> 1] /\ nextEntry = StartEntries + 1
        /\ total = 0 /\ lastPage = 0 /\ seen = <<>> /\ began = <<>>
        /\ usersIdx = Oldest(StartEntries)
        /\ entries = IF listing \in Tables THEN Newest(StartEntries) ELSE Oldest(StartEntries)
    BY <1>1, PagedAssumption DEF PagedInit
  <2>2. MaxEntries < WordMax /\ 1 \in 1..WordMax /\ WordMax # 1
    BY <2>1, PagesFit, PagedAssumption
  <2>3. /\ Oldest(StartEntries) \in Seq(Nat) /\ Len(Oldest(StartEntries)) = StartEntries
        /\ Oldest(0) = <<>>
    BY <2>1, OldestIsSeq
  <2>4. Newest(StartEntries) \in Seq(Nat) /\ Len(Newest(StartEntries)) = StartEntries
    <3>1. Newest(StartEntries) \in [1..StartEntries -> Nat]
      BY <2>1 DEF Newest
    <3>2. Newest(StartEntries) \in Seq(Nat)
      BY <2>1, <3>1
    <3> QED
      BY <2>1, <3>1, <3>2, LenProperties DEF Newest
  <2>5. entries \in Seq(Nat) /\ Len(entries) = StartEntries
    BY <2>1, <2>3, <2>4
  <2>6. usersIdx \in IdList
    <3>1. Oldest(StartEntries) \in [1..StartEntries -> 1..(MaxEntries + 1)]
      BY <2>1 DEF Oldest
    <3> QED
      BY <2>1, <3>1 DEF IdList
  <2>7. PagedTypeOK
    <3>1. disturbed \in BOOLEAN
      BY <1>1, Zenon DEF PagedInit
    <3>2. /\ nextEntry \in 1..(MaxEntries + 1) /\ total \in 0..MaxEntries /\ lastPage \in 0..MaxEntries
          /\ Len(entries) <= MaxEntries
          /\ walk \in [at : {"idle", "ask", "counted", "end", "refused"}, page : 1..WordMax]
      BY <2>1, <2>2, <2>5
    <3> QED
      BY <2>1, <2>6, <3>1, <3>2 DEF PagedTypeOK
  <2>8. /\ UsersGrow /\ began \in Seq(Nat) /\ Len(entries) < nextEntry /\ ~ FarWalk
        /\ walk.at = "idle" /\ walk.page = 1
    <3>1. <<>> \in Seq(Nat) /\ Len(<<>>) = 0
      BY EmptySeq
    <3>2. UsersGrow
      BY <2>1, <2>3, <2>5, <3>1 DEF UsersGrow, Tables
    <3> QED
      BY <2>1, <2>2, <2>5, <3>1, <3>2 DEF FarWalk
  <2> QED
    BY <2>1, <2>5, <2>7, <2>8 DEF PagedInv
<1>2. ASSUME PagedInv, [PagedNext]_pagedVars PROVE PagedInv'
  <2>1. CASE BeginWalk \/ BeginFarWalk
    BY <1>2, <2>1, BeginKeeps
  <2>2. CASE ListUsers \/ RefusePage \/ ListDashboards \/ CountRows \/ FindRows
    BY <1>2, <2>2, PageReadingKeeps
  <2>3. CASE CreateUser \/ \E id \in 1..MaxEntries : UpdateUser(id)
    BY <1>2, <2>3, UsersKeep
  <2>4. CASE InsertRow \/ \E id \in 1..MaxEntries : DeleteRow(id)
    BY <1>2, <2>4, RowsKeep
  <2>5. CASE UNCHANGED pagedVars
    BY <1>2, <2>5 DEF pagedVars, PagedInv, PagedTypeOK, UsersGrow, SeenSoFar, SeenAll, Whole,
       FarWalk, Before, PerPage, UsersPerPage, GetPerPage, DashboardsPerPage
  <2> QED
    BY <1>2, <2>1, <2>2, <2>3, <2>4, <2>5 DEF PagedNext
<1> QED
  BY <1>1, <1>2, PTL DEF PagedSpec

(* Whoever follows the pages to the last has seen the whole list, and a     *)
(* page beyond every list shows nothing, for every size of list and page.   *)
THEOREM WalksCoverTheList == PagedSpec => []WalkCoversList
<1>1. ASSUME PagedInv PROVE WalkCoversList
  <2>1. ASSUME walk.at = "end", ~ FarWalk, listing = "users"
        PROVE  SubSeq(seen, 1, Len(began)) = began /\ \A i \in DOMAIN seen : seen[i] = i
    <3>1. /\ seen \in Seq(Nat) /\ seen = Oldest(Len(seen)) /\ Len(began) <= Len(seen)
          /\ began = Oldest(Len(began)) /\ Len(began) \in Nat /\ Len(seen) \in Nat
      BY <1>1, <2>1 DEF PagedInv, SeenAll, UsersGrow
    <3>2. Len(began) \in 0..Len(seen)
      BY <3>1
    <3> QED
      BY <3>1, <3>2, OldestIsSeq, ZenonT(60)
  <2>2. walk.at = "end" /\ ~ FarWalk /\ listing # "users" => disturbed \/ seen = began
    BY <1>1 DEF PagedInv, SeenAll
  <2> QED
    BY <1>1, <2>1, <2>2 DEF PagedInv, WalkCoversList
<1> QED
  BY <1>1, PagedInvariance, PTL
-----------------------------------------------------------------------------
\* The live screens.  The filtered lines are those of a fold over the log, the
\* drawn ones a cut of those: a line more leaves both a prefix of what they become,
\* so that nobody who reads from an offset that leaves enough lines is moved.
\* A dialog that is open holds no result, for Show has cleared it.

(* MatchingOf and LinesUpTo are the functions their definitions ask for.    *)
LEMMA MatchingDefined ==
    ASSUME NEW logs, Len(logs) \in Nat
    PROVE  MatchingOf(logs) =
               [n \in 0..Len(logs) |->
                   IF n = 0 THEN <<>> ELSE TakeMatching(MatchingOf(logs)[n - 1], logs[n])]
<1> DEFINE Good(m, f) == f = [n \in 0..m |->
                   IF n = 0 THEN <<>> ELSE TakeMatching(f[n - 1], logs[n])]
           S == {m \in Nat : \E f : Good(m, f)}
<1>1. 0 \in S
  <2>1. Good(0, [n \in 0..0 |-> <<>>])
    OBVIOUS
  <2> QED
    BY <2>1
<1>2. ASSUME NEW m \in Nat, m \in S PROVE m + 1 \in S
  <2>1. PICK f : Good(m, f)
    BY <1>2
  <2> DEFINE g == [n \in 0..(m + 1) |-> IF n <= m THEN f[n] ELSE TakeMatching(f[m], logs[m + 1])]
  <2>2. Good(m + 1, g)
    BY <2>1
  <2> HIDE DEF g, Good
  <2> QED
    BY <2>2
<1>3. Len(logs) \in S
  <2> HIDE DEF S
  <2> QED
    BY <1>1, <1>2, NatSetInduction
<1> QED
  BY <1>3 DEF MatchingOf

(* The same of the lines.                                                   *)
LEMMA LinesDefined ==
    ASSUME NEW logs, NEW narrow, Len(logs) \in Nat
    PROVE  LinesUpTo(logs, narrow) =
               [n \in 0..Len(logs) |->
                   IF n = 0 THEN <<>> ELSE LinesUpTo(logs, narrow)[n - 1] \o LinesOf(logs[n], narrow)]
<1> DEFINE Good(m, f) == f = [n \in 0..m |->
                   IF n = 0 THEN <<>> ELSE f[n - 1] \o LinesOf(logs[n], narrow)]
           S == {m \in Nat : \E f : Good(m, f)}
<1>1. 0 \in S
  <2>1. Good(0, [n \in 0..0 |-> <<>>])
    OBVIOUS
  <2> QED
    BY <2>1
<1>2. ASSUME NEW m \in Nat, m \in S PROVE m + 1 \in S
  <2>1. PICK f : Good(m, f)
    BY <1>2
  <2> DEFINE g == [n \in 0..(m + 1) |-> IF n <= m THEN f[n] ELSE f[m] \o LinesOf(logs[m + 1], narrow)]
  <2>2. Good(m + 1, g)
    BY <2>1, SMTT(30)
  <2> HIDE DEF g, Good
  <2> QED
    BY <2>2
<1>3. Len(logs) \in S
  <2> HIDE DEF S
  <2> QED
    BY <1>1, <1>2, NatSetInduction
<1> QED
  BY <1>3 DEF LinesUpTo

(* What is filtered are messages, and a log more is filtered for itself.    *)
LEMMA FilteredLogs ==
    ASSUME NEW logs \in Seq(Messages), NEW text \in BOOLEAN
    PROVE  /\ Filtered(logs, text) \in Seq(Messages)
           /\ Filtered(<<>>, text) = <<>>
           /\ \A log \in Messages :
                 Filtered(Append(logs, log), text)
                     \in {Filtered(logs, text), Append(Filtered(logs, text), log)}
<1>1. Len(logs) \in Nat /\ \A n \in 1..Len(logs) : logs[n] \in Messages
  OBVIOUS
<1>2. ASSUME NEW other, Len(other) \in Nat
      PROVE  /\ MatchingOf(other)[0] = <<>>
             /\ \A n \in Nat : n + 1 \in 0..Len(other) =>
                  MatchingOf(other)[n + 1] = TakeMatching(MatchingOf(other)[n], other[n + 1])
  <2> DEFINE g == [k \in 0..Len(other) |->
                   IF k = 0 THEN <<>> ELSE TakeMatching(MatchingOf(other)[k - 1], other[k])]
  <2>1. MatchingOf(other) = g
    BY <1>2, MatchingDefined
  <2>2. g[0] = <<>> /\ \A n \in Nat : n + 1 \in 0..Len(other) =>
            g[n + 1] = TakeMatching(MatchingOf(other)[n], other[n + 1])
    BY <1>2
  <2> HIDE DEF g
  <2> QED
    BY <2>1, <2>2
<1>3. \A n \in 0..Len(logs) : MatchingOf(logs)[n] \in Seq(Messages)
  <2> DEFINE S == {n \in Nat : n <= Len(logs) => MatchingOf(logs)[n] \in Seq(Messages)}
  <2>1. 0 \in S
    BY <1>1, <1>2, EmptySeq
  <2>2. ASSUME NEW n \in Nat, n \in S PROVE n + 1 \in S
    <3> SUFFICES ASSUME n + 1 <= Len(logs) PROVE MatchingOf(logs)[n + 1] \in Seq(Messages)
      OBVIOUS
    <3>1. MatchingOf(logs)[n] \in Seq(Messages) /\ logs[n + 1] \in Messages /\ (n + 1) - 1 = n
      BY <1>1, <2>2
    <3>2. MatchingOf(logs)[n + 1] = TakeMatching(MatchingOf(logs)[n], logs[n + 1])
      BY <1>1, <1>2
    <3>3. TakeMatching(MatchingOf(logs)[n], logs[n + 1]) \in Seq(Messages)
      BY <3>1 DEF TakeMatching
    <3> QED
      BY <3>2, <3>3
  <2> HIDE DEF S
  <2>3. \A n \in Nat : n \in S
    BY <2>1, <2>2, NatSetInduction
  <2> QED
    BY <1>1, <2>3 DEF S
<1>4. Filtered(<<>>, text) = <<>>
  <2>1. Len(<<>>) = 0
    OBVIOUS
  <2>2. MatchingOf(<<>>)[0] = <<>>
    BY <1>2, <2>1
  <2> QED
    BY <2>1, <2>2 DEF Filtered
<1>5. ASSUME NEW log \in Messages
      PROVE  Filtered(Append(logs, log), text)
                 \in {Filtered(logs, text), Append(Filtered(logs, text), log)}
  <2> DEFINE more == Append(logs, log)
  <2>1. /\ Len(more) = Len(logs) + 1 /\ more[Len(logs) + 1] = log
        /\ \A n \in 1..Len(logs) : more[n] = logs[n]
    BY AppendProperties
  <2> HIDE DEF more
  <2> DEFINE S == {n \in Nat : n <= Len(logs) => MatchingOf(more)[n] = MatchingOf(logs)[n]}
  <2>2. 0 \in S
    BY <1>1, <1>2, <2>1
  <2>3. ASSUME NEW n \in Nat, n \in S PROVE n + 1 \in S
    <3> SUFFICES ASSUME n + 1 <= Len(logs) PROVE MatchingOf(more)[n + 1] = MatchingOf(logs)[n + 1]
      OBVIOUS
    <3>1. /\ MatchingOf(more)[n] = MatchingOf(logs)[n] /\ more[n + 1] = logs[n + 1]
          /\ n + 1 \in 0..Len(logs) /\ n + 1 \in 0..Len(more) /\ Len(more) \in Nat
      BY <1>1, <2>1, <2>3
    <3>2. /\ MatchingOf(more)[n + 1] = TakeMatching(MatchingOf(more)[n], more[n + 1])
          /\ MatchingOf(logs)[n + 1] = TakeMatching(MatchingOf(logs)[n], logs[n + 1])
      BY <1>1, <1>2, <3>1
    <3> QED
      BY <3>1, <3>2
  <2>4. MatchingOf(more)[Len(logs)] = MatchingOf(logs)[Len(logs)]
    <3> HIDE DEF S
    <3>1. \A n \in Nat : n \in S
      BY <2>2, <2>3, NatSetInduction
    <3> QED
      BY <1>1, <3>1 DEF S
  <2>5. MatchingOf(more)[Len(more)] \in {MatchingOf(logs)[Len(logs)],
                                        Append(MatchingOf(logs)[Len(logs)], log)}
    <3>1. Len(more) \in Nat /\ Len(logs) + 1 \in 0..Len(more)
      BY <1>1, <2>1
    <3>2. MatchingOf(more)[Len(more)] = TakeMatching(MatchingOf(logs)[Len(logs)], log)
      BY <1>1, <1>2, <2>1, <2>4, <3>1
    <3> QED
      BY <3>2 DEF TakeMatching
  <2> QED
    BY <2>5 DEF Filtered, more
<1> QED
  BY <1>1, <1>3, <1>4, <1>5 DEF Filtered

Texts == Messages \cup {"waiting"}

(* The lines of a pane: at least one, and those of a log more come after.   *)
LEMMA RenderedLogs ==
    ASSUME NEW logs \in Seq(Messages), NEW narrow
    PROVE  /\ Rendered(logs, narrow) \in Seq(Texts) /\ Len(Rendered(logs, narrow)) >= 1
           /\ logs = <<>> => Len(Rendered(logs, narrow)) = 1
           /\ \A log \in Messages :
                 /\ LinesOf(log, narrow) \in Seq(Texts)
                 /\ logs # <<>> => Rendered(Append(logs, log), narrow)
                                       = Rendered(logs, narrow) \o LinesOf(log, narrow)
<1>1. Len(logs) \in Nat /\ \A n \in 1..Len(logs) : logs[n] \in Messages
  OBVIOUS
<1>2. ASSUME NEW other, Len(other) \in Nat
      PROVE  /\ LinesUpTo(other, narrow)[0] = <<>>
             /\ \A n \in Nat : n + 1 \in 0..Len(other) =>
                  LinesUpTo(other, narrow)[n + 1] = LinesUpTo(other, narrow)[n] \o LinesOf(other[n + 1], narrow)
  <2> DEFINE next(k) == LinesUpTo(other, narrow)[k - 1] \o LinesOf(other[k], narrow)
             g == [k \in 0..Len(other) |-> IF k = 0 THEN <<>> ELSE next(k)]
  <2>1. LinesUpTo(other, narrow) = g
    BY <1>2, LinesDefined
  <2>2. \A n \in Nat : next(n + 1) = LinesUpTo(other, narrow)[n] \o LinesOf(other[n + 1], narrow)
    <3>1. \A n \in Nat : (n + 1) - 1 = n
      OBVIOUS
    <3> QED
      BY <3>1
  <2> HIDE DEF next
  <2>3. g[0] = <<>> /\ \A n \in Nat : n + 1 \in 0..Len(other) => g[n + 1] = next(n + 1)
    BY <1>2
  <2> HIDE DEF g
  <2> QED
    BY <2>1, <2>2, <2>3
<1>3. ASSUME NEW log \in Messages
      PROVE  LinesOf(log, narrow) \in Seq(Texts) /\ Len(LinesOf(log, narrow)) >= 1
  <2>1. /\ <<log, log>> \in Seq(Texts) /\ Len(<<log, log>>) = 2
        /\ <<log>> \in Seq(Texts) /\ Len(<<log>>) = 1
    BY DEF Texts
  <2> QED
    BY <2>1 DEF LinesOf
<1>4. \A n \in 0..Len(logs) : /\ LinesUpTo(logs, narrow)[n] \in Seq(Texts)
                              /\ Len(LinesUpTo(logs, narrow)[n]) >= n
  <2> DEFINE S == {n \in Nat : n <= Len(logs) =>
                      /\ LinesUpTo(logs, narrow)[n] \in Seq(Texts)
                      /\ Len(LinesUpTo(logs, narrow)[n]) >= n}
  <2>1. 0 \in S
    <3>1. LinesUpTo(logs, narrow)[0] = <<>>
      BY <1>1, <1>2
    <3>2. <<>> \in Seq(Texts) /\ Len(<<>>) >= 0
      BY EmptySeq
    <3>3. LinesUpTo(logs, narrow)[0] \in Seq(Texts) /\ Len(LinesUpTo(logs, narrow)[0]) >= 0
      BY <3>1, <3>2
    <3> QED
      BY <3>3
  <2>2. ASSUME NEW n \in Nat, n \in S PROVE n + 1 \in S
    <3> SUFFICES ASSUME n + 1 <= Len(logs)
                 PROVE  /\ LinesUpTo(logs, narrow)[n + 1] \in Seq(Texts)
                        /\ Len(LinesUpTo(logs, narrow)[n + 1]) >= n + 1
      OBVIOUS
    <3> DEFINE before == LinesUpTo(logs, narrow)[n]
               added  == LinesOf(logs[n + 1], narrow)
    <3>1. before \in Seq(Texts) /\ Len(before) >= n /\ logs[n + 1] \in Messages
      BY <1>1, <2>2
    <3>2. LinesUpTo(logs, narrow)[n + 1] = before \o added
      <4>1. n + 1 \in 0..Len(logs)
        BY <1>1
      <4> QED
        BY <1>1, <1>2, <4>1
    <3>3. added \in Seq(Texts) /\ Len(added) >= 1
      BY <1>3, <3>1
    <3> HIDE DEF before, added
    <3>4. before \o added \in Seq(Texts) /\ Len(before \o added) = Len(before) + Len(added)
      BY <3>1, <3>3, ConcatProperties
    <3>5. Len(before) \in Nat /\ Len(added) \in Nat
      BY <3>1, <3>3
    <3> QED
      BY <3>1, <3>2, <3>3, <3>4, <3>5
  <2> HIDE DEF S
  <2>3. \A n \in Nat : n \in S
    BY <2>1, <2>2, NatSetInduction
  <2> QED
    BY <1>1, <2>3 DEF S
<1>5. /\ Rendered(logs, narrow) \in Seq(Texts) /\ Len(Rendered(logs, narrow)) >= 1
      /\ logs = <<>> => Len(Rendered(logs, narrow)) = 1
  <2>1. CASE logs = <<>>
    BY <2>1 DEF Rendered, Texts
  <2>2. CASE logs # <<>>
    <3>1. Len(logs) >= 1 /\ Len(logs) \in 0..Len(logs)
      BY <1>1, <2>2, EmptySeq
    <3>2. Rendered(logs, narrow) = LinesUpTo(logs, narrow)[Len(logs)]
      BY <2>2 DEF Rendered
    <3>3. Rendered(logs, narrow) \in Seq(Texts) /\ Len(Rendered(logs, narrow)) >= Len(logs)
      BY <1>4, <3>1, <3>2
    <3>4. Len(Rendered(logs, narrow)) \in Nat
      BY <3>3
    <3> QED
      BY <1>1, <2>2, <3>1, <3>3, <3>4
  <2> QED
    BY <2>1, <2>2
<1>6. ASSUME NEW log \in Messages, logs # <<>>
      PROVE  Rendered(Append(logs, log), narrow) = Rendered(logs, narrow) \o LinesOf(log, narrow)
  <2> DEFINE more == Append(logs, log)
  <2>1. /\ Len(more) = Len(logs) + 1 /\ more[Len(logs) + 1] = log /\ more # <<>>
        /\ \A n \in 1..Len(logs) : more[n] = logs[n]
    BY AppendProperties
  <2> HIDE DEF more
  <2> DEFINE S == {n \in Nat : n <= Len(logs) => LinesUpTo(more, narrow)[n] = LinesUpTo(logs, narrow)[n]}
  <2>2. 0 \in S
    <3>1. Len(more) \in Nat
      BY <1>1, <2>1
    <3>2. LinesUpTo(more, narrow)[0] = <<>> /\ LinesUpTo(logs, narrow)[0] = <<>>
      BY <1>1, <1>2, <3>1
    <3> QED
      BY <3>2
  <2>3. ASSUME NEW n \in Nat, n \in S PROVE n + 1 \in S
    <3> SUFFICES ASSUME n + 1 <= Len(logs) PROVE LinesUpTo(more, narrow)[n + 1] = LinesUpTo(logs, narrow)[n + 1]
      OBVIOUS
    <3>1. /\ LinesUpTo(more, narrow)[n] = LinesUpTo(logs, narrow)[n] /\ more[n + 1] = logs[n + 1]
          /\ n + 1 \in 0..Len(logs) /\ n + 1 \in 0..Len(more) /\ Len(more) \in Nat
      BY <1>1, <2>1, <2>3
    <3>2. /\ LinesUpTo(more, narrow)[n + 1] = LinesUpTo(more, narrow)[n] \o LinesOf(more[n + 1], narrow)
          /\ LinesUpTo(logs, narrow)[n + 1] = LinesUpTo(logs, narrow)[n] \o LinesOf(logs[n + 1], narrow)
      BY <1>1, <1>2, <3>1
    <3> QED
      BY <3>1, <3>2
  <2>4. LinesUpTo(more, narrow)[Len(logs)] = LinesUpTo(logs, narrow)[Len(logs)]
    <3> HIDE DEF S
    <3>1. \A n \in Nat : n \in S
      BY <2>2, <2>3, NatSetInduction
    <3> QED
      BY <1>1, <3>1 DEF S
  <2>5. LinesUpTo(more, narrow)[Len(more)] = LinesUpTo(logs, narrow)[Len(logs)] \o LinesOf(log, narrow)
    <3>1. Len(more) \in Nat /\ Len(logs) + 1 \in 0..Len(more)
      BY <1>1, <2>1
    <3> QED
      BY <1>1, <1>2, <2>1, <2>4, <3>1
  <2> QED
    BY <1>6, <2>1, <2>5 DEF Rendered, more
<1> QED
  BY <1>3, <1>5, <1>6

(* The last lines are a suffix, and so are all.                             *)
LEMMA LastAreSuffix ==
    ASSUME NEW S, NEW lines \in Seq(S), NEW n \in 0..Len(lines)
    PROVE  IsSuffix(SubSeq(lines, Len(lines) - n + 1, Len(lines)), lines) /\ IsSuffix(lines, lines)
<1>1. Len(lines) \in Nat /\ n \in Nat /\ n <= Len(lines) /\ \A i \in 1..Len(lines) : lines[i] \in S
  OBVIOUS
<1>2. ASSUME NEW k \in Nat, k <= Len(lines), NEW end \in Seq(S), Len(end) = k,
             \A i \in 1..k : end[i] = lines[Len(lines) - k + i]
      PROVE  IsSuffix(end, lines)
  <2> DEFINE a == Reverse(end)
             b == Reverse(lines)
  <2>1. /\ a \in Seq(S) /\ Len(a) = k
        /\ \A i \in 1..k : a[i] = end[(k - i) + 1]
    BY <1>2 DEF Reverse
  <2>2. /\ b \in Seq(S) /\ Len(b) = Len(lines)
        /\ \A i \in 1..Len(lines) : b[i] = lines[(Len(lines) - i) + 1]
    BY <1>1 DEF Reverse
  <2> HIDE DEF a, b
  <2>3. \A i \in 1..k : a[i] = b[i]
    <3> TAKE i \in 1..k
    <3>1. (k - i) + 1 \in 1..k /\ Len(lines) - k + ((k - i) + 1) = (Len(lines) - i) + 1 /\ i \in 1..Len(lines)
      BY <1>1, <1>2
    <3> QED
      BY <1>2, <2>1, <2>2, <3>1
  <2>4. SubSeq(b, 1, k) \in Seq(S) /\ Len(SubSeq(b, 1, k)) = k /\ \A i \in 1..k : SubSeq(b, 1, k)[i] = b[i]
    BY <1>1, <1>2, <2>2
  <2>5. SubSeq(b, 1, k) = a
    BY <2>1, <2>3, <2>4, SeqEqual
  <2>6. SubSeq(a, 1, k) = a
    BY <2>1, SubSeqFull
  <2> QED
    BY <1>1, <1>2, <2>1, <2>2, <2>5, <2>6 DEF IsSuffix, IsPrefix, a, b
<1>3. IsSuffix(lines, lines)
  <2>1. \A i \in 1..Len(lines) : lines[i] = lines[Len(lines) - Len(lines) + i]
    BY <1>1
  <2> QED
    BY <1>1, <1>2, <2>1
<1>4. IsSuffix(SubSeq(lines, Len(lines) - n + 1, Len(lines)), lines)
  <2> DEFINE end == SubSeq(lines, Len(lines) - n + 1, Len(lines))
  <2>1. end \in Seq(S) /\ Len(end) = n /\ \A i \in 1..n : end[i] = lines[Len(lines) - n + i]
    <3>1. /\ Len(lines) - n + 1 \in Int /\ Len(lines) \in Int
          /\ \A i \in (Len(lines) - n + 1)..Len(lines) : lines[i] \in S
      BY <1>1
    <3>2. /\ end \in Seq(S)
          /\ Len(end) = IF Len(lines) - n + 1 <= Len(lines) THEN Len(lines) - (Len(lines) - n + 1) + 1 ELSE 0
          /\ \A i \in 1..(Len(lines) - (Len(lines) - n + 1) + 1) : end[i] = lines[Len(lines) - n + 1 + i - 1]
      BY <3>1, SubSeqProperties
    <3> HIDE DEF end
    <3>3. Len(lines) - (Len(lines) - n + 1) + 1 = n /\ \A i \in 1..n : Len(lines) - n + 1 + i - 1 = Len(lines) - n + i
      BY <1>1
    <3> QED
      BY <1>1, <3>2, <3>3
  <2> HIDE DEF end
  <2>2. IsSuffix(end, lines)
    BY <1>1, <1>2, <2>1
  <2> QED
    BY <2>2 DEF end
<1> QED
  BY <1>3, <1>4

\* What a pane of some height shows of the lines from an offset on.
CutAt(lines, from, height) ==
    LET start == Maximum(0, Minimum(from, Len(lines) - 1))
    IN  IF Len(lines) <= height THEN lines
        ELSE SubSeq(lines, start + 1, Minimum(start + height, Len(lines)))

(* The cut is never blank, never too long, full where the offset leaves     *)
(* enough lines, and from such an offset on it is what it says.             *)
LEMMA CutIsTrue ==
    ASSUME NEW S, NEW lines \in Seq(S), Len(lines) >= 1, NEW height \in Nat \ {0}, NEW from \in Int
    PROVE  LET cut == CutAt(lines, from, height)
           IN  /\ cut # <<>> /\ Len(cut) <= height
               /\ from <= Len(lines) - height => Len(cut) = Minimum(height, Len(lines))
               /\ from = Len(lines) - height => IsSuffix(cut, lines)
               /\ from \in Nat /\ from <= Len(lines) - height
                     => cut = SubSeq(lines, from + 1, from + height)
<1>1. Len(lines) \in Nat
  OBVIOUS
<1>2. CASE Len(lines) <= height
  <2>1. CutAt(lines, from, height) = lines
    BY <1>2 DEF CutAt
  <2>2. lines # <<>> /\ Len(lines) <= height /\ Len(lines) = Minimum(height, Len(lines))
    BY <1>1, <1>2, EmptySeq DEF Minimum
  <2>3. IsSuffix(lines, lines)
    BY <1>1, LastAreSuffix
  <2>4. ASSUME from \in Nat, from <= Len(lines) - height
        PROVE  lines = SubSeq(lines, from + 1, from + height)
    <3>1. from + 1 = 1 /\ from + height = Len(lines)
      BY <1>1, <1>2, <2>4
    <3> QED
      BY <3>1, SubSeqFull
  <2> QED
    BY <2>1, <2>2, <2>3, <2>4
<1>3. CASE Len(lines) > height
  <2> DEFINE start == Maximum(0, Minimum(from, Len(lines) - 1))
             last  == Minimum(start + height, Len(lines))
             cut   == SubSeq(lines, start + 1, last)
  <2>1. CutAt(lines, from, height) = cut
    <3>1. ~ (Len(lines) <= height)
      BY <1>1, <1>3
    <3> QED
      BY <3>1, Zenon DEF CutAt
  <2>2. /\ height \in Nat \ {0} /\ start \in Nat /\ start < Len(lines)
        /\ last \in Nat /\ start + 1 <= last /\ last <= Len(lines) /\ last - start <= height
    <3>1. start \in Nat /\ start < Len(lines)
      BY <1>1 DEF Maximum, Minimum
    <3> HIDE DEF start
    <3> QED
      BY <1>1, <3>1 DEF Minimum
  <2>3. cut # <<>> /\ Len(cut) \in Nat /\ Len(cut) <= height /\ Len(cut) = last - start
    <3> HIDE DEF start, last
    <3>1. /\ start + 1 \in Int /\ last \in Int
          /\ \A i \in (start + 1)..last : lines[i] \in S
      BY <1>1, <2>2
    <3>2. /\ cut \in Seq(S)
          /\ Len(cut) = IF start + 1 <= last THEN last - (start + 1) + 1 ELSE 0
      BY <3>1, SubSeqProperties
    <3> HIDE DEF cut
    <3>3. Len(cut) = last - start /\ Len(cut) \in Nat /\ Len(cut) >= 1
      BY <1>1, <2>2, <3>2
    <3> QED
      BY <1>1, <2>2, <3>3, EmptySeq
  <2>4. ASSUME from <= Len(lines) - height PROVE start + height = last
    <3>1. start <= Len(lines) - height
      BY <1>1, <1>3, <2>4 DEF Maximum, Minimum
    <3> HIDE DEF start
    <3> QED
      BY <1>1, <2>2, <3>1 DEF Minimum
  <2>5. ASSUME from \in Nat, from <= Len(lines) - height PROVE start = from
    BY <1>1, <2>5 DEF Maximum, Minimum
  <2>6. /\ cut # <<>> /\ Len(cut) \in Nat /\ Len(cut) <= height
        /\ from <= Len(lines) - height => Len(cut) = height
        /\ from \in Nat /\ from <= Len(lines) - height => start = from /\ last = from + height
    <3> HIDE DEF cut, start, last
    <3> QED
      BY <2>2, <2>3, <2>4, <2>5
  <2>7. Minimum(height, Len(lines)) = height
    BY <1>1, <1>3 DEF Minimum
  <2>8. ASSUME from \in Nat, from <= Len(lines) - height
        PROVE  cut = SubSeq(lines, from + 1, from + height)
    <3> HIDE DEF start, last
    <3>1. start = from /\ last = from + height
      BY <1>1, <2>6, <2>8
    <3> QED
      BY <3>1
  <2>9. ASSUME from = Len(lines) - height PROVE IsSuffix(cut, lines)
    <3>1. from \in Nat /\ from + height = Len(lines) /\ from + 1 = Len(lines) - height + 1
      BY <1>1, <1>3, <2>9
    <3>2. cut = SubSeq(lines, Len(lines) - height + 1, Len(lines))
      <4> HIDE DEF cut
      <4> QED
        BY <1>1, <2>8, <2>9, <3>1
    <3>3. height \in 0..Len(lines)
      BY <1>1, <1>3
    <3> HIDE DEF cut
    <3> QED
      BY <3>2, <3>3, LastAreSuffix
  <2> HIDE DEF cut
  <2> QED
    BY <2>1, <2>6, <2>7, <2>8, <2>9
<1> QED
  BY <1>1, <1>2, <1>3

(* What comes after does not change a cut.                                  *)
LEMMA CutOfMore ==
    ASSUME NEW S, NEW lines \in Seq(S), NEW more \in Seq(S),
           NEW from \in Nat, NEW height \in Nat, from + height <= Len(lines)
    PROVE  SubSeq(lines \o more, from + 1, from + height) = SubSeq(lines, from + 1, from + height)
<1>1. Len(lines) \in Nat /\ Len(more) \in Nat /\ from + height \in Nat
  OBVIOUS
<1>2. /\ lines \o more \in Seq(S)
      /\ \A i \in 1..Len(lines) : (lines \o more)[i] = lines[i]
  BY <1>1, ConcatProperties
<1> DEFINE both == lines \o more
<1> HIDE DEF both
<1>3. SubSeq(both, from + 1, from + height) = SubSeq(lines, from + 1, from + height)
  <2>1. \A i \in (from + 1)..(from + height) : both[i] = lines[i] /\ lines[i] \in S
    BY <1>1, <1>2 DEF both
  <2> QED
    BY <1>1, <2>1, SubSeqProperties
<1> QED
  BY <1>3 DEF both
-----------------------------------------------------------------------------
\* The parts of the inductive invariant of the screens.
PaneInv ==
    /\ window \in {"small", "large"}
    /\ allLogs \in Seq(Messages) /\ filtering \in BOOLEAN
    /\ filteredLogs = Filtered(allLogs, filtering)
    /\ scrollOffset \in Nat /\ autoScroll \in BOOLEAN

DialogInv ==
    /\ isQuitting \in BOOLEAN
    /\ result \in [Dialogs -> {"none", "confirmed", "cancelled"}]
    /\ open \in Dialogs => result[open] = "none"

SidebarInv ==
    /\ sidebarOffset \in Nat /\ content \in SidebarSizes
    /\ screen = "terminal" => isSidebarHidden = Hides(window, manual, forced)

\* The inductive invariant of the screens.
TerminalInv == PaneInv /\ DialogInv /\ SidebarInv

(* What the pane has to show and the room it has.                           *)
LEMMA PaneCounted ==
    ASSUME PaneInv
    PROVE  /\ Shown = filteredLogs /\ Shown \in Seq(Messages)
           /\ MaxVisible \in Nat /\ MaxVisible >= 3
           /\ \A size \in {"small", "large"} : PaneHeight[size] \in Nat /\ PaneHeight[size] >= 3
           /\ \A narrow : /\ Rendered(Shown, narrow) \in Seq(Texts)
                          /\ Len(Rendered(Shown, narrow)) \in Nat
                          /\ Len(Rendered(Shown, narrow)) >= 1
<1>1. Shown = filteredLogs
  BY DEF PaneInv, Shown, Filtered
<1>2. Shown \in Seq(Messages)
  BY <1>1, FilteredLogs DEF PaneInv
<1>3. ASSUME NEW size \in {"small", "large"}
      PROVE  PaneHeight[size] \in Nat /\ PaneHeight[size] >= 3
  <2>1. PaneHeight[size] \in Nat \ 0..2
    BY TerminalAssumption
  <2> QED
    BY <2>1
<1>4. ASSUME NEW narrow
      PROVE  /\ Rendered(Shown, narrow) \in Seq(Texts)
             /\ Len(Rendered(Shown, narrow)) \in Nat /\ Len(Rendered(Shown, narrow)) >= 1
  <2>1. Rendered(Shown, narrow) \in Seq(Texts) /\ Len(Rendered(Shown, narrow)) >= 1
    BY <1>2, RenderedLogs
  <2> QED
    BY <2>1
<1> QED
  BY <1>1, <1>2, <1>3, <1>4 DEF PaneInv, MaxVisible

(* The invariant says that the pane and the sidebar are true.               *)
LEMMA ScreenShowsIt ==
    ASSUME TerminalInv PROVE PaneIsTrue /\ SidebarIsTrue
<1> DEFINE lines == Rendered(Shown, Narrow)
           from  == IF autoScroll THEN LogLineCount - MaxVisible ELSE scrollOffset
<1>1. /\ lines \in Seq(Texts) /\ Len(lines) \in Nat /\ Len(lines) >= 1 /\ LogLineCount = Len(lines)
      /\ Shown = filteredLogs /\ MaxVisible \in Nat \ {0}
  BY PaneCounted DEF TerminalInv, PaneInv, LogLineCount
<1>2. Drawn = CutAt(lines, from, MaxVisible)
  BY DEF Drawn, CutAt, LogLineCount
<1>3. from \in Int
  BY <1>1 DEF TerminalInv, PaneInv
<1>4. /\ Drawn # <<>> /\ Len(Drawn) <= MaxVisible
      /\ from <= Len(lines) - MaxVisible => Len(Drawn) = Minimum(MaxVisible, Len(lines))
      /\ from = Len(lines) - MaxVisible => IsSuffix(Drawn, lines)
  <2> HIDE DEF lines, from
  <2> QED
    BY <1>1, <1>2, <1>3, CutIsTrue
<1>5. PaneIsTrue
  <2>1. autoScroll => from = Len(lines) - MaxVisible
    BY <1>1
  <2>2. autoScroll \/ scrollOffset <= LogLineCount - MaxVisible => from <= Len(lines) - MaxVisible
    BY <1>1
  <2>3. lines = Rendered(filteredLogs, Narrow)
    BY <1>1
  <2> HIDE DEF lines, from
  <2> QED
    BY <1>1, <1>4, <2>1, <2>2, <2>3 DEF PaneIsTrue, TerminalInv, PaneInv
<1>6. SidebarIsTrue
  <2>1. ScreenHeight[window] \in Nat /\ content \in Nat /\ sidebarOffset \in Nat
    BY TerminalAssumption DEF TerminalInv, PaneInv, SidebarInv
  <2> HIDE DEF lines, from
  <2>2. SidebarTo - SidebarFrom = Minimum(content, ScreenHeight[window])
    BY <2>1 DEF SidebarTo, SidebarFrom, Maximum, Minimum
  <2> QED
    BY <2>2 DEF SidebarIsTrue, TerminalInv, SidebarInv
<1> QED
  BY <1>5, <1>6

(* A line that is taken: the filtered lines stay those of the filter, and   *)
(* if there are more lines then it is the last and none is gone.            *)
LEMMA LogIsTaken ==
    ASSUME PaneInv, NEW log \in Messages, TakeLog(log)
    PROVE  /\ allLogs' \in Seq(Messages) /\ filtering' = filtering
           /\ filteredLogs' = Filtered(allLogs', filtering')
           /\ Len(allLogs') > Len(allLogs) => allLogs' = Append(allLogs, log)
<1> DEFINE more == Append(allLogs, log)
<1>1. more \in Seq(Messages) /\ Len(more) = Len(allLogs) + 1 /\ Len(allLogs) \in Nat
  BY DEF PaneInv
<1>2. Tail(more) \in Seq(Messages) /\ Len(Tail(more)) = Len(allLogs)
  <2>1. more # <<>>
    BY <1>1, EmptySeq
  <2> HIDE DEF more
  <2> QED
    BY <1>1, <2>1, HeadTailProperties
<1>3. allLogs' = more \/ allLogs' = Tail(more)
  BY DEF TakeLog
<1> HIDE DEF more
<1>4. allLogs' \in Seq(Messages) /\ (Len(allLogs') > Len(allLogs) => allLogs' = more)
  BY <1>1, <1>2, <1>3
<1> QED
  BY <1>4 DEF TakeLog, more

(* Where the scroll keys, the wheel and a new size may take the pane.       *)
LEMMA OffsetsAreNatural ==
    ASSUME PaneInv
    PROVE  /\ ScrollDown \/ ScrollUp \/ PageDown \/ PageUp
                  \/ ScrollToTop \/ ScrollToBottom \/ ToggleFollow
                => scrollOffset' \in Nat /\ autoScroll' \in BOOLEAN
           /\ \A size \in {"small", "large"} : ResizeTerminal(size) => scrollOffset' \in Nat
<1>1. LogLineCount \in Nat /\ MaxVisible \in Nat /\ scrollOffset \in Nat
  BY PaneCounted DEF PaneInv, LogLineCount
<1>2. ASSUME ScrollDown \/ ScrollUp \/ PageDown \/ PageUp
                \/ ScrollToTop \/ ScrollToBottom \/ ToggleFollow
      PROVE  scrollOffset' \in Nat /\ autoScroll' \in BOOLEAN
  <2>1. autoScroll' \in BOOLEAN
    <3>1. autoScroll' \in {TRUE, FALSE}
      BY <1>2, Zenon DEF ScrollDown, ScrollUp, PageDown, PageUp, ScrollToTop, ScrollToBottom,
                         ToggleFollow, ScrollTo
    <3> QED
      BY <3>1, Zenon
  <2>2. scrollOffset' \in Nat
    BY <1>1, <1>2 DEF ScrollDown, ScrollUp, PageDown, PageUp, ScrollToTop, ScrollToBottom,
                      ToggleFollow, ScrollTo, Maximum, Minimum
  <2> QED
    BY <2>1, <2>2
<1>3. ASSUME NEW size \in {"small", "large"}, ResizeTerminal(size) PROVE scrollOffset' \in Nat
  <2> DEFINE count == Len(Rendered(Shown, NarrowIn(size, isSidebarHidden')))
  <2>1. count \in Nat /\ PaneHeight[size] \in Nat
    BY PaneCounted
  <2>2. scrollOffset' = Minimum(scrollOffset, Maximum(0, count - PaneHeight[size]))
    BY <1>3 DEF ResizeTerminal
  <2> HIDE DEF count
  <2> QED
    BY <1>1, <2>1, <2>2 DEF Maximum, Minimum
<1> QED
  BY <1>2, <1>3

(* What a key does to the dialog it goes to.                                *)
LEMMA DialogTook ==
    ASSUME DialogInv, NEW d \in {"exit", "filter", "query"},
           NEW answer \in {"confirmed", "cancelled", "edited"},
           DialogTakesKey(d, answer), UNCHANGED screen
    PROVE  /\ result' \in [Dialogs' -> {"none", "confirmed", "cancelled"}]
           /\ open' \in Dialogs' => result'[open'] = "none"
           /\ open' = open => result'[d] = "none"
<1>1. Dialogs' = Dialogs /\ d \in Dialogs /\ open = d /\ "none" \notin Dialogs
  BY DEF Dialogs, DialogTakesKey
<1>2. CASE answer = "edited"
  BY <1>1, <1>2 DEF DialogTakesKey, DialogInv
<1>3. CASE answer # "edited"
  <2>1. open' = "none" /\ result' = [result EXCEPT ![d] = answer]
    BY <1>3 DEF DialogTakesKey
  <2> QED
    BY <1>1, <1>3, <2>1 DEF DialogInv
<1> QED
  BY <1>2, <1>3

(* The initial screen.                                                      *)
LEMMA TerminalStarts ==
    ASSUME TerminalInit PROVE TerminalInv
<1>1. <<>> \in Seq(Messages) /\ Filtered(<<>>, FALSE) = <<>>
  BY DEF Filtered
<1>2. PaneInv
  BY <1>1 DEF TerminalInit, PaneInv
<1>3. DialogInv
  BY DEF TerminalInit, DialogInv, Dialogs
<1>4. SidebarInv
  BY DEF TerminalInit, SidebarInv, Hides, Unset
<1> QED
  BY <1>2, <1>3, <1>4 DEF TerminalInv

(* No step of either screen breaks the invariant of the pane,               *)
LEMMA PaneStays ==
    ASSUME TerminalInv, [PaneNext \/ SidebarNext]_uiVars PROVE PaneInv'
<1> USE DEF TerminalInv
<1> DEFINE LogsKept == /\ allLogs' \in Seq(Messages) /\ filtering' \in BOOLEAN
                       /\ filteredLogs' = Filtered(allLogs', filtering')
           ScrollKept == scrollOffset' \in Nat /\ autoScroll' \in BOOLEAN
           WindowKept == window' \in {"small", "large"}
<1>1. UNCHANGED window => WindowKept
  BY DEF PaneInv
<1>2. UNCHANGED logVars => LogsKept
  BY DEF PaneInv, logVars
<1>3. UNCHANGED scrollVars => ScrollKept
  BY DEF PaneInv, scrollVars
<1>4. ASSUME NEW log \in Messages, TakeLog(log) PROVE LogsKept
  BY <1>4, LogIsTaken DEF PaneInv
<1>5. ASSUME ClearLogs PROVE LogsKept /\ ScrollKept
  <2>1. <<>> \in Seq(Messages) /\ Filtered(<<>>, FALSE) = <<>>
    BY DEF Filtered
  <2> QED
    BY <1>5, <2>1 DEF ClearLogs, PaneInv
<1>6. ASSUME NEW text \in BOOLEAN, ApplyFilter(text) PROVE LogsKept
  BY <1>6, Zenon DEF ApplyFilter, PaneInv
<1>7. ASSUME ScrollDown \/ ScrollUp \/ PageDown \/ PageUp
                \/ ScrollToTop \/ ScrollToBottom \/ ToggleFollow
      PROVE  ScrollKept
  BY <1>7, OffsetsAreNatural
<1>8. ASSUME NEW size \in {"small", "large"}, Resize(size) PROVE WindowKept /\ ScrollKept
  BY <1>8, OffsetsAreNatural DEF Resize, PaneInv
<1> HIDE DEF LogsKept, ScrollKept, WindowKept
<1>9. ASSUME NEW log \in Messages, LogArrives(log) \/ ReportArrives(log)
      PROVE  LogsKept /\ ScrollKept /\ WindowKept
  BY <1>1, <1>3, <1>4, <1>9 DEF LogArrives, ReportArrives
<1>10. ASSUME NEW d \in Dialogs, OpenDialog(d) PROVE LogsKept /\ ScrollKept /\ WindowKept
  BY <1>1, <1>2, <1>3, <1>10 DEF OpenDialog
<1>11. ASSUME NEW answer, ExitKey(answer) \/ QueryKey(answer)
       PROVE  LogsKept /\ ScrollKept /\ WindowKept
  BY <1>1, <1>2, <1>3, <1>11 DEF ExitKey, QueryKey
<1>12. ASSUME NEW answer, FilterKey(answer) PROVE LogsKept /\ ScrollKept /\ WindowKept
  <2>1. WindowKept
    BY <1>1, <1>12 DEF FilterKey
  <2>2. CASE (\E text \in BOOLEAN : ApplyFilter(text)) /\ scrollOffset' = 0 /\ autoScroll' = FALSE
    <3>1. ScrollKept
      BY <2>2 DEF ScrollKept
    <3> QED
      BY <1>6, <2>1, <2>2, <3>1
  <2>3. CASE ApplyFilter(FALSE) /\ UNCHANGED scrollVars
    BY <1>3, <1>6, <2>1, <2>3
  <2>4. CASE UNCHANGED <<logVars, scrollVars>>
    BY <1>2, <1>3, <2>1, <2>4
  <2> QED
    BY <1>12, <2>2, <2>3, <2>4, Zenon DEF FilterKey
<1>13. ASSUME OpenCommand \/ LeaveCommand PROVE LogsKept /\ ScrollKept /\ WindowKept
  BY <1>1, <1>2, <1>3, <1>13 DEF OpenCommand, LeaveCommand
<1>14. ASSUME ExecuteCommand PROVE LogsKept /\ ScrollKept /\ WindowKept
  BY <1>1, <1>2, <1>3, <1>5, <1>14 DEF ExecuteCommand
<1>15. ASSUME ScrollKey \/ Wheel PROVE LogsKept /\ ScrollKept /\ WindowKept
  BY <1>1, <1>2, <1>7, <1>15 DEF ScrollKey, Wheel
<1>16. ASSUME ClearKey PROVE LogsKept /\ ScrollKept /\ WindowKept
  BY <1>1, <1>5, <1>16 DEF ClearKey
<1>17. ASSUME NEW size \in {"small", "large"}, Resize(size)
       PROVE  LogsKept /\ ScrollKept /\ WindowKept
  <2>1. UNCHANGED logVars
    BY <1>17 DEF Resize
  <2> QED
    BY <1>2, <1>8, <1>17, <2>1
<1>18. ASSUME SidebarNext PROVE LogsKept /\ ScrollKept /\ WindowKept
  BY <1>1, <1>2, <1>3, <1>17, <1>18 DEF SidebarNext
<1>19. ASSUME UNCHANGED uiVars PROVE LogsKept /\ ScrollKept /\ WindowKept
  <2>1. UNCHANGED window /\ UNCHANGED logVars /\ UNCHANGED scrollVars
    BY <1>19 DEF uiVars, logVars, scrollVars
  <2> QED
    BY <1>1, <1>2, <1>3, <2>1
<1>20. LogsKept /\ ScrollKept /\ WindowKept
  BY <1>9, <1>10, <1>11, <1>12, <1>13, <1>14, <1>15, <1>16, <1>17, <1>18, <1>19, Zenon DEF PaneNext
<1> QED
  BY <1>20, Zenon DEF PaneInv, LogsKept, ScrollKept, WindowKept

(* nor that of the dialogs,                                                 *)
LEMMA DialogsStay ==
    ASSUME TerminalInv, [PaneNext \/ SidebarNext]_uiVars PROVE DialogInv'
<1> USE DEF TerminalInv
<1>1. "none" \notin Dialogs /\ "command" \notin Dialogs /\ (UNCHANGED screen => Dialogs' = Dialogs)
  BY DEF Dialogs
<1>2. ASSUME UNCHANGED <<screen, open, result, isQuitting>> PROVE DialogInv'
  BY <1>1, <1>2 DEF DialogInv
<1>3. ASSUME UNCHANGED <<screen, result, isQuitting>>, open' \notin Dialogs PROVE DialogInv'
  BY <1>1, <1>3 DEF DialogInv
<1>4. ASSUME NEW log \in Messages, LogArrives(log) \/ ReportArrives(log) PROVE DialogInv'
  BY <1>2, <1>4 DEF LogArrives, ReportArrives, dialogVars
<1>5. ASSUME NEW d \in Dialogs, OpenDialog(d) PROVE DialogInv'
  BY <1>1, <1>5 DEF OpenDialog, Show, DialogInv
<1>6. ASSUME NEW answer \in {"confirmed", "cancelled", "edited"}, ExitKey(answer) PROVE DialogInv'
  <2>1. DialogTakesKey("exit", answer) /\ UNCHANGED screen /\ isQuitting' \in BOOLEAN
    BY <1>6, Zenon DEF ExitKey
  <2> QED
    BY <2>1, DialogTook DEF DialogInv
<1>7. ASSUME NEW answer \in {"confirmed", "cancelled", "edited"}, FilterKey(answer) PROVE DialogInv'
  <2>1. DialogTakesKey("filter", answer) /\ UNCHANGED <<screen, isQuitting>>
    BY <1>7 DEF FilterKey
  <2> QED
    BY <2>1, DialogTook DEF DialogInv
<1>8. ASSUME NEW answer \in {"confirmed", "cancelled", "edited"}, QueryKey(answer) PROVE DialogInv'
  <2>1. DialogTakesKey("query", answer) /\ UNCHANGED <<screen, isQuitting>>
    BY <1>8 DEF QueryKey
  <2> QED
    BY <2>1, DialogTook DEF DialogInv
<1>9. ASSUME OpenCommand \/ LeaveCommand \/ ExecuteCommand PROVE DialogInv'
  BY <1>1, <1>3, <1>9 DEF OpenCommand, LeaveCommand, ExecuteCommand
<1>10. ASSUME ScrollKey \/ Wheel \/ ClearKey PROVE DialogInv'
  BY <1>2, <1>10 DEF ScrollKey, Wheel, ClearKey, dialogVars
<1>11. ASSUME NEW size, Resize(size) PROVE DialogInv'
  BY <1>2, <1>11 DEF Resize, dialogVars
<1>12. ASSUME SidebarNext PROVE DialogInv'
  BY <1>2, <1>12 DEF SidebarNext, dialogVars
<1>13. ASSUME UNCHANGED uiVars PROVE DialogInv'
  BY <1>2, <1>13 DEF uiVars, dialogVars
<1> QED
  BY <1>4, <1>5, <1>6, <1>7, <1>8, <1>9, <1>10, <1>11, <1>12, <1>13, Zenon DEF PaneNext

(* nor that of the sidebar.                                                 *)
LEMMA SidebarStays ==
    ASSUME TerminalInv, [PaneNext \/ SidebarNext]_uiVars PROVE SidebarInv'
<1> USE DEF TerminalInv
<1>1. ASSUME NEW size \in {"small", "large"}
      PROVE  ScreenHeight[size] \in Nat /\ ScreenHeight[size] \div 2 \in Nat
  <2>1. \A n \in Nat : n \div 2 \in Nat
    OBVIOUS
  <2>2. ScreenHeight[size] \in Nat
    BY TerminalAssumption
  <2> HIDE DEF TerminalInv
  <2> QED
    BY <2>1, <2>2
<1>2. /\ content \in Nat /\ sidebarOffset \in Nat
      /\ SidebarMaxOffset \in Nat /\ HalfPage \in Nat
  BY <1>1, TerminalAssumption, SMTT(30) DEF SidebarInv, PaneInv, SidebarMaxOffset, HalfPage, Maximum
<1>3. ASSUME UNCHANGED <<screen, window, sidebarVars>> PROVE SidebarInv'
  BY <1>3, Zenon DEF SidebarInv, sidebarVars
<1>4. ASSUME NEW size \in {"small", "large"}, Resize(size) PROVE SidebarInv'
  <2>1. CASE screen = "live" /\ UNCHANGED sidebarVars
    BY <1>4, <2>1 DEF SidebarInv, sidebarVars, Resize
  <2>2. CASE ResizeTerminal(size)
    <3>1. sidebarOffset' \in Nat /\ content' = content
      BY <1>1, <1>2, <2>2 DEF ResizeTerminal, Minimum
    <3>2. isSidebarHidden' = Hides(window', manual', forced')
      BY <1>4, <2>2, Zenon DEF Resize, ResizeTerminal
    <3> QED
      BY <3>1, <3>2, Zenon DEF SidebarInv
  <2> QED
    BY <1>4, <2>1, <2>2, Zenon DEF Resize
<1>5. ASSUME SidebarKey, UNCHANGED <<screen, window>> PROVE SidebarInv'
  <2>1. sidebarOffset' \in Nat
    BY <1>2, <1>5 DEF SidebarKey, Maximum, Minimum
  <2> QED
    BY <1>5, <2>1, Zenon DEF SidebarKey, SidebarInv
<1>6. ASSUME ToggleSidebar, UNCHANGED <<screen, window>> PROVE SidebarInv'
  BY <1>6, Zenon DEF ToggleSidebar, SidebarInv
<1>7. ASSUME NEW how, ForceSidebar(how), UNCHANGED <<screen, window>> PROVE SidebarInv'
  BY <1>7, Zenon DEF ForceSidebar, SidebarInv
<1>8. ASSUME RefreshStats, UNCHANGED <<screen, window>> PROVE SidebarInv'
  BY <1>8, Zenon DEF RefreshStats, SidebarInv
<1>9. ASSUME SidebarNext PROVE SidebarInv'
  BY <1>4, <1>5, <1>6, <1>7, <1>8, <1>9 DEF SidebarNext
<1>10. ASSUME PaneNext PROVE SidebarInv'
  <2>1. ASSUME NEW log \in Messages, LogArrives(log) \/ ReportArrives(log) PROVE SidebarInv'
    BY <1>3, <2>1 DEF LogArrives, ReportArrives
  <2>2. ASSUME NEW d, OpenDialog(d) PROVE SidebarInv'
    BY <1>3, <2>2 DEF OpenDialog
  <2>3. ASSUME NEW answer, ExitKey(answer) \/ FilterKey(answer) \/ QueryKey(answer) PROVE SidebarInv'
    BY <1>3, <2>3 DEF ExitKey, FilterKey, QueryKey
  <2>4. ASSUME OpenCommand \/ LeaveCommand \/ ExecuteCommand PROVE SidebarInv'
    BY <1>3, <2>4 DEF OpenCommand, LeaveCommand, ExecuteCommand
  <2>5. ASSUME ScrollKey \/ Wheel \/ ClearKey PROVE SidebarInv'
    BY <1>3, <2>5 DEF ScrollKey, Wheel, ClearKey
  <2> QED
    BY <1>4, <1>10, <2>1, <2>2, <2>3, <2>4, <2>5, Zenon DEF PaneNext
<1>11. ASSUME UNCHANGED uiVars PROVE SidebarInv'
  BY <1>3, <1>11 DEF uiVars
<1> QED
  BY <1>9, <1>10, <1>11

(* A step of either screen keeps the invariant.                             *)
LEMMA TerminalStays ==
    ASSUME TerminalInv, [PaneNext \/ SidebarNext]_uiVars PROVE TerminalInv'
BY PaneStays, DialogsStay, SidebarStays DEF TerminalInv

(* While a dialog stays open its keys change nothing.                       *)
LEMMA DialogsAreQuiet ==
    ASSUME TerminalInv, PaneNext \/ SidebarNext, open \in Dialogs, open' = open,
           UNCHANGED <<screen, window, allLogs, reports>>
    PROVE  UNCHANGED <<logVars, isQuitting>> /\ (screen = "live" => UNCHANGED scrollVars)
<1> DEFINE Quiet == UNCHANGED <<logVars, isQuitting>> /\ (screen = "live" => UNCHANGED scrollVars)
<1>1. "none" \notin Dialogs /\ "command" \notin Dialogs
  BY DEF Dialogs
<1>2. ASSUME SidebarNext PROVE Quiet
  BY <1>2 DEF SidebarNext, dialogVars
<1>3. CASE PaneNext
  <2>1. isQuitting = FALSE
    BY <1>3, Zenon DEF PaneNext, TerminalInv, DialogInv
  <2>2. ASSUME NEW log \in Messages, LogArrives(log) \/ ReportArrives(log) PROVE Quiet
    <3>1. filtering' = filtering /\ filteredLogs' = Filtered(allLogs', filtering)
      BY <2>2 DEF LogArrives, ReportArrives, TakeLog
    <3>2. filteredLogs' = filteredLogs
      BY <3>1 DEF TerminalInv, PaneInv
    <3> QED
      BY <2>2, <3>1, <3>2 DEF LogArrives, ReportArrives, logVars, dialogVars
  <2>3. ASSUME NEW d \in Dialogs, OpenDialog(d) PROVE Quiet
    BY <1>1, <2>3 DEF OpenDialog
  <2>4. ASSUME NEW answer \in {"confirmed", "cancelled", "edited"}, ExitKey(answer) PROVE Quiet
    <3>1. result'["exit"] = "none"
      BY <2>4, DialogTook DEF ExitKey, TerminalInv
    <3>2. isQuitting' = (result'["exit"] = "confirmed")
      BY <2>4, Zenon DEF ExitKey
    <3>3. isQuitting' = FALSE
      BY <3>1, <3>2
    <3> QED
      BY <2>1, <2>4, <3>3, Zenon DEF ExitKey
  <2>5. ASSUME NEW answer \in {"confirmed", "cancelled", "edited"}, FilterKey(answer) PROVE Quiet
    <3>1. result'["filter"] = "none"
      BY <2>5, DialogTook DEF FilterKey, TerminalInv
    <3> QED
      BY <2>5, <3>1 DEF FilterKey
  <2>6. ASSUME NEW answer, QueryKey(answer) PROVE Quiet
    BY <2>6 DEF QueryKey
  <2>7. ASSUME OpenCommand \/ LeaveCommand \/ ExecuteCommand PROVE Quiet
    BY <1>1, <2>7 DEF OpenCommand, LeaveCommand, ExecuteCommand
  <2>8. ASSUME ScrollKey \/ ClearKey PROVE Quiet
    BY <1>1, <2>8 DEF ScrollKey, ClearKey
  <2>9. ASSUME Wheel PROVE Quiet
    BY <2>9 DEF Wheel, dialogVars
  <2>10. ASSUME NEW size, Resize(size) PROVE Quiet
    BY <2>10 DEF Resize
  <2> QED
    BY <1>3, <2>2, <2>3, <2>4, <2>5, <2>6, <2>7, <2>8, <2>9, <2>10, Zenon DEF PaneNext
<1> QED
  BY <1>2, <1>3

(* Lines are appended, and never more than one at a time.                   *)
LEMMA LogsGrowByOne ==
    ASSUME TerminalInv, PaneNext \/ SidebarNext, Len(allLogs') > Len(allLogs)
    PROVE  \E log \in Messages : allLogs' = Append(allLogs, log)
<1>1. Len(allLogs) \in Nat /\ Len(<<>>) = 0
  BY DEF TerminalInv, PaneInv
<1>2. allLogs' # allLogs /\ allLogs' # <<>>
  BY <1>1
<1>3. ~ SidebarNext
  BY <1>2, Zenon DEF SidebarNext, logVars
<1>4. ~ ClearLogs /\ ~ UNCHANGED logVars
  BY <1>2, Zenon DEF ClearLogs, logVars
<1>5. \A text : ~ ApplyFilter(text)
  BY <1>2 DEF ApplyFilter
<1>6. PICK log \in Messages : TakeLog(log)
  <2>1. ~ (OpenCommand \/ LeaveCommand \/ ExecuteCommand \/ ScrollKey \/ Wheel \/ ClearKey)
    BY <1>4 DEF OpenCommand, LeaveCommand, ExecuteCommand, ScrollKey, Wheel, ClearKey
  <2>2. \A d : ~ OpenDialog(d)
    BY <1>4 DEF OpenDialog
  <2>3. \A answer : ~ (ExitKey(answer) \/ FilterKey(answer) \/ QueryKey(answer))
    BY <1>4, <1>5 DEF ExitKey, FilterKey, QueryKey
  <2>4. \A size : ~ Resize(size)
    BY <1>4 DEF Resize
  <2>5. \E log \in Messages : LogArrives(log) \/ ReportArrives(log)
    BY <1>3, <2>1, <2>2, <2>3, <2>4, Zenon DEF PaneNext
  <2> QED
    BY <2>5 DEF LogArrives, ReportArrives
<1> QED
  BY <1>6, LogIsTaken DEF TerminalInv

(* A line that arrives does not move what is drawn from an offset on that   *)
(* leaves enough lines for the pane.                                        *)
LEMMA LinesAreStill ==
    ASSUME TerminalInv, TerminalInv', NEW log \in Messages, allLogs' = Append(allLogs, log),
           ~ autoScroll, scrollOffset <= LogLineCount - MaxVisible,
           UNCHANGED <<window, isSidebarHidden, filtering, scrollVars>>
    PROVE  Drawn' = Drawn
<1> DEFINE lines  == Rendered(Shown, Narrow)
           height == MaxVisible
<1>1. /\ Shown = filteredLogs /\ Shown \in Seq(Messages) /\ height \in Nat \ {0} /\ height >= 3
      /\ lines \in Seq(Texts) /\ Len(lines) \in Nat /\ Len(lines) >= 1 /\ LogLineCount = Len(lines)
      /\ scrollOffset \in Nat
  BY PaneCounted DEF TerminalInv, PaneInv, LogLineCount
<1>2. Shown' = filteredLogs' /\ window' = window /\ scrollOffset' = scrollOffset
      /\ autoScroll' = autoScroll /\ filtering' = filtering /\ Narrow' = Narrow
  BY Zenon DEF Shown, TerminalInv, PaneInv, Filtered, scrollVars, Narrow, NarrowIn
<1>3. Shown' \in {Shown, Append(Shown, log)}
  <2>1. /\ filteredLogs' = Filtered(Append(allLogs, log), filtering)
        /\ filteredLogs = Filtered(allLogs, filtering)
        /\ allLogs \in Seq(Messages) /\ filtering \in BOOLEAN
    BY <1>2 DEF TerminalInv, PaneInv
  <2> QED
    BY <1>1, <1>2, <2>1, FilteredLogs
<1>4. Drawn = CutAt(lines, scrollOffset, height)
  BY DEF Drawn, CutAt, LogLineCount
<1>5. Drawn' = CutAt(Rendered(Shown', Narrow), scrollOffset, height)
  <2>1. Drawn' = CutAt(Rendered(Shown', Narrow'), scrollOffset', PaneHeight[window'])
    BY <1>2 DEF Drawn, CutAt, LogLineCount, MaxVisible
  <2> QED
    BY <1>2, <2>1 DEF MaxVisible
<1>6. CASE Shown' = Shown
  BY <1>4, <1>5, <1>6
<1>7. CASE Shown' = Append(Shown, log)
  <2>1. Shown # <<>>
    <3>1. Shown = <<>> => Len(lines) = 1
      BY <1>1, RenderedLogs
    <3>2. Len(lines) # 1
      <4>1. LogLineCount \in Nat /\ MaxVisible \in Nat /\ MaxVisible >= 3 /\ scrollOffset \in Nat
        BY <1>1
      <4>2. LogLineCount # 1
        BY <4>1
      <4> QED
        BY <1>1, <4>2
    <3> QED
      BY <3>1, <3>2
  <2>2. /\ Rendered(Shown', Narrow) = lines \o LinesOf(log, Narrow)
        /\ LinesOf(log, Narrow) \in Seq(Texts)
    BY <1>1, <1>7, <2>1, RenderedLogs
  <2> DEFINE added == LinesOf(log, Narrow)
             more  == lines \o added
  <2> HIDE DEF lines, height, added
  <2>3. more \in Seq(Texts) /\ Len(more) \in Nat /\ Len(more) >= Len(lines) /\ added \in Seq(Texts)
    BY <1>1, <2>2, ConcatProperties DEF added
  <2>4. scrollOffset <= Len(lines) - height /\ scrollOffset <= Len(more) - height /\ Len(more) >= 1
        /\ scrollOffset + height <= Len(lines) /\ scrollOffset \in Int /\ height \in Nat
    BY <1>1, <2>3 DEF height
  <2>5. SubSeq(more, scrollOffset + 1, scrollOffset + height)
            = SubSeq(lines, scrollOffset + 1, scrollOffset + height)
    BY <1>1, <2>3, <2>4, CutOfMore
  <2>6. CutAt(lines, scrollOffset, height) = SubSeq(lines, scrollOffset + 1, scrollOffset + height)
    BY <1>1, <2>4, CutIsTrue
  <2> HIDE DEF more
  <2>7. CutAt(more, scrollOffset, height) = SubSeq(more, scrollOffset + 1, scrollOffset + height)
    BY <1>1, <2>3, <2>4, CutIsTrue
  <2> QED
    BY <1>4, <1>5, <2>2, <2>5, <2>6, <2>7 DEF more, added
<1> QED
  BY <1>3, <1>6, <1>7

(* The inductive invariant of the two screens, in every reachable state.    *)
THEOREM TerminalInvariance == TerminalSpec => []TerminalInv
BY TerminalStarts, TerminalStays, PTL DEF TerminalSpec

(* ScreenIsTrue: for any lines, window sizes and keys the pane shows the    *)
(* filtered lines, the newest while it follows, and is full where it can be;*)
(* the sidebar shows what it can; and neither a key to a dialog that stays  *)
(* open nor a line that arrives moves what is being read.                   *)
THEOREM ScreenStaysTrue == TerminalSpec => ScreenIsTrue
<1>1. TerminalInv => PaneIsTrue /\ SidebarIsTrue
  BY ScreenShowsIt
<1>2. ASSUME TerminalInv, TerminalInv', [PaneNext \/ SidebarNext]_uiVars
      PROVE  [NobodyDisturbed]_uiVars
  <2> SUFFICES ASSUME PaneNext \/ SidebarNext PROVE NobodyDisturbed
    BY <1>2
  <2>1. ASSUME ~ autoScroll, scrollOffset <= LogLineCount - MaxVisible,
               UNCHANGED <<window, isSidebarHidden, filtering, scrollVars>>, Len(allLogs') > Len(allLogs)
        PROVE  Drawn' = Drawn
    <3>1. PICK log \in Messages : allLogs' = Append(allLogs, log)
      BY <1>2, <2>1, LogsGrowByOne
    <3> QED
      BY <1>2, <2>1, <3>1, LinesAreStill
  <2>2. ASSUME open \in Dialogs, open' = open, UNCHANGED <<screen, window, allLogs, reports>>
        PROVE  UNCHANGED <<logVars, isQuitting>> /\ (screen = "live" => UNCHANGED scrollVars)
    BY <1>2, <2>2, DialogsAreQuiet
  <2> QED
    BY <2>1, <2>2 DEF NobodyDisturbed
<1> QED
  BY <1>1, <1>2, TerminalInvariance, PTL DEF ScreenIsTrue, TerminalSpec
=============================================================================
