---------------------------- MODULE StatusCache ----------------------------
(***************************************************************************)
(* GetStatus of the redis, postgres, mongo, minio and grafana managers: an  *)
(* answer cached under statusMu for statusTTL, and, once that has passed, a *)
(* ping outside the lock by whoever asks.  An answer is abstracted to the   *)
(* moment the server was asked.                                             *)
(***************************************************************************)
EXTENDS Integers

CONSTANTS Askers,    \* goroutines that call GetStatus, again and again
          ShortTTL,  \* two seconds
          LongTTL,   \* grafana's thirty
          PingTime,  \* what a miss may take: the five seconds of a ping, and with
                     \* mongo another five for dbStats
          Horizon    \* bound on the clock

ASSUME StatusAssumption == {ShortTTL, LongTTL, PingTime, Horizon} \subseteq Nat \ {0}

VARIABLES source,   \* whose status it is
          clock,
          cached,   \* when the cached answer was true; -1: statusCache is nil
          expiry,   \* statusExpiry
          asker,    \* where each call is
          since,    \* when its ping began
          seen      \* when the server answered it, and so what it returns

statusVars == <<source, clock, cached, expiry, asker, since, seen>>

\* In what the GetStatus of the managers differ: how long the answer is kept,
\* and whether the ping has a deadline (postgres's takes no context).
RedisStatus    == [ttl |-> ShortTTL, timed |-> TRUE]
MongoStatus    == [ttl |-> ShortTTL, timed |-> TRUE]
MinioStatus    == [ttl |-> ShortTTL, timed |-> TRUE]
PostgresStatus == [ttl |-> ShortTTL, timed |-> FALSE]
GrafanaStatus  == [ttl |-> LongTTL, timed |-> TRUE]

StatusOf ==
    [redis |-> RedisStatus, mongo |-> MongoStatus, minio |-> MinioStatus,
     postgres |-> PostgresStatus, grafana |-> GrafanaStatus]

Sources   == DOMAIN StatusOf
StatusTTL == StatusOf[source].ttl
Timed     == StatusOf[source].timed

StatusTypeOK ==
    /\ source \in Sources
    /\ clock \in 0..Horizon
    /\ cached \in -1..Horizon
    /\ expiry \in 0..(Horizon + LongTTL + ShortTTL)
    /\ asker \in [Askers -> {"idle", "pinging", "pinged", "told"}]
    /\ since \in [Askers -> 0..Horizon]
    /\ seen \in [Askers -> 0..Horizon]

StatusInit ==
    /\ source \in Sources
    /\ clock = 0
    /\ cached = -1
    /\ expiry = 0
    /\ asker = [a \in Askers |-> "idle"]
    /\ since = [a \in Askers |-> 0]
    /\ seen = [a \in Askers |-> 0]

-----------------------------------------------------------------------------
\* What is asked with a deadline ends in time.
ClockTick ==
    /\ clock < Horizon
    /\ Timed =>
        \A a \in Askers : asker[a] \in {"pinging", "pinged"} => clock < since[a] + PingTime
    /\ clock' = clock + 1
    /\ UNCHANGED <<source, cached, expiry, asker, since, seen>>

AskerGoes(a, from, to) == asker[a] = from /\ asker' = [asker EXCEPT ![a] = to]

\* Bug: only an empty cache is a miss.
CachedForever == cached >= 0
IsFresh == clock < expiry /\ cached >= 0

\* The fast path answers from the cache under the lock.
StatusHit(a) ==
    /\ IsFresh
    /\ AskerGoes(a, "idle", "told")
    /\ seen' = [seen EXCEPT ![a] = cached]
    /\ UNCHANGED <<source, clock, cached, expiry, since>>

StatusMiss(a) ==
    /\ ~ IsFresh
    /\ AskerGoes(a, "idle", "pinging")
    /\ since' = [since EXCEPT ![a] = clock]
    /\ UNCHANGED <<source, clock, cached, expiry, seen>>

\* The server answers, or fails; either is an answer.
PingAnswered(a) ==
    /\ AskerGoes(a, "pinging", "pinged")
    /\ seen' = [seen EXCEPT ![a] = clock]
    /\ UNCHANGED <<source, clock, cached, expiry, since>>

\* The last to store wins, also when its answer is the older one.
StoreStatus(a) ==
    /\ AskerGoes(a, "pinged", "told")
    /\ cached' = seen[a]
    /\ expiry' = clock + StatusTTL
    /\ UNCHANGED <<source, clock, since, seen>>

StatusReturned(a) ==
    /\ AskerGoes(a, "told", "idle")
    /\ since' = [since EXCEPT ![a] = 0]
    /\ seen' = [seen EXCEPT ![a] = 0]
    /\ UNCHANGED <<source, clock, cached, expiry>>

StatusNext ==
    \/ ClockTick
    \/ \E a \in Askers : \/ StatusHit(a) \/ StatusMiss(a)
                         \/ PingAnswered(a) \/ StoreStatus(a)
                         \/ StatusReturned(a)

StatusSpec == StatusInit /\ [][StatusNext]_statusVars
-----------------------------------------------------------------------------
\* Whoever is told a status is told one that was true less than a TTL and a
\* ping ago, although two misses may store their answers in either order
\* (redis.go:131): the TTL runs from the store and not from the ping.
StatusAgesOut ==
    [][\A a \in Askers : Timed /\ asker[a] # "told" /\ asker'[a] = "told"
           => clock - seen'[a] < StatusTTL + PingTime]_statusVars
=============================================================================
