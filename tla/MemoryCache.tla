---------------------------- MODULE MemoryCache ----------------------------
(***************************************************************************)
(* pkg/cache: Cache, and ShardedCache with a lock per shard, for one key    *)
(* (keys of a shard share the lock, which no step here holds for longer     *)
(* than itself); and the cache service in front of it.  Get looks under a   *)
(* read lock and, on an expired item, again under the write lock before it  *)
(* deletes.                                                                 *)
(***************************************************************************)
EXTENDS Integers, FiniteSets

CONSTANTS Getters,   \* concurrent calls of Get
          Setters,   \* concurrent calls of Set, each with its value
          MaxTTL,    \* largest ttl: 30 days
          CacheEnd   \* bound on the clock

ASSUME CacheAssumption == MaxTTL \in Nat \ {0} /\ CacheEnd \in Nat

NoItem == [value |-> "none", expiration |-> -1]
Forever == 0

VARIABLES now,
          item,     \* c.items[key]
          getter,   \* where each Get is
          got,      \* what it returned
          setter,   \* where each Set is
          fresh,    \* the item it is about to store
          sweep,    \* Cleanup: when it read the clock; -1: it is not running
          could     \* history: the answers that were right during each Get

cacheVars == <<now, item, getter, got, setter, fresh, sweep, could>>

Times   == 0..CacheEnd
Answers == Setters \cup {"none"}
Items   == [value : Setters, expiration : 0..(CacheEnd + MaxTTL)] \cup {NoItem}

CacheTypeOK ==
    /\ now \in Times
    /\ item \in Items
    /\ getter \in [Getters -> {"idle", "locked", "expired", "told"}]
    /\ got \in [Getters -> Answers]
    /\ setter \in [Setters -> {"idle", "timed", "stored"}]
    /\ fresh \in [Setters -> Items]
    /\ sweep \in -1..CacheEnd
    /\ could \in [Getters -> SUBSET Answers]

CacheInit ==
    /\ now = 1
    /\ item = NoItem
    /\ getter = [g \in Getters |-> "idle"]
    /\ got = [g \in Getters |-> "none"]
    /\ setter = [s \in Setters |-> "idle"]
    /\ fresh = [s \in Setters |-> NoItem]
    /\ sweep = -1
    /\ could = [g \in Getters |-> {}]

\* Expiration 0 is none; an item lives to the end of its last moment.
Expires(it, t) == it.expiration > Forever /\ t > it.expiration

\* What Get ought to say of an item: the value, or nothing once it expired.
RightAnswer(it, t) == IF Expires(it, t) THEN "none" ELSE it.value

\* The answers right before or after a step, for every Get under way.
Remember ==
    could' = [g \in Getters |->
        IF getter'[g] \in {"idle", "told"} THEN could[g]
        ELSE could[g] \cup {RightAnswer(item, now), RightAnswer(item', now')}]
-----------------------------------------------------------------------------
CacheTick ==
    /\ now < CacheEnd
    /\ now' = now + 1
    /\ UNCHANGED <<item, getter, got, setter, fresh, sweep>>
    /\ Remember

GetterGoes(g, from, to) == getter[g] = from /\ getter' = [getter EXCEPT ![g] = to]

CallGet(g) ==
    /\ GetterGoes(g, "idle", "locked")
    /\ UNCHANGED <<now, item, got, setter, fresh, sweep>>
    /\ Remember

Tells(g, from, value) ==
    /\ GetterGoes(g, from, "told")
    /\ got' = [got EXCEPT ![g] = value]
    /\ could' = [could EXCEPT ![g] = @ \cup {RightAnswer(item, now)}]

\* Under the read lock.
GetReads(g) ==
    /\ ~ Expires(item, now)
    /\ Tells(g, "locked", item.value)
    /\ UNCHANGED <<now, item, setter, fresh, sweep>>

GetSeesExpired(g) ==
    /\ Expires(item, now)
    /\ GetterGoes(g, "locked", "expired")
    /\ UNCHANGED <<now, item, got, setter, fresh, sweep>>
    /\ Remember

\* Bug: what was seen under the read lock is deleted under the write lock.
GetDeletes(g) ==
    /\ Tells(g, "expired", "none")
    /\ item' = NoItem
    /\ UNCHANGED <<now, setter, fresh, sweep>>

\* Under the write lock the item is looked at again.
GetVerifies(g) ==
    /\ Tells(g, "expired", RightAnswer(item, now))
    /\ item' = IF Expires(item, now) THEN NoItem ELSE item
    /\ UNCHANGED <<now, setter, fresh, sweep>>

GetReturns(g) ==
    /\ GetterGoes(g, "told", "idle")
    /\ got' = [got EXCEPT ![g] = "none"]
    /\ could' = [could EXCEPT ![g] = {}]
    /\ UNCHANGED <<now, item, setter, fresh, sweep>>

SetterGoes(s, from, to) == setter[s] = from /\ setter' = [setter EXCEPT ![s] = to]

\* Set reads the clock before it has the lock; a ttl of zero or less is none.
\* The cache service takes none below a second or above MaxTTL.
CallSet(s, ttl) ==
    /\ SetterGoes(s, "idle", "timed")
    /\ fresh' = [fresh EXCEPT ![s] =
                    [value |-> s, expiration |-> IF ttl > 0 THEN now + ttl ELSE Forever]]
    /\ UNCHANGED <<now, item, getter, got, sweep>>
    /\ Remember

SetStores(s) ==
    /\ SetterGoes(s, "timed", "stored")
    /\ item' = fresh[s]
    /\ UNCHANGED <<now, getter, got, fresh, sweep>>
    /\ Remember

DeleteItem ==
    /\ item # NoItem
    /\ item' = NoItem
    /\ UNCHANGED <<now, getter, got, setter, fresh, sweep>>
    /\ Remember

\* Cleanup reads the clock first and locks then.
CleanupBegins ==
    /\ sweep = -1
    /\ sweep' = now
    /\ UNCHANGED <<now, item, getter, got, setter, fresh>>
    /\ Remember

Cleanup ==
    /\ sweep >= 0
    /\ item' = IF Expires(item, sweep) THEN NoItem ELSE item
    /\ sweep' = -1
    /\ UNCHANGED <<now, getter, got, setter, fresh>>
    /\ Remember

CacheNext ==
    \/ CacheTick \/ DeleteItem \/ CleanupBegins \/ Cleanup
    \/ \E g \in Getters : CallGet(g) \/ GetReads(g) \/ GetSeesExpired(g)
                          \/ GetVerifies(g) \/ GetReturns(g)
    \/ \E s \in Setters : (\E ttl \in 0..MaxTTL : CallSet(s, ttl)) \/ SetStores(s)

CacheSpec == CacheInit /\ [][CacheNext]_cacheVars
-----------------------------------------------------------------------------
\* Every Get answers with something that was right at a moment of the call,
\* although it gives its lock up in the middle (cache.go:160, 71); and an item
\* that is taken away by anything but Delete had expired: neither a Get that
\* saw an older item nor a late Cleanup takes a fresh one with it.
GetsAreRight == \A g \in Getters : getter[g] = "told" => got[g] \in could[g]

TakesOnlyExpired == item # NoItem /\ item' = NoItem /\ ~ DeleteItem => Expires(item, now)

FreshItemsStay == []GetsAreRight /\ [][TakesOnlyExpired]_cacheVars
=============================================================================
