---------------------------- MODULE RateLimiter ----------------------------
(***************************************************************************)
(* middleware/ratelimit.go for one visitor (visitors share nothing but the  *)
(* lock): the limiter in memory, whose visitor is counted under the lock    *)
(* and forgotten by a cleanup that looks under a read lock and deletes      *)
(* under another; and the limiter in Redis, a sorted set with one member    *)
(* per request, which a pipeline that is no transaction prunes, extends,    *)
(* counts and keeps from expiring, while the clock goes on.  Redis itself   *)
(* is external; its time to live runs by the same clock.                    *)
(***************************************************************************)
EXTENDS Integers, FiniteSets

CONSTANTS Visits,    \* requests of the visitor that may be under way at once
          Rate,      \* 60
          Window,    \* a minute
          MaxMoment, \* bound on the clock
          MaxMembers \* bound on the members of a moment at which a request begins

ASSUME LimiterAssumption ==
    IsFiniteSet(Visits) /\ {Rate, Window, MaxMoment, MaxMembers} \subseteq Nat \ {0}

Moments == 0..MaxMoment
Never   == MaxMoment + Window + 1
VisitStates == {"idle", "prune", "add", "count", "granted", "denied", "passing"}

VARIABLES backend,   \* "memory" or "redis"
          moment,    \* the clock
          visitor,   \* rl.visitors[ip]; count 0: none
          expired,   \* cleanup has the visitor on its list
          zset,      \* members of the sorted set by their score
          expiry,    \* when the set goes with its key, unless it is Never
          visit,     \* the pipeline of each request
          stamp,     \* the time it took
          lost,      \* history: their members went with the key before EXPIRE
          allowed,   \* history: requests let through by the limiter, by time
          counted,   \* history: requests granted that were not lost, by stamp
          caught,    \* history: requests that were lost, by time
          underWay,  \* history: requests under way when a window began, by the moment before
          overrun,   \* history: when cleanup last deleted a visitor that had come back
          refusal    \* history: requests let through in the window of the last refusal

visitorVars  == <<visitor, expired, overrun, refusal>>
setVars      == <<zset, expiry, visit, stamp, lost, counted, caught>>
limiterVars  == <<backend, moment, visitorVars, setVars, allowed, underWay>>

Counts == [Moments -> Nat]
BeforeWindows == {t \in Moments : t + Window <= MaxMoment}
NoVisitor == [count |-> 0, lastSeen |-> 0]

LimiterTypeOK ==
    /\ backend \in {"memory", "redis"}
    /\ moment \in Moments
    /\ visitor \in [count : 0..Rate, lastSeen : Moments]
    /\ expired \in BOOLEAN
    /\ expiry \in 0..Never
    /\ visit \in [Visits -> VisitStates]
    /\ stamp \in [Visits -> Moments]
    /\ lost \subseteq Visits
    /\ zset \in Counts /\ allowed \in Counts /\ counted \in Counts
    /\ caught \in Counts /\ underWay \in [BeforeWindows -> Nat]
    /\ overrun \in -1..MaxMoment
    /\ refusal \in Nat

LimiterInit ==
    /\ backend \in {"memory", "redis"}
    /\ moment = 0
    /\ visitor = NoVisitor
    /\ expired = FALSE
    /\ zset = [t \in Moments |-> 0]
    /\ expiry = Never
    /\ visit = [v \in Visits |-> "idle"]
    /\ stamp = [v \in Visits |-> 0]
    /\ lost = {}
    /\ allowed = [t \in Moments |-> 0]
    /\ counted = [t \in Moments |-> 0]
    /\ caught = [t \in Moments |-> 0]
    /\ underWay = [t \in BeforeWindows |-> 0]
    /\ overrun = -1
    /\ refusal = 1

\* The sums of what is counted at the moments before each.
Sums(counts) ==
    LET sum[n \in 0..(MaxMoment + 1)] == IF n = 0 THEN 0 ELSE sum[n - 1] + counts[n - 1]
    IN  sum

\* What was counted from moment t until now.
Since(counts, t) == Sums(counts)[moment + 1] - Sums(counts)[IF t > 0 THEN t ELSE 0]

\* How many were let through less than a window ago, and a window at most.
Recent     == Since(allowed, moment - Window + 1)
RecentOrAt == Since(allowed, moment - Window)

UnderWay == {v \in Visits : visit[v] # "idle"}
-----------------------------------------------------------------------------
\* The clock moves on whatever is under way; what is due to expire does so first.
LimiterTick ==
    /\ moment < MaxMoment /\ moment < expiry
    /\ moment' = moment + 1
    /\ underWay' = [t \in BeforeWindows |->
                        IF t = moment THEN Cardinality(UnderWay) ELSE underWay[t]]
    /\ UNCHANGED <<backend, visitorVars, setVars, allowed>>

LetThrough == allowed' = [allowed EXCEPT ![moment] = @ + 1] /\ UNCHANGED refusal
Refuse     == refusal' = RecentOrAt /\ UNCHANGED allowed

Known == visitor.count > 0 /\ moment - visitor.lastSeen <= Window

CountVisit ==
    /\ visitor' = [count |-> visitor.count + 1, lastSeen |-> moment]
    /\ LetThrough

\* isAllowed, one critical section.
IsAllowed ==
    /\ backend = "memory"
    /\ \/ Known /\ visitor.count >= Rate /\ Refuse /\ UNCHANGED visitor
       \/ Known /\ visitor.count < Rate /\ CountVisit
       \/ ~ Known /\ visitor' = [count |-> 1, lastSeen |-> moment] /\ LetThrough
    /\ UNCHANGED <<backend, moment, setVars, expired, overrun, underWay>>

\* The cleanup goroutine: what has expired ...
CleanupCollects ==
    /\ backend = "memory" /\ ~ expired
    /\ visitor.count > 0 /\ moment - visitor.lastSeen > Window
    /\ expired' = TRUE
    /\ UNCHANGED <<backend, moment, setVars, visitor, overrun, refusal, allowed, underWay>>

\* ... is deleted, whatever has happened in between.
CleanupDeletes ==
    /\ expired
    /\ expired' = FALSE
    /\ visitor' = NoVisitor
    /\ overrun' = IF Known THEN moment ELSE overrun
    /\ UNCHANGED <<backend, moment, setVars, refusal, allowed, underWay>>
-----------------------------------------------------------------------------
VisitGoes(v, from, to) == visit[v] = from /\ visit' = [visit EXCEPT ![v] = to]

VisitEnds(v) ==
    /\ visit' = [visit EXCEPT ![v] = "idle"]
    /\ stamp' = [stamp EXCEPT ![v] = 0]
    /\ lost' = lost \ {v}

Members == Sums(zset)[MaxMoment + 1]

BeginVisit(v) ==
    /\ backend = "redis"
    /\ VisitGoes(v, "idle", "prune")
    /\ stamp' = [stamp EXCEPT ![v] = moment]
    /\ UNCHANGED <<backend, moment, visitorVars, zset, expiry, lost, counted, caught,
                   allowed, underWay>>

\* ZREMRANGEBYSCORE: a set that is left empty is gone, with its time to live.
Prune(v) ==
    /\ VisitGoes(v, "prune", "add")
    /\ zset' = [t \in Moments |-> IF t <= stamp[v] - Window THEN 0 ELSE zset[t]]
    /\ expiry' = IF Members' = 0 THEN Never ELSE expiry
    /\ UNCHANGED <<backend, moment, visitorVars, stamp, lost, counted, caught,
                   allowed, underWay>>

\* ZADD of a member of its own: also a request that is refused counts.
AddMember(v) ==
    /\ VisitGoes(v, "add", "count")
    /\ zset' = [zset EXCEPT ![stamp[v]] = @ + 1]
    /\ UNCHANGED <<backend, moment, visitorVars, expiry, stamp, lost, counted, caught,
                   allowed, underWay>>

\* Bug: the limit is compared as if the request were not in the set yet.
CountMembersBefore(v) ==
    /\ VisitGoes(v, "count", IF Members <= Rate + 1 THEN "granted" ELSE "denied")
    /\ UNCHANGED <<backend, moment, visitorVars, zset, expiry, stamp, lost, counted,
                   caught, allowed, underWay>>

\* ZCARD.
CountMembers(v) ==
    /\ VisitGoes(v, "count", IF Members <= Rate THEN "granted" ELSE "denied")
    /\ UNCHANGED <<backend, moment, visitorVars, zset, expiry, stamp, lost, counted,
                   caught, allowed, underWay>>

\* EXPIRE, which does nothing where there is no key.
Expire(v) ==
    /\ \/ /\ VisitGoes(v, "granted", "passing")
          /\ counted' = IF v \in lost THEN counted ELSE [counted EXCEPT ![stamp[v]] = @ + 1]
          /\ UNCHANGED <<stamp, lost>>
       \/ visit[v] = "denied" /\ VisitEnds(v) /\ UNCHANGED counted
    /\ expiry' = IF Members = 0 THEN Never ELSE moment + Window
    /\ UNCHANGED <<backend, moment, visitorVars, zset, caught, allowed, underWay>>

\* Exec returns.
PassOn(v) ==
    /\ visit[v] = "passing" /\ VisitEnds(v)
    /\ LetThrough
    /\ UNCHANGED <<backend, moment, visitor, expired, overrun, zset, expiry, counted,
                   caught, underWay>>

\* The pipeline fails anywhere on its way: the request goes through, and the
\* limiter has not allowed it.
FailOpen(v) ==
    /\ visit[v] # "idle" /\ VisitEnds(v)
    /\ UNCHANGED <<backend, moment, visitorVars, zset, expiry, counted, caught, allowed,
                   underWay>>

\* The key goes when no EXPIRE has come for a window, with the members of the
\* requests that are on their way to theirs.
KeyExpires ==
    LET losing == {v \in Visits : visit[v] \in {"count", "granted"}} \ lost
    IN  /\ expiry <= moment
        /\ zset' = [t \in Moments |-> 0]
        /\ expiry' = Never
        /\ lost' = lost \cup losing
        /\ caught' = [caught EXCEPT ![moment] = @ + Cardinality(losing)]
        /\ UNCHANGED <<backend, moment, visitorVars, visit, stamp, counted, allowed, underWay>>

\* Bound on the requests of a moment: those under way may exceed it.
Bounded == zset[moment] < MaxMembers

LimiterNext ==
    \/ LimiterTick \/ IsAllowed \/ CleanupCollects \/ CleanupDeletes \/ KeyExpires
    \/ \E v \in Visits : \/ Bounded /\ BeginVisit(v)
                         \/ Prune(v) \/ AddMember(v) \/ CountMembers(v) \/ Expire(v)
                         \/ PassOn(v) \/ FailOpen(v)

LimiterSpec == LimiterInit /\ [][LimiterNext]_limiterVars
-----------------------------------------------------------------------------
UnderWayAfter(t) == IF t < 0 THEN 0 ELSE underWay[t]

\* In memory no window has more than Rate requests of a visitor
\* (ratelimit.go:118), or twice as many when cleanup has just deleted a visitor
\* that had come back between its two locks (ratelimit.go:106), and nobody is
\* refused who kept away for longer than a window.
VisitorsKept ==
    /\ Recent <= IF overrun > moment - Window THEN 2 * Rate ELSE Rate
    /\ refusal > 0

\* In Redis no more than Rate of the requests that began in a window are granted,
\* and no more are let through in it, except those that had begun before the
\* window and those whose member went with the key between ZADD and EXPIRE
\* (ratelimit.go:199-204).
PipelinesKept ==
    /\ Since(counted, moment - Window + 1) <= Rate
    /\ Recent <= Rate + UnderWayAfter(moment - Window) + Since(caught, moment - Window + 1)

\* A visitor is allowed his rate and no more by the limiter in memory and by the
\* one in Redis, up to what each can miss.
AllowanceHolds ==
    /\ backend = "memory" => VisitorsKept
    /\ backend = "redis" => PipelinesKept
=============================================================================
