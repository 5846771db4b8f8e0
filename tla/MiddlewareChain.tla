--------------------------- MODULE MiddlewareChain ---------------------------
(***************************************************************************)
(* internal/middleware and the server around it: the registry ranges over a *)
(* map, so the enabled middlewares wrap the handler in any order; a request *)
(* goes in through them, is refused by one or reaches the handler, which    *)
(* answers, returns an error or panics, and comes out through them.  gzip   *)
(* takes a writer of a pool and gives it back on the way out; an error that *)
(* nobody answered is answered by Echo's error handler when every           *)
(* middleware is left (Echo is external).                                   *)
(***************************************************************************)
EXTENDS Integers, Sequences, FiniteSets, SequencesExt

CONSTANTS Hits,        \* requests served at once
          Registered,  \* names whose factory makes a middleware
          Failing,     \* those whose factory may fail
          Nobody

\* What each middleware does beside calling the next: nothing that the answer
\* shows, record the status when the request comes out again, or refuse it with
\* a status of its own.
Passer         == [refusal |-> 0, watches |-> FALSE]
Watcher        == [refusal |-> 0, watches |-> TRUE]
Guardian(code) == [refusal |-> code, watches |-> FALSE]

RequestID       == Passer
Security        == Passer
Logger          == Watcher
Audit           == Watcher
Prometheus      == Watcher
PermissionCheck == Guardian(403)
JWT             == Guardian(401)
CORS            == Guardian(204)
RateLimit       == Guardian(429)

MiddlewareOf ==
    [request_id |-> RequestID, security |-> Security, logger |-> Logger,
     audit |-> Audit, prometheus |-> Prometheus, permission_check |-> PermissionCheck,
     jwt |-> JWT, cors |-> CORS, ratelimit |-> RateLimit]

Passing  == {name \in DOMAIN MiddlewareOf : MiddlewareOf[name].refusal = 0}
Watching == {name \in DOMAIN MiddlewareOf : MiddlewareOf[name].watches}
Guards   == DOMAIN MiddlewareOf \ Passing

ASSUME ChainAssumption ==
    /\ Registered \subseteq DOMAIN MiddlewareOf \cup {"gzip"}
    /\ IsFiniteSet(Registered) /\ Failing \subseteq Registered
    /\ Nobody \notin Hits

VARIABLES chain,    \* the middlewares, outermost first
          hit,      \* what each request is like
          place,    \* where in the chain it is; Len(chain) + 1: in the handler
          going,    \* in, out with its answer or error, panicking, or at the end
          status,   \* c.Response().Status, 200 until something is written
          committed,
          wire,     \* the status the client got; 0: none yet
          zipper,   \* the gzip writer it took, one per request at most
          target,   \* where each gzip writer writes to
          idle,     \* gzPool
          recorded, \* what a middleware that watches recorded; 0: nothing
          strayed,  \* requests whose response holds bytes of another
          ran       \* history: the handler was called

chainVars == <<chain, hit, place, going, status, committed, wire, zipper,
               target, idle, recorded, strayed, ran>>

\* A handler that stumbles answers and panics then.
Outcomes == {"answer", "error", "panic", "stumble"}
\* Who would refuse the request, or how the handler ends; whether it takes gzip.
HitKinds ==
    {k \in [outcome : Outcomes, zipped : BOOLEAN,
            refusedBy : (Guards \cap Registered) \cup {"body_limit", "nobody"}] :
        k.refusedBy = "nobody" \/ k.outcome = "answer"}
Codes    == {200, 204, 401, 403, 413, 429, 500}
NoHit    == [outcome |-> "answer", refusedBy |-> "nobody", zipped |-> FALSE]
Zippers  == Hits

ChainTypeOK ==
    /\ \A i \in DOMAIN chain : chain[i] \in Registered
    /\ hit \in [Hits -> HitKinds]
    /\ place \in [Hits -> 0..(Len(chain) + 1)]
    /\ going \in [Hits -> {"idle", "in", "out", "error", "panic", "done"}]
    /\ status \in [Hits -> Codes]
    /\ committed \in [Hits -> BOOLEAN]
    /\ wire \in [Hits -> Codes \cup {0}]
    /\ zipper \in [Hits -> Zippers \cup {Nobody}]
    /\ target \in [Zippers -> Hits \cup {Nobody}]
    /\ idle \subseteq Zippers
    /\ recorded \in [Hits -> Codes \cup {0}]
    /\ strayed \subseteq Hits
    /\ ran \in [Hits -> BOOLEAN]

\* ApplyConfig decides who is enabled, AutoDiscoverMiddlewares asks the factory
\* of each, in the order of the map.
AutoDiscoverMiddlewares(enabled) ==
    UNION {SetToSeqs(enabled \ broken) : broken \in SUBSET (Failing \cap enabled)}

ChainInit ==
    /\ \E enabled \in SUBSET Registered : chain \in AutoDiscoverMiddlewares(enabled)
    /\ hit = [h \in Hits |-> NoHit]
    /\ place = [h \in Hits |-> 0]
    /\ going = [h \in Hits |-> "idle"]
    /\ status = [h \in Hits |-> 200]
    /\ committed = [h \in Hits |-> FALSE]
    /\ wire = [h \in Hits |-> 0]
    /\ zipper = [h \in Hits |-> Nobody]
    /\ target = [z \in Zippers |-> Nobody]
    /\ idle = {}
    /\ recorded = [h \in Hits |-> 0]
    /\ strayed = {}
    /\ ran = [h \in Hits |-> FALSE]
-----------------------------------------------------------------------------
Goes(h, how, where) ==
    /\ going' = [going EXCEPT ![h] = how]
    /\ place' = [place EXCEPT ![h] = where]

InAt(h, names)  == going[h] = "in" /\ place[h] <= Len(chain) /\ chain[place[h]] \in names
OutAt(h, names) == going[h] \in {"out", "error", "panic"} /\ place[h] > 0 /\ chain[place[h]] \in names
Further(h)      == Goes(h, "in", place[h] + 1)
Leaves(h)       == Goes(h, going[h], place[h] - 1)

\* The status line is sent once; what follows it is the body, which goes where
\* the gzip writer of the request writes to by now.
Sends(h, code) ==
    /\ committed' = [committed EXCEPT ![h] = TRUE]
    /\ status' = [status EXCEPT ![h] = code]
    /\ wire' = [wire EXCEPT ![h] = IF @ = 0 THEN code ELSE @]
    /\ strayed' = IF zipper[h] # Nobody /\ target[zipper[h]] \notin {h, Nobody}
                  THEN strayed \cup {target[zipper[h]]} ELSE strayed

\* BodyLimit comes before the chain and returns an error.
Come(h, kind) ==
    /\ going[h] = "idle"
    /\ hit' = [hit EXCEPT ![h] = kind]
    /\ IF kind.refusedBy = "body_limit" THEN Goes(h, "error", 0) ELSE Goes(h, "in", 1)
    /\ UNCHANGED <<chain, status, committed, wire, zipper, target, idle, recorded, strayed, ran>>

\* request_id and security set headers; the three that watch remember the time.
PassIn(h) ==
    /\ InAt(h, Passing)
    /\ Further(h)
    /\ UNCHANGED <<chain, hit, status, committed, wire, zipper, target, idle, recorded, strayed, ran>>

Refusal(name) == IF name = "body_limit" THEN 413 ELSE MiddlewareOf[name].refusal

\* Bug: the refusal is written, and the request goes on.
GuardWritesOnly(h) ==
    /\ InAt(h, Guards)
    /\ Further(h)
    /\ IF hit[h].refusedBy = chain[place[h]]
       THEN Sends(h, Refusal(chain[place[h]]))
       ELSE UNCHANGED <<status, committed, wire, strayed>>
    /\ UNCHANGED <<chain, hit, zipper, target, idle, recorded, ran>>

\* A middleware that refuses answers itself and returns nil.
Guard(h) ==
    /\ InAt(h, Guards)
    /\ IF hit[h].refusedBy = chain[place[h]]
       THEN Goes(h, "out", place[h] - 1) /\ Sends(h, Refusal(chain[place[h]]))
       ELSE Further(h) /\ UNCHANGED <<status, committed, wire, strayed>>
    /\ UNCHANGED <<chain, hit, zipper, target, idle, recorded, ran>>

Takes(h, z) ==
    /\ zipper' = [zipper EXCEPT ![h] = z]
    /\ target' = [target EXCEPT ![z] = h]
    /\ idle' = idle \ {z}

\* A writer of the pool, or a new one: the pool may drop what it holds.
Gzip(h) ==
    /\ InAt(h, {"gzip"})
    /\ Further(h)
    /\ \/ hit[h].zipped /\ \E z \in idle \cup {y \in Zippers : target[y] = Nobody} : Takes(h, z)
       \/ ~ hit[h].zipped /\ UNCHANGED <<zipper, target, idle>>
    /\ UNCHANGED <<chain, hit, status, committed, wire, recorded, strayed, ran>>

HandleHit(h) ==
    /\ going[h] = "in" /\ place[h] = Len(chain) + 1
    /\ ran' = [ran EXCEPT ![h] = TRUE]
    /\ \/ /\ hit[h].outcome \in {"answer", "stumble"}
          /\ Sends(h, 200)
          /\ Goes(h, IF hit[h].outcome = "answer" THEN "out" ELSE "panic", Len(chain))
       \/ /\ hit[h].outcome \in {"error", "panic"}
          /\ Goes(h, hit[h].outcome, Len(chain))
          /\ UNCHANGED <<status, committed, wire, strayed>>
    /\ UNCHANGED <<chain, hit, zipper, target, idle, recorded>>

\* A panic passes those that have nothing deferred.
LeavePlain(h) ==
    /\ OutAt(h, (Passing \cup Guards) \ Watching) \/ (going[h] = "panic" /\ OutAt(h, Watching))
    /\ Leaves(h)
    /\ UNCHANGED <<chain, hit, status, committed, wire, zipper, target, idle, recorded, strayed, ran>>

\* audit, logger and prometheus: the status as it is when they come out.
LeaveWatching(h) ==
    /\ going[h] # "panic" /\ OutAt(h, Watching)
    /\ recorded' = [recorded EXCEPT ![h] = status[h]]
    /\ Leaves(h)
    /\ UNCHANGED <<chain, hit, status, committed, wire, zipper, target, idle, strayed, ran>>

\* Close writes to the client, which commits its 200 when nothing was sent.
LeaveGzip(h) ==
    /\ OutAt(h, {"gzip"})
    /\ Leaves(h)
    /\ IF zipper[h] # Nobody
       THEN /\ wire' = [wire EXCEPT ![h] = IF @ = 0 THEN 200 ELSE @]
            /\ idle' = idle \cup {zipper[h]}
       ELSE UNCHANGED <<wire, idle>>
    /\ UNCHANGED <<chain, hit, status, committed, zipper, target, recorded, strayed, ran>>

Finish(h) ==
    /\ going[h] = "out" /\ place[h] = 0
    /\ Goes(h, "done", 0)
    /\ UNCHANGED <<chain, hit, status, committed, wire, zipper, target, idle, recorded, strayed, ran>>

\* The error handler, called by Echo or by Recover; c.Response().Writer is
\* still what gzip made it.
AnswerLate(h) ==
    /\ going[h] \in {"error", "panic"} /\ place[h] = 0
    /\ Goes(h, "done", 0)
    /\ IF committed[h] THEN UNCHANGED <<status, committed, wire, strayed>>
       ELSE Sends(h, IF hit[h].refusedBy = "body_limit" THEN 413 ELSE 500)
    /\ UNCHANGED <<chain, hit, zipper, target, idle, recorded, ran>>

ChainNext ==
    \E h \in Hits :
        \/ \E kind \in HitKinds : Come(h, kind)
        \/ PassIn(h) \/ Guard(h) \/ Gzip(h) \/ HandleHit(h)
        \/ LeavePlain(h) \/ LeaveWatching(h) \/ LeaveGzip(h) \/ Finish(h) \/ AnswerLate(h)

ChainSpec == ChainInit /\ [][ChainNext]_chainVars
-----------------------------------------------------------------------------
Refused(h)  == hit[h].refusedBy = "body_limit" \/ \E i \in DOMAIN chain : chain[i] = hit[h].refusedBy
Answered(h) == ~ Refused(h) /\ hit[h].outcome \in {"answer", "stumble"}
Failed(h)   == ~ Refused(h) /\ hit[h].outcome \in {"error", "panic"}

RecordedRightly(h) == recorded[h] \in {0, wire[h]}

\* Whatever order the map gives the middlewares: a request that one of them
\* refuses is told so and never reaches the handler; what the handler answers
\* is what the client gets, and what is recorded if anything is; an error that
\* nobody answered is a 500, but for a client of gzip, whose writer has sent a
\* 200 and is back in the pool by then.  Such a late answer is all that ever
\* gets into another response (middleware.go:96, 219; encryption.go:44).
AnswersKept ==
    /\ \A h \in Hits : going[h] = "done" =>
        /\ Refused(h) => wire[h] = Refusal(hit[h].refusedBy) /\ ~ ran[h]
        /\ Answered(h) => wire[h] = 200
        /\ Failed(h) => wire[h] = IF zipper[h] # Nobody THEN 200 ELSE 500
        /\ RecordedRightly(h) \/ Failed(h)
    /\ strayed # {} =>
        \E h \in Hits : Failed(h) /\ going[h] = "done" /\ zipper[h] # Nobody
=============================================================================
