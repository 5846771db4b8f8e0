--------------------------- MODULE GrafanaClient ---------------------------
(***************************************************************************)
(* The requests of GrafanaManager through a retrying client: each call is   *)
(* sent again, POST and DELETE too, after a lost request, a lost response   *)
(* or a 5xx, at most RetryMax times more.  The Grafana server is external:  *)
(* one dashboard and one data source, each with the call that wrote it      *)
(* last, and a list of annotations.                                         *)
(***************************************************************************)
EXTENDS Integers, FiniteSets

CONSTANTS Requests,  \* concurrent calls
          RetryMax   \* 3

Nobody == "nobody"
Intruder == "existing"   \* who wrote a dashboard that was there before
Refusal == "refusal"     \* Grafana answers 404, 409 or 412

ASSUME GrafanaAssumption == /\ IsFiniteSet(Requests) /\ RetryMax \in Nat
                            /\ {Nobody, Intruder, Refusal} \cap Requests = {}

VARIABLES method,    \* what each call asks for
          request,   \* where it is
          attempts,  \* how often it was sent
          answered,  \* what it reports
          effects,   \* how often the server carried it out
          board,     \* who wrote the dashboard last; Nobody: there is none
          dataSource,\* who made the data source; Nobody: there is none
          notes      \* annotations, the calls that made them with a number

grafanaVars == <<method, request, attempts, answered, effects, board, dataSource, notes>>

Methods == {"create", "update", "get", "delete", "datasource", "annotate"}
Replies == {"none", "ok", "refused", "gaveup"}

GrafanaTypeOK ==
    /\ method \in [Requests -> Methods]
    /\ request \in [Requests -> {"idle", "sent", "served", "refused", "failed", "ended"}]
    /\ attempts \in [Requests -> 0..(RetryMax + 1)]
    /\ answered \in [Requests -> Replies]
    /\ effects \in [Requests -> 0..(RetryMax + 1)]
    /\ board \in Requests \cup {Nobody, Intruder}
    /\ dataSource \in Requests \cup {Nobody}
    /\ notes \subseteq Requests \X (1..(RetryMax + 1))

GrafanaInit ==
    /\ method \in [Requests -> Methods]
    /\ request = [r \in Requests |-> "idle"]
    /\ attempts = [r \in Requests |-> 0]
    /\ answered = [r \in Requests |-> "none"]
    /\ effects = [r \in Requests |-> 0]
    /\ board \in {Nobody, Intruder}
    /\ dataSource = Nobody
    /\ notes = {}
-----------------------------------------------------------------------------
RequestGoes(r, from, to) == request[r] = from /\ request' = [request EXCEPT ![r] = to]

\* Client.Do: the first time, or again after a failure that is worth it.
SendRequest(r) ==
    /\ \/ RequestGoes(r, "idle", "sent")
       \/ attempts[r] <= RetryMax /\ RequestGoes(r, "failed", "sent")
    /\ attempts' = [attempts EXCEPT ![r] = @ + 1]
    /\ UNCHANGED <<method, answered, effects, board, dataSource, notes>>

\* The request is lost, or the server answers 5xx, before anything is done.
RequestLost(r) ==
    /\ RequestGoes(r, "sent", "failed")
    /\ UNCHANGED <<method, attempts, answered, effects, board, dataSource, notes>>

\* What each request makes of the dashboard, or of the data source.

\* Bug: overwrite: true.
CreateDashboardOverwriting(r) == r

CreateDashboard(r)  == IF board = Nobody THEN r ELSE Refusal \* overwrite: false
UpdateDashboard(r)  == r
GetDashboard        == IF board = Nobody THEN Refusal ELSE board
DeleteDashboard     == IF board = Nobody THEN Refusal ELSE Nobody
ListDashboardsOf    == board
CreateDataSource(r) == IF dataSource = Nobody THEN r ELSE Refusal

BoardAfter(r) ==
    CASE method[r] = "create" -> CreateDashboard(r)
      [] method[r] = "update" -> UpdateDashboard(r)
      [] method[r] = "get"    -> GetDashboard
      [] method[r] = "delete" -> DeleteDashboard
      [] OTHER                -> ListDashboardsOf

DataSourceAfter(r) == IF method[r] = "datasource" THEN CreateDataSource(r) ELSE dataSource

\* Every annotation is a new one.
CreateAnnotation(r) == IF method[r] = "annotate" THEN notes \cup {<<r, attempts[r]>>} ELSE notes

Refuses(r) == Refusal \in {BoardAfter(r), DataSourceAfter(r)}

RefuseRequest(r) ==
    /\ Refuses(r)
    /\ RequestGoes(r, "sent", "refused")
    /\ UNCHANGED <<method, attempts, answered, effects, board, dataSource, notes>>

ServeRequest(r) ==
    /\ ~ Refuses(r)
    /\ RequestGoes(r, "sent", "served")
    /\ effects' = [effects EXCEPT ![r] = @ + 1]
    /\ board' = BoardAfter(r)
    /\ dataSource' = DataSourceAfter(r)
    /\ notes' = CreateAnnotation(r)
    /\ UNCHANGED <<method, attempts, answered>>

\* The response is lost on its way: the client cannot tell this from a request
\* that was never served.
ResponseLost(r) ==
    /\ \E from \in {"served", "refused"} : RequestGoes(r, from, "failed")
    /\ UNCHANGED <<method, attempts, answered, effects, board, dataSource, notes>>

\* Only 200 is a success, and a body that does not decode is none.
ReportResponse(r) ==
    /\ \/ RequestGoes(r, "served", "ended")  /\ answered' = [answered EXCEPT ![r] = "ok"]
       \/ RequestGoes(r, "refused", "ended") /\ answered' = [answered EXCEPT ![r] = "refused"]
       \/ RequestGoes(r, "served", "ended")  /\ answered' = [answered EXCEPT ![r] = "gaveup"]
    /\ UNCHANGED <<method, attempts, effects, board, dataSource, notes>>

\* After RetryMax more attempts, or when the call's context ends.
GiveUp(r) ==
    /\ RequestGoes(r, "failed", "ended")
    /\ answered' = [answered EXCEPT ![r] = "gaveup"]
    /\ UNCHANGED <<method, attempts, effects, board, dataSource, notes>>

GrafanaNext ==
    \E r \in Requests :
        \/ SendRequest(r) \/ RequestLost(r)
        \/ RefuseRequest(r) \/ ServeRequest(r) \/ ResponseLost(r)
        \/ ReportResponse(r) \/ GiveUp(r)

GrafanaSpec == GrafanaInit /\ [][GrafanaNext]_grafanaVars
-----------------------------------------------------------------------------
ReportsHold ==
    \A r \in Requests : answered[r] = "ok" =>
        /\ effects[r] > 0
        /\ method[r] = "annotate" => \E i \in 1..attempts[r] : <<r, i>> \in notes

CreateReplacesNothing ==
    \A r \in Requests : board' = r /\ board # r /\ method[r] = "create" => board = Nobody

\* Through every retry: what is reported done was done (a refusal proves
\* nothing, an attempt whose response was lost may have been carried out), and
\* CreateDashboard, sent again after it was lost, replaces nothing another call
\* has written in the meantime (grafana.go:195, 272).
RetriesHold == []ReportsHold /\ [][CreateReplacesNothing]_grafanaVars
=============================================================================
