------------------------------ MODULE MCCalls ------------------------------
(***************************************************************************)
(* The parts of pkg/infrastructure, pkg/webhook and pkg/resilience that are *)
(* called by everything and do not call each other.  They share no state,   *)
(* so a behaviour exercises one of them, its scenario, while the others     *)
(* stay as they were initialized: the state spaces add up, they are not     *)
(* multiplied.                                                              *)
(***************************************************************************)
EXTENDS AsyncOps, ClientManagers, StatusCache, RowCursor, KafkaConsumer,
        GrafanaClient, WebhookManager, GuardedCall, HealthChecker, TLC

CONSTANTS Scenarios, c1, c2

VARIABLE scenario

\* One operation that heeds its context and one that does not.
MCKindOf == (c1 :> "minio") @@ (c2 :> "kafka")

\* The parts that are not exercised start in one of their initial states.
Idle(name) == scenario # name

MCInit ==
    /\ scenario \in Scenarios
    /\ AsyncInit
    /\ Idle("batch") => batch = [kind |-> "redis", size |-> 0, turn |-> 0]
    /\ ManagersInit /\ (Idle("managers") => manager = "redis")
    /\ StatusInit   /\ (Idle("status") => source = "redis")
    /\ RowsInit
    /\ KafkaInit
    /\ GrafanaInit
    /\ Idle("grafana") => board = Nobody /\ \A r \in Requests : method[r] = "get"
    /\ WebhookInit  /\ (Idle("webhook") => ~ secret)
    /\ RetryInit    /\ (Idle("retry") => maxAttempts = 1)
    /\ HealthInit

othersOfCalls    == <<managerVars, statusVars, rowVars, kafkaVars, grafanaVars, webhookVars, retryVars, healthVars>>
othersOfManagers == <<asyncVars, statusVars, rowVars, kafkaVars, grafanaVars, webhookVars, retryVars, healthVars>>
othersOfStatus   == <<asyncVars, managerVars, rowVars, kafkaVars, grafanaVars, webhookVars, retryVars, healthVars>>
othersOfRows     == <<asyncVars, managerVars, statusVars, kafkaVars, grafanaVars, webhookVars, retryVars, healthVars>>
othersOfKafka    == <<asyncVars, managerVars, statusVars, rowVars, grafanaVars, webhookVars, retryVars, healthVars>>
othersOfGrafana  == <<asyncVars, managerVars, statusVars, rowVars, kafkaVars, webhookVars, retryVars, healthVars>>
othersOfWebhook  == <<asyncVars, managerVars, statusVars, rowVars, kafkaVars, grafanaVars, retryVars, healthVars>>
othersOfRetry    == <<asyncVars, managerVars, statusVars, rowVars, kafkaVars, grafanaVars, webhookVars, healthVars>>
othersOfHealth   == <<asyncVars, managerVars, statusVars, rowVars, kafkaVars, grafanaVars, webhookVars, retryVars>>

\* Queries that scan into their own variables share nothing: one will do.
OneScansAlone == Cardinality({q \in Queries : ScansAlone(q) /\ query[q] # "idle"}) < 2

MCNext ==
    /\ UNCHANGED scenario
    /\ \/ scenario = "calls"    /\ (\E c \in Calls : CallStep(c)) /\ UNCHANGED othersOfCalls
       \/ scenario = "batch"    /\ BatchStep    /\ UNCHANGED othersOfCalls
       \/ scenario = "managers" /\ ManagersNext /\ UNCHANGED othersOfManagers
       \/ scenario = "status"   /\ StatusNext   /\ UNCHANGED othersOfStatus
       \/ scenario = "rows"     /\ RowsNext     /\ UNCHANGED othersOfRows /\ OneScansAlone'
       \/ scenario = "kafka"    /\ KafkaNext    /\ UNCHANGED othersOfKafka
       \/ scenario = "grafana"  /\ GrafanaNext  /\ UNCHANGED othersOfGrafana
       \/ scenario = "webhook"  /\ WebhookNext  /\ UNCHANGED othersOfWebhook
       \/ scenario = "retry"    /\ RetryNext    /\ UNCHANGED othersOfRetry
       \/ scenario = "health"   /\ HealthNext   /\ UNCHANGED othersOfHealth

callsVars == <<scenario, asyncVars, othersOfCalls>>

\* No fair action of a part is enabled in its initial state, so the fairness
\* of the parts that are not exercised asks for nothing.
MCSpec ==
    /\ MCInit /\ [][MCNext]_callsVars
    /\ AsyncFairness /\ ManagersFairness /\ KafkaFairness
    /\ WebhookFairness

\* Types of all parts.
CallsTypeOK ==
    /\ AsyncTypeOK /\ ManagersTypeOK /\ StatusTypeOK /\ RowsTypeOK /\ KafkaTypeOK
    /\ GrafanaTypeOK /\ WebhookTypeOK /\ RetryTypeOK /\ HealthTypeOK
=============================================================================
