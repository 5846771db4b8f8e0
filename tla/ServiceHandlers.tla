-------------------------- MODULE ServiceHandlers --------------------------
(***************************************************************************)
(* The HTTP handlers of internal/services/modules that go through a         *)
(* database or Grafana: orders and products of a tenant, tasks, dashboards. *)
(* A handler is a plan, the steps it takes in order; a step goes on, or     *)
(* answers and ends the handler.  Handlers of one service run concurrently  *)
(* on one table; the databases are external.                                *)
(***************************************************************************)
EXTENDS Integers, Sequences, FiniteSets

CONSTANTS Clients,  \* requests under way at once
          Tenants,
          Rows,     \* ids of the table
          HomeOf    \* the table when the requests come: whose each row is

Absent == "absent"

ASSUME HandlersAssumption ==
    Absent \notin Tenants /\ HomeOf \in [Rows -> Tenants \cup {Absent}]

VARIABLES service,    \* whose table it is
          shared,     \* the tenants' connections lead to one database
          connected,  \* tenants the connection manager knows
          table,      \* whose each row is, or Absent
          issued,     \* ids the database has given out
          ask,        \* what each client asks for
          step,       \* the step its handler is at; 0: none yet
          conn,       \* dbConn: "unset", "nil" or "open"
          answers,    \* the statuses it wrote
          effect,     \* history: what it did to the table
          foreign     \* history: it changed a row of another tenant

handlerVars == <<service, shared, connected, table, issued, ask, step, conn, answers,
                 effect, foreign>>

Services == {"orders", "products", "tasks", "dashboards"}

\* A step: parse checks the parameters, bind the body, fields whether it asks
\* for anything (400); count, find and first read (500, first also 404); insert,
\* update, updateOne, upsert and delete write, and tell how much they changed,
\* or do not.
ListOrders  == <<"tenantDB", "find">>
CreateOrder == <<"tenantDB", "bind", "insert">>
GetOrder    == <<"parse", "tenantDB", "first">>
UpdateOrder == <<"parse", "tenantDB", "bind", "first", "fields", "update">>
DeleteOrder == <<"parse", "tenantDB", "delete">>

ListProductsByTenant == <<"connection", "bind", "count", "find">>
CreateProduct        == <<"bind", "connection", "insert">>
GetProductByTenant   == <<"parse", "connection", "first">>
UpdateProduct        == <<"parse", "bind", "connection", "updateOne">>
DeleteProduct        == <<"parse", "connection", "delete">>
SearchProducts       == <<"connection", "bind", "find">>
GetProductAnalytics  == <<"connection", "find">>

ListTasks  == <<"bind", "count", "find">>
CreateTask == <<"bind", "insert">>
UpdateTask == <<"parse", "first", "bind", "update">>
DeleteTask == <<"parse", "deleteAnyway">>

PostDashboard   == <<"bind", "insert">>
PutDashboard    == <<"parse", "bind", "upsert">>
ShowDashboard   == <<"parse", "firstOrOutage">>
DropDashboard   == <<"parse", "deleteOrOutage">>
ListDashboardsHandler == <<"find">>
PostDataSource  == <<"bind", "insert">>
PostAnnotation  == <<"bind", "insert">>
ShowHealth      == <<"ping">>

Plans(s) ==
    CASE s = "orders" -> {ListOrders, CreateOrder, GetOrder, UpdateOrder, DeleteOrder}
      [] s = "products" -> {ListProductsByTenant, CreateProduct, GetProductByTenant,
                            UpdateProduct, DeleteProduct, SearchProducts, GetProductAnalytics}
      [] s = "tasks" -> {ListTasks, CreateTask, UpdateTask, DeleteTask}
      [] s = "dashboards" -> {PostDashboard, PutDashboard, ShowDashboard, DropDashboard,
                              ListDashboardsHandler, PostDataSource, PostAnnotation, ShowHealth}

Statuses == {200, 201, 400, 404, 500, 503}
Nothing  == [plan |-> <<>>, tenant |-> Absent, id |-> Absent]

HandlersTypeOK ==
    /\ service \in Services
    /\ shared \in BOOLEAN
    /\ connected \subseteq Tenants
    /\ table \in [Rows -> Tenants \cup {Absent}] /\ issued \subseteq Rows
    /\ \A c \in Clients : ask[c] = Nothing \/ (/\ ask[c].plan \in Plans(service)
                                               /\ ask[c].tenant \in Tenants
                                               /\ ask[c].id \in Rows)
    /\ step \in [Clients -> 0..7]
    /\ conn \in [Clients -> {"unset", "nil", "open"}]
    /\ \A c \in Clients : Len(answers[c]) <= 2 /\ \A i \in DOMAIN answers[c] : answers[c][i] \in Statuses
    /\ effect \in [Clients -> {"none", "created", "updated", "deleted", "panicked"}]
    /\ foreign \in BOOLEAN

HandlersInit ==
    /\ service \in Services
    /\ shared \in BOOLEAN
    /\ connected \in SUBSET Tenants
    /\ table = HomeOf /\ issued = {r \in Rows : HomeOf[r] # Absent}
    /\ ask = [c \in Clients |-> Nothing]
    /\ step = [c \in Clients |-> 0]
    /\ conn = [c \in Clients |-> "unset"]
    /\ answers = [c \in Clients |-> <<>>]
    /\ effect = [c \in Clients |-> "none"]
    /\ foreign = FALSE
-----------------------------------------------------------------------------
Ended(c) == step[c] > Len(ask[c].plan)
At(c, names) == step[c] > 0 /\ ~ Ended(c) /\ ask[c].plan[step[c]] \in names
\* A handler that has a connection, or one whose service needs none.
Connected(c) == conn[c] # "nil"

GoOn(c)       == step' = [step EXCEPT ![c] = @ + 1] /\ UNCHANGED answers
Answer(c, s)  == /\ answers' = [answers EXCEPT ![c] = Append(@, s)]
                 /\ step' = [step EXCEPT ![c] = Len(ask[c].plan) + 1]
\* The last step answers with the success of its handler.
Success(c) == IF At(c, {"insert"}) THEN 201 ELSE 200
Proceed(c) == IF step[c] = Len(ask[c].plan) THEN Answer(c, Success(c)) ELSE GoOn(c)

Receive(c, plan, tenant, id) ==
    /\ step[c] = 0
    /\ service \in {"tasks", "dashboards"} => tenant = CHOOSE t \in Tenants : TRUE
    /\ ask' = [ask EXCEPT ![c] = [plan |-> plan, tenant |-> tenant, id |-> id]]
    /\ step' = [step EXCEPT ![c] = 1]
    /\ UNCHANGED <<service, shared, connected, table, issued, conn, answers, effect, foreign>>

\* Shutdown closes the connections while requests are served.
CloseConnections ==
    /\ connected # {}
    /\ connected' = {}
    /\ UNCHANGED <<service, shared, table, issued, ask, step, conn, answers, effect, foreign>>

\* Parameters and body are well-formed, or are not.
CheckParameters(c) ==
    /\ At(c, {"parse"})
    /\ GoOn(c) \/ Answer(c, 400)
    /\ UNCHANGED <<service, shared, connected, table, issued, ask, conn, effect, foreign>>

Bind(c) ==
    /\ At(c, {"bind", "fields"})
    /\ GoOn(c) \/ Answer(c, 400)
    /\ UNCHANGED <<service, shared, connected, table, issued, ask, conn, effect, foreign>>

\* GetConnection, and what the products' handlers make of it.
ResolveConnection(c) ==
    /\ At(c, {"connection"})
    /\ \/ /\ ask[c].tenant \in connected
          /\ GoOn(c)
          /\ conn' = [conn EXCEPT ![c] = "open"]
       \/ /\ ask[c].tenant \notin connected
          /\ Answer(c, 404)
          /\ UNCHANGED conn
    /\ UNCHANGED <<service, shared, connected, table, issued, ask, effect, foreign>>

\* tenantDB answers 404, or 503 without an ORM, and hands the nil error of
\* that answer to its caller, which goes on.
ResolveTenantDB(c) ==
    /\ At(c, {"tenantDB"})
    /\ step' = [step EXCEPT ![c] = @ + 1]
    /\ \/ /\ ask[c].tenant \in connected
          /\ conn' = [conn EXCEPT ![c] = "open"]
          /\ UNCHANGED answers
       \/ /\ conn' = [conn EXCEPT ![c] = "nil"]
          /\ answers' = [answers EXCEPT ![c] =
                            Append(@, IF ask[c].tenant \in connected THEN 503 ELSE 404)]
    /\ UNCHANGED <<service, shared, connected, table, issued, ask, effect, foreign>>

DBSteps == {"count", "find", "first", "firstOrOutage", "ping", "insert", "update",
            "updateOne", "upsert", "delete", "deleteAnyway", "deleteOrOutage"}

\* dbConn.ORM of a nil dbConn panics; Recover finds the response written.
UseNil(c) ==
    /\ At(c, DBSteps) /\ ~ Connected(c)
    /\ step' = [step EXCEPT ![c] = Len(ask[c].plan) + 1]
    /\ effect' = [effect EXCEPT ![c] = "panicked"]
    /\ UNCHANGED <<service, shared, connected, table, issued, ask, conn, answers, foreign>>

\* The database is out of reach, closed, or the request's context has ended.
FailDB(c) ==
    /\ At(c, DBSteps) /\ Connected(c)
    /\ Answer(c, IF At(c, {"firstOrOutage"}) THEN 404 ELSE IF At(c, {"ping"}) THEN 503 ELSE 500)
    /\ UNCHANGED <<service, shared, connected, table, issued, ask, conn, effect, foreign>>

\* Orders are filtered by their tenant; products are not, where a tenant has a
\* database of its own; tasks and dashboards have no tenant.
Visible(c, id) ==
    CASE service = "orders"   -> table[id] = ask[c].tenant
      [] service = "products" -> table[id] \in (IF shared THEN Tenants ELSE {ask[c].tenant})
      [] OTHER                -> table[id] # Absent

ReadRows(c) ==
    /\ At(c, {"count", "find", "ping"}) /\ Connected(c)
    /\ Proceed(c)
    /\ UNCHANGED <<service, shared, connected, table, issued, ask, conn, effect, foreign>>

ReadRow(c) ==
    /\ At(c, {"first", "firstOrOutage"}) /\ Connected(c)
    /\ IF Visible(c, ask[c].id) THEN Proceed(c) ELSE Answer(c, 404)
    /\ UNCHANGED <<service, shared, connected, table, issued, ask, conn, effect, foreign>>

Writes(c, what, id, owner) ==
    /\ effect' = [effect EXCEPT ![c] = what]
    /\ foreign' = (foreign \/ table[id] \notin {Absent, ask[c].tenant})
    /\ table' = [table EXCEPT ![id] = owner]

\* A database gives out no id twice, not even that of a deleted row (gorm.Model,
\* ObjectID); a dashboard's uid is free again.
TakenIds == IF service = "dashboards" THEN {i \in Rows : table[i] # Absent} ELSE issued

\* createOrder sets the tenant itself, whatever the body says.
InsertInto(c) ==
    /\ At(c, {"insert"}) /\ Connected(c)
    /\ \E id \in Rows \ TakenIds :
        Writes(c, "created", id, ask[c].tenant) /\ issued' = issued \cup {id}
    /\ Proceed(c)
    /\ UNCHANGED <<service, shared, connected, ask, conn>>

\* Updates by the key of the row that First found; nobody asks how many rows
\* it changed, and the row may be gone.
UpdateFound(c) ==
    /\ At(c, {"update"}) /\ Connected(c)
    /\ IF table[ask[c].id] = Absent
       THEN UNCHANGED <<table, effect, foreign>>
       ELSE Writes(c, "updated", ask[c].id, table[ask[c].id])
    /\ Proceed(c)
    /\ UNCHANGED <<service, shared, connected, issued, ask, conn>>

\* Grafana's update creates what is not there.
Upsert(c) ==
    /\ At(c, {"upsert"}) /\ Connected(c)
    /\ Writes(c, "updated", ask[c].id, ask[c].tenant)
    /\ Proceed(c)
    /\ UNCHANGED <<service, shared, connected, issued, ask, conn>>

Change(c, to) ==
    IF to = Absent THEN Writes(c, "deleted", ask[c].id, Absent)
                   ELSE Writes(c, "updated", ask[c].id, to)

\* Bug: the row is found by its id alone.
ChangeRowOfAnyone(c) ==
    /\ At(c, {"updateOne", "delete"}) /\ Connected(c)
    /\ IF table[ask[c].id] # Absent
       THEN Change(c, IF At(c, {"delete"}) THEN Absent ELSE table[ask[c].id]) /\ Proceed(c)
       ELSE UNCHANGED <<table, effect, foreign>> /\ Answer(c, 404)
    /\ UNCHANGED <<service, shared, connected, issued, ask, conn>>

\* One statement that tells how many rows it matched.
ChangeRow(c) ==
    /\ At(c, {"updateOne", "delete"}) /\ Connected(c)
    /\ IF Visible(c, ask[c].id)
       THEN Change(c, IF At(c, {"delete"}) THEN Absent ELSE table[ask[c].id]) /\ Proceed(c)
       ELSE UNCHANGED <<table, effect, foreign>> /\ Answer(c, 404)
    /\ UNCHANGED <<service, shared, connected, issued, ask, conn>>

\* deleteTask does not ask; Grafana's refusal of what is not there is a 500.
DeleteRowAnyway(c) ==
    /\ At(c, {"deleteAnyway", "deleteOrOutage"})
    /\ IF table[ask[c].id] # Absent
       THEN Writes(c, "deleted", ask[c].id, Absent) /\ Proceed(c)
       ELSE /\ UNCHANGED <<table, effect, foreign>>
            /\ IF At(c, {"deleteAnyway"}) THEN Proceed(c) ELSE Answer(c, 500)
    /\ UNCHANGED <<service, shared, connected, issued, ask, conn>>

HandlerStep(c) ==
    \/ CheckParameters(c) \/ Bind(c) \/ ResolveConnection(c) \/ ResolveTenantDB(c)
    \/ UseNil(c) \/ FailDB(c) \/ ReadRows(c) \/ ReadRow(c)
    \/ InsertInto(c) \/ UpdateFound(c) \/ Upsert(c) \/ ChangeRow(c) \/ DeleteRowAnyway(c)

HandlersNext ==
    \/ CloseConnections
    \/ \E c \in Clients :
        \/ \E plan \in Plans(service), t \in Tenants, id \in Rows : Receive(c, plan, t, id)
        \/ HandlerStep(c)

HandlersSpec == HandlersInit /\ [][HandlersNext]_handlerVars
-----------------------------------------------------------------------------
RefusedByTenantDB(c) == conn[c] = "nil"
Said(c) == answers[c][Len(answers[c])]

AnswersTell ==
    \A c \in Clients : step[c] > 0 /\ Ended(c) /\ ~ RefusedByTenantDB(c) =>
        /\ Len(answers[c]) = 1
        /\ Said(c) = 201 => effect[c] = "created"
        /\ Said(c) \in {400, 404, 503} => effect[c] = "none"
        /\ Said(c) = 200 /\ ask[c].plan \in {DeleteOrder, DeleteProduct} => effect[c] = "deleted"
        /\ Said(c) = 200 /\ ask[c].plan = UpdateProduct => effect[c] = "updated"

TenantsApart == service = "orders" \/ (service = "products" /\ ~ shared) => ~ foreign

\* An answer tells what was done, whatever other handlers and a shutdown do in
\* between: 201 is one new row; a refusal changed nothing; of two that delete
\* one row one is told so; an update of a product changed it.  (An order's
\* or task's update may be told 200 when its row is gone, and a task's
\* delete always is.)  A handler answers once, but for one that tenantDB
\* refused.  And none changes a row of another tenant, although an order is
\* updated by its key alone and two tenants may share a database; products
\* rely on a database of their own (multi_tenant_service.go:185, 215, 237;
\* mongodb_service.go:243, 275).
AnswersAreTrue == AnswersTell /\ TenantsApart

\* What the comment of tenantDB says: the handlers are guarded against a
\* connection that is missing or not initialized.
NilIsGuarded == \A c \in Clients : effect[c] # "panicked"
=============================================================================
