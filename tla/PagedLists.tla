----------------------------- MODULE PagedLists -----------------------------
(***************************************************************************)
(* The lists that are read page by page: the users, kept in memory behind a *)
(* lock, the tasks (postgres), a tenant's products (mongo) and grafana's    *)
(* dashboards, and a client that walks through one of them while others add *)
(* to it and delete from it.  An entry is its id; ids grow.  int has a      *)
(* maximum, scaled to WordMax, and so have the limits on a page.            *)
(***************************************************************************)
EXTENDS Integers, Sequences

CONSTANTS StartEntries,    \* entries when the walk begins
          MaxEntries,      \* maxUsers, and a bound on the other lists
          DefaultPerPage, MaxPerPage, GrafanaPerPage, \* 10, 100 and 50
          WordMax          \* math.MaxInt

ASSUME PagedAssumption ==
    /\ {StartEntries, MaxEntries, DefaultPerPage, MaxPerPage, GrafanaPerPage, WordMax} \subseteq Nat
    /\ 0 < DefaultPerPage /\ DefaultPerPage <= MaxPerPage
    /\ 0 < GrafanaPerPage /\ GrafanaPerPage <= MaxPerPage
    /\ StartEntries <= MaxEntries /\ 0 < MaxEntries
    /\ MaxEntries + 2 * MaxPerPage <= WordMax + 1

VARIABLES listing,   \* which list it is
          perPage,   \* per_page as the client sends it
          entries,   \* the list as a page shows it
          usersIdx,  \* where each user is in entries
          nextEntry, \* the next id of a table
          walk,      \* the client: its state, the page it asks for
          total,     \* the count that will be told with the page
          lastPage,  \* TotalPages, as last told
          seen,      \* the entries of the pages so far
          began,     \* history: the list when the walk began
          disturbed  \* history: it has changed since

pagedVars == <<listing, perPage, entries, usersIdx, nextEntry, walk, total,
               lastPage, seen, began, disturbed>>

Tables   == {"tasks", "products"}
Listings == Tables \cup {"users", "dashboards"}
Asked    == -1..(MaxPerPage + 1)
IdList   == UNION {[1..n -> 1..(MaxEntries + 1)] : n \in 0..MaxEntries}

PagedTypeOK ==
    /\ listing \in Listings
    /\ perPage \in Asked
    /\ Len(entries) <= MaxEntries
    /\ usersIdx \in IdList
    /\ nextEntry \in 1..(MaxEntries + 1)
    /\ walk \in [at : {"idle", "ask", "counted", "end", "refused"}, page : 1..WordMax]
    /\ total \in 0..MaxEntries
    /\ lastPage \in 0..MaxEntries
    /\ disturbed \in BOOLEAN

Newest(n) == [i \in 1..n |-> n + 1 - i]
Oldest(n) == [i \in 1..n |-> i]

PagedInit ==
    /\ listing \in Listings
    /\ perPage \in Asked
    /\ entries = IF listing \in Tables THEN Newest(StartEntries) ELSE Oldest(StartEntries)
    /\ usersIdx = Oldest(StartEntries)
    /\ nextEntry = StartEntries + 1
    /\ walk = [at |-> "idle", page |-> 1]
    /\ total = 0
    /\ lastPage = 0
    /\ seen = <<>>
    /\ began = <<>>
    /\ disturbed = FALSE
-----------------------------------------------------------------------------
\* What the handlers make of per_page.
UsersPerPage(n)    == IF n \in 1..MaxPerPage THEN n ELSE DefaultPerPage
GetPerPage(n)      == IF n < 1 THEN DefaultPerPage ELSE IF n > MaxPerPage THEN MaxPerPage ELSE n
DashboardsPerPage(n) == IF n \in 1..MaxPerPage THEN n ELSE GrafanaPerPage

PerPage == CASE listing = "users"      -> UsersPerPage(perPage)
             [] listing \in Tables     -> GetPerPage(perPage)
             [] listing = "dashboards" -> DashboardsPerPage(perPage)

\* int arithmetic; only listUsers can do without the clamp, after its guard.
Wrap(n) == ((n + WordMax + 1) % (2 * (WordMax + 1))) - (WordMax + 1)
ClampPage(page) ==
    IF listing # "users" /\ page > WordMax \div PerPage THEN WordMax \div PerPage ELSE page
GetOffset(page) == Wrap((ClampPage(page) - 1) * PerPage)

CalculateMeta(n)  == (n \div PerPage) + (IF n % PerPage > 0 THEN 1 ELSE 0)

Slice(page) ==
    LET start == GetOffset(page)
        until == IF Wrap(start + PerPage) > Len(entries) THEN Len(entries) ELSE Wrap(start + PerPage)
    IN  SubSeq(entries, start + 1, until)
-----------------------------------------------------------------------------
BeginWalk ==
    /\ walk.at = "idle"
    /\ walk' = [walk EXCEPT !.at = "ask"]
    /\ began' = entries
    /\ disturbed' = FALSE
    /\ UNCHANGED <<listing, perPage, entries, usersIdx, nextEntry, total, lastPage, seen>>

\* A client that asks for a page nobody can have.
BeginFarWalk ==
    /\ walk.at = "idle"
    /\ walk' = [at |-> "ask", page |-> WordMax]
    /\ began' = entries
    /\ disturbed' = FALSE
    /\ UNCHANGED <<listing, perPage, entries, usersIdx, nextEntry, total, lastPage, seen>>

\* The page and its meta arrive; the client goes on to the last page it was told.
ShowPage(n) ==
    /\ seen' = seen \o Slice(walk.page)
    /\ lastPage' = CalculateMeta(n)
    /\ walk' = IF walk.page < CalculateMeta(n)
               THEN [at |-> "ask", page |-> walk.page + 1]
               ELSE [walk EXCEPT !.at = "end"]
    /\ UNCHANGED <<listing, perPage, entries, usersIdx, nextEntry, total, began, disturbed>>

\* listUsers, under the lock; listDashboards, on what grafana sent.
ListUsers ==
    /\ listing = "users" /\ walk.at = "ask"
    /\ walk.page <= Len(entries)
    /\ ShowPage(Len(entries))

RefusePage ==
    /\ listing = "users" /\ walk.at = "ask"
    /\ walk.page > Len(entries)
    /\ walk' = [walk EXCEPT !.at = "refused"]
    /\ UNCHANGED <<listing, perPage, entries, usersIdx, nextEntry, total, lastPage, seen, began, disturbed>>

ListDashboards ==
    /\ listing = "dashboards" /\ walk.at = "ask"
    /\ ShowPage(Len(entries))

\* listTasks and listProductsByTenant count first and read then, without a
\* transaction around the two.
CountRows ==
    /\ listing \in Tables /\ walk.at = "ask"
    /\ walk' = [walk EXCEPT !.at = "counted"]
    /\ total' = Len(entries)
    /\ UNCHANGED <<listing, perPage, entries, usersIdx, nextEntry, lastPage, seen, began, disturbed>>

FindRows ==
    /\ walk.at = "counted"
    /\ ShowPage(total)
-----------------------------------------------------------------------------
\* Bug: the id is the number of users there were.
CreateUserOffByOne ==
    /\ listing = "users" /\ Len(entries) < MaxEntries
    /\ entries' = Append(entries, Len(entries))
    /\ usersIdx' = Append(usersIdx, Len(entries) + 1)
    /\ disturbed' = TRUE
    /\ UNCHANGED <<listing, perPage, nextEntry, walk, total, lastPage, seen, began>>

\* createUser, under the lock, unless there are maxUsers.
CreateUser ==
    /\ listing = "users" /\ Len(entries) < MaxEntries
    /\ entries' = Append(entries, Len(entries) + 1)
    /\ usersIdx' = Append(usersIdx, Len(entries) + 1)
    /\ disturbed' = TRUE
    /\ UNCHANGED <<listing, perPage, nextEntry, walk, total, lastPage, seen, began>>

\* updateUser replaces the record the index names and gives it the id.
UpdateUser(id) ==
    /\ listing = "users" /\ id \in DOMAIN usersIdx
    /\ entries' = [entries EXCEPT ![usersIdx[id]] = id]
    /\ disturbed' = TRUE
    /\ UNCHANGED <<listing, perPage, usersIdx, nextEntry, walk, total, lastPage, seen, began>>

\* A new row comes first in a list by descending id.
InsertRow ==
    /\ listing # "users" /\ nextEntry <= MaxEntries
    /\ entries' = IF listing \in Tables THEN <<nextEntry>> \o entries ELSE Append(entries, nextEntry)
    /\ nextEntry' = nextEntry + 1
    /\ disturbed' = TRUE
    /\ UNCHANGED <<listing, perPage, usersIdx, walk, total, lastPage, seen, began>>

\* No two rows have the same id.
DeleteRow(id) ==
    /\ listing # "users"
    /\ \E i \in DOMAIN entries :
          /\ entries[i] = id
          /\ entries' = SubSeq(entries, 1, i - 1) \o SubSeq(entries, i + 1, Len(entries))
    /\ disturbed' = TRUE
    /\ UNCHANGED <<listing, perPage, usersIdx, nextEntry, walk, total, lastPage, seen, began>>

PagedNext ==
    \/ BeginWalk \/ BeginFarWalk
    \/ ListUsers \/ RefusePage \/ ListDashboards \/ CountRows \/ FindRows
    \/ CreateUser \/ InsertRow
    \/ \E id \in 1..MaxEntries : UpdateUser(id) \/ DeleteRow(id)

PagedSpec == PagedInit /\ [][PagedNext]_pagedVars
-----------------------------------------------------------------------------
FarWalk == walk.page = WordMax

\* A client that follows the pages to the last one it is told has seen every
\* user there was when it began, in order and once, whoever is created or
\* updated meanwhile (users_service.go:120, 170); the other lists, where a new
\* row moves the others to later pages and the total is counted apart, promise
\* that of a walk nobody disturbs.  A page beyond every list shows nothing,
\* however large its number (response.go:65, grafana_service.go:162).
WalkCoversList ==
    /\ walk.at = "end" /\ ~ FarWalk =>
        \/ listing = "users" /\ SubSeq(seen, 1, Len(began)) = began
                             /\ \A i \in DOMAIN seen : seen[i] = i
        \/ listing # "users" /\ (disturbed \/ seen = began)
    /\ walk.at = "refused" => FarWalk \/ began = <<>>
    /\ FarWalk => seen = <<>>
=============================================================================
