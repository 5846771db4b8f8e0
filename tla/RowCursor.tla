----------------------------- MODULE RowCursor -----------------------------
(***************************************************************************)
(* The queries that read a cursor row by row: postgres's ExecuteRawQuery,   *)
(* whose scan buffers come from a pool shared by all queries, and           *)
(* GetRunningQueries, and mongo's ExecuteRawQuery, which have none.  A      *)
(* cell's value is the query it came from.                                  *)
(***************************************************************************)
EXTENDS Integers, Sequences, FiniteSets

CONSTANTS Queries,        \* concurrent queries
          Introspecting,  \* those of GetRunningQueries
          Documents,      \* mongo's
          Buffers,        \* scan buffers that may be allocated
          RowCount        \* rows each query has at the server

ASSUME RowAssumption ==
    /\ RowCount \in Nat /\ Introspecting \cup Documents \subseteq Queries
    /\ Cardinality(Buffers) >= Cardinality(Queries \ (Introspecting \cup Documents))

VARIABLES query,   \* where each query is
          free,    \* buffers in rawQueryPool
          held,    \* the buffer a query holds; none: its own variables
          cell,    \* what was last scanned into each buffer
          read,    \* rows the cursor has delivered
          rows,    \* the result built so far, the origin of each row
          reply    \* what the query returned

rowVars == <<query, free, held, cell, read, rows, reply>>

\* What scans into variables of its own, and whose error comes with the rows
\* before it.
ScansAlone(q) == q \in Introspecting \cup Documents
KeepsRows(q)  == q \in Documents

RowsTypeOK ==
    /\ query \in [Queries -> {"idle", "cursor", "buffer", "scanned", "built", "closed"}]
    /\ free \subseteq Buffers
    /\ held \in [Queries -> SUBSET Buffers]
    /\ cell \in [Buffers -> Queries \cup {"nil"}]
    /\ read \in [Queries -> 0..RowCount]
    /\ \A q \in Queries : rows[q] \in Seq(Queries)
    /\ \A q \in Queries : reply[q].err \in BOOLEAN

RowsInit ==
    /\ query = [q \in Queries |-> "idle"]
    /\ free = Buffers
    /\ held = [q \in Queries |-> {}]
    /\ cell = [b \in Buffers |-> "nil"]
    /\ read = [q \in Queries |-> 0]
    /\ rows = [q \in Queries |-> <<>>]
    /\ reply = [q \in Queries |-> [err |-> FALSE, rows |-> <<>>]]
-----------------------------------------------------------------------------
QueryGoes(q, from, to) == query[q] = from /\ query' = [query EXCEPT ![q] = to]

\* QueryContext or Find: a cursor, or an error and nothing to close.
OpenCursor(q) ==
    /\ QueryGoes(q, "idle", "cursor")
    /\ UNCHANGED <<free, held, cell, read, rows, reply>>

RowsReply(q, err, result) == reply' = [reply EXCEPT ![q] = [err |-> err, rows |-> result]]

CursorFails(q) ==
    /\ QueryGoes(q, "idle", "closed")
    /\ RowsReply(q, TRUE, <<>>)
    /\ UNCHANGED <<free, held, cell, read, rows>>

\* rows.Next: a buffer for the next row ...
NextRow(q) ==
    /\ read[q] < RowCount
    /\ QueryGoes(q, "cursor", "buffer")
    /\ IF ScansAlone(q)
       THEN UNCHANGED <<free, held>>
       ELSE \E b \in free : free' = free \ {b} /\ held' = [held EXCEPT ![q] = {b}]
    /\ read' = [read EXCEPT ![q] = @ + 1]
    /\ UNCHANGED <<cell, rows, reply>>

\* ... every cell of which is overwritten.
ScanRow(q) ==
    /\ QueryGoes(q, "buffer", "scanned")
    /\ cell' = [b \in Buffers |-> IF b \in held[q] THEN q ELSE cell[b]]
    /\ UNCHANGED <<free, held, read, rows, reply>>

\* The buffer goes back as it is, and the rows so far are not returned.
ScanFails(q) ==
    /\ QueryGoes(q, "buffer", "closed")
    /\ free' = free \cup held[q]
    /\ held' = [held EXCEPT ![q] = {}]
    /\ RowsReply(q, TRUE, <<>>)
    /\ UNCHANGED <<cell, read, rows>>

CopiedRow(q) == IF held[q] = {} THEN q ELSE CHOOSE v \in {cell[b] : b \in held[q]} : TRUE

AppendRow(q) ==
    rows' = [rows EXCEPT ![q] = IF CopiedRow(q) \in Queries THEN Append(@, CopiedRow(q)) ELSE @]

\* Bug: the buffer is back in the pool before its values are copied.
ReturnBufferFirst(q) ==
    /\ QueryGoes(q, "scanned", "built")
    /\ AppendRow(q)
    /\ free' = free \cup held[q]
    /\ UNCHANGED <<held, cell, read, reply>>

BuildRow(q) ==
    /\ QueryGoes(q, "scanned", "built")
    /\ AppendRow(q)
    /\ UNCHANGED <<free, held, cell, read, reply>>

\* The values are cleared before the buffer is anyone else's.
ReturnBuffer(q) ==
    /\ QueryGoes(q, "built", "cursor")
    /\ cell' = [b \in Buffers |-> IF b \in held[q] THEN "nil" ELSE cell[b]]
    /\ free' = free \cup held[q]
    /\ held' = [held EXCEPT ![q] = {}]
    /\ UNCHANGED <<read, rows, reply>>

\* rows.Next returned false: at the end, or for an error that rows.Err, or
\* the deferred Close, reports; mongo's version returns the rows so far too.
EndRows(q) ==
    /\ QueryGoes(q, "cursor", "closed")
    /\ \E err \in BOOLEAN :
        /\ read[q] < RowCount => err
        /\ RowsReply(q, err, IF err /\ ~ KeepsRows(q) THEN <<>> ELSE rows[q])
    /\ UNCHANGED <<free, held, cell, read, rows>>

RowsNext ==
    \E q \in Queries :
        \/ OpenCursor(q) \/ CursorFails(q)
        \/ NextRow(q) \/ ScanRow(q) \/ ScanFails(q)
        \/ BuildRow(q) \/ ReturnBuffer(q) \/ EndRows(q)

RowsSpec == RowsInit /\ [][RowsNext]_rowVars
-----------------------------------------------------------------------------
\* A result without an error has every row, each with its own values, whatever
\* buffers other queries put back meanwhile (postgres.go:325, 338, 359); one
\* with an error has none, but for mongo's, which has the rows before it.
RowsAreTheQuerys ==
    \A q \in Queries : query[q] = "closed" =>
        /\ \A i \in DOMAIN reply[q].rows : reply[q].rows[i] = q
        /\ ~ reply[q].err => Len(reply[q].rows) = RowCount
        /\ reply[q].err /\ ~ KeepsRows(q) => reply[q].rows = <<>>
=============================================================================
