----------------------------- MODULE DiskQueue -----------------------------
(***************************************************************************)
(* The SQLite-backed queue of buffer/queue.py, one action per SQL          *)
(* statement.  "table" and "seq" are what is committed (the rows and the   *)
(* AUTOINCREMENT counter of sqlite_sequence); "view" and "viewSeq" are     *)
(* what the one connection sees inside its open transaction.  A crash, or  *)
(* an sqlite3.Error that ends the daemon, forgets the open transaction.    *)
(* Time is the host's wall clock (time.time()), which an operator or NTP   *)
(* may set back; the unit is the tick of the model.                        *)
(***************************************************************************)
EXTENDS QueueRows

CONSTANTS MaxRows,      \* max_rows
          MaxAge,       \* max_age
          PushLag,      \* longest time from the collection of a payload to its push
          Batch,        \* the limit drain passes to peek
          MaxStepBack,  \* how far the wall clock may be set back, 0 for never
          MaxClock,     \* bound: the last time of the model
          MaxId         \* bound: the number of rows ever inserted

ASSUME DiskQueueAssumption ==
    /\ MaxRows \in Nat /\ MaxAge \in Nat /\ PushLag \in Nat /\ Batch \in Nat
    /\ MaxStepBack \in Nat /\ MaxClock \in Nat /\ MaxId \in Nat

VARIABLES table, seq,     \* committed rows, committed AUTOINCREMENT counter
          view, viewSeq,  \* the same, as the connection sees them
          pc,             \* where the caller is in push, peek or ack
          stamp,          \* "ts" of the payload that is being handed over
          batch,          \* rows the last peek returned
          clock,          \* time.time()
          steady          \* history: the clock was never set back

db   == <<table, seq>>
conn == <<view, viewSeq>>
vars == <<table, seq, view, viewSeq, pc, stamp, batch, clock, steady>>

States == {"idle", "offered", "inserted", "aged", "trimmed", "peeked", "acked"}

TypeOK ==
    /\ table \subseteq Row /\ view \subseteq Row /\ batch \subseteq Row
    /\ seq \in Nat /\ viewSeq \in Nat
    /\ pc \in States
    /\ stamp \in Nat /\ clock \in Nat /\ steady \in BOOLEAN

Init ==
    /\ table = {} /\ seq = 0
    /\ view = {} /\ viewSeq = 0
    /\ pc = "idle" /\ stamp = 0 /\ batch = {}
    /\ clock = 0 /\ steady = TRUE

-----------------------------------------------------------------------------
\* push(payload)

\* The scheduler stamps a payload; the transport then spends its attempts on it.
Offer ==
    /\ pc = "idle" /\ viewSeq < MaxId
    /\ pc' = "offered" /\ stamp' = clock
    /\ UNCHANGED <<db, conn, batch, clock, steady>>

\* Mutant: the keys start at 0.
InsertFromZero ==
    /\ pc = "offered"
    /\ viewSeq' = viewSeq + 1
    /\ view' = view \cup {[id |-> viewSeq, ts |-> stamp]}
    /\ pc' = "inserted"
    /\ UNCHANGED <<db, stamp, batch, clock, steady>>

\* INSERT opens the transaction.
Insert ==
    /\ pc = "offered"
    /\ viewSeq' = viewSeq + 1
    /\ view' = view \cup {[id |-> viewSeq + 1, ts |-> stamp]}
    /\ pc' = "inserted"
    /\ UNCHANGED <<db, stamp, batch, clock, steady>>

\* _trim: DELETE ... WHERE ts < cutoff, with cutoff read off the clock here.
DeleteAged ==
    /\ pc = "inserted"
    /\ view' = Unaged(view, clock - MaxAge)
    /\ pc' = "aged"
    /\ UNCHANGED <<db, viewSeq, stamp, batch, clock, steady>>

\* _trim: count the rows and delete the oldest ones beyond max_rows.
DeleteOverflow ==
    /\ pc = "aged"
    /\ view' = Capped(view, MaxRows)
    /\ pc' = "trimmed"
    /\ UNCHANGED <<db, viewSeq, stamp, batch, clock, steady>>

\* commit() at the end of push and of ack.
Commit ==
    /\ pc \in {"trimmed", "acked"}
    /\ table' = view /\ seq' = viewSeq
    /\ pc' = "idle"
    /\ UNCHANGED <<conn, stamp, batch, clock, steady>>

-----------------------------------------------------------------------------
\* peek(limit) and ack(row_ids), as drain uses them

Peek ==
    /\ pc = "idle"
    /\ batch' = Oldest(view, Batch)
    /\ pc' = IF batch' = {} THEN "idle" ELSE "peeked"
    /\ UNCHANGED <<db, conn, stamp, clock, steady>>

\* Mutant: drain goes on after a failure, and acks what went through.
AckAny ==
    /\ pc = "peeked"
    /\ \E delivered \in SUBSET batch :
          /\ view' = {r \in view : r.id \notin IdsOf(delivered)}
          /\ pc' = IF delivered = {} THEN "idle" ELSE "acked"
    /\ batch' = {}
    /\ UNCHANGED <<db, viewSeq, stamp, clock, steady>>

\* drain hands ack the rows delivered before the first failure; an empty
\* list returns at once and opens no transaction.
Ack ==
    /\ pc = "peeked"
    /\ \E n \in 0 .. Cardinality(batch) :
          LET delivered == Oldest(batch, n) IN
          /\ view' = {r \in view : r.id \notin IdsOf(delivered)}
          /\ pc' = IF delivered = {} THEN "idle" ELSE "acked"
    /\ batch' = {}
    /\ UNCHANGED <<db, viewSeq, stamp, clock, steady>>

-----------------------------------------------------------------------------
\* The process and the host

\* The process dies and is started again on the same file.
Crash ==
    /\ pc /= "idle"
    /\ view' = table /\ viewSeq' = seq
    /\ pc' = "idle" /\ stamp' = 0 /\ batch' = {}
    /\ UNCHANGED <<db, clock, steady>>

\* A payload that was offered is inserted and trimmed within PushLag.
Tick ==
    /\ clock < MaxClock
    /\ pc \in {"offered", "inserted"} => clock < stamp + PushLag
    /\ clock' = clock + 1
    /\ UNCHANGED <<db, conn, pc, stamp, batch, steady>>

SetBack ==
    /\ \E d \in 1 .. MaxStepBack : d <= clock /\ clock' = clock - d
    /\ steady' = FALSE
    /\ UNCHANGED <<db, conn, pc, stamp, batch>>

Next ==
    \/ Offer \/ Insert \/ DeleteAged \/ DeleteOverflow \/ Commit
    \/ Peek \/ Ack
    \/ Crash \/ Tick \/ SetBack

Spec == Init /\ [][Next]_vars

-----------------------------------------------------------------------------
\* Properties

\* The file never holds more than max_rows rows, also not after a crash in
\* the middle of a push: INSERT, the trim and ack only ever show in the file
\* through the commit that ends them (queue.py 43-49, 70-84).
Bounded == Cardinality(table) <= MaxRows

\* A payload handed to push() is in the file when push() returns, whatever
\* the backlog: the trim never eats the row that it makes room for, not even
\* when the delivery attempts before it took as long as the age cap allows
\* (queue.py 43-49 and 71-82).  For a cap of at least one row and PushLag <= MaxAge.
ParkedRowSurvives ==
    [][seq' > seq => seq' \in IdsOf(table')]_vars

\* The queue keeps the promise of BoundedFifo, "oldest rows are dropped
\* first" (queue.py 5-6): a crash is a stutter, a committed push parks
\* exactly one payload and, on a clock that was never set back, drops only
\* the oldest; a committed ack settles a prefix on any clock.
Fifo == INSTANCE BoundedFifo
            WITH Cap <- MaxRows, held <- IdsOf(table), arrived <- seq

KeepsPromise == Fifo!Spec

-----------------------------------------------------------------------------
\* The inductive invariant behind these properties

\* What the transaction will have inserted, by the time it commits.
NewRow == [id |-> seq + 1, ts |-> stamp]

Rows == table \cup {NewRow}

Pushing == {"inserted", "aged", "trimmed"}

\* The open transaction: nothing, a push half done, or an ack half done.
Transaction ==
    /\ pc \in {"idle", "offered", "peeked"} => view = table /\ viewSeq = seq
    /\ pc = "inserted" => view = Rows
    /\ pc \in Pushing => view \subseteq Rows /\ viewSeq = seq + 1
    /\ pc = "trimmed" => Cardinality(view) <= MaxRows
    /\ pc = "acked" => view \subseteq table /\ viewSeq = seq

\* Committed rows have distinct keys, all of them handed out.
Keys == Keyed(table) /\ \A r \in table : r.id <= seq

IInv ==
    /\ TypeOK /\ Transaction /\ Keys /\ Bounded
    /\ IsFiniteSet(table) /\ IsFiniteSet(view)
    /\ pc = "peeked" => batch = Oldest(table, Batch)

\* While a push runs, the row it inserted is still there.
NewRowKept ==
    /\ pc \in {"offered", "inserted"} => clock <= stamp + PushLag
    /\ pc \in Pushing => NewRow \in view

\* An ack cuts off a prefix.  With a clock that was never set back, keys and
\* stamps run the same way, so the age cap and the row cap cut off one too.
InOrder ==
    /\ pc = "acked" => KeepsNewest(view, table)
    /\ steady =>
          /\ \A r \in table : r.ts <= clock
          /\ \A r, s \in table : r.id < s.id => r.ts <= s.ts
          /\ pc \in {"offered"} \cup Pushing =>
                stamp <= clock /\ \A r \in table : r.ts <= stamp
          /\ pc \in Pushing => KeepsNewest(view, Rows)
=============================================================================
