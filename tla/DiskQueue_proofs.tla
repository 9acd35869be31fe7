-------------------------- MODULE DiskQueue_proofs --------------------------
(***************************************************************************)
(* The queue stays bounded and never loses the row it is parking whatever  *)
(* the wall clock does, and implements BoundedFifo.                        *)
(***************************************************************************)
EXTENDS DiskQueue, QueueRows_proofs

\* The inserted row is a row, and its key is new.
LEMMA NewRowIsNew ==
    ASSUME TypeOK, Keys, IsFiniteSet(table)
    PROVE  /\ NewRow \in Row /\ Rows \subseteq Row /\ IsFiniteSet(Rows)
           /\ Keyed(Rows)
           /\ \A r \in Rows : r /= NewRow => r.id < NewRow.id
<1>1. NewRow \in Row /\ table \subseteq Row /\ Rows \subseteq Row
    BY DEF TypeOK, NewRow, Row, Rows
<1>2. IsFiniteSet(Rows)
    BY FS_AddElement DEF Rows
<1>3. \A r \in table : r.id < NewRow.id
    BY <1>1 DEF Keys, NewRow, Row, TypeOK
<1>4. Keyed(Rows)
    BY <1>1, <1>3 DEF Keys, Keyed, Rows, Row
<1>. QED  BY <1>1, <1>2, <1>3, <1>4 DEF Rows

\* An ack deletes rows of the batch only, and the keys name them exactly.
LEMMA AckDeletesPrefix ==
    ASSUME TypeOK, Keys, IsFiniteSet(table), view = table,
           batch = Oldest(table, Batch), NEW n \in Int
    PROVE  LET delivered == Oldest(batch, n)
               left      == {r \in view : r.id \notin IdsOf(delivered)}
           IN  /\ left = table \ delivered
               /\ KeepsNewest(left, table)
               /\ delivered = {} => left = table
<1>. DEFINE delivered == Oldest(batch, n)
            left      == {r \in view : r.id \notin IdsOf(delivered)}
<1>1. delivered \subseteq batch /\ batch \subseteq table /\ table \subseteq Row
    BY DEF Oldest, TypeOK
<1>2. left = table \ delivered
    BY <1>1 DEF IdsOf, Keys, Keyed
<1>3. KeepsNewest(table \ batch, table)
    BY <1>1, OldestIsPrefix, DiskQueueAssumption
<1>4. KeepsNewest(batch \ delivered, batch)
    BY <1>1, OldestIsPrefix, FS_Subset
<1>5. KeepsNewest(table \ delivered, table)
    BY <1>1, <1>3, <1>4, PrefixOfPrefix
<1>. QED  BY <1>2, <1>5

-----------------------------------------------------------------------------
\* TypeOK and Bounded

LEMMA InitIInv == Init => IInv
<1>. SUFFICES ASSUME Init PROVE IInv
    OBVIOUS
<1>1. IsFiniteSet({}) /\ Cardinality({}) = 0
    BY FS_EmptySet
<1>. QED
    BY <1>1, DiskQueueAssumption
    DEF Init, IInv, TypeOK, Transaction, Keys, Keyed, Bounded, States, Pushing

LEMMA NextIInv == IInv /\ [Next]_vars => IInv'
<1>. SUFFICES ASSUME IInv, [Next]_vars PROVE IInv'
    OBVIOUS
<1>. USE DiskQueueAssumption
<1>0. /\ TypeOK /\ Transaction /\ Keys /\ Bounded
      /\ IsFiniteSet(table) /\ IsFiniteSet(view)
      /\ pc = "peeked" => batch = Oldest(table, Batch)
    BY DEF IInv
<1>1. CASE Offer
    BY <1>0, <1>1
    DEF Offer, db, conn, IInv, TypeOK, Transaction, Keys, Bounded, States, Pushing
<1>2. CASE Insert
    <2>1. viewSeq = seq /\ view = table
        BY <1>0, <1>2 DEF Insert, Transaction
    <2>2. view' = Rows /\ viewSeq' = seq + 1 /\ pc' = "inserted"
        BY <1>2, <2>1 DEF Insert, Rows, NewRow
    <2>3. UNCHANGED <<table, seq, stamp, batch, clock, steady>>
        BY <1>2 DEF Insert, db
    <2>4. Rows \subseteq Row /\ IsFiniteSet(Rows) /\ Rows' = Rows
        BY <1>0, <2>3, NewRowIsNew DEF Rows, NewRow
    <2>. QED
        BY <1>0, <2>2, <2>3, <2>4
        DEF IInv, TypeOK, Transaction, Keys, Bounded, States, Pushing
<1>3. CASE DeleteAged
    <2>1. view' \subseteq view /\ IsFiniteSet(view') /\ pc' = "aged" /\ pc = "inserted"
        BY <1>0, <1>3, FS_Subset DEF DeleteAged, Unaged
    <2>2. UNCHANGED <<table, seq, viewSeq, stamp, batch, clock, steady>> /\ Rows' = Rows
        BY <1>3 DEF DeleteAged, db, Rows, NewRow
    <2>. QED
        BY <1>0, <2>1, <2>2
        DEF IInv, TypeOK, Transaction, Keys, Bounded, States, Pushing
<1>4. CASE DeleteOverflow
    <2>1. /\ view' \subseteq view /\ IsFiniteSet(view') /\ Cardinality(view') <= MaxRows
        BY <1>0, <1>4, CappedIsBounded DEF DeleteOverflow, TypeOK
    <2>2. pc' = "trimmed" /\ pc = "aged"
        BY <1>4 DEF DeleteOverflow
    <2>3. UNCHANGED <<table, seq, viewSeq, stamp, batch, clock, steady>> /\ Rows' = Rows
        BY <1>4 DEF DeleteOverflow, db, Rows, NewRow
    <2>. QED
        BY <1>0, <2>1, <2>2, <2>3
        DEF IInv, TypeOK, Transaction, Keys, Bounded, States, Pushing
<1>5. CASE Commit
    <2>1. /\ table' = view /\ seq' = viewSeq /\ pc' = "idle"
          /\ view' = view /\ viewSeq' = viewSeq
          /\ UNCHANGED <<stamp, batch, clock, steady>>
        BY <1>5 DEF Commit, conn
    <2>2. Keyed(view) /\ \A r \in view : r.id <= viewSeq
        <3>1. CASE pc = "trimmed"
            <4>1. view \subseteq Rows /\ viewSeq = seq + 1
                BY <1>0, <3>1 DEF Transaction, Pushing
            <4>. QED
                BY <1>0, <4>1, NewRowIsNew DEF Keyed, Keys, Rows, NewRow, TypeOK, Row
        <3>2. CASE pc = "acked"
            BY <1>0, <3>2 DEF Transaction, Keys, Keyed
        <3>. QED  BY <1>5, <3>1, <3>2 DEF Commit
    <2>3. Cardinality(view) <= MaxRows
        <3>1. CASE pc = "trimmed"
            BY <1>0, <3>1 DEF Transaction
        <3>2. CASE pc = "acked"
            <4>1. view \subseteq table
                BY <1>0, <3>2 DEF Transaction
            <4>2. Cardinality(view) <= Cardinality(table)
                BY <1>0, <4>1, FS_Subset
            <4>3. Cardinality(view) \in Nat /\ Cardinality(table) \in Nat
                BY <1>0, FS_CardinalityType
            <4>. QED  BY <1>0, <4>2, <4>3 DEF Bounded
        <3>. QED  BY <1>5, <3>1, <3>2 DEF Commit
    <2>. QED
        BY <1>0, <2>1, <2>2, <2>3
        DEF IInv, TypeOK, Transaction, Keys, Keyed, Bounded, States, Pushing
<1>6. CASE Peek
    <2>1. view = table /\ batch' = Oldest(table, Batch)
        BY <1>0, <1>6 DEF Peek, Transaction
    <2>2. batch' \subseteq table /\ pc' \in {"idle", "peeked"}
        BY <1>6, <2>1 DEF Peek, Oldest
    <2>3. UNCHANGED <<table, seq, view, viewSeq, stamp, clock, steady>> /\ viewSeq = seq
        BY <1>0, <1>6 DEF Peek, db, conn, Transaction
    <2>. QED
        BY <1>0, <2>1, <2>2, <2>3
        DEF IInv, TypeOK, Transaction, Keys, Bounded, States, Pushing
<1>7. CASE Ack
    <2>1. view = table /\ viewSeq = seq /\ batch = Oldest(table, Batch)
        BY <1>0, <1>7 DEF Ack, Transaction
    <2>2. PICK n \in 0 .. Cardinality(batch) :
              LET delivered == Oldest(batch, n) IN
              /\ view' = {r \in view : r.id \notin IdsOf(delivered)}
              /\ pc' = IF delivered = {} THEN "idle" ELSE "acked"
        BY <1>7 DEF Ack
    <2>3. view' \subseteq table /\ IsFiniteSet(view')
        BY <1>0, <2>1, <2>2, FS_Subset
    <2>4. pc' \in {"idle", "acked"} /\ (pc' = "idle" => view' = table)
        BY <1>0, <2>1, <2>2, AckDeletesPrefix
    <2>5. UNCHANGED <<table, seq, viewSeq, stamp, clock, steady>> /\ batch' = {}
        BY <1>7 DEF Ack, db
    <2>. QED
        BY <1>0, <2>1, <2>3, <2>4, <2>5
        DEF IInv, TypeOK, Transaction, Keys, Bounded, States, Pushing
<1>8. CASE Crash
    BY <1>0, <1>8
    DEF Crash, db, IInv, TypeOK, Transaction, Keys, Bounded, States, Pushing
<1>9. CASE Tick
    <2>1. /\ UNCHANGED <<table, seq, view, viewSeq, pc, stamp, batch>>
          /\ clock' \in Nat /\ steady' \in BOOLEAN
        BY <1>0, <1>9 DEF Tick, db, conn, TypeOK
    <2>2. Rows' = Rows
        BY <2>1 DEF Rows, NewRow
    <2>. QED  BY <1>0, <2>1, <2>2 DEF IInv, TypeOK, Transaction, Keys, Bounded
<1>10. CASE SetBack
    <2>1. PICK d \in 1 .. MaxStepBack : d <= clock /\ clock' = clock - d
        BY <1>10 DEF SetBack
    <2>2. clock' \in Nat
        BY <1>0, <2>1 DEF TypeOK
    <2>3. UNCHANGED <<table, seq, view, viewSeq, pc, stamp, batch>> /\ steady' = FALSE
        BY <1>10 DEF SetBack, db, conn
    <2>4. Rows' = Rows
        BY <2>3 DEF Rows, NewRow
    <2>. QED
        BY <1>0, <2>2, <2>3, <2>4 DEF IInv, TypeOK, Transaction, Keys, Bounded
<1>11. CASE UNCHANGED vars
    <2>1. Rows' = Rows
        BY <1>11 DEF vars, Rows, NewRow
    <2>. QED  BY <1>0, <1>11, <2>1 DEF vars, IInv, TypeOK, Transaction, Keys, Bounded
<1>. QED
    BY <1>1, <1>2, <1>3, <1>4, <1>5, <1>6, <1>7, <1>8, <1>9, <1>10, <1>11 DEF Next

\* IInv is an invariant.
THEOREM Invariance == Spec => []IInv
BY InitIInv, NextIInv, PTL DEF Spec

\* Every variable keeps its type: what a push, an ack, a crash or a clock
\* step leaves in the file and in the connection is rows, keys from 1 up.
THEOREM TypeCorrect == Spec => []TypeOK
<1>1. IInv => TypeOK
    BY DEF IInv
<1>. QED  BY <1>1, Invariance, PTL

\* The file never holds more than max_rows rows, for every cap, batch size,
\* backlog and behaviour of the wall clock (queue.py 43-49, 70-84).
THEOREM AlwaysBounded == Spec => []Bounded
<1>1. IInv => Bounded
    BY DEF IInv
<1>. QED  BY <1>1, Invariance, PTL

-----------------------------------------------------------------------------
\* ParkedRowSurvives

LEMMA InitNewRowKept == Init => NewRowKept
BY DEF Init, NewRowKept, Pushing

LEMMA NextNewRowKept ==
    ASSUME MaxRows > 0, PushLag <= MaxAge
    PROVE  IInv /\ NewRowKept /\ [Next]_vars => NewRowKept'
<1>. SUFFICES ASSUME IInv, NewRowKept, [Next]_vars PROVE NewRowKept'
    OBVIOUS
<1>. USE DiskQueueAssumption
<1>0. TypeOK /\ Transaction /\ Keys /\ IsFiniteSet(table) /\ IsFiniteSet(view)
    BY DEF IInv
<1>1. CASE Offer
    BY <1>0, <1>1 DEF Offer, NewRowKept, Pushing, TypeOK
<1>2. CASE Insert
    BY <1>0, <1>2 DEF Insert, db, NewRowKept, NewRow, Pushing, Transaction
<1>3. CASE DeleteAged
    <2>1. NewRow \in view /\ clock <= stamp + PushLag
        BY <1>3 DEF DeleteAged, NewRowKept, Pushing
    <2>2. NewRow \in view' /\ NewRow' = NewRow /\ pc' = "aged"
        BY <1>0, <1>3, <2>1 DEF DeleteAged, db, Unaged, NewRow, TypeOK
    <2>. QED  BY <2>2 DEF NewRowKept
<1>4. CASE DeleteOverflow
    <2>1. NewRow \in view /\ view \subseteq Rows /\ view \subseteq Row
        BY <1>0, <1>4 DEF DeleteOverflow, NewRowKept, Transaction, Pushing, TypeOK
    <2>2. \A r \in view : r /= NewRow => r.id < NewRow.id
        BY <1>0, <2>1, NewRowIsNew
    <2>3. NewRow \in Capped(view, MaxRows)
        BY <1>0, <2>1, <2>2, CappedKeepsLast
    <2>. QED  BY <1>4, <2>3 DEF DeleteOverflow, db, NewRowKept, NewRow
<1>5. CASE Commit
    BY <1>5 DEF Commit, NewRowKept, Pushing
<1>6. CASE Peek
    BY <1>6 DEF Peek, NewRowKept, Pushing
<1>7. CASE Ack
    BY <1>7 DEF Ack, NewRowKept, Pushing
<1>8. CASE Crash
    BY <1>8 DEF Crash, NewRowKept, Pushing
<1>9. CASE Tick
    BY <1>0, <1>9 DEF Tick, db, conn, NewRowKept, NewRow, Pushing, TypeOK
<1>10. CASE SetBack
    BY <1>0, <1>10 DEF SetBack, db, conn, NewRowKept, NewRow, Pushing, TypeOK
<1>11. CASE UNCHANGED vars
    BY <1>11 DEF vars, NewRowKept, NewRow, Pushing
<1>. QED
    BY <1>1, <1>2, <1>3, <1>4, <1>5, <1>6, <1>7, <1>8, <1>9, <1>10, <1>11 DEF Next

\* The counter moves only when a push commits.
LEMMA CounterMovesAtCommit ==
    ASSUME IInv, [Next]_vars, seq' /= seq
    PROVE  pc = "trimmed" /\ Commit /\ seq' = seq + 1
<1>1. pc = "acked" => viewSeq = seq
    BY DEF IInv, Transaction
<1>2. pc = "trimmed" => viewSeq = seq + 1
    BY DEF IInv, Transaction, Pushing
<1>. QED
    BY <1>1, <1>2
    DEF Next, vars, db, Offer, Insert, DeleteAged, DeleteOverflow, Commit, Peek,
        Ack, Crash, Tick, SetBack

\* With room for one row, and an age cap no shorter than the time a payload
\* may spend in its delivery attempts, the payload push() was given is in the
\* file when push() returns, for every cap, backlog and clock behaviour
\* (queue.py 43-49, 71-82).
THEOREM ParkedRowAlwaysSurvives ==
    ASSUME MaxRows > 0, PushLag <= MaxAge
    PROVE  Spec => ParkedRowSurvives
<1>1. IInv /\ NewRowKept /\ [Next]_vars => [seq' > seq => seq' \in IdsOf(table')]_vars
    <2>. SUFFICES ASSUME IInv, NewRowKept, [Next]_vars, seq' > seq
                  PROVE  seq' \in IdsOf(table')
        OBVIOUS
    <2>1. seq' /= seq
        BY DEF IInv, TypeOK
    <2>2. pc = "trimmed" /\ Commit /\ seq' = seq + 1
        BY <2>1, CounterMovesAtCommit
    <2>3. NewRow \in table' /\ NewRow.id = seq'
        BY <2>2 DEF Commit, NewRowKept, NewRow, Pushing
    <2>. QED  BY <2>3, Zenon DEF IdsOf
<1>. QED
    BY <1>1, Invariance, InitNewRowKept, NextNewRowKept, PTL
    DEF Spec, ParkedRowSurvives

-----------------------------------------------------------------------------
\* KeepsPromise

LEMMA InitInOrder == Init => InOrder
BY DEF Init, InOrder, Pushing

LEMMA NextInOrder == IInv /\ InOrder /\ [Next]_vars => InOrder'
<1>. SUFFICES ASSUME IInv, InOrder, [Next]_vars PROVE InOrder'
    OBVIOUS
<1>. USE DiskQueueAssumption
<1>0. /\ TypeOK /\ Transaction /\ Keys /\ IsFiniteSet(table) /\ IsFiniteSet(view)
      /\ Rows \subseteq Row /\ IsFiniteSet(Rows) /\ Keyed(Rows)
    BY NewRowIsNew DEF IInv
<1>1. CASE Offer
    BY <1>0, <1>1 DEF Offer, db, InOrder, Pushing, TypeOK
<1>2. CASE Insert
    <2>1. view' = Rows /\ Rows' = Rows
        BY <1>0, <1>2 DEF Insert, db, Transaction, Rows, NewRow
    <2>2. KeepsNewest(view', Rows')
        BY <2>1 DEF KeepsNewest
    <2>. QED  BY <1>2, <2>2 DEF Insert, db, InOrder, Pushing
<1>3. CASE DeleteAged /\ steady'
    <2>0. steady
        BY <1>3 DEF DeleteAged
    <2>1. view = Rows /\ view' = Unaged(Rows, clock - MaxAge) /\ Rows' = Rows
        BY <1>0, <1>3 DEF DeleteAged, db, Transaction, Rows, NewRow
    <2>2. \A r, s \in Rows : r.id < s.id => r.ts <= s.ts
        BY <1>0, <1>3, <2>0 DEF DeleteAged, InOrder, Pushing, Keys, Rows, NewRow, TypeOK, Row
    <2>3. KeepsNewest(view', Rows')
        BY <1>0, <2>1, <2>2, UnagedKeepsNewest DEF TypeOK
    <2>. QED  BY <1>3, <2>3 DEF DeleteAged, db, InOrder, Pushing
<1>4. CASE DeleteOverflow /\ steady'
    <2>1. KeepsNewest(view, Rows) /\ view \subseteq Rows
        <3>1. steady
            BY <1>4 DEF DeleteOverflow
        <3>. QED
            BY <1>0, <1>4, <3>1 DEF DeleteOverflow, InOrder, Transaction, Pushing
    <2>2. KeepsNewest(view', view) /\ view' \subseteq view
        BY <1>0, <1>4, CappedKeepsNewest, CappedIsBounded DEF DeleteOverflow, TypeOK
    <2>3. Rows' = Rows
        BY <1>4 DEF DeleteOverflow, db, Rows, NewRow
    <2>4. KeepsNewest(view', Rows')
        BY <1>0, <2>1, <2>2, <2>3, KeepsNewestTransitive
    <2>. QED  BY <1>4, <2>4 DEF DeleteOverflow, db, InOrder, Pushing
<1>5. CASE Commit /\ steady'
    <2>1. /\ \A r, s \in view : r.id < s.id => r.ts <= s.ts
          /\ \A r \in view : r.ts <= clock
        <3>0. steady
            BY <1>5 DEF Commit
        <3>1. CASE pc = "trimmed"
            BY <1>0, <3>0, <3>1
            DEF InOrder, Transaction, Pushing, Keys, Rows, NewRow, TypeOK, Row
        <3>2. CASE pc = "acked"
            BY <1>0, <3>0, <3>2 DEF InOrder, Transaction
        <3>. QED  BY <1>5, <3>1, <3>2 DEF Commit
    <2>. QED  BY <1>5, <2>1 DEF Commit, conn, InOrder, Pushing
<1>6. CASE Peek
    BY <1>6 DEF Peek, db, conn, InOrder, Pushing
<1>7. CASE Ack
    <2>1. view = table /\ batch = Oldest(table, Batch)
        BY <1>0, <1>7 DEF Ack, IInv, Transaction
    <2>2. KeepsNewest(view', table)
        BY <1>0, <1>7, <2>1, AckDeletesPrefix DEF Ack
    <2>3. pc' \in {"idle", "acked"} /\ UNCHANGED <<table, seq, clock, stamp, steady>>
        BY <1>7 DEF Ack, db
    <2>. QED  BY <2>2, <2>3 DEF InOrder, Pushing
<1>8. CASE Crash
    BY <1>8 DEF Crash, db, InOrder, Pushing
<1>9. CASE Tick
    <2>1. UNCHANGED <<table, seq, view, pc, stamp, steady>> /\ clock <= clock'
        BY <1>0, <1>9 DEF Tick, db, conn, TypeOK
    <2>. QED
        BY <1>0, <1>9, <2>1 DEF Tick, InOrder, Pushing, Rows, NewRow, TypeOK, Row
<1>10. CASE SetBack
    BY <1>10 DEF SetBack, db, conn, InOrder
<1>11. CASE UNCHANGED vars
    BY <1>11 DEF vars, InOrder, Rows, NewRow, Pushing
<1>12. CASE ~steady' /\ (DeleteAged \/ DeleteOverflow \/ Commit)
    BY <1>12 DEF DeleteAged, DeleteOverflow, Commit, InOrder
<1>. QED
    BY <1>1, <1>2, <1>3, <1>4, <1>5, <1>6, <1>7, <1>8, <1>9, <1>10, <1>11, <1>12
    DEF Next

\* A newest part of the rows has a newest part of the keys.
LEMMA NewestIds ==
    ASSUME NEW kept, NEW all, kept \subseteq all, KeepsNewest(kept, all)
    PROVE  IdsOf(kept) \subseteq IdsOf(all) /\ Fifo!IsNewest(IdsOf(kept), IdsOf(all))
BY DEF KeepsNewest, IdsOf, Fifo!IsNewest

LEMMA RefinementStep ==
    IInv /\ InOrder /\ [Next]_vars => [Fifo!Next]_(Fifo!vars)
<1>. SUFFICES ASSUME IInv, InOrder, [Next]_vars PROVE [Fifo!Next]_(Fifo!vars)
    OBVIOUS
<1>0. /\ TypeOK /\ Transaction /\ Keys /\ IsFiniteSet(table) /\ IsFiniteSet(view)
    BY DEF IInv
<1>1. CASE Commit /\ pc = "trimmed"
    <2>1. table' = view /\ seq' = seq + 1 /\ view \subseteq Rows /\ steady' = steady
        BY <1>0, <1>1 DEF Commit, Transaction, Pushing
    <2>2. IdsOf(Rows) = IdsOf(table) \cup {seq + 1}
        <3>1. NewRow.id = seq + 1
            BY DEF NewRow
        <3>. QED  BY <3>1 DEF IdsOf, Rows
    <2>3. /\ IdsOf(view) \subseteq IdsOf(table) \cup {seq + 1}
          /\ steady => Fifo!IsNewest(IdsOf(view), IdsOf(table) \cup {seq + 1})
        <3>1. IdsOf(view) \subseteq IdsOf(Rows)
            BY <2>1 DEF IdsOf
        <3>2. steady => KeepsNewest(view, Rows)
            BY <1>1 DEF InOrder, Pushing
        <3>3. steady => Fifo!IsNewest(IdsOf(view), IdsOf(Rows))
            BY <2>1, <3>2, NewestIds
        <3>. QED  BY <2>2, <3>1, <3>3
    <2>4. Cardinality(IdsOf(view)) <= MaxRows
        <3>1. Cardinality(view) <= MaxRows
            BY <1>0, <1>1 DEF Transaction
        <3>2. IsFiniteSet(IdsOf(view)) /\ Cardinality(IdsOf(view)) <= Cardinality(view)
            BY <1>0, FewIds
        <3>3. Cardinality(view) \in Nat /\ Cardinality(IdsOf(view)) \in Nat
            BY <1>0, <3>2, FS_CardinalityType
        <3>. QED  BY <3>1, <3>2, <3>3, DiskQueueAssumption
    <2>5. IdsOf(table)' = IdsOf(view)
        BY <2>1 DEF IdsOf
    <2>6. Fifo!Cardinality(IdsOf(view)) = Cardinality(IdsOf(view))
        BY DEF Fifo!Cardinality, Cardinality
    <2>7. Fifo!Park
        BY <2>1, <2>3, <2>4, <2>5, <2>6, Zenon DEF Fifo!Park
    <2>. QED  BY <2>7 DEF Fifo!Next
<1>2. CASE Commit /\ pc = "acked"
    <2>1. table' = view /\ seq' = seq /\ view \subseteq table /\ steady' = steady
        BY <1>0, <1>2 DEF Commit, Transaction
    <2>2. IdsOf(view) \subseteq IdsOf(table) /\ Fifo!IsNewest(IdsOf(view), IdsOf(table))
        BY <1>2, <2>1, NewestIds DEF InOrder
    <2>3. IdsOf(table)' = IdsOf(view)
        BY <2>1 DEF IdsOf
    <2>4. Fifo!Settle
        BY <2>1, <2>2, <2>3, Zenon DEF Fifo!Settle
    <2>. QED  BY <2>4 DEF Fifo!Next
<1>3. CASE SetBack
    <2>1. table' = table /\ seq' = seq /\ steady' = FALSE
        BY <1>3 DEF SetBack, db
    <2>2. Fifo!SetBack
        BY <2>1 DEF Fifo!SetBack, IdsOf
    <2>. QED  BY <2>2 DEF Fifo!Next
<1>4. CASE ~Commit /\ ~SetBack
    <2>1. UNCHANGED <<table, seq, steady>>
        BY <1>4
        DEF Next, vars, db, Offer, Insert, DeleteAged, DeleteOverflow, Peek, Ack,
            Crash, Tick
    <2>. QED  BY <2>1 DEF Fifo!vars, IdsOf
<1>. QED  BY <1>1, <1>2, <1>3, <1>4 DEF Commit

\* The SQLite queue implements BoundedFifo: at most max_rows payloads,
\* whatever leaves is older than whatever stays (what a cap drops: as long as
\* the wall clock was never set back), and a crash in the middle of a push or
\* an ack changes nothing (queue.py 3-6, 43-84), for every cap, age and batch.
THEOREM ImplementsBoundedFifo == Spec => KeepsPromise
<1>1. Init => Fifo!Init
    BY DEF Init, Fifo!Init, IdsOf
<1>. QED
    BY <1>1, Invariance, InitInOrder, NextInOrder, RefinementStep, PTL
    DEF Spec, KeepsPromise, Fifo!Spec
=============================================================================
