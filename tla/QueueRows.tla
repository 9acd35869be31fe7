----------------------------- MODULE QueueRows -----------------------------
(***************************************************************************)
(* The queries of buffer/queue.py, as operators on a set of rows.  A row   *)
(* is [id, ts]: the AUTOINCREMENT key and the payload's own time stamp,    *)
(* which also stands for the payload text.                                 *)
(***************************************************************************)
EXTENDS Integers, FiniteSets

Row == [id : Nat \ {0}, ts : Nat]

IdsOf(rows) == {r.id : r \in rows}

Older(rows, r) == {s \in rows : s.id < r.id}

\* SELECT ... ORDER BY id LIMIT n
Oldest(rows, n) == {r \in rows : Cardinality(Older(rows, r)) < n}

\* Mutant: DELETE ... WHERE ts <= cutoff.
UnagedStrictly(rows, cutoff) == {r \in rows : r.ts > cutoff}

\* What DELETE ... WHERE ts < cutoff leaves.
Unaged(rows, cutoff) == {r \in rows : r.ts >= cutoff}

\* Mutant: over = len(self) - max_rows - 1.
CappedLate(rows, max) == rows \ Oldest(rows, Cardinality(rows) - max - 1)

\* What the overflow DELETE of _trim leaves: over = len(self) - max_rows,
\* and nothing is deleted unless over > 0.
Capped(rows, max) == rows \ Oldest(rows, Cardinality(rows) - max)

\* The key is unique: PRIMARY KEY.
Keyed(rows) == \A r, s \in rows : r.id = s.id => r = s

\* Whatever is in all and not in kept is older than everything in kept.
KeepsNewest(kept, all) ==
    \A gone \in all \ kept, stays \in kept : gone.id < stays.id
=============================================================================
