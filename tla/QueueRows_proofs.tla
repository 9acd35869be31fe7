-------------------------- MODULE QueueRows_proofs --------------------------
(***************************************************************************)
(* Facts about the queries of QueueRows, for row sets of any size.         *)
(***************************************************************************)
EXTENDS QueueRows, FiniteSetTheorems, TLAPS

\* A nonempty set of naturals has a least element.
LEMMA LeastNat ==
    ASSUME NEW S, S \subseteq Nat, S /= {}
    PROVE  \E m \in S : \A n \in S : m <= n
<1>1. PICK m \in S : \A n \in S : ~(<<n, m>> \in OpToRel(<, Nat))
    BY NatLessThanWellFounded, WFMin, Zenon
<1>2. \A n \in S : ~(n < m)
    BY <1>1 DEF OpToRel
<1>. QED  BY <1>2

\* The keys of a finite set of rows are finite, and no more than the rows.
LEMMA FewIds ==
    ASSUME NEW rows, IsFiniteSet(rows)
    PROVE  /\ IsFiniteSet(IdsOf(rows))
           /\ Cardinality(IdsOf(rows)) <= Cardinality(rows)
<1>. DEFINE f == [r \in rows |-> r.id]
<1>1. f \in [rows -> IdsOf(rows)]
    BY DEF IdsOf
<1>2. \A i \in IdsOf(rows) : \E r \in rows : f[r] = i
    BY DEF IdsOf
<1>3. f \in Surjection(rows, IdsOf(rows))
    BY <1>1, <1>2, Zenon DEF Surjection
<1>. QED  BY <1>3, FS_Surjection, Zenon

\* The n oldest rows are a prefix: what is left after them is newer.
LEMMA OldestIsPrefix ==
    ASSUME NEW rows, rows \subseteq Row, IsFiniteSet(rows), NEW n \in Int
    PROVE  KeepsNewest(rows \ Oldest(rows, n), rows)
<1>. SUFFICES ASSUME NEW gone \in Oldest(rows, n),
                     NEW stays \in rows \ Oldest(rows, n),
                     ~(gone.id < stays.id)
              PROVE  FALSE
    BY DEF KeepsNewest
<1>1. gone \in rows /\ gone.id \in Nat /\ stays.id \in Nat
    BY DEF Oldest, Row
<1>2. Older(rows, stays) \subseteq Older(rows, gone)
    BY <1>1 DEF Older, Row
<1>3. IsFiniteSet(Older(rows, gone))
    BY FS_Subset DEF Older
<1>4. /\ IsFiniteSet(Older(rows, stays))
      /\ Cardinality(Older(rows, stays)) <= Cardinality(Older(rows, gone))
    BY <1>2, <1>3, FS_Subset
<1>5. Cardinality(Older(rows, gone)) < n /\ ~(Cardinality(Older(rows, stays)) < n)
    BY DEF Oldest
<1>. QED  BY <1>3, <1>4, <1>5, FS_CardinalityType

\* The overflow DELETE leaves at most max rows, whatever it starts from.
LEMMA CappedIsBounded ==
    ASSUME NEW rows, rows \subseteq Row, IsFiniteSet(rows), NEW max \in Nat
    PROVE  /\ Capped(rows, max) \subseteq rows
           /\ IsFiniteSet(Capped(rows, max))
           /\ Cardinality(Capped(rows, max)) <= max
<1>. DEFINE over == Cardinality(rows) - max
            kept == Capped(rows, max)
<1>1. kept \subseteq rows /\ IsFiniteSet(kept)
    BY FS_Subset DEF Capped
<1>2. CASE kept = {}
    BY <1>1, <1>2, FS_EmptySet
<1>3. CASE kept /= {}
    <2>1. IdsOf(kept) \subseteq Nat /\ IdsOf(kept) /= {}
        BY <1>1, <1>3 DEF IdsOf, Row
    <2>2. PICK i \in IdsOf(kept) : \A j \in IdsOf(kept) : i <= j
        BY <2>1, LeastNat
    <2>3. PICK m \in kept : m.id = i
        BY DEF IdsOf
    <2>4. \A r \in kept : m.id <= r.id
        BY <2>2, <2>3 DEF IdsOf
    <2>5. Older(rows, m) \subseteq rows \ kept
        BY <1>1, <2>4 DEF Older, Row
    <2>6. Cardinality(Older(rows, m)) >= over /\ Cardinality(Older(rows, m)) \in Nat
        <3>1. IsFiniteSet(Older(rows, m))
            BY FS_Subset DEF Older
        <3>2. ~(Cardinality(Older(rows, m)) < over)
            BY <2>3, <1>1 DEF Capped, Oldest
        <3>. QED  BY <3>1, <3>2, FS_CardinalityType
    <2>7. /\ IsFiniteSet(rows \ kept)
          /\ Cardinality(rows \ kept) = Cardinality(rows) - Cardinality(rows \cap kept)
        BY FS_Difference
    <2>8. Cardinality(rows \cap kept) = Cardinality(kept)
        <3>1. rows \cap kept = kept
            BY <1>1
        <3>. QED  BY <3>1, Zenon
    <2>9. Cardinality(Older(rows, m)) <= Cardinality(rows \ kept)
        BY <2>5, <2>7, FS_Subset
    <2>10. /\ Cardinality(rows) \in Nat /\ Cardinality(kept) \in Nat
           /\ Cardinality(rows \ kept) \in Nat
        BY <1>1, <2>7, FS_CardinalityType
    <2>11. Cardinality(kept) <= max
        BY <2>6, <2>7, <2>8, <2>9, <2>10
    <2>. QED  BY <1>1, <2>11
<1>. QED  BY <1>1, <1>2, <1>3

\* The cap leaves a newest part of the rows.
LEMMA CappedKeepsNewest ==
    ASSUME NEW rows, rows \subseteq Row, IsFiniteSet(rows), NEW max \in Nat
    PROVE  KeepsNewest(Capped(rows, max), rows)
<1>1. Cardinality(rows) - max \in Int
    BY FS_CardinalityType
<1>. QED  BY <1>1, OldestIsPrefix DEF Capped

\* The row with the largest key survives a cap of one row or more.
LEMMA CappedKeepsLast ==
    ASSUME NEW rows, rows \subseteq Row, IsFiniteSet(rows), NEW max \in Nat \ {0},
           NEW last \in rows, \A r \in rows : r /= last => r.id < last.id
    PROVE  last \in Capped(rows, max)
<1>1. Older(rows, last) = rows \ {last}
    BY DEF Older, Row
<1>2. Cardinality(Older(rows, last)) = Cardinality(rows) - 1
    BY <1>1, FS_RemoveElement
<1>3. ~(Cardinality(Older(rows, last)) < Cardinality(rows) - max)
    BY <1>2, FS_CardinalityType
<1>. QED  BY <1>3 DEF Capped, Oldest

\* Keeping the newest part of a newest part keeps a newest part.
LEMMA KeepsNewestTransitive ==
    ASSUME NEW all, NEW some, NEW few, all \subseteq Row,
           some \subseteq all, few \subseteq some,
           KeepsNewest(some, all), KeepsNewest(few, some)
    PROVE  KeepsNewest(few, all)
BY DEF KeepsNewest

\* The same for a prefix of a prefix: drain acks part of what it peeked.
LEMMA PrefixOfPrefix ==
    ASSUME NEW all, NEW batch, NEW done, all \subseteq Row,
           batch \subseteq all, done \subseteq batch,
           KeepsNewest(all \ batch, all), KeepsNewest(batch \ done, batch)
    PROVE  KeepsNewest(all \ done, all)
BY DEF KeepsNewest

\* When stamps never run backwards, the age cap drops a prefix too.
LEMMA UnagedKeepsNewest ==
    ASSUME NEW rows, rows \subseteq Row, Keyed(rows), NEW cutoff \in Int,
           \A r, s \in rows : r.id < s.id => r.ts <= s.ts
    PROVE  KeepsNewest(Unaged(rows, cutoff), rows)
<1>. SUFFICES ASSUME NEW gone \in rows \ Unaged(rows, cutoff),
                     NEW stays \in Unaged(rows, cutoff)
              PROVE  gone.id < stays.id
    BY DEF KeepsNewest
<1>1. gone \in Row /\ stays \in rows /\ stays \in Row /\ gone.ts < stays.ts
    BY DEF Unaged, Row
<1>2. gone.id /= stays.id
    BY <1>1 DEF Keyed, Row
<1>. QED  BY <1>1, <1>2 DEF Row
=============================================================================
