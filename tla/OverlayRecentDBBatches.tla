----------------------- MODULE OverlayRecentDBBatches ------------------------
(***************************************************************************)
(* What a sound database is, and that the batches of commit_block and      *)
(* mark_canonical keep it sound and the memory in step with it.            *)
(***************************************************************************)
EXTENDS OverlayRecentDBTree, FiniteSetTheorems

Records == [era : Eras, index : Nat, id : Blocks]
DbStates ==
  [keys : SUBSET Keys, records : SUBSET Records, latest_era : Eras, blocks : SUBSET Blocks,
   best : Blocks, hashes : [Eras -> Blocks \cup {Void}], base : Blocks \cup {Void}]

\* The records: one block each, of its era, above the base and not above the
\* latest era, numbered without a gap in every era that has to have one.
RecordsOK(d) ==
  /\ IsFiniteSet(d.records)
  /\ \A r \in d.records : r.era = Number(r.id) /\ Number(d.base) < r.era /\ r.era <= d.latest_era
  /\ \A r, s \in d.records : r.era = s.era /\ r.index = s.index => r = s
  /\ \A e \in Eras : \E n \in Nat : \A i \in Nat : HasRecord(d, e, i) <=> i < n
  /\ Number(d.base) < d.latest_era
  /\ \A e \in Number(d.base) + 1 .. d.latest_era : HasRecord(d, e, 0)

\* The blocks: with their ancestors, and journalled when above the base.
BlocksOK(d) ==
  /\ \A b \in d.blocks : Number(b) <= d.latest_era /\ \A n \in 1 .. Len(b) : SubSeq(b, 1, n) \in d.blocks
  /\ \A b \in d.blocks : Extends(b, d.base) /\ b # d.base => \E r \in d.records : r.id = b
  /\ State[d.base] \subseteq d.keys

\* The chain: from the base to the best block, as long as History asks for.
ChainOK(d) ==
  /\ d.best \in d.blocks /\ Extends(d.best, d.base) /\ d.latest_era < Number(d.best) + History
  /\ \A e \in Eras : e <= Number(d.best) => d.hashes[e] = SubSeq(d.best, 1, e + 1)
  /\ d.base # Void => Number(d.base) + History <= d.latest_era

DbOK(d) == d \in DbStates /\ RecordsOK(d) /\ BlocksOK(d) /\ ChainOK(d)

\* How often each key is inserted by the records of the database.
Counts(d) == [k \in Keys |-> Cardinality({r \in d.records : k \in Insertions[r.id]})]

\* j is the journal that the records make up.
JournalOf(j, d) ==
  /\ j \in [Eras -> Seq(Blocks)]
  /\ \A r \in d.records : r.index + 1 \in DOMAIN j[r.era] /\ j[r.era][r.index + 1] = r.id
  /\ \A e \in Eras : \A i \in DOMAIN j[e] : HasRecord(d, e, i - 1)

------------------------------------------------------------------------------
(* What the records of a sound database say.                               *)

\* Counts are naturals, and positive for what a record inserts.
LEMMA Counting ==
  ASSUME NEW d, IsFiniteSet(d.records), NEW k \in Keys
  PROVE  /\ Counts(d)[k] \in Nat
         /\ Counts(d)[k] > 0 <=> \E r \in d.records : k \in Insertions[r.id]
<1> DEFINE S == {r \in d.records : k \in Insertions[r.id]}
<1>1. IsFiniteSet(S)
  BY FS_Subset
<1>2. Counts(d)[k] = Cardinality(S)
  BY DEF Counts
<1>3. Cardinality(S) \in Nat /\ (Cardinality(S) = 0 <=> S = {})
  <2> HIDE DEF S
  <2> QED BY <1>1, FS_CardinalityType, FS_EmptySet
<1>4. S # {} <=> \E r \in d.records : k \in Insertions[r.id]
  OBVIOUS
<1> QED BY <1>2, <1>3, <1>4

\* A key in the state of a block is in that of a live ancestor, or a record
\* above that ancestor inserts it.
LEMMA Journalled ==
  ASSUME NEW d, DbOK(d), NEW a \in Blocks \cup {Void}, Extends(a, d.base),
         NEW b \in d.blocks, Extends(b, a), NEW k \in State[b]
  PROVE  k \in State[a] \/ \E r \in d.records : Number(a) < r.era /\ k \in Insertions[r.id]
<1>1. d.base \in Blocks \cup {Void} /\ b \in Blocks /\ Len(a) \in Nat /\ Len(b) \in Nat
  BY BlockFacts DEF DbOK, DbStates
<1>2. a \in Seq(Int) /\ b \in Seq(Int) /\ d.base \in Seq(Int)
  BY <1>1, BlockFacts, Zenon
<1>3. ASSUME NEW n \in Len(a) + 1 .. Len(b), SubSeq(b, 1, n) \in Blocks,
             k \in Insertions[SubSeq(b, 1, n)]
      PROVE  \E r \in d.records : Number(a) < r.era /\ k \in Insertions[r.id]
  <2> DEFINE c == SubSeq(b, 1, n)
  <2>1. n \in 1 .. Len(b)
    BY <1>1
  <2>2. c \in Seq(Int) /\ Len(c) = n /\ Extends(b, c)
    BY <1>2, <2>1, Prefix, ExtendsFacts
  <2>3. c \in d.blocks
    BY <2>1 DEF DbOK, BlocksOK
  <2>4. Extends(c, a) /\ Len(a) < Len(c)
    <3>1. Len(a) <= Len(c) /\ Len(a) < Len(c)
      BY <1>1, <2>2
    <3> HIDE DEF c
    <3> QED BY <1>2, <2>2, <3>1, ExtendsFacts
  <2>5. Extends(c, d.base)
    <3> HIDE DEF c
    <3> QED BY <1>2, <2>2, <2>4, ExtendsFacts
  <2>6. c # d.base
    <3>1. Len(d.base) <= Len(a)
      BY DEF Extends
    <3> QED BY <1>1, <2>4, <3>1, BlockFacts
  <2>7. PICK r \in d.records : r.id = c
    BY <2>3, <2>5, <2>6, Zenon DEF DbOK, BlocksOK
  <2>8. r.era = Number(c)
    BY <2>7, Zenon DEF DbOK, RecordsOK
  <2>9. Number(a) < r.era
    BY <1>1, <2>1, <2>2, <2>4, <2>8 DEF Number
  <2> QED BY <1>3, <2>7, <2>9, Zenon
<1> QED BY <1>1, <1>3, Inserted

\* Whatever is in the state of a live block is in the database or counted.
LEMMA LiveKeys ==
  ASSUME NEW d, DbOK(d), NEW b \in d.blocks, Extends(b, d.base), NEW k \in State[b]
  PROVE  k \in d.keys \/ Counts(d)[k] > 0
<1>1. d.base \in Blocks \cup {Void} /\ d.base \in Seq(Int) /\ b \in Blocks
  BY BlockFacts, Zenon DEF DbOK, DbStates
<1>2. Extends(d.base, d.base)
  BY <1>1, ExtendsFacts
<1>3. k \in State[d.base] \/ \E r \in d.records : k \in Insertions[r.id]
  BY <1>1, <1>2, Journalled
<1>4. k \in Keys /\ IsFiniteSet(d.records) /\ State[d.base] \subseteq d.keys
  BY <1>1, StateAssumption DEF DbOK, RecordsOK, BlocksOK
<1> QED BY <1>3, <1>4, Counting

\* The block that is made canonical next: the child of the base on the chain,
\* with a record of its own.
LEMMA NextCanon ==
  ASSUME NEW d, DbOK(d), NEW era \in Int, Number(d.base) = era - 1,
         era + History <= d.latest_era
  PROVE  /\ era \in Eras /\ d.hashes[era] \in Blocks /\ d.hashes[era] \in d.blocks
         /\ Parent(d.hashes[era]) = d.base /\ Extends(d.hashes[era], d.base)
         /\ Number(d.hashes[era]) = era
         /\ Extends(d.best, d.hashes[era])
         /\ \E r \in d.records : r.id = d.hashes[era] /\ r.era = era
<1>1. /\ d.base \in Blocks \cup {Void} /\ d.best \in Blocks /\ d.latest_era \in Eras
      /\ d.best \in d.blocks /\ Extends(d.best, d.base) /\ d.latest_era < Number(d.best) + History
      /\ \A e \in Eras : e <= Number(d.best) => d.hashes[e] = SubSeq(d.best, 1, e + 1)
  BY DEF DbOK, DbStates, ChainOK
<1>2. /\ d.base \in Seq(Int) /\ d.best \in Seq(Int) /\ Len(d.base) \in Nat /\ Len(d.best) \in Nat
      /\ History \in Nat /\ d.latest_era \in Nat
  <2>1. History \in Nat
    BY HistoryAssumption
  <2>2. d.latest_era \in Nat
    BY <1>1, BlockFacts, Zenon
  <2>3. d.best \in Seq(Int) /\ Len(d.best) \in Nat
    BY <1>1, BlockFacts
  <2>4. d.base \in Seq(Int) /\ Len(d.base) \in Nat
    <3>1. CASE d.base \in Blocks
      BY <3>1, BlockFacts
    <3>2. CASE d.base = Void
      BY <3>2, BlockFacts
    <3> QED BY <1>1, <3>1, <3>2
  <2> QED BY <2>1, <2>2, <2>3, <2>4
<1>3. era = Len(d.base) /\ era \in Nat /\ era <= d.latest_era /\ era + 1 \in 1 .. Len(d.best)
  BY <1>1, <1>2 DEF Number
<1>4. era \in Eras
  BY <1>1, <1>3, LowerEras
<1> DEFINE canon == d.hashes[era]
<1>5. canon = SubSeq(d.best, 1, era + 1)
  <2>1. era <= Number(d.best)
    BY <1>2, <1>3 DEF Number
  <2> QED BY <1>1, <1>4, <2>1
<1>6. canon \in Blocks /\ Number(canon) = era
  <2>1. SubSeq(d.best, 1, era + 1) \in Blocks /\ Number(SubSeq(d.best, 1, era + 1)) = era + 1 - 1
    BY <1>1, <1>3, Ancestors
  <2> QED BY <1>3, <1>5, <2>1
<1>7. canon \in d.blocks
  BY <1>1, <1>3, <1>5 DEF DbOK, BlocksOK
<1>8. Extends(d.best, canon) /\ Len(canon) = era + 1 /\ canon \in Seq(Int)
  <2>1. era + 1 \in 0 .. Len(d.best)
    BY <1>3
  <2> QED BY <1>2, <1>5, <2>1, ExtendsFacts, Prefix
<1>9. Parent(canon) = d.base
  <2>1. Parent(SubSeq(d.best, 1, era + 1)) = SubSeq(d.best, 1, era + 1 - 1)
    <3>1. d.best \in Seq(Int) /\ era + 1 \in 1 .. Len(d.best)
      BY <1>2, <1>3
    <3> QED BY <3>1, ParentOfPrefix
  <2>2. era + 1 - 1 = Len(d.base)
    BY <1>3
  <2> QED BY <1>1, <1>5, <2>1, <2>2, Zenon DEF Extends
<1>10. Extends(canon, d.base) /\ canon # d.base
  <2>1. Len(d.base) <= Len(canon) /\ Len(d.base) # Len(canon)
    BY <1>2, <1>3, <1>8
  <2> HIDE DEF canon
  <2> QED BY <1>1, <1>2, <1>8, <2>1, ExtendsFacts
<1>11. PICK r \in d.records : r.id = canon
  BY <1>7, <1>10 DEF DbOK, BlocksOK
<1>12. r.era = era
  BY <1>6, <1>11 DEF DbOK, RecordsOK
<1> QED BY <1>4, <1>6, <1>7, <1>8, <1>9, <1>10, <1>11, <1>12

------------------------------------------------------------------------------
(* read_overlay: what a restart reads from a sound database.               *)

\* All records are read, and the counts and the earliest era are theirs.
LEMMA ReadBack ==
  ASSUME NEW d, DbOK(d)
  PROVE  /\ ReadRecords(d) = d.records
         /\ ReadCounts(d) = Counts(d)
         /\ ReadEarliest(d) = Number(d.base) + 1
<1>1. /\ d.latest_era \in Nat /\ Number(d.base) \in Int /\ Number(d.base) >= -1
      /\ Number(d.base) < d.latest_era /\ d.latest_era \in Eras
  <2>1. d.base \in Blocks \cup {Void} /\ d.latest_era \in Eras
    BY DEF DbOK, DbStates
  <2>2. Number(d.base) \in Int /\ Number(d.base) >= -1
    <3>1. CASE d.base \in Blocks
      BY <3>1, BlockFacts
    <3>2. CASE d.base = Void
      BY <3>2, BlockFacts
    <3> QED BY <2>1, <3>1, <3>2
  <2> QED BY <2>1, <2>2, BlockFacts, Zenon DEF DbOK, RecordsOK
<1> DEFINE low == Number(d.base) + 1
<1>2. \A e \in low .. d.latest_era : HasRecord(d, e, 0)
  BY DEF DbOK, RecordsOK
<1>3. \A r \in d.records :
        /\ r.era \in Nat /\ r.index \in Nat /\ low <= r.era /\ r.era <= d.latest_era
        /\ r.era \in Eras
  <2>1. \A r \in d.records : r.era \in Eras /\ r.index \in Nat
    BY DEF DbOK, DbStates, Records
  <2>2. \A r \in d.records : Number(d.base) < r.era /\ r.era <= d.latest_era
    BY DEF DbOK, RecordsOK
  <2>3. ASSUME NEW r \in d.records
        PROVE  /\ r.era \in Nat /\ r.index \in Nat /\ low <= r.era /\ r.era <= d.latest_era
               /\ r.era \in Eras
    <3>1. r.era \in Nat /\ r.index \in Nat /\ r.era \in Eras
      BY <2>1, BlockFacts, Zenon
    <3> QED BY <1>1, <2>2, <3>1
  <2> QED BY <2>3
<1>4. \A e \in 0 .. d.latest_era : e < low => ~HasRecord(d, e, 0)
  BY <1>1, <1>3 DEF HasRecord
<1>5. ReadEras(d) = low .. d.latest_era
  BY <1>1, <1>2, <1>4 DEF ReadEras
<1>6. ReadRecords(d) = d.records
  <2>1. ASSUME NEW r \in d.records PROVE \A i \in 0 .. r.index : HasRecord(d, r.era, i)
    <3>1. r.era \in Eras /\ r.index \in Nat
      BY <1>3
    <3>2. PICK n \in Nat : \A i \in Nat : HasRecord(d, r.era, i) <=> i < n
      BY <3>1 DEF DbOK, RecordsOK
    <3>3. HasRecord(d, r.era, r.index)
      BY DEF HasRecord
    <3> QED BY <3>1, <3>2, <3>3
  <2>2. \A r \in d.records : r.era \in ReadEras(d)
    BY <1>1, <1>3, <1>5
  <2> QED BY <2>1, <2>2 DEF ReadRecords
<1>7. ReadCounts(d) = Counts(d)
  BY <1>6 DEF ReadCounts, Counts
<1>8. ReadEarliest(d) = low
  <2>1. low \in ReadEras(d) /\ \A f \in ReadEras(d) : low <= f
    BY <1>1, <1>5
  <2>2. \A e \in ReadEras(d) : (\A f \in ReadEras(d) : e <= f) => e = low
    BY <1>1, <1>5, <2>1
  <2> HIDE DEF low
  <2>3. ReadEarliest(d) = CHOOSE e \in ReadEras(d) : \A f \in ReadEras(d) : e <= f
    BY <2>1 DEF ReadEarliest
  <2> QED BY <2>1, <2>2, <2>3
<1> QED BY <1>6, <1>7, <1>8

\* The journal read is the one the records make up.
LEMMA JournalRead ==
  ASSUME NEW d, DbOK(d)
  PROVE  JournalOf(ReadJournal(d), d)
<1> DEFINE j == ReadJournal(d)
           Of(e) == {r \in d.records : r.era = e}
<1>1. j = [e \in Eras |-> [i \in {r.index + 1 : r \in Of(e)} |->
                             (CHOOSE r \in Of(e) : r.index = i - 1).id]]
  <2> DEFINE G(R) == [e \in Eras |->
                        [i \in {r.index + 1 : r \in {r \in R : r.era = e}} |->
                           (CHOOSE r \in {r \in R : r.era = e} : r.index = i - 1).id]]
  <2>1. j = G(ReadRecords(d))
    BY DEF ReadJournal
  <2>2. G(ReadRecords(d)) = G(d.records)
    <3> HIDE DEF G
    <3> QED BY ReadBack
  <2> QED BY <2>1, <2>2, Zenon
<1>2. \A r \in d.records : r.era \in Eras /\ r.index \in Nat /\ r.id \in Blocks
  BY DEF DbOK, DbStates, Records
<1>3. \A r, s \in d.records : r.era = s.era /\ r.index = s.index => r = s
  BY DEF DbOK, RecordsOK
<1>4. ASSUME NEW e \in Eras
      PROVE  /\ j[e] \in Seq(Blocks)
             /\ \A r \in Of(e) : r.index + 1 \in DOMAIN j[e] /\ j[e][r.index + 1] = r.id
             /\ \A i \in DOMAIN j[e] : HasRecord(d, e, i - 1)
  <2> DEFINE D == {r.index + 1 : r \in Of(e)}
             F(i) == (CHOOSE r \in Of(e) : r.index = i - 1).id
  <2>1. j[e] = [i \in D |-> F(i)]
    BY <1>1
  <2>2. PICK n \in Nat : \A i \in Nat : HasRecord(d, e, i) <=> i < n
    BY Zenon DEF DbOK, RecordsOK
  <2>3. D = 1 .. n
    <3>1. ASSUME NEW i \in D PROVE i \in 1 .. n
      <4>1. PICK r \in Of(e) : i = r.index + 1
        OBVIOUS
      <4>2. HasRecord(d, e, r.index)
        BY DEF HasRecord
      <4> QED BY <1>2, <2>2, <4>1, <4>2
    <3>2. ASSUME NEW i \in 1 .. n PROVE i \in D
      <4>1. HasRecord(d, e, i - 1)
        BY <2>2
      <4>2. PICK r \in d.records : r.era = e /\ r.index = i - 1
        BY <4>1 DEF HasRecord
      <4> QED BY <1>2, <4>2
    <3> QED BY <3>1, <3>2
  <2>4. ASSUME NEW r \in Of(e) PROVE F(r.index + 1) = r.id
    <3> DEFINE i == r.index + 1
               c == CHOOSE s \in Of(e) : s.index = i - 1
    <3>1. i - 1 = r.index
      BY <1>2
    <3> HIDE DEF i
    <3>2. c \in Of(e) /\ c.index = i - 1
      BY <3>1
    <3> HIDE DEF c
    <3>3. c = r
      BY <1>3, <3>1, <3>2
    <3> QED BY <3>3, Zenon DEF c, i
  <2>5. \A i \in D : F(i) \in Blocks
    <3>1. ASSUME NEW i \in D PROVE F(i) \in Blocks
      <4>1. PICK r \in Of(e) : i = r.index + 1
        OBVIOUS
      <4> QED BY <1>2, <2>4, <4>1
    <3> QED BY <3>1
  <2>6. ASSUME NEW i \in D PROVE HasRecord(d, e, i - 1)
    <3>1. i - 1 \in Nat /\ i - 1 < n
      BY <2>3
    <3> QED BY <2>2, <3>1
  <2>7. \A r \in Of(e) : r.index + 1 \in D
    OBVIOUS
  <2>8. [i \in D |-> F(i)] \in Seq(Blocks)
    <3> HIDE DEF D, F
    <3>1. [i \in D |-> F(i)] \in [1 .. n -> Blocks]
      BY <2>3, <2>5
    <3> QED BY <3>1
  <2> HIDE DEF D, F, j
  <2> QED BY <2>1, <2>4, <2>6, <2>7, <2>8
<1>5. j \in [Eras -> Seq(Blocks)]
  <2>1. DOMAIN j = Eras /\ j = [e \in Eras |-> j[e]]
    BY <1>1
  <2> HIDE DEF j
  <2> QED BY <1>4, <2>1
<1> HIDE DEF j
<1>6. \A r \in d.records : r.index + 1 \in DOMAIN j[r.era] /\ j[r.era][r.index + 1] = r.id
  BY <1>2, <1>4
<1> QED BY <1>4, <1>5, <1>6 DEF JournalOf, j

\* There is one such journal.
LEMMA JournalUnique ==
  ASSUME NEW d, DbOK(d), NEW i, JournalOf(i, d), NEW j, JournalOf(j, d)
  PROVE  i = j
<1>1. \A r \in d.records : r.era \in Eras /\ r.index \in Nat /\ r.id \in Blocks
  BY DEF DbOK, DbStates, Records
<1>2. ASSUME NEW e \in Eras PROVE i[e] = j[e]
  <2>1. i[e] \in Seq(Blocks) /\ j[e] \in Seq(Blocks)
    BY DEF JournalOf
  <2>2. \A n \in Nat : n + 1 \in DOMAIN i[e] <=> HasRecord(d, e, n)
    BY <1>1, <2>1 DEF JournalOf, HasRecord
  <2>3. \A n \in Nat : n + 1 \in DOMAIN j[e] <=> HasRecord(d, e, n)
    BY <1>1, <2>1 DEF JournalOf, HasRecord
  <2>4. \A n \in Nat : HasRecord(d, e, n) => i[e][n + 1] = j[e][n + 1]
    BY DEF JournalOf, HasRecord
  <2>5. Len(i[e]) \in Nat /\ Len(j[e]) \in Nat /\ DOMAIN i[e] = 1 .. Len(i[e]) /\ DOMAIN j[e] = 1 .. Len(j[e])
    BY <2>1, LenProperties
  <2>6. \A m \in Nat : m \in 1 .. Len(i[e]) <=> m \in 1 .. Len(j[e])
    <3>1. ASSUME NEW m \in Nat, m # 0 PROVE m \in 1 .. Len(i[e]) <=> m \in 1 .. Len(j[e])
      <4>1. m - 1 \in Nat /\ m - 1 + 1 = m
        BY <3>1
      <4> QED BY <2>2, <2>3, <2>5, <4>1, Zenon
    <3> QED BY <2>5, <3>1
  <2>7. Len(i[e]) = Len(j[e])
    BY <2>5, <2>6
  <2>8. ASSUME NEW m \in 1 .. Len(i[e]) PROVE i[e][m] = j[e][m]
    <3>1. m - 1 \in Nat /\ m - 1 + 1 = m
      BY <2>5
    <3> QED BY <2>2, <2>4, <2>5, <3>1
  <2> QED BY <2>1, <2>7, <2>8, SeqEqual
<1>3. i \in [Eras -> Seq(Blocks)] /\ j \in [Eras -> Seq(Blocks)]
  BY DEF JournalOf
<1> QED BY <1>2, <1>3

------------------------------------------------------------------------------
(* The batch of commit_block.                                              *)

\* Records of a sound database are typed, and its base and eras are numbers.
LEMMA DbTypes ==
  ASSUME NEW d, DbOK(d)
  PROVE  /\ \A r \in d.records : r.era \in Eras /\ r.era \in Nat /\ r.index \in Nat /\ r.id \in Blocks
         /\ d.base \in Blocks \cup {Void} /\ d.base \in Seq(Int) /\ Len(d.base) \in Nat
         /\ Number(d.base) \in Int /\ Number(d.base) >= -1 /\ Number(d.base) + 1 = Len(d.base)
         /\ d.latest_era \in Eras /\ d.latest_era \in Nat
         /\ d.blocks \subseteq Blocks /\ d.best \in Blocks
         /\ d.best \in Seq(Int) /\ Len(d.best) \in Nat /\ Number(d.best) \in Nat
         /\ History \in Nat /\ History > 0
<1>1. d \in DbStates
  BY DEF DbOK
<1>2. \A r \in d.records : r.era \in Eras /\ r.index \in Nat /\ r.id \in Blocks
  BY <1>1 DEF DbStates, Records
<1>3. \A r \in d.records : r.era \in Nat
  BY <1>2, BlockFacts, Zenon
<1>4. d.base \in Blocks \cup {Void} /\ d.latest_era \in Eras /\ d.blocks \subseteq Blocks /\ d.best \in Blocks
  BY <1>1 DEF DbStates
<1>5. d.base \in Seq(Int) /\ Len(d.base) \in Nat
  <2>1. CASE d.base \in Blocks
    BY <2>1, BlockFacts
  <2>2. CASE d.base = Void
    BY <2>2, BlockFacts
  <2> QED BY <1>4, <2>1, <2>2
<1>6. Number(d.base) \in Int /\ Number(d.base) >= -1 /\ Number(d.base) + 1 = Len(d.base)
  BY <1>5 DEF Number
<1>7. d.latest_era \in Nat
  BY <1>4, BlockFacts, Zenon
<1>8. d.best \in Seq(Int) /\ Len(d.best) \in Nat /\ Number(d.best) \in Nat
  BY <1>4, BlockFacts
<1>9. History \in Nat /\ History > 0
  BY HistoryAssumption
<1> QED BY <1>2, <1>3, <1>4, <1>5, <1>6, <1>7, <1>8, <1>9

\* In every era the records are numbered as the journal is.
LEMMA RecordNumbers ==
  ASSUME NEW d, DbOK(d), NEW j, JournalOf(j, d), NEW e \in Eras
  PROVE  /\ j[e] \in Seq(Blocks) /\ Len(j[e]) \in Nat /\ DOMAIN j[e] = 1 .. Len(j[e])
         /\ \A i \in Nat : HasRecord(d, e, i) <=> i < Len(j[e])
         /\ \A r \in d.records : r.era = e => r.index < Len(j[e]) /\ j[e][r.index + 1] = r.id
<1>1. j[e] \in Seq(Blocks)
  BY DEF JournalOf
<1>2. Len(j[e]) \in Nat /\ DOMAIN j[e] = 1 .. Len(j[e])
  BY <1>1, LenProperties
<1>3. ASSUME NEW r \in d.records, r.era = e
      PROVE  r.index \in Nat /\ r.index < Len(j[e]) /\ j[e][r.index + 1] = r.id
  <2>1. r.index \in Nat
    BY DbTypes
  <2>2. r.index + 1 \in DOMAIN j[e] /\ j[e][r.index + 1] = r.id
    BY <1>3 DEF JournalOf
  <2> QED BY <1>2, <2>1, <2>2
<1>4. ASSUME NEW i \in Nat, i < Len(j[e]) PROVE HasRecord(d, e, i)
  <2>1. i + 1 \in DOMAIN j[e] /\ i + 1 - 1 = i
    BY <1>2, <1>4
  <2>2. HasRecord(d, e, i + 1 - 1)
    BY <2>1 DEF JournalOf
  <2> QED BY <2>1, <2>2
<1>5. ASSUME NEW i \in Nat, HasRecord(d, e, i) PROVE i < Len(j[e])
  <2>1. PICK r \in d.records : r.era = e /\ r.index = i
    BY <1>5 DEF HasRecord
  <2> QED BY <1>3, <2>1
<1> QED BY <1>1, <1>2, <1>3, <1>4, <1>5

\* The record of a new block keeps the records sound.
LEMMA CommitRecords ==
  ASSUME NEW d, DbOK(d), NEW j, JournalOf(j, d), NEW b \in Blocks,
         Number(d.base) < Number(b), Number(b) <= d.latest_era + 1,
         NEW c, c.base = d.base,
         c.records = d.records \cup {[era |-> Number(b), index |-> Len(j[Number(b)]), id |-> b]},
         c.latest_era = IF Number(b) > d.latest_era THEN Number(b) ELSE d.latest_era
  PROVE  /\ RecordsOK(c)
         /\ JournalOf([j EXCEPT ![Number(b)] = Append(@, b)], c)
         /\ \A k \in Keys : Counts(c)[k] = Counts(d)[k] + (IF k \in Insertions[b] THEN 1 ELSE 0)
<1> DEFINE now == Number(b)
           rec == [era |-> now, index |-> Len(j[now]), id |-> b]
<1>1. now \in Eras /\ now \in Nat
  BY BlockFacts DEF Eras
<1>2. /\ j[now] \in Seq(Blocks) /\ Len(j[now]) \in Nat /\ DOMAIN j[now] = 1 .. Len(j[now])
      /\ \A i \in Nat : HasRecord(d, now, i) <=> i < Len(j[now])
      /\ \A r \in d.records : r.era = now => r.index < Len(j[now])
  BY <1>1, RecordNumbers
<1>3. rec \notin d.records /\ \A r \in d.records : r.era # now \/ r.index # Len(j[now])
  BY <1>2
<1>4. c.latest_era \in Nat /\ d.latest_era <= c.latest_era /\ now <= c.latest_era
  BY <1>1, DbTypes
<1>5. IsFiniteSet(c.records)
  <2>1. IsFiniteSet(d.records)
    BY DEF DbOK, RecordsOK
  <2> QED BY <2>1, FS_AddElement, Zenon
<1>6. \A r \in c.records : r.era = Number(r.id) /\ Number(c.base) < r.era /\ r.era <= c.latest_era
  <2>1. ASSUME NEW r \in d.records
        PROVE  r.era = Number(r.id) /\ Number(c.base) < r.era /\ r.era <= c.latest_era
    <3>1. r.era = Number(r.id) /\ Number(d.base) < r.era /\ r.era <= d.latest_era
      BY DEF DbOK, RecordsOK
    <3> QED BY <1>4, <3>1, DbTypes
  <2>2. rec.era = Number(rec.id) /\ Number(c.base) < rec.era /\ rec.era <= c.latest_era
    BY <1>4
  <2> QED BY <2>1, <2>2
<1>7. \A r, s \in c.records : r.era = s.era /\ r.index = s.index => r = s
  <2>1. \A r, s \in d.records : r.era = s.era /\ r.index = s.index => r = s
    BY DEF DbOK, RecordsOK
  <2> QED BY <1>3, <2>1
<1>8. \A e \in Eras, i \in Nat : HasRecord(c, e, i) <=> HasRecord(d, e, i) \/ (e = now /\ i = Len(j[now]))
  <2>1. rec.era = now /\ rec.index = Len(j[now]) /\ c.records = d.records \cup {rec}
    OBVIOUS
  <2> HIDE DEF rec, now
  <2> QED BY <2>1 DEF HasRecord
<1>9. \A e \in Eras : \E n \in Nat : \A i \in Nat : HasRecord(c, e, i) <=> i < n
  <2>1. ASSUME NEW e \in Eras, e # now PROVE \E n \in Nat : \A i \in Nat : HasRecord(c, e, i) <=> i < n
    <3>1. PICK n \in Nat : \A i \in Nat : HasRecord(d, e, i) <=> i < n
      BY Zenon DEF DbOK, RecordsOK
    <3> QED BY <1>8, <2>1, <3>1, Zenon
  <2>2. \A i \in Nat : HasRecord(c, now, i) <=> i < Len(j[now]) + 1
    BY <1>1, <1>2, <1>8
  <2>3. Len(j[now]) + 1 \in Nat
    BY <1>2
  <2> QED BY <2>1, <2>2, <2>3, Zenon
<1>10. Number(c.base) < c.latest_era
  BY <1>1, <1>4, DbTypes
<1>11. \A e \in Number(c.base) + 1 .. c.latest_era : HasRecord(c, e, 0)
  <2>1. ASSUME NEW e \in Number(c.base) + 1 .. c.latest_era PROVE HasRecord(c, e, 0)
    <3>0. e \in Nat
      BY DbTypes
    <3>1. CASE e <= d.latest_era
      <4>1. HasRecord(d, e, 0)
        BY <3>0, <3>1, DbTypes DEF DbOK, RecordsOK
      <4> QED BY <4>1 DEF HasRecord
    <3>2. CASE e > d.latest_era
      <4>1. e = now
        BY <1>1, <3>0, <3>2, DbTypes
      <4>2. CASE Len(j[now]) = 0
        BY <1>1, <1>8, <4>1, <4>2
      <4>3. CASE Len(j[now]) # 0
        BY <1>1, <1>2, <1>8, <4>1, <4>3
      <4> QED BY <4>2, <4>3
    <3> QED BY <3>0, <3>1, <3>2, DbTypes
  <2> QED BY <2>1
<1>12. RecordsOK(c)
  BY <1>5, <1>6, <1>7, <1>9, <1>10, <1>11 DEF RecordsOK
<1> DEFINE jj == [j EXCEPT ![now] = Append(@, b)]
<1>13. JournalOf(jj, c)
  <2>1. j \in [Eras -> Seq(Blocks)]
    BY DEF JournalOf
  <2>2. /\ Append(j[now], b) \in Seq(Blocks)
        /\ DOMAIN Append(j[now], b) = 1 .. Len(j[now]) + 1
        /\ Append(j[now], b)[Len(j[now]) + 1] = b
        /\ \A i \in 1 .. Len(j[now]) : Append(j[now], b)[i] = j[now][i]
    BY <1>2, AppendProperties, LenProperties
  <2>3. jj \in [Eras -> Seq(Blocks)] /\ jj[now] = Append(j[now], b)
        /\ \A e \in Eras : e # now => jj[e] = j[e]
    BY <1>1, <2>1, <2>2
  <2> HIDE DEF jj
  <2>4. \A r \in d.records : r.index + 1 \in DOMAIN jj[r.era] /\ jj[r.era][r.index + 1] = r.id
    <3>1. ASSUME NEW r \in d.records
          PROVE  r.index + 1 \in DOMAIN jj[r.era] /\ jj[r.era][r.index + 1] = r.id
      <4>1. /\ r.index + 1 \in DOMAIN j[r.era] /\ j[r.era][r.index + 1] = r.id
            /\ r.era \in Eras /\ r.index \in Nat
        BY DbTypes DEF JournalOf
      <4>2. CASE r.era = now
        <5>1. r.index + 1 \in 1 .. Len(j[now])
          BY <1>2, <4>1, <4>2
        <5> QED BY <1>2, <2>2, <2>3, <4>1, <4>2, <5>1
      <4> QED BY <2>3, <4>1, <4>2
    <3> QED BY <3>1
  <2>5. rec.index + 1 \in DOMAIN jj[rec.era] /\ jj[rec.era][rec.index + 1] = rec.id
    BY <1>2, <2>2, <2>3
  <2>6. ASSUME NEW e \in Eras, NEW i \in DOMAIN jj[e] PROVE HasRecord(c, e, i - 1)
    <3>1. CASE e = now
      <4>1. i \in 1 .. Len(j[now]) + 1
        BY <2>2, <2>3, <3>1
      <4>2. i - 1 \in Nat /\ (i - 1 < Len(j[now]) \/ i - 1 = Len(j[now]))
        BY <1>2, <4>1
      <4> QED BY <1>2, <1>8, <3>1, <4>2
    <3>2. CASE e # now
      <4>1. i \in DOMAIN j[e] /\ HasRecord(d, e, i - 1)
        BY <2>3, <3>2 DEF JournalOf
      <4> QED BY <4>1 DEF HasRecord
    <3> QED BY <3>1, <3>2
  <2> QED BY <2>3, <2>4, <2>5, <2>6 DEF JournalOf
<1>14. ASSUME NEW k \in Keys
       PROVE  Counts(c)[k] = Counts(d)[k] + (IF k \in Insertions[b] THEN 1 ELSE 0)
  <2> DEFINE S == {r \in d.records : k \in Insertions[r.id]}
             T == {r \in c.records : k \in Insertions[r.id]}
  <2>1. IsFiniteSet(S) /\ rec \notin S
    BY <1>3, FS_Subset DEF DbOK, RecordsOK
  <2>2. T = IF k \in Insertions[b] THEN S \cup {rec} ELSE S
    BY <1>3
  <2>3. Counts(d)[k] = Cardinality(S) /\ Counts(c)[k] = Cardinality(T)
    BY DEF Counts
  <2> HIDE DEF S, T, rec
  <2>4. Cardinality(S) \in Nat
    BY <2>1, FS_CardinalityType
  <2>5. Cardinality(S \cup {rec}) = Cardinality(S) + 1
    BY <2>1, FS_AddElement, Zenon
  <2> QED BY <2>2, <2>3, <2>4, <2>5
<1> QED BY <1>12, <1>13, <1>14

\* A new block keeps the blocks and the chain sound.
LEMMA CommitChain ==
  ASSUME NEW d, DbOK(d), NEW b \in Blocks, Parent(b) \in d.blocks, Number(d.base) < Number(b),
         NEW new_best \in BOOLEAN,
         new_best => Extends(b, d.base) /\ Number(b) + History > d.latest_era,
         ~new_best => Number(b) < Number(d.best) + History,
         NEW c, c.keys = d.keys, c.base = d.base, c.blocks = d.blocks \cup {b},
         d.records \subseteq c.records, \E r \in c.records : r.id = b,
         c.latest_era = IF Number(b) > d.latest_era THEN Number(b) ELSE d.latest_era,
         c.best = IF new_best THEN b ELSE d.best,
         c.hashes = IF new_best
                    THEN [e \in Eras |-> IF e <= Number(b) THEN SubSeq(b, 1, e + 1) ELSE d.hashes[e]]
                    ELSE d.hashes
  PROVE  BlocksOK(c) /\ ChainOK(c)
<1>1. b \in Seq(Int) /\ Len(b) \in Nat /\ Len(b) # 0 /\ Number(b) \in Nat
  BY BlockFacts
<1>2. c.latest_era \in Nat /\ d.latest_era <= c.latest_era /\ Number(b) <= c.latest_era
  BY <1>1, DbTypes
<1>3. \A x \in d.blocks : Number(x) <= d.latest_era /\ \A n \in 1 .. Len(x) : SubSeq(x, 1, n) \in d.blocks
  BY DEF DbOK, BlocksOK
<1>4. ASSUME NEW n \in 1 .. Len(b) PROVE SubSeq(b, 1, n) \in c.blocks
  <2>1. CASE n = Len(b)
    BY <1>1, <2>1, SubSeqFull
  <2>2. CASE n # Len(b)
    <3>1. Len(b) - 1 \in 0 .. Len(b) /\ n \in 0 .. Len(b) - 1
      BY <1>1, <2>2
    <3>2. Len(Parent(b)) = Len(b) - 1 /\ SubSeq(Parent(b), 1, n) = SubSeq(b, 1, n)
      BY <1>1, <3>1, Prefix DEF Parent
    <3>3. n \in 1 .. Len(Parent(b))
      BY <1>1, <3>1, <3>2
    <3> QED BY <1>3, <3>2, <3>3, Zenon
  <2> QED BY <2>1, <2>2
<1>5. ASSUME NEW x \in c.blocks
      PROVE  Number(x) <= c.latest_era /\ \A n \in 1 .. Len(x) : SubSeq(x, 1, n) \in c.blocks
  <2>1. CASE x = b
    BY <1>2, <1>4, <2>1
  <2>2. CASE x \in d.blocks
    <3>1. Number(x) \in Nat
      BY <2>2, DbTypes, BlockFacts
    <3> QED BY <1>2, <1>3, <2>2, <3>1, DbTypes
  <2> QED BY <2>1, <2>2
<1>6. ASSUME NEW x \in c.blocks, Extends(x, c.base), x # c.base PROVE \E r \in c.records : r.id = x
  <2>1. CASE x \in d.blocks
    BY <1>6, <2>1 DEF DbOK, BlocksOK
  <2> QED BY <2>1
<1>7. BlocksOK(c)
  <2>1. State[c.base] \subseteq c.keys
    BY DEF DbOK, BlocksOK
  <2> QED BY <1>5, <1>6, <2>1 DEF BlocksOK
<1>8. /\ d.best \in d.blocks /\ Extends(d.best, d.base) /\ d.latest_era < Number(d.best) + History
      /\ \A e \in Eras : e <= Number(d.best) => d.hashes[e] = SubSeq(d.best, 1, e + 1)
      /\ d.base # Void => Number(d.base) + History <= d.latest_era
  BY DEF DbOK, ChainOK
<1>9. c.base # Void => Number(c.base) + History <= c.latest_era
  BY <1>2, <1>8, DbTypes
<1>10. CASE new_best
  <2>1. c.best \in c.blocks /\ Extends(c.best, c.base) /\ c.latest_era < Number(c.best) + History
    BY <1>1, <1>10, DbTypes
  <2>2. \A e \in Eras : e <= Number(c.best) => c.hashes[e] = SubSeq(c.best, 1, e + 1)
    BY <1>10, Zenon
  <2> QED BY <1>7, <1>9, <2>1, <2>2, Zenon DEF ChainOK
<1>11. CASE ~new_best
  <2>1. c.best = d.best /\ c.hashes = d.hashes
    BY <1>11
  <2>2. c.latest_era < Number(d.best) + History
    BY <1>1, <1>8, <1>11, DbTypes
  <2> QED BY <1>7, <1>8, <1>9, <2>1, <2>2, Zenon DEF ChainOK
<1> QED BY <1>10, <1>11

------------------------------------------------------------------------------
(* The batch of mark_canonical.                                            *)

\* Without the records of the era made canonical the rest is sound.
LEMMA MarkRecords ==
  ASSUME NEW d, DbOK(d), NEW j, JournalOf(j, d), NEW era \in Int, Number(d.base) = era - 1,
         era + History <= d.latest_era, era \in Eras,
         NEW c, Number(c.base) = era, c.latest_era = d.latest_era,
         c.records = {r \in d.records : r.era # era \/ r.index >= Len(j[era])}
  PROVE  /\ RecordsOK(c)
         /\ c.records = {r \in d.records : r.era # era}
         /\ JournalOf([j EXCEPT ![era] = <<>>], c)
<1>0. era \in Nat /\ \A r \in d.records : r.era \in Nat /\ r.era \in Eras /\ r.index \in Nat
  BY DbTypes, BlockFacts
<1>1. Len(j[era]) \in Nat /\ \A r \in d.records : r.era = era => r.index < Len(j[era])
  BY RecordNumbers
<1>2. c.records = {r \in d.records : r.era # era}
  BY <1>0, <1>1
<1>3. IsFiniteSet(c.records)
  BY <1>2, FS_Subset DEF DbOK, RecordsOK
<1>4. \A r \in d.records : r.era = Number(r.id) /\ Number(d.base) < r.era /\ r.era <= d.latest_era
  BY DEF DbOK, RecordsOK
<1>5. \A r \in c.records : r.era = Number(r.id) /\ Number(c.base) < r.era /\ r.era <= c.latest_era
  <2>1. ASSUME NEW r \in d.records, r.era # era PROVE era < r.era
    BY <1>0, <1>4, <2>1
  <2> QED BY <1>2, <1>4, <2>1
<1>6. \A r, s \in c.records : r.era = s.era /\ r.index = s.index => r = s
  BY <1>2 DEF DbOK, RecordsOK
<1>7. \A e \in Eras, i \in Nat : HasRecord(c, e, i) <=> HasRecord(d, e, i) /\ e # era
  BY <1>2 DEF HasRecord
<1>8. ASSUME NEW e \in Eras PROVE \E n \in Nat : \A i \in Nat : HasRecord(c, e, i) <=> i < n
  <2>1. CASE e = era
    <3>1. \A i \in Nat : HasRecord(c, e, i) <=> i < 0
      BY <1>7, <2>1
    <3> QED BY <3>1
  <2>2. CASE e # era
    <3>1. PICK n \in Nat : \A i \in Nat : HasRecord(d, e, i) <=> i < n
      BY Zenon DEF DbOK, RecordsOK
    <3> QED BY <1>7, <2>2, <3>1, Zenon
  <2> QED BY <2>1, <2>2, Zenon
<1>9. ASSUME NEW e \in Number(c.base) + 1 .. c.latest_era PROVE HasRecord(c, e, 0)
  <2>1. e \in Nat /\ e <= d.latest_era /\ e # era /\ e \in Number(d.base) + 1 .. d.latest_era
    BY <1>0, DbTypes
  <2>2. HasRecord(d, e, 0)
    BY <2>1 DEF DbOK, RecordsOK
  <2>3. e \in Eras
    BY <2>1, DbTypes, LowerEras
  <2> QED BY <1>7, <2>1, <2>2, <2>3
<1>10. Number(c.base) < c.latest_era
  BY <1>0, DbTypes
<1>11. RecordsOK(c)
  BY <1>3, <1>5, <1>6, <1>8, <1>9, <1>10 DEF RecordsOK
<1> DEFINE jj == [j EXCEPT ![era] = <<>>]
<1>12. JournalOf(jj, c)
  <2>1. j \in [Eras -> Seq(Blocks)]
    BY DEF JournalOf
  <2>2. jj \in [Eras -> Seq(Blocks)] /\ jj[era] = <<>> /\ \A e \in Eras : e # era => jj[e] = j[e]
    BY <2>1
  <2> HIDE DEF jj
  <2>3. \A r \in c.records : r.index + 1 \in DOMAIN jj[r.era] /\ jj[r.era][r.index + 1] = r.id
    BY <1>0, <1>2, <2>2, Zenon DEF JournalOf
  <2>4. ASSUME NEW e \in Eras, NEW i \in DOMAIN jj[e] PROVE HasRecord(c, e, i - 1)
    <3>1. e # era
      BY <2>2
    <3>2. HasRecord(d, e, i - 1)
      BY <2>2, <3>1 DEF JournalOf
    <3> QED BY <1>2, <3>1, <3>2 DEF HasRecord
  <2> QED BY <2>2, <2>3, <2>4 DEF JournalOf
<1> QED BY <1>2, <1>11, <1>12

\* What leaves the overlay is what the records of the era insert.
LEMMA MarkCounts ==
  ASSUME NEW d, DbOK(d), NEW j, JournalOf(j, d), NEW era \in Eras,
         NEW c, c.records = {r \in d.records : r.era # era}, NEW k \in Keys
  PROVE  Counts(d)[k] - Cardinality({i \in DOMAIN j[era] : k \in Insertions[j[era][i]]}) = Counts(c)[k]
<1> DEFINE S == {r \in d.records : k \in Insertions[r.id]}
           E == {r \in S : r.era = era}
           T == {r \in c.records : k \in Insertions[r.id]}
           I == {i \in DOMAIN j[era] : k \in Insertions[j[era][i]]}
           f == [r \in E |-> r.index + 1]
<1>1. Counts(d)[k] = Cardinality(S) /\ Counts(c)[k] = Cardinality(T)
  BY DEF Counts
<1>2. T = S \ E
  OBVIOUS
<1>3. IsFiniteSet(S) /\ E \subseteq S
  BY FS_Subset DEF DbOK, RecordsOK
<1>4. /\ Len(j[era]) \in Nat /\ DOMAIN j[era] = 1 .. Len(j[era])
      /\ \A i \in Nat : HasRecord(d, era, i) <=> i < Len(j[era])
      /\ \A r \in d.records : r.era = era => r.index < Len(j[era]) /\ j[era][r.index + 1] = r.id
  BY RecordNumbers
<1>5. \A r \in d.records : r.index \in Nat
  BY DbTypes
<1>6. f \in [E -> I]
  <2>1. ASSUME NEW r \in E PROVE r.index + 1 \in I
    <3>1. r.index \in Nat /\ r.index < Len(j[era]) /\ j[era][r.index + 1] = r.id
      BY <1>4, <1>5
    <3>2. r.index + 1 \in DOMAIN j[era]
      BY <1>4, <3>1
    <3> QED BY <3>1, <3>2
  <2> HIDE DEF E, I
  <2> QED BY <2>1
<1>7. ASSUME NEW r \in E, NEW s \in E, f[r] = f[s] PROVE r = s
  <2>1. r.index = s.index
    BY <1>5, <1>7
  <2> QED BY <2>1 DEF DbOK, RecordsOK
<1>8. ASSUME NEW i \in I PROVE \E r \in E : f[r] = i
  <2>1. i \in Nat /\ i - 1 \in Nat /\ i - 1 < Len(j[era])
    BY <1>4
  <2>2. HasRecord(d, era, i - 1)
    BY <1>4, <2>1
  <2>3. PICK r \in d.records : r.era = era /\ r.index = i - 1
    BY <2>2 DEF HasRecord
  <2>4. r.index + 1 = i
    BY <2>1, <2>3
  <2>5. r.id = j[era][i]
    BY <1>4, <2>3, <2>4
  <2> QED BY <2>3, <2>4, <2>5
<1> HIDE DEF S, E, T, I, f
<1>9. f \in Bijection(E, I)
  <2>1. f \in Injection(E, I)
    BY <1>6, <1>7 DEF Injection, IsInjective
  <2>2. f \in Surjection(E, I)
    BY <1>6, <1>8 DEF Surjection
  <2> QED BY <2>1, <2>2 DEF Bijection
<1>10. IsFiniteSet(E) /\ Cardinality(I) = Cardinality(E)
  <2>1. IsFiniteSet(E)
    BY <1>3, FS_Subset
  <2>2. ExistsBijection(E, I)
    BY <1>9 DEF ExistsBijection
  <2> QED BY <2>1, <2>2, FS_Bijection
<1>11. Cardinality(T) = Cardinality(S) - Cardinality(E)
  <2>1. S \cap E = E
    BY <1>3
  <2>2. Cardinality(S \ E) = Cardinality(S) - Cardinality(S \cap E)
    BY <1>3, FS_Difference, Zenon
  <2> QED BY <1>2, <2>1, <2>2
<1> QED BY <1>1, <1>10, <1>11 DEF I

\* Once the canonical block is the base, its state is in the database, the
\* chain and the live blocks are sound, and no key that a live block has is
\* among the deletions.
LEMMA MarkChain ==
  ASSUME NEW d, DbOK(d), NEW era \in Int, Number(d.base) = era - 1, era + History <= d.latest_era,
         NEW c, c.base = d.hashes[era], c.latest_era = d.latest_era, c.blocks = d.blocks,
         c.best = d.best, c.hashes = d.hashes, c.records = {r \in d.records : r.era # era},
         RecordsOK(c),
         c.keys = (d.keys \cup {k \in Insertions[d.hashes[era]] : Counts(d)[k] > 0})
                  \ {k \in Deletions[d.hashes[era]] : Counts(c)[k] <= 0}
  PROVE  /\ BlocksOK(c) /\ ChainOK(c)
         /\ \A b \in d.blocks : Extends(b, c.base) => Extends(b, d.base)
         /\ \A b \in d.blocks : Extends(b, c.base) =>
              \A k \in State[b] : k \in d.keys => k \in c.keys
<1> DEFINE canon == d.hashes[era]
<1>1. /\ canon \in Blocks /\ canon \in d.blocks /\ Parent(canon) = d.base /\ Extends(canon, d.base)
      /\ Number(canon) = era /\ Extends(d.best, canon)
      /\ \E r \in d.records : r.id = canon /\ r.era = era
  BY NextCanon
<1>2. canon \in Seq(Int) /\ d.base \in Seq(Int) /\ Len(canon) \in Nat /\ Len(d.base) \in Nat
  BY <1>1, BlockFacts, DbTypes
<1>3. ASSUME NEW b \in d.blocks, Extends(b, canon)
      PROVE  /\ b \in Blocks /\ b \in Seq(Int) /\ Extends(b, d.base)
             /\ b # canon => b # d.base /\ Number(b) # era
  <2>1. b \in Blocks /\ b \in Seq(Int)
    BY DbTypes, BlockFacts
  <2> HIDE DEF canon
  <2>2. Extends(b, d.base)
    BY <1>1, <1>2, <1>3, <2>1, ExtendsFacts
  <2>3. ASSUME b # canon PROVE b # d.base /\ Number(b) # era
    <3>1. Len(canon) < Len(b) /\ Len(b) \in Nat
      BY <1>2, <1>3, <2>1, <2>3, ExtendsFacts, BlockFacts
    <3>2. Len(d.base) <= Len(canon)
      BY <1>1 DEF Extends
    <3>3. Len(b) # Len(d.base) /\ Len(b) # Len(canon)
      BY <1>2, <3>1, <3>2
    <3>4. Number(b) # Number(canon)
      BY <1>2, <3>1, <3>3 DEF Number
    <3> QED BY <1>1, <3>3, <3>4
  <2> QED BY <2>1, <2>2, <2>3
<1>4. ASSUME NEW b \in d.blocks, Extends(b, canon), NEW k \in State[b]
      PROVE  k \notin {x \in Deletions[canon] : Counts(c)[x] <= 0}
  <2>1. k \in Keys
    BY <1>3, <1>4, StateAssumption
  <2>2. CASE k \in State[canon]
    BY <1>1, <2>2 DEF Deletions
  <2>3. CASE k \notin State[canon]
    <3>1. PICK r \in d.records : Number(canon) < r.era /\ k \in Insertions[r.id]
      BY <1>1, <1>4, <2>3, Journalled
    <3>2. r \in c.records
      BY <1>1, <3>1, DbTypes
    <3>3. Counts(c)[k] > 0 /\ Counts(c)[k] \in Nat
      BY <2>1, <3>1, <3>2, Counting, Zenon DEF RecordsOK
    <3> QED BY <3>3
  <2> QED BY <2>2, <2>3
<1>5. State[canon] \subseteq c.keys
  <2>1. ASSUME NEW k \in State[canon] PROVE k \in c.keys
    <3>1. Extends(canon, canon) /\ k \in Keys
      BY <1>1, <1>2, ExtendsFacts, StateAssumption, Zenon
    <3>2. k \notin {x \in Deletions[canon] : Counts(c)[x] <= 0}
      BY <1>1, <1>4, <3>1, Zenon
    <3>3. CASE k \in State[d.base]
      BY <3>2, <3>3, Zenon DEF DbOK, BlocksOK
    <3>4. CASE k \notin State[d.base]
      <4>1. k \in Insertions[canon]
        BY <1>1, <3>4 DEF Insertions
      <4>2. Counts(d)[k] > 0
        BY <1>1, <3>1, <4>1, Counting DEF DbOK, RecordsOK
      <4> QED BY <3>2, <4>1, <4>2
    <3> QED BY <3>3, <3>4
  <2> QED BY <2>1
<1>6. BlocksOK(c)
  <2>1. \A b \in c.blocks : Number(b) <= c.latest_era /\ \A n \in 1 .. Len(b) : SubSeq(b, 1, n) \in c.blocks
    BY Zenon DEF DbOK, BlocksOK
  <2>2. ASSUME NEW b \in c.blocks, Extends(b, c.base), b # c.base PROVE \E r \in c.records : r.id = b
    <3>1. b \in d.blocks /\ Extends(b, d.base) /\ b # d.base /\ Number(b) # era
      BY <1>3, <2>2
    <3>2. PICK r \in d.records : r.id = b
      BY <3>1 DEF DbOK, BlocksOK
    <3>3. r.era = Number(b)
      BY <3>2 DEF DbOK, RecordsOK
    <3> QED BY <3>1, <3>2, <3>3
  <2> QED BY <1>5, <2>1, <2>2, Zenon DEF BlocksOK
<1>7. ChainOK(c)
  <2>1. /\ c.best \in c.blocks /\ c.latest_era < Number(c.best) + History
        /\ \A e \in Eras : e <= Number(c.best) => c.hashes[e] = SubSeq(c.best, 1, e + 1)
    BY DEF DbOK, ChainOK
  <2>2. Extends(c.best, c.base) /\ Number(c.base) + History <= c.latest_era
    BY <1>1
  <2> QED BY <2>1, <2>2 DEF ChainOK
<1>8. \A b \in d.blocks : Extends(b, c.base) => Extends(b, d.base)
  BY <1>3
<1>9. ASSUME NEW b \in d.blocks, Extends(b, c.base), NEW k \in State[b], k \in d.keys PROVE k \in c.keys
  BY <1>4, <1>9
<1> QED BY <1>6, <1>7, <1>8, <1>9

------------------------------------------------------------------------------
(* cumulative_size.                                                        *)

\* Emplacing insertions adds the keys that were not there.
LEMMA SizeUp ==
  ASSUME NEW o \in [Keys -> Nat], NEW I \in SUBSET Keys,
         NEW p, p = [k \in Keys |-> o[k] + (IF k \in I THEN 1 ELSE 0)]
  PROVE  Size(p) = Size(o) + Cardinality({k \in I : o[k] <= 0})
<1> DEFINE S == {k \in Keys : o[k] > 0}
           A == {k \in I : o[k] <= 0}
           T == {k \in Keys : p[k] > 0}
<1>1. T = S \cup A /\ S \cap A = {}
  OBVIOUS
<1>2. IsFiniteSet(S) /\ IsFiniteSet(A)
  BY StateAssumption, FS_Subset
<1>3. Size(p) = Cardinality(T) /\ Size(o) = Cardinality(S)
  BY DEF Size
<1> HIDE DEF S, A, T
<1>4. Cardinality(S) \in Nat /\ Cardinality(A) \in Nat
  BY <1>2, FS_CardinalityType
<1>5. Cardinality(S \cup A) = Cardinality(S) + Cardinality(A) - Cardinality(S \cap A)
  BY <1>2, FS_Union
<1>6. Cardinality(S \cap A) = 0
  BY <1>1, FS_EmptySet
<1>7. Size(p) = Size(o) + Cardinality(A)
  BY <1>1, <1>3, <1>4, <1>5, <1>6
<1> QED BY <1>7 DEF A

\* Purging insertions takes away the keys that are gone.
LEMMA SizeDown ==
  ASSUME NEW o \in [Keys -> Nat], NEW p \in [Keys -> Nat], \A k \in Keys : p[k] <= o[k]
  PROVE  Size(p) = Size(o) - Cardinality({k \in Keys : o[k] > 0 /\ p[k] <= 0})
<1> DEFINE S == {k \in Keys : o[k] > 0}
           A == {k \in Keys : o[k] > 0 /\ p[k] <= 0}
           T == {k \in Keys : p[k] > 0}
<1>1. T = S \ A /\ S \cap A = A
  OBVIOUS
<1>2. IsFiniteSet(S)
  BY StateAssumption, FS_Subset
<1>3. Size(p) = Cardinality(T) /\ Size(o) = Cardinality(S)
  BY DEF Size
<1> HIDE DEF S, A, T
<1>4. Cardinality(T) = Cardinality(S) - Cardinality(A)
  BY <1>1, <1>2, FS_Difference, Zenon
<1>5. Size(p) = Size(o) - Cardinality(A)
  BY <1>3, <1>4
<1> QED BY <1>5 DEF A

\* The counts of a sound database.
LEMMA CountsType ==
  ASSUME NEW d, DbOK(d)
  PROVE  Counts(d) \in [Keys -> Nat]
<1>1. \A k \in Keys : Counts(d)[k] \in Nat
  BY Counting DEF DbOK, RecordsOK
<1>2. Counts(d) = [k \in Keys |-> Counts(d)[k]]
  BY DEF Counts
<1> QED BY <1>1, <1>2

\* Insertions and deletions are sets of keys.
LEMMA ChangeTypes ==
  ASSUME NEW b \in Blocks
  PROVE  Insertions[b] \subseteq Keys /\ Deletions[b] \subseteq Keys
<1>1. Parent(b) \in Blocks \cup {Void}
  BY TreeAssumption
<1> QED BY <1>1, StateAssumption DEF Insertions, Deletions

\* A new database is sound.
LEMMA NewDatabase ==
  ASSUME NEW g \in Blocks, Parent(g) = Void,
         NEW d, d \in DbStates, d.records = {[era |-> 0, index |-> 0, id |-> g]}, d.latest_era = 0,
         d.blocks = {g}, d.best = g, d.keys = {}, d.base = Void,
         d.hashes = [e \in Eras |-> IF e = 0 THEN g ELSE Void]
  PROVE  /\ DbOK(d) /\ 0 \in Eras
         /\ JournalOf([e \in Eras |-> IF e = 0 THEN <<g>> ELSE <<>>], d)
         /\ Counts(d) = [k \in Keys |-> IF k \in State[g] THEN 1 ELSE 0]
         /\ Size(Counts(d)) = Cardinality(State[g])
<1> DEFINE rec == [era |-> 0, index |-> 0, id |-> g]
           j == [e \in Eras |-> IF e = 0 THEN <<g>> ELSE <<>>]
<1>1. g \in Seq(Int) /\ Len(g) = 1 /\ Number(g) = 0 /\ SubSeq(g, 1, 1) = g
  <2>1. g \in Seq(Int) /\ Len(g) \in Nat /\ Len(g) # 0
    BY BlockFacts
  <2>2. Len(Parent(g)) = Len(g) - 1
    BY ParentLength
  <2>3. Len(g) = 1
    BY <2>1, <2>2, BlockFacts
  <2> QED BY <2>1, <2>3, SubSeqFull DEF Number
<1>2. 0 \in Eras
  BY <1>1 DEF Eras
<1>4. d.records = {rec} /\ rec.era = 0 /\ rec.index = 0 /\ rec.id = g
  OBVIOUS
<1> HIDE DEF rec
<1>5. \A e \in Eras, i \in Nat : HasRecord(d, e, i) <=> e = 0 /\ i = 0
  BY <1>4 DEF HasRecord
<1>6. RecordsOK(d)
  <2>1. IsFiniteSet(d.records)
    <3>1. IsFiniteSet({rec})
      BY FS_Singleton, Zenon
    <3> QED BY <1>4, <3>1
  <2>2. ASSUME NEW e \in Eras PROVE \E n \in Nat : \A i \in Nat : HasRecord(d, e, i) <=> i < n
    <3>1. CASE e = 0
      <4>1. \A i \in Nat : HasRecord(d, e, i) <=> i < 1
        BY <1>5, <3>1
      <4> QED BY <4>1
    <3>2. CASE e # 0
      <4>1. \A i \in Nat : HasRecord(d, e, i) <=> i < 0
        BY <1>5, <3>2
      <4> QED BY <4>1
    <3> QED BY <3>1, <3>2
  <2>3. \A e \in Number(d.base) + 1 .. d.latest_era : HasRecord(d, e, 0)
    <3>1. \A e \in Number(d.base) + 1 .. d.latest_era : e = 0
      BY BlockFacts
    <3> QED BY <1>2, <1>5, <3>1
  <2>4. Number(d.base) < d.latest_era
    BY <1>4, BlockFacts
  <2>5. \A r \in d.records : r.era = Number(r.id) /\ Number(d.base) < r.era /\ r.era <= d.latest_era
    BY <1>1, <1>4, <2>4
  <2>6. \A r, s \in d.records : r.era = s.era /\ r.index = s.index => r = s
    BY <1>4
  <2> QED BY <2>1, <2>2, <2>3, <2>4, <2>5, <2>6 DEF RecordsOK
<1>7. BlocksOK(d)
  <2>1. \A n \in 1 .. Len(g) : SubSeq(g, 1, n) = g
    BY <1>1
  <2>2. State[d.base] \subseteq d.keys
    BY <1>4, StateAssumption
  <2>3. \E r \in d.records : r.id = g
    BY <1>4
  <2>4. Number(g) <= d.latest_era
    BY <1>1
  <2>5. \A n \in 1 .. Len(g) : SubSeq(g, 1, n) \in d.blocks
    BY <2>1
  <2>6. \A b \in d.blocks : b = g
    OBVIOUS
  <2> QED BY <2>2, <2>3, <2>4, <2>5, <2>6, Zenon DEF BlocksOK
<1>8. ChainOK(d)
  <2>1. Extends(g, Void)
    BY <1>1, ExtendsFacts
  <2>2. \A e \in Eras : e <= Number(d.best) => e = 0
    BY <1>1, <1>4, BlockFacts
  <2>3. d.hashes[0] = SubSeq(d.best, 1, 0 + 1)
    BY <1>1, <1>2, <1>4
  <2>4. d.best \in d.blocks /\ Extends(d.best, d.base)
    BY <2>1
  <2>5. d.latest_era < Number(d.best) + History
    BY <1>1, HistoryAssumption
  <2>6. ASSUME NEW e \in Eras, e <= Number(d.best) PROVE d.hashes[e] = SubSeq(d.best, 1, e + 1)
    <3>1. e = 0
      BY <2>2, <2>6
    <3> QED BY <2>3, <3>1
  <2> QED BY <2>4, <2>5, <2>6 DEF ChainOK
<1>9. JournalOf(j, d)
  <2>1. <<g>> \in Seq(Blocks) /\ <<>> \in Seq(Blocks) /\ DOMAIN <<g>> = {1} /\ <<g>>[1] = g
    OBVIOUS
  <2>2. j \in [Eras -> Seq(Blocks)] /\ j[0] = <<g>> /\ \A e \in Eras : e # 0 => j[e] = <<>>
    BY <1>2, <2>1
  <2> HIDE DEF j
  <2>3. \A e \in Eras : \A i \in DOMAIN j[e] : e = 0 /\ i = 1
    BY <2>1, <2>2
  <2>4. \A e \in Eras : \A i \in DOMAIN j[e] : HasRecord(d, e, i - 1)
    BY <1>5, <2>3
  <2>5. \A r \in d.records : r.index + 1 \in DOMAIN j[r.era] /\ j[r.era][r.index + 1] = r.id
    BY <1>4, <2>1, <2>2
  <2> QED BY <2>2, <2>4, <2>5 DEF JournalOf
<1>10. Insertions[g] = State[g] /\ State[g] \subseteq Keys
  BY StateAssumption DEF Insertions
<1>11. ASSUME NEW k \in Keys PROVE Counts(d)[k] = IF k \in State[g] THEN 1 ELSE 0
  <2> DEFINE S == {r \in d.records : k \in Insertions[r.id]}
  <2>1. S = IF k \in State[g] THEN {rec} ELSE {}
    BY <1>4, <1>10
  <2>2. Counts(d)[k] = Cardinality(S)
    BY DEF Counts
  <2> HIDE DEF S
  <2>3. Cardinality({rec}) = 1
    BY FS_Singleton, Zenon
  <2>4. Cardinality({}) = 0
    BY FS_EmptySet
  <2> QED BY <2>1, <2>2, <2>3, <2>4
<1>12. Counts(d) = [k \in Keys |-> IF k \in State[g] THEN 1 ELSE 0]
  <2>1. Counts(d) = [k \in Keys |-> Counts(d)[k]]
    BY DEF Counts
  <2> QED BY <1>11, <2>1
<1>13. Size(Counts(d)) = Cardinality(State[g])
  <2>1. {k \in Keys : Counts(d)[k] > 0} = State[g]
    BY <1>10, <1>11
  <2> QED BY <2>1, Zenon DEF Size
<1> QED BY <1>2, <1>6, <1>7, <1>8, <1>9, <1>12, <1>13 DEF DbOK
==============================================================================
