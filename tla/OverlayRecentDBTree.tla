------------------------- MODULE OverlayRecentDBTree -------------------------
(***************************************************************************)
(* Facts about the blocks OverlayRecentDB is about: ancestors, eras, and   *)
(* which blocks insert the keys of a state.                                *)
(***************************************************************************)
EXTENDS OverlayRecentDB, SequenceTheorems, WellFoundedInduction, TLAPS

\* Every nonempty set of naturals has a least member.
LEMMA Least ==
  ASSUME NEW T, T \subseteq Nat, T # {}
  PROVE  \E x \in T : \A y \in T : x <= y
<1> DEFINE R == {p \in Nat \X Nat : p[1] < p[2]}
<1>1. R = OpToRel(<, Nat)
  BY DEF OpToRel
<1>2. IsWellFoundedOn(R, Nat)
  BY <1>1, NatLessThanWellFounded, Zenon
<1>3. \E x \in T : \A y \in T : ~(<<y, x>> \in R)
  <2> HIDE DEF R
  <2> QED BY <1>2, WFMin, Zenon
<1>4. PICK x \in T : \A y \in T : ~(<<y, x>> \in R)
  BY <1>3
<1>5. ASSUME NEW y \in T PROVE x <= y
  <2>1. x \in Nat /\ y \in Nat /\ ~(<<y, x>> \in R)
    BY <1>4
  <2> QED BY <2>1
<1> QED BY <1>5

\* Blocks are nonempty sequences.
LEMMA BlockFacts ==
  /\ \A b \in Blocks : b \in Seq(Int) /\ Len(b) \in Nat \ {0} /\ b # Void /\ Number(b) \in Nat
  /\ Void \in Seq(Int) /\ Len(Void) = 0 /\ Number(Void) = -1
  /\ Eras \subseteq Nat
<1>1. ASSUME NEW b \in Blocks
      PROVE  b \in Seq(Int) /\ Len(b) \in Nat \ {0} /\ b # Void /\ Number(b) \in Nat
  <2>1. b \in Seq(Int) /\ b # Void
    BY TreeAssumption
  <2>2. Len(b) \in Nat /\ Len(b) # 0
    BY <2>1, EmptySeq, LenProperties DEF Void
  <2> QED BY <2>1, <2>2 DEF Number
<1>2. Void \in Seq(Int) /\ Len(Void) = 0 /\ Number(Void) = -1
  BY DEF Void, Number
<1>3. Eras \subseteq Nat
  BY <1>1 DEF Eras
<1> QED BY <1>1, <1>2, <1>3

\* Prefixes of a sequence, and prefixes of these.
LEMMA Prefix ==
  ASSUME NEW b \in Seq(Int), NEW n \in 0 .. Len(b)
  PROVE  /\ SubSeq(b, 1, n) \in Seq(Int)
         /\ Len(SubSeq(b, 1, n)) = n
         /\ \A i \in 1 .. n : SubSeq(b, 1, n)[i] = b[i]
         /\ \A m \in 0 .. n : SubSeq(SubSeq(b, 1, n), 1, m) = SubSeq(b, 1, m)
         /\ SubSeq(b, 1, Len(b)) = b
         /\ SubSeq(b, 1, 0) = Void
<1>1. \A i \in 1 .. Len(b) : b[i] \in Int
  BY LenProperties
<1>2. ASSUME NEW m \in 0 .. Len(b)
      PROVE  /\ SubSeq(b, 1, m) \in Seq(Int) /\ Len(SubSeq(b, 1, m)) = m
             /\ \A i \in 1 .. m : SubSeq(b, 1, m)[i] = b[i]
  BY <1>1
<1>3. ASSUME NEW m \in 0 .. n
      PROVE  SubSeq(SubSeq(b, 1, n), 1, m) = SubSeq(b, 1, m)
  BY <1>1, <1>2
<1>4. SubSeq(b, 1, 0) = Void
  BY SubSeqEmpty DEF Void
<1> QED BY <1>2, <1>3, <1>4, SubSeqFull
\* The parent of a prefix is the prefix one shorter.
LEMMA ParentOfPrefix ==
  ASSUME NEW b \in Seq(Int), NEW n \in 1 .. Len(b)
  PROVE  Parent(SubSeq(b, 1, n)) = SubSeq(b, 1, n - 1)
BY Prefix, LenProperties DEF Parent

\* A block is one longer than its parent.
LEMMA ParentLength ==
  ASSUME NEW b \in Blocks
  PROVE  Len(Parent(b)) = Len(b) - 1
<1>1. b \in Seq(Int) /\ Len(b) \in Nat /\ Len(b) - 1 \in 0 .. Len(b)
  BY BlockFacts
<1>2. Len(SubSeq(b, 1, Len(b) - 1)) = Len(b) - 1
  BY <1>1, Prefix, Zenon
<1> QED BY <1>2 DEF Parent

\* The ancestors of a block are blocks.
LEMMA Ancestors ==
  ASSUME NEW b \in Blocks, NEW n \in 1 .. Len(b)
  PROVE  SubSeq(b, 1, n) \in Blocks /\ Number(SubSeq(b, 1, n)) = n - 1
<1> DEFINE T == {m \in Nat : m < Len(b) /\ SubSeq(b, 1, Len(b) - m) \notin Blocks}
<1>1. b \in Seq(Int) /\ Len(b) \in Nat
  BY BlockFacts
<1>2. T = {}
  <2>1. SUFFICES ASSUME T # {} PROVE FALSE
    OBVIOUS
  <2>2. PICK m \in T : \A y \in T : m <= y
    BY <2>1, Least, Zenon
  <2>3. m # 0
    <3>1. SubSeq(b, 1, Len(b)) = b /\ Len(b) - 0 = Len(b)
      BY <1>1, SubSeqFull
    <3> QED BY <2>2, <3>1, Zenon
  <2>4. m - 1 \in Nat /\ m - 1 < Len(b) /\ m - 1 \notin T
    BY <1>1, <2>2, <2>3
  <2> DEFINE c == SubSeq(b, 1, Len(b) - (m - 1))
  <2>5. c \in Blocks
    BY <2>4
  <2>6. Parent(c) = SubSeq(b, 1, Len(b) - m)
    <3>1. Len(b) - (m - 1) \in 1 .. Len(b) /\ Len(b) - (m - 1) - 1 = Len(b) - m
      BY <1>1, <2>4
    <3> QED BY <1>1, <3>1, ParentOfPrefix, Zenon
  <2>7. Parent(c) # Void
    <3>1. Len(b) - m \in 1 .. Len(b)
      BY <1>1
    <3>2. Len(SubSeq(b, 1, Len(b) - m)) # 0
      BY <1>1, <3>1, Prefix
    <3> QED BY <2>6, <3>2, BlockFacts
  <2> QED BY <2>5, <2>6, <2>7, TreeAssumption, Zenon
<1>3. SubSeq(b, 1, n) \in Blocks
  <2>1. Len(b) - n \in Nat /\ Len(b) - n < Len(b) /\ Len(b) - (Len(b) - n) = n
    BY <1>1
  <2> QED BY <1>2, <2>1
<1>4. Number(SubSeq(b, 1, n)) = n - 1
  BY <1>1, Prefix DEF Number
<1> QED BY <1>3, <1>4

\* The eras are the naturals up to the height of the tree.
LEMMA LowerEras ==
  ASSUME NEW e \in Eras, NEW f \in Nat, f <= e
  PROVE  f \in Eras
<1>1. PICK b \in Blocks : e = Number(b)
  BY DEF Eras
<1>2. f + 1 \in 1 .. Len(b)
  BY <1>1, BlockFacts DEF Number
<1>3. SubSeq(b, 1, f + 1) \in Blocks /\ Number(SubSeq(b, 1, f + 1)) = f
  BY <1>2, Ancestors
<1> QED BY <1>3 DEF Eras

\* Blocks that extend another one.
LEMMA ExtendsFacts ==
  ASSUME NEW a \in Seq(Int), NEW b \in Seq(Int), NEW c \in Seq(Int)
  PROVE  /\ Extends(b, b) /\ Extends(b, Void)
         /\ Extends(c, b) /\ Extends(b, a) => Extends(c, a)
         /\ Extends(c, b) /\ Extends(c, a) /\ Len(a) <= Len(b) => Extends(b, a)
         /\ \A n \in 0 .. Len(b) : Extends(b, SubSeq(b, 1, n))
         /\ Extends(b, a) /\ b # a => Len(a) < Len(b)
<1>0. Len(a) \in Nat /\ Len(b) \in Nat /\ Len(c) \in Nat
  BY LenProperties
<1>1. Extends(b, b) /\ Extends(b, Void)
  BY <1>0, Prefix, BlockFacts DEF Extends
<1>2. Extends(c, b) /\ Extends(b, a) => Extends(c, a)
  BY <1>0, Prefix DEF Extends
<1>3. Extends(c, b) /\ Extends(c, a) /\ Len(a) <= Len(b) => Extends(b, a)
  <2> SUFFICES ASSUME Extends(c, b), Extends(c, a), Len(a) <= Len(b) PROVE Extends(b, a)
    OBVIOUS
  <2>1. Len(b) \in 0 .. Len(c) /\ Len(a) \in 0 .. Len(b)
    BY <1>0 DEF Extends
  <2>2. SubSeq(SubSeq(c, 1, Len(b)), 1, Len(a)) = SubSeq(c, 1, Len(a))
    BY <2>1, Prefix
  <2> QED BY <2>2, Zenon DEF Extends
<1>4. ASSUME NEW n \in 0 .. Len(b) PROVE Extends(b, SubSeq(b, 1, n))
  <2>1. Len(SubSeq(b, 1, n)) = n
    BY Prefix
  <2> QED BY <1>0, <2>1 DEF Extends
<1>5. Extends(b, a) /\ b # a => Len(a) < Len(b)
  BY <1>0, Prefix DEF Extends
<1> QED BY <1>1, <1>2, <1>3, <1>4, <1>5

\* A key in the state of a block is in that of a given ancestor, or a block
\* in between inserted it.
LEMMA Inserted ==
  ASSUME NEW a \in Blocks \cup {Void}, NEW b \in Blocks, Extends(b, a), NEW k \in State[b]
  PROVE  \/ k \in State[a]
         \/ \E n \in Len(a) + 1 .. Len(b) :
              SubSeq(b, 1, n) \in Blocks /\ k \in Insertions[SubSeq(b, 1, n)]
<1>1. b \in Seq(Int) /\ Len(b) \in Nat /\ Len(a) \in Nat /\ Len(a) <= Len(b)
  BY BlockFacts DEF Extends
<1> DEFINE T == {n \in Len(a) .. Len(b) : k \in State[SubSeq(b, 1, n)]}
<1>2. Len(b) \in T
  <2>1. SubSeq(b, 1, Len(b)) = b
    BY <1>1, SubSeqFull
  <2>2. k \in State[SubSeq(b, 1, Len(b))]
    BY <2>1, Zenon
  <2>3. Len(b) \in Len(a) .. Len(b)
    BY <1>1
  <2> QED BY <2>2, <2>3
<1>3. PICK n \in T : \A m \in T : n <= m
  <2>1. T \subseteq Nat /\ T # {}
    BY <1>1, <1>2
  <2> HIDE DEF T
  <2> QED BY <2>1, Least
<1>4. CASE n = Len(a)
  BY <1>3, <1>4, Zenon DEF Extends
<1>5. CASE n # Len(a)
  <2>1. n \in Len(a) + 1 .. Len(b) /\ n - 1 \in Len(a) .. Len(b) /\ n \in 1 .. Len(b)
    BY <1>1, <1>5
  <2>2. k \notin State[SubSeq(b, 1, n - 1)]
    BY <1>1, <1>3, <2>1
  <2>3. SubSeq(b, 1, n) \in Blocks /\ Parent(SubSeq(b, 1, n)) = SubSeq(b, 1, n - 1)
    BY <1>1, <2>1, Ancestors, ParentOfPrefix
  <2> QED BY <1>3, <2>1, <2>2, <2>3, Zenon DEF Insertions
<1> QED BY <1>4, <1>5
==============================================================================
