------------------------- MODULE VoteCollectorProofs -------------------------
(***************************************************************************)
(* The collector's invariants for every number of validators, threads and  *)
(* rounds.                                                                 *)
(***************************************************************************)
EXTENDS VoteCollector, FiniteSetTheorems, TLAPS

\* What insert keeps true of the step collector of one round: the last vote
\* of an address is one of the messages of the round and is signed by the
\* address, only addresses that voted are counted, and each of them once.
StepInv(c, r) ==
  /\ \A a \in DOMAIN c.voted :
       /\ c.voted[a] \in c.messages
       /\ c.voted[a].round = r
       /\ Recover(c.voted[a].signature) = a
  /\ \A b \in c.block_votes : b.address \in DOMAIN c.voted
  /\ \A b, d \in c.block_votes : b.address = d.address => b = d

PartialFunctions(D, R) == UNION {[S -> R] : S \in SUBSET D}

StepCollectors ==
  [voted : PartialFunctions(Addresses, Messages),
   block_votes : SUBSET Entries,
   messages : SUBSET Messages]

\* TypeOK, and that the maps are functions and the step collectors records.
Typed ==
  /\ votes \in PartialFunctions(Rounds, StepCollectors)
  /\ checked \in [Threads -> SUBSET Messages]
  /\ reported \subseteq [author : Addresses, vote_one : Messages, vote_two : Messages]

\* The inductive invariant.
IInv ==
  /\ Typed
  /\ \A r \in DOMAIN votes : StepInv(votes[r], r)
  /\ EvidenceIsSound

\* What membership in PartialFunctions says.
LEMMA PartialFunctionsIntro ==
  ASSUME NEW D, NEW R, NEW S, S \subseteq D, NEW f, f \in [S -> R]
  PROVE  f \in PartialFunctions(D, R)
BY DEF PartialFunctions

LEMMA PartialFunctionsElim ==
  ASSUME NEW D, NEW R, NEW f, f \in PartialFunctions(D, R)
  PROVE  /\ DOMAIN f \subseteq D
         /\ f = [x \in DOMAIN f |-> f[x]]
         /\ \A x \in DOMAIN f : f[x] \in R
BY DEF PartialFunctions

\* The default step collector is well typed and satisfies StepInv.
LEMMA EmptyStepOK ==
  ASSUME NEW r
  PROVE  EmptyStep \in StepCollectors /\ StepInv(EmptyStep, r)
<1>1. [a \in {} |-> {}] \in PartialFunctions(Addresses, Messages)
  BY PartialFunctionsIntro, [a \in {} |-> {}] \in [{} -> Messages]
<1> QED
  BY <1>1 DEF EmptyStep, StepCollectors, StepInv

\* StepCollector::insert keeps StepInv, for a message signed by the address.
LEMMA InsertOK ==
  ASSUME NEW c \in StepCollectors, NEW m \in Messages, StepInv(c, m.round)
  PROVE  LET d == Insert(c, m, Recover(m.signature))
         IN  d \in StepCollectors /\ StepInv(d, m.round)
<1> DEFINE a == Recover(m.signature)
           d == Insert(c, m, a)
           voted == [x \in DOMAIN c.voted \cup {a} |-> IF x = a THEN m ELSE c.voted[x]]
<1>1. a \in Addresses
  BY DEF Messages, Signatures, Recover
<1>2. CASE m \in c.messages
  BY <1>2 DEF Insert
<1>3. CASE m \notin c.messages
  <2>1. /\ DOMAIN c.voted \subseteq Addresses
        /\ \A x \in DOMAIN c.voted : c.voted[x] \in Messages
    BY PartialFunctionsElim DEF StepCollectors
  <2>2. voted \in PartialFunctions(Addresses, Messages)
    <3>1. voted \in [DOMAIN c.voted \cup {a} -> Messages]
      BY <2>1
    <3> QED
      BY <1>1, <2>1, <3>1, PartialFunctionsIntro
  <2>3. Entry(m, a) \in Entries /\ Entry(m, a).address = a
    BY <1>1 DEF Entry, Entries, Messages
  <2>4. /\ d.voted = voted
        /\ d.messages = c.messages \cup {m}
        /\ d.block_votes = IF a \in DOMAIN c.voted THEN c.block_votes
                           ELSE c.block_votes \cup {Entry(m, a)}
    BY <1>3 DEF Insert
  <2>5. d \in StepCollectors
    BY <1>3, <2>2, <2>3 DEF Insert, StepCollectors
  <2>6. \A x \in DOMAIN d.voted :
          /\ d.voted[x] \in d.messages
          /\ d.voted[x].round = m.round
          /\ Recover(d.voted[x].signature) = x
    BY <2>4 DEF StepInv
  <2>7. \A b \in d.block_votes : b.address \in DOMAIN d.voted
    BY <2>3, <2>4 DEF StepInv
  <2>8. \A b, e \in d.block_votes : b.address = e.address => b = e
    BY <2>3, <2>4 DEF StepInv
  <2> QED
    BY <2>5, <2>6, <2>7, <2>8 DEF StepInv
<1> QED
  BY <1>2, <1>3

\* VoteCollector::vote keeps the invariant of every round.
LEMMA VoteOK ==
  ASSUME NEW v \in PartialFunctions(Rounds, StepCollectors), NEW m \in Messages,
         \A r \in DOMAIN v : StepInv(v[r], r)
  PROVE  LET w == Vote(v, m, Recover(m.signature))
         IN  /\ w \in PartialFunctions(Rounds, StepCollectors)
             /\ \A r \in DOMAIN w : StepInv(w[r], r)
<1> DEFINE w == Vote(v, m, Recover(m.signature))
           ins == Insert(StepAt(v, m.round), m, Recover(m.signature))
<1>1. /\ DOMAIN v \subseteq Rounds
      /\ \A r \in DOMAIN v : v[r] \in StepCollectors
  BY PartialFunctionsElim
<1>2. StepAt(v, m.round) \in StepCollectors /\ StepInv(StepAt(v, m.round), m.round)
  BY <1>1, EmptyStepOK DEF StepAt
<1>3. ins \in StepCollectors /\ StepInv(ins, m.round)
  BY <1>2, InsertOK
<1>4. /\ DOMAIN w = DOMAIN v \cup {m.round}
      /\ \A r \in DOMAIN w : w[r] = IF r = m.round THEN ins ELSE v[r]
  BY DEF Vote
<1>5. w \in [DOMAIN v \cup {m.round} -> StepCollectors]
  <2> HIDE DEF ins
  <2>1. \A r \in DOMAIN w : w[r] \in StepCollectors
    BY <1>1, <1>3, <1>4
  <2>2. w = [r \in DOMAIN w |-> w[r]]
    BY DEF Vote
  <2> HIDE DEF w
  <2> QED
    BY <1>4, <2>1, <2>2
<1>6. m.round \in Rounds
  BY DEF Messages
<1>7. w \in PartialFunctions(Rounds, StepCollectors)
  BY <1>1, <1>5, <1>6, PartialFunctionsIntro
<1> HIDE DEF ins, w
<1>8. \A r \in DOMAIN w : StepInv(w[r], r)
  BY <1>3, <1>4
<1> QED
  BY <1>7, <1>8 DEF w

\* Two disjoint sets of counted votes of one round, such as those of two
\* hashes, cannot both be above the threshold: they come from different
\* addresses, and there are only Cardinality(Addresses) of those.
LEMMA QuorumsIntersect ==
  ASSUME NEW c \in StepCollectors, NEW r, StepInv(c, r),
         NEW G, G \subseteq c.block_votes, NEW H, H \subseteq c.block_votes,
         G \cap H = {}
  PROVE  ~ (/\ AboveThreshold(Cardinality(G), Cardinality(Addresses))
            /\ AboveThreshold(Cardinality(H), Cardinality(Addresses)))
<1> DEFINE f == [b \in c.block_votes |-> b.address]
<1>1. f \in Injection(c.block_votes, Addresses)
  <2>1. \A b \in c.block_votes : b.address \in Addresses
    BY DEF StepCollectors, Entries
  <2>2. \A b, d \in c.block_votes : b.address = d.address => b = d
    BY DEF StepInv
  <2> QED
    BY <2>1, <2>2 DEF Injection, IsInjective
<1>2. IsFiniteSet(c.block_votes) /\ Cardinality(c.block_votes) <= Cardinality(Addresses)
  BY <1>1, FS_Injection, VoteCollectorAssumption
<1>3. IsFiniteSet(G) /\ IsFiniteSet(H) /\ IsFiniteSet(G \cup H)
      /\ Cardinality(G \cup H) <= Cardinality(c.block_votes)
  BY <1>2, FS_Subset, G \cup H \in SUBSET c.block_votes
<1>5. Cardinality(G \cup H) = Cardinality(G) + Cardinality(H) - Cardinality({})
  BY <1>3, FS_Union
<1>6. Cardinality({}) = 0
  BY FS_EmptySet
<1>7. /\ Cardinality(G) \in Nat
      /\ Cardinality(H) \in Nat
      /\ Cardinality(c.block_votes) \in Nat
      /\ Cardinality(Addresses) \in Nat
  BY <1>2, <1>3, FS_CardinalityType, VoteCollectorAssumption
<1>8. \A n, x, y, z \in Nat :
        x + y <= z /\ z <= n => ~(x > (n * 2) \div 3 /\ y > (n * 2) \div 3)
  OBVIOUS
<1> QED
  BY <1>2, <1>3, <1>5, <1>6, <1>7, <1>8 DEF AboveThreshold

\* The initial collector satisfies the invariant.
LEMMA InitInv == Init => IInv
<1> SUFFICES ASSUME Init PROVE IInv
  OBVIOUS
<1>1. 0 \in Rounds
  BY VoteCollectorAssumption DEF Rounds
<1>2. votes \in [{0} -> StepCollectors] /\ \A r \in DOMAIN votes : StepInv(votes[r], r)
  BY EmptyStepOK DEF Init
<1>3. votes \in PartialFunctions(Rounds, StepCollectors)
  BY <1>1, <1>2, PartialFunctionsIntro
<1> QED
  BY <1>2, <1>3 DEF Init, IInv, Typed, EvidenceIsSound

\* Every step preserves it.
LEMMA NextInv == IInv /\ [Next]_vars => IInv'
<1> SUFFICES ASSUME IInv, [Next]_vars PROVE IInv'
  OBVIOUS
<1> USE DEF IInv
<1>1. CASE UNCHANGED vars
  BY <1>1 DEF vars, Typed, EvidenceIsSound
<1>2. ASSUME NEW t \in Threads, NEW m \in Messages, CheckMessage(t, m)
      PROVE  IInv'
  BY <1>2 DEF CheckMessage, Typed, EvidenceIsSound
<1>3. ASSUME NEW t \in Threads, HandleMessage(t)
      PROVE  IInv'
  <2>1. PICK m \in checked[t] :
          LET a == Recover(m.signature)
              previous == StepAt(votes, m.round).voted
          IN  /\ votes' = Vote(votes, m, a)
              /\ reported' = IF IsDoubleVote(votes, m, a)
                             THEN reported \cup {[author |-> a, vote_one |-> previous[a], vote_two |-> m]}
                             ELSE reported
              /\ checked' = [checked EXCEPT ![t] = {}]
    BY <1>3 DEF HandleMessage
  <2>2. m \in Messages
    BY DEF Typed
  <2>3. /\ votes' \in PartialFunctions(Rounds, StepCollectors)
        /\ \A r \in DOMAIN votes' : StepInv(votes'[r], r)
    BY <2>1, <2>2, VoteOK DEF Typed
  <2>4. checked' \in [Threads -> SUBSET Messages]
    BY <2>1 DEF Typed
  <2> DEFINE a == Recover(m.signature)
             c == StepAt(votes, m.round)
             d == [author |-> a, vote_one |-> c.voted[a], vote_two |-> m]
  <2>5. ASSUME IsDoubleVote(votes, m, a)
        PROVE  /\ d \in [author : Addresses, vote_one : Messages, vote_two : Messages]
               /\ d.vote_one # d.vote_two
               /\ d.vote_one.round = d.vote_two.round
               /\ Recover(d.vote_one.signature) = d.author
               /\ Recover(d.vote_two.signature) = d.author
    <3>1. c \in StepCollectors /\ StepInv(c, m.round)
      BY PartialFunctionsElim, EmptyStepOK DEF Typed, StepAt
    <3>2. m \notin c.messages /\ a \in DOMAIN c.voted
      BY <2>5 DEF IsDoubleVote
    <3>3. /\ c.voted[a] \in c.messages
          /\ c.voted[a].round = m.round
          /\ Recover(c.voted[a].signature) = a
      BY <3>1, <3>2 DEF StepInv
    <3>4. c.voted[a] \in Messages
      BY <3>1, <3>3 DEF StepCollectors
    <3>5. a \in Addresses
      BY <2>2 DEF Messages, Signatures, Recover
    <3> QED
      BY <2>2, <3>2, <3>3, <3>4, <3>5
  <2>6. /\ reported' \subseteq [author : Addresses, vote_one : Messages, vote_two : Messages]
        /\ EvidenceIsSound'
    <3>1. CASE IsDoubleVote(votes, m, a)
      <4>1. reported' = reported \cup {d}
        BY <2>1, <3>1
      <4> HIDE DEF d
      <4> QED
        BY <2>5, <3>1, <4>1 DEF Typed, EvidenceIsSound
    <3>2. CASE ~IsDoubleVote(votes, m, a)
      BY <2>1, <3>2 DEF Typed, EvidenceIsSound
    <3> QED
      BY <3>1, <3>2
  <2> QED
    BY <2>3, <2>4, <2>6 DEF Typed
<1>4. ASSUME NEW m \in Messages, UncheckedVote(m)
      PROVE  IInv'
  <2>1. /\ votes' \in PartialFunctions(Rounds, StepCollectors)
        /\ \A r \in DOMAIN votes' : StepInv(votes'[r], r)
    BY <1>4, VoteOK DEF UncheckedVote, Typed
  <2> QED
    BY <1>4, <2>1 DEF UncheckedVote, Typed, EvidenceIsSound
<1>5. ASSUME NEW r \in Rounds, DropOld(r)
      PROVE  IInv'
  <2>1. votes' = [x \in KeptRounds(votes, r) |-> votes[x]]
    BY <1>5 DEF DropOld, ThrowOutOld
  <2>2. KeptRounds(votes, r) \subseteq DOMAIN votes
    BY DEF KeptRounds
  <2>3. /\ DOMAIN votes \subseteq Rounds
        /\ \A x \in DOMAIN votes : votes[x] \in StepCollectors
    BY PartialFunctionsElim DEF Typed
  <2>4. votes' \in [KeptRounds(votes, r) -> StepCollectors]
    BY <2>1, <2>2, <2>3
  <2>5. votes' \in PartialFunctions(Rounds, StepCollectors)
    BY <2>2, <2>3, <2>4, PartialFunctionsIntro
  <2>6. \A x \in DOMAIN votes' : StepInv(votes'[x], x)
    BY <2>1, <2>2
  <2> QED
    BY <1>5, <2>5, <2>6 DEF DropOld, Typed, EvidenceIsSound
<1> QED
  BY <1>1, <1>2, <1>3, <1>4, <1>5 DEF Next

\* The inductive invariant holds throughout.
THEOREM Invariant == Spec => []IInv
BY InitInv, NextInv, PTL DEF Spec

\* The collector is type correct.
THEOREM TypeCorrect == Spec => []TypeOK
<1>1. ASSUME IInv PROVE TypeOK
  <2>1. DOMAIN votes \subseteq Rounds /\ \A r \in DOMAIN votes : votes[r] \in StepCollectors
    BY <1>1, PartialFunctionsElim DEF IInv, Typed
  <2>2. ASSUME NEW r \in DOMAIN votes
        PROVE  /\ \A a \in DOMAIN votes[r].voted :
                    a \in Addresses /\ votes[r].voted[a] \in Messages
               /\ votes[r].block_votes \subseteq Entries
               /\ votes[r].messages \subseteq Messages
    <3>1. votes[r].voted \in PartialFunctions(Addresses, Messages)
      BY <2>1 DEF StepCollectors
    <3> QED
      BY <2>1, <3>1, PartialFunctionsElim DEF StepCollectors
  <2> QED
    BY <1>1, <2>1, <2>2 DEF IInv, Typed, TypeOK
<1> QED
  BY <1>1, Invariant, PTL

\* A validator counts at most once in a round (StepCollector::insert).
THEOREM CountedOnce == Spec => []OneVotePerAddress
<1>1. IInv => OneVotePerAddress
  BY DEF IInv, StepInv, OneVotePerAddress
<1> QED
  BY <1>1, Invariant, PTL

\* At most one hash of a round is above two thirds (count_aligned_votes
\* with check_above_threshold).
THEOREM SingleQuorum == Spec => []AtMostOneQuorum
<1>1. IInv => AtMostOneQuorum
  <2> SUFFICES ASSUME IInv, NEW r \in DOMAIN votes, NEW g \in Hashes, NEW h \in Hashes, g # h
               PROVE  ~ (/\ AboveThreshold(Cardinality(BlockVotes(votes, r, g)), Cardinality(Addresses))
                         /\ AboveThreshold(Cardinality(BlockVotes(votes, r, h)), Cardinality(Addresses)))
    BY DEF AtMostOneQuorum
  <2>1. votes[r] \in StepCollectors /\ StepInv(votes[r], r)
    BY PartialFunctionsElim DEF IInv, Typed
  <2>2. /\ BlockVotes(votes, r, g) \subseteq votes[r].block_votes
        /\ BlockVotes(votes, r, h) \subseteq votes[r].block_votes
        /\ BlockVotes(votes, r, g) \cap BlockVotes(votes, r, h) = {}
    BY DEF BlockVotes, StepAt
  <2> QED
    BY <2>1, <2>2, QuorumsIntersect
<1> QED
  BY <1>1, Invariant, PTL

\* The evidence of a double vote is sound (VoteCollector::vote's result).
THEOREM SoundEvidence == Spec => []EvidenceIsSound
<1>1. IInv => EvidenceIsSound
  BY DEF IInv
<1> QED
  BY <1>1, Invariant, PTL

\* A counted vote keeps counting while its round is kept (vote, throw_out_old).
THEOREM CountedStay == Spec => CountedVotesStay
<1> DEFINE Stay == \A r \in DOMAIN votes \cap DOMAIN votes' :
                     votes[r].block_votes \subseteq votes'[r].block_votes
<1>1. ASSUME IInv, [Next]_vars PROVE [Stay]_votes
  <2>1. ASSUME NEW m \in Messages, NEW a, votes' = Vote(votes, m, a) PROVE Stay
    BY <2>1 DEF Vote, Insert, StepAt
  <2>2. ASSUME NEW t \in Threads, HandleMessage(t) PROVE Stay
    <3>1. \E m \in Messages : votes' = Vote(votes, m, Recover(m.signature))
      BY <1>1, <2>2 DEF HandleMessage, IInv, Typed
    <3> QED
      BY <2>1, <3>1
  <2>3. ASSUME NEW r \in Rounds, DropOld(r) PROVE Stay
    BY <2>3 DEF DropOld, ThrowOutOld, KeptRounds
  <2>4. ASSUME NEW m \in Messages, UncheckedVote(m) PROVE Stay
    BY <2>1, <2>4 DEF UncheckedVote
  <2>5. ASSUME NEW t \in Threads, NEW m \in Messages, CheckMessage(t, m) PROVE UNCHANGED votes
    BY <2>5 DEF CheckMessage
  <2>6. CASE UNCHANGED vars
    BY <2>6 DEF vars
  <2> HIDE DEF Stay
  <2> QED
    BY <1>1, <2>2, <2>3, <2>4, <2>5, <2>6 DEF Next
<1> QED
  BY <1>1, Invariant, PTL DEF Spec, CountedVotesStay
==============================================================================
