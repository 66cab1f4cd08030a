---------------------------- MODULE VoteCollector ----------------------------
(***************************************************************************)
(* The collector as a shared object of one engine.  Consensus messages are *)
(* handled by several IO worker threads; each first asks is_old_or_known   *)
(* under the read lock and later calls vote under the write lock, so       *)
(* another thread may vote, or throw out old rounds, in between.           *)
(***************************************************************************)
EXTENDS Votes

CONSTANTS
  Threads,     \* IO workers that call Engine::handle_message
  MaxRound,    \* bound: rounds are 0 .. MaxRound
  Addresses,   \* the validators
  Hashes,      \* block hashes, the vote for no block included
  Variants     \* the signatures one key can make over the same vote

Rounds == 0 .. MaxRound
Signatures == Addresses \X Variants
Messages == [round : Rounds, block_hash : Hashes, signature : Signatures]
Entries == [block_hash : Hashes, signature : Signatures, address : Addresses]

ASSUME VoteCollectorAssumption ==
  /\ MaxRound \in Nat \ {0}
  /\ IsFiniteSet(Addresses)
  /\ \A r, s \in Rounds : RoundLeq(r, s) <=> r <= s

\* ecrecover of a signature over the message it signs.
Recover(sig) == sig[1]

VARIABLES
  votes,      \* VoteCollector::votes
  checked,    \* per thread, the messages that passed is_old_or_known (none or one)
  reported    \* DoubleVote evidence returned: author and the two messages

vars == <<votes, checked, reported>>

\* VoteCollector::default: the dummy entry of the default round.
Init ==
  /\ votes = [r \in {0} |-> EmptyStep]
  /\ checked = [t \in Threads |-> {}]
  /\ reported = {}

\* handle_message up to the authority check: not old, not known.
CheckMessage(t, m) ==
  /\ checked[t] = {}
  /\ ~IsOldOrKnown(votes, m)
  /\ checked' = [checked EXCEPT ![t] = {m}]
  /\ UNCHANGED <<votes, reported>>

\* The rest of handle_message: vote, and the evidence of a double vote.
HandleMessage(t) ==
  \E m \in checked[t] :
    LET a == Recover(m.signature)
        previous == StepAt(votes, m.round).voted IN
    /\ votes' = Vote(votes, m, a)
    /\ reported' = IF IsDoubleVote(votes, m, a)
                   THEN reported \cup {[author |-> a, vote_one |-> previous[a], vote_two |-> m]}
                   ELSE reported
    /\ checked' = [checked EXCEPT ![t] = {}]

\* generate_message, generate_seal and is_proposal vote without a check and
\* drop the evidence; their rounds have height >= 1, so are not the default.
UncheckedVote(m) ==
  /\ m.round > 0
  /\ votes' = Vote(votes, m, Recover(m.signature))
  /\ UNCHANGED <<checked, reported>>

\* handle_valid_message throws out what is older than the round of the
\* message it has just counted.
DropOld(r) ==
  /\ r \in DOMAIN votes
  /\ StepAt(votes, r).block_votes # {}
  /\ votes' = ThrowOutOld(votes, r)
  /\ UNCHANGED <<checked, reported>>

Next ==
  \/ \E t \in Threads, m \in Messages : CheckMessage(t, m)
  \/ \E t \in Threads : HandleMessage(t)
  \/ \E m \in Messages : UncheckedVote(m)
  \/ \E r \in Rounds : DropOld(r)

Spec == Init /\ [][Next]_vars

------------------------------------------------------------------------------
\* Every part of the collector has its type.
TypeOK ==
  /\ DOMAIN votes \subseteq Rounds
  /\ \A r \in DOMAIN votes :
       /\ \A a \in DOMAIN votes[r].voted : a \in Addresses /\ votes[r].voted[a] \in Messages
       /\ votes[r].block_votes \subseteq Entries
       /\ votes[r].messages \subseteq Messages
  /\ checked \in [Threads -> SUBSET Messages]
  /\ reported \subseteq [author : Addresses, vote_one : Messages, vote_two : Messages]

\* A validator counts at most once in a round, whatever it signs and in
\* whatever order the threads insert its messages (StepCollector::insert).
OneVotePerAddress ==
  \A r \in DOMAIN votes : \A b, c \in votes[r].block_votes :
    b.address = c.address => b = c

\* No round holds two hashes with more than two thirds of the validators
\* behind each: count_aligned_votes cannot justify two lock changes, or two
\* commits, of one round.
AtMostOneQuorum ==
  \A r \in DOMAIN votes : \A g, h \in Hashes :
    /\ AboveThreshold(Cardinality(BlockVotes(votes, r, g)), Cardinality(Addresses))
    /\ AboveThreshold(Cardinality(BlockVotes(votes, r, h)), Cardinality(Addresses))
    => g = h

\* The evidence handed to report_malicious is two different messages of the
\* same round, both signed by the accused.
EvidenceIsSound ==
  \A d \in reported :
    /\ d.vote_one # d.vote_two
    /\ d.vote_one.round = d.vote_two.round
    /\ Recover(d.vote_one.signature) = d.author
    /\ Recover(d.vote_two.signature) = d.author

\* A vote that counts keeps counting, for the same hash, for as long as its
\* round is kept: later messages neither replace nor withdraw it.
CountedVotesStay ==
  [][\A r \in DOMAIN votes \cap DOMAIN votes' :
       votes[r].block_votes \subseteq votes'[r].block_votes]_votes
==============================================================================
