-------------------------------- MODULE Votes --------------------------------
(***************************************************************************)
(* The vote collector of the proof-of-authority engines                    *)
(* (ethcore/src/engines/vote_collector.rs) as pure operators on its value. *)
(*                                                                         *)
(* A message has the fields round, block_hash and signature.  A collector  *)
(* is a BTreeMap from rounds to step collectors: here a function whose     *)
(* domain is the set of keys.  A step collector keeps                      *)
(*   voted        the last message of every address that voted,           *)
(*   block_votes  the votes that count: a hash map from hashes to a hash   *)
(*                map from signatures to addresses, flattened to a set of  *)
(*                (hash, signature, address) entries,                      *)
(*   messages     every message seen.                                      *)
(* The state machine is in VoteCollector; Tendermint holds one collector   *)
(* per engine.                                                             *)
(***************************************************************************)
EXTENDS Integers, FiniteSets

CONSTANT RoundLeq(_, _)   \* the Ord of Message::Round

\* StepCollector::default().
EmptyStep == [voted |-> [a \in {} |-> {}], block_votes |-> {}, messages |-> {}]

\* votes.get(round), or the default a missing entry stands for.
StepAt(votes, round) == IF round \in DOMAIN votes THEN votes[round] ELSE EmptyStep

\* The entry a message adds to block_votes.
Entry(m, a) == [block_hash |-> m.block_hash, signature |-> m.signature, address |-> a]

\* Wrong on purpose: a second vote counts too; a second vote replaces the first.
InsertCountingTwice(c, m, a) ==
  IF m \in c.messages
  THEN c
  ELSE [voted       |-> [x \in DOMAIN c.voted \cup {a} |->
                           IF x = a THEN m ELSE c.voted[x]],
        block_votes |-> c.block_votes \cup {Entry(m, a)},
        messages    |-> c.messages \cup {m}]
InsertReplacing(c, m, a) ==
  IF m \in c.messages
  THEN c
  ELSE [voted       |-> [x \in DOMAIN c.voted \cup {a} |->
                           IF x = a THEN m ELSE c.voted[x]],
        block_votes |-> {b \in c.block_votes : b.address # a} \cup {Entry(m, a)},
        messages    |-> c.messages \cup {m}]

\* StepCollector::insert.  A message seen before changes nothing; the second
\* message of an address replaces `voted` but is not counted.
Insert(c, m, a) ==
  IF m \in c.messages
  THEN c
  ELSE [voted       |-> [x \in DOMAIN c.voted \cup {a} |->
                           IF x = a THEN m ELSE c.voted[x]],
        block_votes |-> IF a \in DOMAIN c.voted
                        THEN c.block_votes
                        ELSE c.block_votes \cup {Entry(m, a)},
        messages    |-> c.messages \cup {m}]

\* VoteCollector::vote, the new collector.
Vote(votes, m, a) ==
  [r \in DOMAIN votes \cup {m.round} |->
     IF r = m.round THEN Insert(StepAt(votes, r), m, a) ELSE votes[r]]

\* Wrong on purpose: a message seen before is reported as well.
IsDoubleVoteOfKnown(votes, m, a) ==
  LET c == StepAt(votes, m.round) IN a \in DOMAIN c.voted
\* VoteCollector::vote, whether it returns Some(DoubleVote).
IsDoubleVote(votes, m, a) ==
  LET c == StepAt(votes, m.round) IN m \notin c.messages /\ a \in DOMAIN c.voted

\* VoteCollector::is_old_or_known: known, or not newer than the oldest key
\* (every message is old for an empty map).
IsKnown(votes, m) == m \in StepAt(votes, m.round).messages
IsOld(votes, m) == \A r \in DOMAIN votes : RoundLeq(m.round, r)
IsOldOrKnown(votes, m) == IsKnown(votes, m) \/ IsOld(votes, m)

\* VoteCollector::throw_out_old: split_off keeps the keys >= round.
KeptRounds(votes, round) == {r \in DOMAIN votes : RoundLeq(round, r)}
ThrowOutOld(votes, round) == [r \in KeptRounds(votes, round) |-> votes[r]]

\* The counted votes of a round for one hash, and VoteCollector's readers.
BlockVotes(votes, round, hash) ==
  {b \in StepAt(votes, round).block_votes : b.block_hash = hash}
RoundSignatures(votes, round, hash) == {b.signature : b \in BlockVotes(votes, round, hash)}
CountAlignedVotes(votes, m) == Cardinality(BlockVotes(votes, m.round, m.block_hash))
CountRoundVotes(votes, round) == Cardinality(StepAt(votes, round).block_votes)

\* Tendermint::check_above_threshold for n validators: more than count * 2 / 3
\* in integer division (first, wrong on purpose: at least).
AboveThresholdInclusive(k, n) == k >= (n * 2) \div 3
AboveThreshold(k, n) == k > (n * 2) \div 3
==============================================================================
