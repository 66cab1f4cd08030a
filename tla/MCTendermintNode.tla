--------------------------- MODULE MCTendermintNode ---------------------------
(***************************************************************************)
(* One engine among four validators, the other three free to vote as they  *)
(* like within a small set of votes: more faulty validators than the       *)
(* protocol tolerates, for the properties a node keeps on its own.         *)
(***************************************************************************)
EXTENDS Tendermint, TLC

CONSTANTS n1, f1, f2, f3

VotesOf(signers, h, v, step, hashes) ==
  {Message(VoteStep(h, v, step), b, f) : b \in hashes, f \in signers}
Block(h, author, i) == [number |-> h, author |-> author, id |-> i]

\* Sound: neither of them proposes in a scenario or signs alone.
NodeSymmetry == Permutations({f2, f3})

\* f1 proposes two blocks in view 0, and one of them is voted on in view 1.
Equivocation ==
  [list       |-> <<n1, f1, f2, f3>>,
   messages   |-> VotesOf({f2, f3}, 1, 0, "Prevote", {Block(1, f1, 1), Block(1, f1, 2)})
                  \cup VotesOf({f1, f2, f3}, 1, 1, "Prevote", {Block(1, f1, 1)}),
   proposals  |-> {[block |-> Block(1, f1, i), view |-> 0, signer |-> f1] : i \in {1, 2}},
   max_height |-> 1, max_view |-> 1, max_restarts |-> 0, workers |-> 1,
   ids |-> {1}]

\* n1 proposes, issues its block with the votes of two others, and restarts.
OwnProposal ==
  [list       |-> <<f1, n1, f2, f3>>,
   messages   |-> VotesOf({f2, f3}, 1, 0, "Prevote", {Block(1, n1, 1)})
                  \cup VotesOf({f2, f3}, 1, 0, "Precommit", {Block(1, n1, 1)}),
   proposals  |-> {},
   max_height |-> 1, max_view |-> 0, max_restarts |-> 1, workers |-> 2,
   ids |-> {1}]

\* Two heights: votes and the commit of the first come late, when n1 is to
\* propose the block of the second.
TwoHeights ==
  [list       |-> <<f2, f1, n1, f3>>,
   messages   |-> VotesOf({f1, f2, f3}, 1, 0, "Prevote", {Block(1, f1, 1)})
                  \cup VotesOf({f2, f3}, 1, 0, "Precommit", {Block(1, f1, 1)})
                  \cup VotesOf({f2, f3}, 2, 0, "Prevote", {Block(2, n1, 1)}),
   proposals  |-> {[block |-> Block(1, f1, 1), view |-> 0, signer |-> f1]},
   max_height |-> 2, max_view |-> 0, max_restarts |-> 0, workers |-> 1,
   ids |-> {1}]

\* The same with two messages counted at once, and nothing voted at height 2.
TwoWorkers ==
  [TwoHeights EXCEPT !.messages = {m \in @ : m.round.height = 1}, !.workers = 2]

\* The others are at height 2 before n1 has the commit of height 1.
LateCommit ==
  [TwoHeights EXCEPT
     !.messages = UNION {VotesOf({f2, f3}, 1, 0, step, {Block(1, f1, 1)}) :
                           step \in {"Prevote", "Precommit"}}
                  \cup VotesOf({f1, f2, f3}, 2, 0, "Prevote", {Block(2, f1, 1)})
                  \cup VotesOf({f2, f3}, 2, 0, "Precommit", {Nil}),
     !.max_view = 1]

\* The others vote on a block of n1, and on none, late or twice.
LateVotes ==
  [OwnProposal EXCEPT
     !.messages = UNION {VotesOf({f1, f2, f3}, 1, 0, step, {Block(1, n1, 1), Nil}) :
                           step \in {"Prevote", "Precommit"}},
     !.max_view = 1, !.max_restarts = 0, !.workers = 1]

\* f1 holds its block of height 1 back, is voted for again in view 1, and sends
\* the block under either seal.
OldCommit ==
  [TwoHeights EXCEPT
     !.messages = UNION {VotesOf({f1, f2, f3}, 1, v, "Precommit", {Block(1, f1, 1)}) : v \in {0, 1}}
                  \cup VotesOf({f1, f2, f3}, 2, 0, "Precommit", {Block(2, f1, 1)}),
     !.max_height = 3, !.max_view = 1]

NodeScenarios ==
  [equivocation |-> Equivocation, own_proposal |-> OwnProposal,
   two_heights |-> TwoHeights, two_workers |-> TwoWorkers, late_commit |-> LateCommit]
IssueScenarios == [late_votes |-> LateVotes]
CommitScenarios == [old_commit |-> OldCommit]
==============================================================================
