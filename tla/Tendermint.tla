------------------------------ MODULE Tendermint ------------------------------
(***************************************************************************)
(* The Tendermint engine (ethcore/src/engines/tendermint) of every honest  *)
(* validator, with the parts of the client and the miner it calls: sealing *)
(* of proposals and commits, import of proposal and commit blocks, and the *)
(* broadcast of consensus messages.                                        *)
(*                                                                         *)
(* The network never forgets: `sent`, `proposals` and `sealed` only grow,  *)
(* and a node handles any of their elements at any time, or never, so      *)
(* messages are delayed, reordered, lost and repeated.  What the faulty    *)
(* validators sign is there from the start.  The validator set is fixed.   *)
(*                                                                         *)
(* A consensus message is handled in two steps: the vote is counted        *)
(* (HandleMessage), then its consequences are drawn (HandleValidMessage).  *)
(* Timeouts, block imports and, with more than one worker, other messages  *)
(* come in between.                                                        *)
(***************************************************************************)
EXTENDS Integers, FiniteSets, Sequences, FiniteSetsExt

CONSTANTS
  Validators,
  Honest,          \* those that run this code
  Scenarios,       \* by name: the list of the validators, the messages and the
                   \* proposal blocks the others have sent, and bounds: the
                   \* heights decided, the last view of a height, the restarts,
                   \* the messages a node has counted but not yet drawn on, the
                   \* blocks an honest author has to choose from at a height
  Ids,             \* what tells the blocks of one author at one height apart
  Nil              \* None

N == Cardinality(Validators)

ASSUME TendermintAssumption ==
  /\ IsFiniteSet(Validators) /\ N > 0
  /\ Honest \subseteq Validators
  /\ Nil \notin Ids
  /\ \A s \in DOMAIN Scenarios :
       /\ Len(Scenarios[s].list) = N
       /\ {Scenarios[s].list[i] : i \in 1 .. N} = Validators
       /\ Scenarios[s].ids \subseteq Ids
       /\ {Scenarios[s].max_height, Scenarios[s].workers} \subseteq Nat \ {0}
       /\ {Scenarios[s].max_view, Scenarios[s].max_restarts} \subseteq Nat

Heights == 1 .. Max({Scenarios[s].max_height : s \in DOMAIN Scenarios})
Views == 0 .. Max({Scenarios[s].max_view : s \in DOMAIN Scenarios})

------------------------------------------------------------------------------
(* Messages and blocks.                                                    *)

\* Step::number, and the order of vote steps: height, then view, then step.
StepNumber(s) ==
  CASE s = "Propose" -> 0 [] s = "Prevote" -> 1 [] s = "Precommit" -> 2 [] s = "Commit" -> 3

VoteStepLeq(a, b) ==
  \/ a.height < b.height
  \/ a.height = b.height /\ a.view < b.view
  \/ a.height = b.height /\ a.view = b.view /\ StepNumber(a.step) <= StepNumber(b.step)

INSTANCE Votes WITH RoundLeq <- VoteStepLeq

VoteStep(h, v, s) == [height |-> h, view |-> v, step |-> s]

\* A block is named by its bare hash: number, author and what the author put in.
Blocks == [number : Heights, author : Validators, id : Ids]

\* A signature recovers to its signer, so it is modelled by the signer.
Message(vs, hash, signer) == [round |-> vs, block_hash |-> hash, signature |-> signer]
\* ConsensusMessage::new_proposal
ProposalMessage(p) == Message(VoteStep(p.block.number, p.view, "Propose"), p.block, p.signer)

ConsensusMessages ==
  [round : [height : Heights, view : Views, step : {"Propose", "Prevote", "Precommit"}],
   block_hash : Blocks \cup {Nil}, signature : Validators]
ProposalBlocks == {p \in [block : Blocks, view : Views, signer : Validators] :
                     p.block.author = p.signer}

ASSUME FaultyAssumption ==
  \A s \in DOMAIN Scenarios :
    /\ \A m \in Scenarios[s].messages : m \in ConsensusMessages /\ m.signature \notin Honest
    /\ \A p \in Scenarios[s].proposals : p \in ProposalBlocks /\ p.signer \notin Honest

------------------------------------------------------------------------------
VARIABLES
  eng,         \* the engine of each honest validator
  pending,     \* per node: messages counted whose consequences are not drawn yet
  chain,       \* per node: the sealed blocks its chain holds
  sent,        \* prevotes and precommits broadcast
  proposals,   \* proposal blocks broadcast
  sealed,      \* commit blocks broadcast
  malicious,   \* validators some honest node reported as malicious
  restarts,
  scenario,    \* the scenario of the behaviour
  revisited    \* history: node and height, where a commit took a node back to the
               \* start of a height it had reached

vars == <<eng, pending, chain, sent, proposals, sealed, malicious, restarts, scenario, revisited>>

Bounds == Scenarios[scenario]

\* view_proposer with the round robin of SimpleList::get.
ViewProposer(h, v) == Bounds.list[((h + v) % N) + 1]

Best(c) == Max({b.block.number : b \in c} \cup {0})

\* Tendermint::new and register_client on a chain.
NewEngine(c) ==
  [height |-> Best(c) + 1, view |-> 0, step |-> "Propose",
   lock_change |-> Nil, last_lock |-> 0, proposal |-> Nil, last_proposed |-> Nil,
   votes |-> [r \in {VoteStep(0, 0, "Propose")} |-> EmptyStep]]

Init ==
  /\ eng = [n \in Honest |-> NewEngine({})]
  /\ pending = [n \in Honest |-> {}]
  /\ chain = [n \in Honest |-> {}]
  /\ scenario \in DOMAIN Scenarios
  /\ sent = Bounds.messages
  /\ proposals = Bounds.proposals
  /\ sealed = {}
  /\ malicious = {}
  /\ restarts = 0
  /\ revisited = {}

------------------------------------------------------------------------------
(* The engine's tests.                                                     *)

IsHeight(e, vs) == vs.height = e.height
IsView(e, vs) == vs.height = e.height /\ vs.view = e.view
\* (first, wrong on purpose: a lock is released by itself)
ShouldUnlockItself(e, lockView) == e.last_lock <= lockView /\ lockView < e.view
ShouldUnlock(e, lockView) == e.last_lock < lockView /\ lockView < e.view

HasEnoughAnyVotes(e) ==
  AboveThreshold(CountRoundVotes(e.votes, VoteStep(e.height, e.view, e.step)), N)
HasEnoughFutureStepVotes(e, vs) ==
  vs.view > e.view /\ AboveThreshold(CountRoundVotes(e.votes, vs), N)
\* Wrong on purpose: the votes of the round, whatever they are for.
HasEnoughAlignedVotesOfAnyHash(e, m) == AboveThreshold(CountRoundVotes(e.votes, m.round), N)
HasEnoughAlignedVotes(e, m) == AboveThreshold(CountAlignedVotes(e.votes, m), N)

\* A Prevote majority for a block, newer than the one that set the lock.
IsLockChange(e, m) ==
  /\ e.lock_change # Nil => ~VoteStepLeq(m.round, e.lock_change.round)
  /\ m.round.step = "Prevote"
  /\ m.block_hash # Nil
  /\ HasEnoughAlignedVotes(e, m)

------------------------------------------------------------------------------
(* What a handler of node n does, as operators on a record of the node's   *)
(* engine and chain and of what it broadcasts.                             *)

Start(n) == [eng |-> eng[n], chain |-> chain[n], sent |-> {}, proposals |-> {}, sealed |-> {}]

\* Wrong on purpose: a height skipped; the lock kept; the view of the lock kept.
ToNextHeightSkipping(e, h) ==
  [e EXCEPT !.last_lock = 0, !.height = h + 2, !.view = 0, !.lock_change = Nil, !.proposal = Nil]
ToNextHeightKeepingLock(e, h) ==
  [e EXCEPT !.last_lock = 0, !.height = h + 1, !.view = 0, !.proposal = Nil]
ToNextHeightKeepingLastLock(e, h) ==
  [e EXCEPT !.height = h + 1, !.view = 0, !.lock_change = Nil, !.proposal = Nil]

ToNextHeight(e, h) ==
  [e EXCEPT !.last_lock = 0, !.height = h + 1, !.view = 0, !.lock_change = Nil, !.proposal = Nil]

\* Miner::update_sealing down to generate_seal and broadcast_proposal_block.
\* id is what the miner has to seal, Nil if it has nothing to seal or no
\* reason to reseal; blocks above the bound are not built.
UpdateSealing(n, id, r) ==
  LET e == r.eng
      b == [number |-> Best(r.chain) + 1, author |-> n, id |-> id]
      p == [block |-> b, view |-> e.view, signer |-> n]
  IN  IF \/ id = Nil \/ b.number > Bounds.max_height
         \/ ViewProposer(e.height, e.view) # n
         \/ e.proposal # Nil
      THEN r
      ELSE [r EXCEPT
              !.eng = [e EXCEPT !.votes = Vote(@, ProposalMessage(p), n),
                                !.last_proposed = b,
                                !.proposal = b],
              !.proposals = @ \cup {p}]

\* EngineClient::submit_seal: the miner seals the block it kept for its
\* proposal, the client imports it without verifying the seal, broadcasts it
\* and updates sealing.
SubmitSeal(n, id, r, m) ==
  LET s == [block |-> m.block_hash, round |-> m.round,
            signers |-> RoundSignatures(r.eng.votes, m.round, m.block_hash)]
  IN  UpdateSealing(n, id, [r EXCEPT !.chain = @ \cup {s}, !.sealed = @ \cup {s}])

\* handle_valid_message up to the call of to_step: the new record and the
\* step to enter ("None" for no transition).
Transition(n, id, r, m) ==
  LET e       == r.eng
      locks   == IsLockChange(e, m)
      locked  == [r EXCEPT !.eng.lock_change = IF locks THEN m ELSE @]
      aligned == HasEnoughAlignedVotes(e, m)
      future  == HasEnoughFutureStepVotes(e, m.round)
      own     == e.last_proposed # Nil /\ e.last_proposed = m.block_hash
      issued  == SubmitSeal(n, id, locked, m)
      kept    == IF own
                 THEN [issued EXCEPT !.eng.votes = ThrowOutOld(@, m.round)]
                 ELSE locked
  IN  CASE ~IsHeight(e, m.round) ->
             [r |-> locked, next |-> "None"]
        [] IsHeight(e, m.round) /\ e.step = "Precommit" /\ m.block_hash = Nil /\ aligned ->
             [r |-> [locked EXCEPT !.eng.view = @ + 1], next |-> "Propose"]
        [] IsHeight(e, m.round) /\ e.step = "Precommit" /\ m.block_hash # Nil /\ aligned ->
             [r |-> [kept EXCEPT !.eng = ToNextHeight(@, e.height)], next |-> "Commit"]
        [] IsHeight(e, m.round) /\ e.step \in {"Prevote", "Precommit"} /\ ~aligned /\ future ->
             [r |-> [locked EXCEPT !.eng.view = m.round.view], next |-> e.step]
        [] IsHeight(e, m.round) /\ e.step = "Prevote" /\ aligned ->
             [r |-> locked, next |-> "Precommit"]
        [] OTHER ->
             [r |-> locked, next |-> "None"]

\* generate_message without its call of handle_valid_message: sign a vote of
\* the current step, count it and broadcast it.
OwnMessage(n, e, hash) == Message(VoteStep(e.height, e.view, e.step), hash, n)
Signed(n, r, hash) ==
  LET m == OwnMessage(n, r.eng, hash)
  IN  [r EXCEPT !.eng.votes = Vote(@, m, n), !.sent = @ \cup {m}]

\* to_step.  It calls itself through generate_message and
\* handle_valid_message: the node's own prevote can only lead to Precommit,
\* and its own precommit only to Propose or Commit, where no vote is cast.
EnterProposeOrCommit(n, id, r, step) ==
  LET entered == [r EXCEPT !.eng.step = step]
  IN  IF step = "Propose" THEN UpdateSealing(n, id, entered) ELSE entered

\* Wrong on purpose: the lock of any view; the proposal instead of the lock.
PrecommitHashOfAnyView(e) == IF e.lock_change # Nil THEN e.lock_change.block_hash ELSE Nil
PrecommitHashOfProposal(e) ==
  IF e.lock_change # Nil /\ IsView(e, e.lock_change.round) THEN e.proposal ELSE Nil

PrecommitHash(e) ==
  IF e.lock_change # Nil /\ IsView(e, e.lock_change.round) THEN e.lock_change.block_hash ELSE Nil

EnterPrecommit(n, id, r) ==
  LET hash == PrecommitHash(r.eng)
      e    == [r.eng EXCEPT !.step = "Precommit",
                            !.last_lock = IF hash # Nil THEN r.eng.lock_change.round.view ELSE @]
      cast == Signed(n, [r EXCEPT !.eng = e], hash)
      t    == Transition(n, id, cast, OwnMessage(n, e, hash))
  IN  IF t.next = "None" THEN t.r ELSE EnterProposeOrCommit(n, id, t.r, t.next)

PrevoteHash(e) ==
  IF e.lock_change # Nil /\ ~ShouldUnlock(e, e.lock_change.round.view)
  THEN e.lock_change.block_hash
  ELSE e.proposal

EnterPrevote(n, id, r) ==
  LET hash == PrevoteHash(r.eng)
      e    == [r.eng EXCEPT !.step = "Prevote"]
      cast == Signed(n, [r EXCEPT !.eng = e], hash)
      t    == Transition(n, id, cast, OwnMessage(n, e, hash))
  IN  IF t.next = "None" THEN t.r ELSE EnterPrecommit(n, id, t.r)

ToStep(n, id, r, step) ==
  CASE step = "Prevote"   -> EnterPrevote(n, id, r)
    [] step = "Precommit" -> EnterPrecommit(n, id, r)
    [] OTHER              -> EnterProposeOrCommit(n, id, r, step)

\* handle_valid_message.
Consequences(n, id, r, m) ==
  LET t == Transition(n, id, r, m)
  IN  IF t.next = "None" THEN t.r ELSE ToStep(n, id, t.r, t.next)

\* Engine::step: the timeout of the current step.
TimeoutStep(n, id, r) ==
  LET e == r.eng
  IN  CASE e.step \in {"Propose", "Prevote"} /\ (e.step = "Prevote" => ~HasEnoughAnyVotes(e)) ->
             ToStep(n, id, r, "Prevote")
        [] e.step = "Prevote" /\ HasEnoughAnyVotes(e) ->
             ToStep(n, id, r, "Precommit")
        [] e.step = "Precommit" /\ HasEnoughAnyVotes(e) ->
             ToStep(n, id, [r EXCEPT !.eng.view = @ + 1], "Propose")
        [] e.step = "Precommit" /\ ~HasEnoughAnyVotes(e) ->
             ToStep(n, id, r, "Precommit")
        [] e.step = "Commit" ->
             ToStep(n, id, r, "Propose")

------------------------------------------------------------------------------
(* Actions.                                                                *)

\* The node makes the handler's effects its own; views are bounded.
Apply(n, r) ==
  /\ r.eng.view <= Bounds.max_view
  /\ eng' = [eng EXCEPT ![n] = r.eng]
  /\ chain' = [chain EXCEPT ![n] = r.chain]
  /\ sent' = sent \cup r.sent
  /\ proposals' = proposals \cup r.proposals
  /\ sealed' = sealed \cup r.sealed

\* A height above the bound is reached but not worked on; at every height below
\* it a node also handles what comes late from earlier ones.
Running(n) == eng[n].height <= Bounds.max_height

\* The transition timer fires.  A timer set for an earlier step may still
\* fire, so a timeout is possible in every step at any time.
Timeout(n) ==
  /\ Running(n)
  /\ \E id \in Bounds.ids \cup {Nil} : Apply(n, TimeoutStep(n, id, Start(n)))
  /\ UNCHANGED <<pending, malicious, restarts, scenario, revisited>>

\* What a peer can receive as a consensus message: broadcast_old_messages sends
\* the Propose votes of the collector too.
Messages == sent \cup {ProposalMessage(p) : p \in proposals}

\* handle_message up to the vote; is_old_or_known and vote are one step here,
\* VoteCollector has them apart.
HandleMessage(n, m) ==
  /\ Running(n)
  /\ Cardinality(pending[n]) < Bounds.workers
  /\ ~IsOldOrKnown(eng[n].votes, m)
  /\ eng' = [eng EXCEPT ![n].votes = Vote(@, m, m.signature)]
  /\ IF IsDoubleVote(eng[n].votes, m, m.signature)
     THEN malicious' = malicious \cup {m.signature} /\ UNCHANGED pending
     ELSE pending' = [pending EXCEPT ![n] = @ \cup {m}] /\ UNCHANGED malicious
  /\ UNCHANGED <<chain, sent, proposals, sealed, restarts, scenario, revisited>>

\* The rest of handle_message.
HandleValidMessage(n, m) ==
  /\ \E id \in Bounds.ids \cup {Nil} : Apply(n, Consequences(n, id, Start(n), m))
  /\ pending' = [pending EXCEPT ![n] = @ \ {m}]
  /\ UNCHANGED <<malicious, restarts, scenario, revisited>>

\* The miner updates sealing on its own, for a new transaction for instance.
MinerUpdateSealing(n) ==
  /\ Running(n)
  /\ \E id \in Bounds.ids :
       LET r == UpdateSealing(n, id, Start(n))
       IN  r # Start(n) /\ Apply(n, r)
  /\ UNCHANGED <<pending, malicious, restarts, scenario, revisited>>

ParentKnown(n, b) == b.number = 1 \/ \E s \in chain[n] : s.block.number = b.number - 1

\* The client imports a verified proposal block: verify_block_external, then
\* is_proposal.
ImportProposal(n, p) ==
  /\ Running(n)
  /\ ParentKnown(n, p.block)
  /\ ViewProposer(p.block.number, p.view) = p.signer
  /\ LET e == eng[n]
         m == ProposalMessage(p)
         o == [e EXCEPT !.proposal = IF IsView(e, m.round) THEN p.block ELSE @,
                        !.votes = Vote(@, m, p.signer)]
     IN  o # e /\ eng' = [eng EXCEPT ![n] = o]
  /\ UNCHANGED <<pending, chain, sent, proposals, sealed, malicious, restarts, scenario, revisited>>

\* verify_block_external on a commit: enough validators, and every signature
\* is one over the precommit of the block's own height.
SealVerifies(s) ==
  /\ s.round.height = s.block.number
  /\ s.round.step = "Precommit"
  /\ AboveThreshold(Cardinality(s.signers), N)

\* The seals a faulty author can make of the precommits sent so far.
Voters(vs, hash) == {m.signature : m \in {x \in sent : x.round = vs /\ x.block_hash = hash}}
FaultySeals ==
  {[block |-> m.block_hash, round |-> m.round, signers |-> Voters(m.round, m.block_hash)] :
     m \in {x \in sent : /\ x.round.step = "Precommit" /\ x.block_hash # Nil
                         /\ x.block_hash.author \notin Honest}}

\* The client imports a verified commit block: is_proposal takes the engine to
\* the height after the block, whatever height it is at, commit_block follows
\* and, if the queue is empty, the miner's update_sealing.
ImportCommit(n, s) ==
  /\ Running(n)
  /\ s \notin chain[n]
  /\ ParentKnown(n, s.block)
  /\ SealVerifies(s)
  /\ \E id \in Bounds.ids \cup {Nil} :
       LET e == [ToNextHeight(eng[n], s.block.number) EXCEPT !.step = "Commit"]
           r == [Start(n) EXCEPT !.eng = e, !.chain = @ \cup {s}]
       IN  Apply(n, UpdateSealing(n, id, r))
  /\ revisited' = IF s.block.number < eng[n].height
                  THEN revisited \cup {<<n, s.block.number + 1>>}
                  ELSE revisited
  /\ UNCHANGED <<pending, malicious, restarts, scenario>>

\* The node stops and starts again with its chain and nothing else;
\* set_signer takes the new engine to Propose.
Restart(n) ==
  /\ restarts < Bounds.max_restarts
  /\ restarts' = restarts + 1
  /\ \E id \in Bounds.ids \cup {Nil} :
       LET r == [Start(n) EXCEPT !.eng = NewEngine(chain[n])]
       IN  Apply(n, ToStep(n, id, r, "Propose"))
  /\ pending' = [pending EXCEPT ![n] = {}]
  /\ UNCHANGED <<malicious, scenario, revisited>>

Next ==
  \E n \in Honest :
    \/ Timeout(n)
    \/ \E m \in Messages : HandleMessage(n, m)
    \/ \E m \in pending[n] : HandleValidMessage(n, m)
    \/ MinerUpdateSealing(n)
    \/ \E p \in proposals : ImportProposal(n, p)
    \/ \E s \in sealed \cup FaultySeals : ImportCommit(n, s)
    \/ Restart(n)

Spec == Init /\ [][Next]_vars

------------------------------------------------------------------------------
(* Properties.                                                             *)

EngineHeights == Heights \cup {Bounds.max_height + 1}

\* Every variable has its type.
TypeOK ==
  /\ \A n \in Honest :
       /\ DOMAIN eng[n] = {"height", "view", "step", "lock_change", "last_lock",
                           "proposal", "last_proposed", "votes"}
       /\ eng[n].height \in EngineHeights
       /\ eng[n].view \in Views
       /\ eng[n].step \in {"Propose", "Prevote", "Precommit", "Commit"}
       /\ eng[n].lock_change \in ConsensusMessages \cup {Nil}
       /\ eng[n].last_lock \in Views
       /\ {eng[n].proposal, eng[n].last_proposed} \subseteq Blocks \cup {Nil}
       /\ pending[n] \subseteq ConsensusMessages
       /\ \A s \in chain[n] : s.block \in Blocks /\ s.signers \subseteq Validators
  /\ sent \subseteq ConsensusMessages
  /\ proposals \subseteq ProposalBlocks
  /\ malicious \subseteq Validators
  /\ restarts \in 0 .. Bounds.max_restarts

\* An honest node precommits a block only if it holds prevotes of more than
\* two thirds of the validators for it from that very view (to_step(Precommit)).
\* A restart loses the votes.
PrecommitHasPolc ==
  restarts = 0 =>
    \A m \in sent :
      /\ m.signature \in Honest
      /\ m.round.step = "Precommit" /\ m.block_hash # Nil
      /\ m.round.height = eng[m.signature].height
      => AboveThreshold(
           Cardinality(BlockVotes(eng[m.signature].votes, [m.round EXCEPT !.step = "Prevote"],
                                  m.block_hash)), N)

\* A lock outlives its view: a node that has precommitted a block prevotes
\* something else in a later view of the height only if it holds a prevote
\* majority for a block from a round after the precommit (to_step(Prevote),
\* should_unlock); the code takes one of a later height for that too.  A restart
\* loses the lock, and so does a commit of the height before that is imported
\* after votes took the node past it (is_proposal).
LockRespected ==
  restarts = 0 =>
    \A l, m \in sent :
      /\ l.signature \in Honest /\ l.signature = m.signature
      /\ l.round.step = "Precommit" /\ l.block_hash # Nil
      /\ m.round.step = "Prevote" /\ m.round.view > l.round.view /\ m.block_hash # l.block_hash
      /\ l.round.height = m.round.height /\ m.round.height = eng[m.signature].height
      /\ <<m.signature, m.round.height>> \notin revisited
      => \E r \in DOMAIN eng[m.signature].votes, b \in Blocks :
           /\ r.step = "Prevote" /\ ~VoteStepLeq(r, l.round)
           /\ AboveThreshold(Cardinality(BlockVotes(eng[m.signature].votes, r, b)), N)

\* An honest node never precommits two different blocks in one view, though it
\* may sign in a view more than once (step, is_proposal): the votes it counts
\* cannot give it two majorities.  A restart loses them.
OneBlockPerPrecommitRound ==
  restarts = 0 =>
    \A l, m \in sent :
      /\ l.signature \in Honest /\ l.signature = m.signature
      /\ l.round = m.round /\ l.round.step = "Precommit"
      /\ l.block_hash # Nil /\ m.block_hash # Nil
      => l = m

\* The lock rests on votes the node still holds: whatever was thrown out or
\* counted later, the Prevotes that set lock_change are a majority.
LockIsHeld ==
  \A n \in Honest :
    LET l == eng[n].lock_change
    IN  l # Nil => AboveThreshold(CountAlignedVotes(eng[n].votes, l), N)

\* Every block of an honest chain was signed by more than two thirds of the
\* validators in one round (submit_seal, verify_block_external).
ChainIsBacked ==
  \A n \in Honest : \A s \in chain[n] :
    /\ s.signers \subseteq Voters(s.round, s.block)
    /\ AboveThreshold(Cardinality(s.signers), N)

\* "New Commit received, skip to next height." (tendermint/mod.rs:708) of the
\* "Blockchain height." (79): the height the engine works on is one its chain
\* does not have yet, whatever commit comes.
EngineAheadOfChain == \A n \in Honest : eng[n].height > Best(chain[n])

\* An engine leaves a height, unless it restarts, only for a block that it holds
\* votes of more than two thirds of the validators for in one round of that
\* height, or because its chain holds a block of the height before the new one.
HeightNeedsMajority ==
  [][\A n \in Honest :
       eng'[n].height # eng[n].height /\ restarts' = restarts =>
         \/ \E s \in chain'[n] : s.block.number = eng'[n].height - 1
         \/ \E r \in DOMAIN eng'[n].votes, b \in Blocks :
              /\ r.height = eng[n].height
              /\ AboveThreshold(Cardinality(BlockVotes(eng'[n].votes, r, b)), N)]_vars

\* The view of the last lock is one the node has reached at this height: no
\* lock of an earlier height or a later view keeps should_unlock from releasing
\* a newer one.
LastLockInPast == \A n \in Honest : eng[n].last_lock <= eng[n].view

\* "Block is issued when there is enough `Precommit` votes collected on a
\* particular block at the end of a `view`" (tendermint/mod.rs:22).
IssuedByPrecommits == \A s \in sealed : s.round.step = "Precommit"

\* "Bad validator sent a different message" (vote_collector.rs:73): only a
\* faulty validator is ever reported for a double vote.
OnlyFaultyReported == malicious \cap Honest = {}
==============================================================================
