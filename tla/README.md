# TLA+ models of the Parity node

This directory holds TLA+ specifications of parts of the Parity Ethereum client, the
TLC configurations that check them on small instances, and TLAPS proofs of their most
important properties for every value of the constants. Paths below are relative to
the repository (`src/ethcore/...` and so on). `PROJECT.json` gives, for every
definition, the lines of code it stands for, and lists the components, the runs, the
theorems, the findings and the hazards the properties were written for.

## 1. The system and its parts

A block reaches the node from the network or from its own miner, waits in the
**verification queue** while a pool of threads checks it, is imported by the
**client** under the import lock, and changes the **block chain database** and the
**pruned state database**. On proof-of-authority chains the **engine** decides which
blocks are made: Tendermint exchanges votes, counts them in a **vote collector** and
seals a block when two thirds of the validators back it.

```
 network / sync --> verification queue --> client import --> block chain db --+
       ^               (verifiers)          (import lock)    state db (journal)+--> key-value db
       |                                         |
       +---- engine (Tendermint) <--- miner <----+
               vote collector
```

| Part | Source | Module | State |
|---|---|---|---|
| vote collector | `ethcore/src/engines/vote_collector.rs` | `Votes`, `VoteCollector` | modelled, proved |
| Tendermint engine | `ethcore/src/engines/tendermint/` | `Tendermint` | partly: static validators |
| miner sealing | `ethcore/src/miner/miner.rs` | in `Tendermint` | partly: as the engine uses it |
| verification queue | `ethcore/src/verification/queue/mod.rs` | `VerificationQueue` | modelled, partly proved |
| client block import | `ethcore/src/client/client.rs` | in `VerificationQueue`, `OverlayRecentDB` | partly |
| pruned state database | `util/journaldb/src/overlayrecentdb.rs`, `util/memorydb` | `OverlayRecentDB` | modelled, proved |
| AuRa engine, validator sets and epochs | `ethcore/src/engines/authority_round/`, `validator_set/` | | planned |
| other journal databases | `util/journaldb/src/` | | planned |
| key-value database, block chain database | `util/kvdb-rocksdb`, `ethcore/src/blockchain/` | seen from `OverlayRecentDB` | planned |
| state, accounts, state cache | `ethcore/src/state/`, `state_db.rs` | | planned |
| transaction queue and pool, work queue | `miner/src/`, `transaction-pool/`, `util/using_queue` | | planned |
| snapshots, chain synchronisation, light client | `ethcore/src/snapshot/`, `sync/`, `ethcore/light/` | | planned |
| Ethash, EVM, execution, tries, verification | | | pure computation on large data: no |
| network, IO service, RPC, dapps, updater, stratum, accounts, secret store, whisper, tracing, configuration, migrations | | | mostly input and output: no |

The list in `PROJECT.json` is complete, with a reason for every part left out.

## 2. The modules and the code

### Votes and VoteCollector

`Votes` has the operations of the collector as operators on its value: a function
from rounds to step collectors `[voted, block_votes, messages]`. `Insert` is
`StepCollector::insert`, `Vote`, `IsOldOrKnown`, `ThrowOutOld` and the counts are the
methods of the same name, `AboveThreshold` is the engine's
`check_above_threshold` with its integer division. The map of maps `block_votes` is
flattened to a set of entries (hash, signature, address).

`VoteCollector` is the collector shared by the IO workers. `handle_message` asks
`is_old_or_known` under the read lock and votes later under the write lock, so it is two
actions, `CheckMessage` and `HandleMessage`; the engine's own votes
(`UncheckedVote`) and `DropOld` come in between. (`is_old_or_known` itself takes the read
lock twice; `CheckMessage` is one step.)

### Tendermint

One record per honest validator holds the fields of the engine (`height`, `view`,
`step`, `lock_change`, `last_lock`, `proposal`, `last_proposed`, `votes`). The methods
are operators from a record of the node to a new one, so that an action is the whole
handler: `ToStep` follows the recursion `to_step` → `generate_message` →
`handle_valid_message` → `to_step` to its end (it ends: the node's own prevote leads at
most to Precommit, its own precommit at most to Propose or Commit), and includes what the
miner and the client do when called (`UpdateSealing`, `SubmitSeal`).

| Action | Code |
|---|---|
| `Timeout` | `Engine::step`, when the transition timer fires |
| `HandleMessage`, `HandleValidMessage` | the two halves of `handle_message`; votes of other workers come in between |
| `ImportProposal` | `verify_block_external` and `is_proposal` on a proposal block |
| `ImportCommit` | the same on a sealed block, with the miner's reaction |
| `MinerUpdateSealing` | `update_sealing` for reasons outside the engine |
| `Restart` | `Tendermint::new`, `register_client`, `set_signer` on the old chain |

The network never forgets (`sent`, `proposals`, `sealed` only grow) and a node
handles any element at any time, again, or never: messages are delayed, reordered,
repeated and lost. `Messages` includes the Propose votes that `broadcast_old_messages`
sends. What faulty validators sign is there from the start.

A behaviour belongs to one of the `Scenarios`, a record with the order of the
validators, what the faulty ones send, and the bounds: heights, views, restarts, blocks an
honest author can choose from, and `workers`, the messages a node may have counted without having drawn
their consequences. `Running` stops a node above the last height of the scenario; below it
everything late from earlier heights, commits included, is handled. `revisited` is a
history variable: where the commit of a height took a node back to the start of the
next one.

Three merges of steps: `HandleMessage` has `is_old_or_known` and `vote` together
(`VoteCollector` has them apart), `ImportCommit` has `is_proposal` and `commit_block`
together, and a handler runs to its end.

### VerificationQueue

Each thread has a program counter, and an action is what a thread does while it
holds one set of locks: the verifier's loop (`CheckState` … `Signal`), `import`
(`Lookup`, `Create`, `Register`, `AddDifficulty`, `Push`, `Notify`), the client's
`import_verified_blocks` (`Drain`, `CommitBlocks`, `MarkAsBad`, `MarkAsGood`) run by the IO worker
or by a verifier that calls the client, `flush`, `clear`, `scale_verifiers` and `drop`.
The mutex `more_to_verify`, the import lock and the condition variables are
explicit; `SpuriousWakeup` is the freedom `Condvar` has. The counters of sizes are
atomic integers of a width given by `Wrap`. Which blocks are unsound, from the
future, invalid, refused by the client or proposals (marked as good and not committed) is
a constant. `Drain` lowers the signal and raises it again in one step: whoever looks in
between finds the same as before or after. The commits of a batch are one step; batches have
one block in all runs. Calls are bounded by `MaxCalls`, over all operations.

### OverlayRecentDB

The client's importing thread (`pc`, `batch`) journals a block, writes the batch,
prunes while pruning is needed and flushes; `db` is the key-value database as readers see
it, `disk` what of it survives a crash.

| Action | Code |
|---|---|
| `JournalUnder` | the tests of `check_and_close_block`, then `journal_under` |
| `WriteCommit` | the batch of `commit_block` with the block's hash by number |
| `PruneDone`, `MarkCanonical`, `WriteMark`, `FlushPending` | the loop of `prune_ancient` |
| `Flush` | `Database::flush`, by any thread |
| `Crash` | loss of memory, `read_overlay`, the pruning of `Client::new` |
| `StartRead`, `FinishRead` | the two lookups of `get` by another thread |

A block is the path of labels from the genesis block, because a hash commits to the
ancestry; a trie is the set of its nodes; every value has size 1.

## 3. Assumptions

* Tendermint: a static validator list; signatures cannot be forged (a signature is
  its signer); a handler is atomic except where another IO worker can come between.
* VerificationQueue: heap sizes and difficulties are 1; `collect_garbage` may choose any
  target its arithmetic can give.
* OverlayRecentDB: the trie puts exactly the difference of two states into the
  transaction overlay; keys differ in the twelve bytes `to_short_key` keeps; batches of the
  key-value database are atomic, visible at once and durable in their order;
  `WithinHistory`: no reorganisation below the last block made canonical, and no branch
  `History` blocks longer than the chain. This is an assumption about the blocks that
  come in, not a test of the code; the code relies on one like it where it says "blocks
  being imported always within recent history; qed" (`blockchain.rs:1034`). Without it
  `StateAvailable` is false.

The constants' own assumptions are the named `ASSUME`s of the modules; TLC evaluates
them in every run.

## 4. The runs

| Run | Instance | Properties |
|---|---|---|
| `vote_collector` | 2 threads, 2 validators, a block and no block, rounds 0–2 | `OneVotePerAddress`, `AtMostOneQuorum`, `EvidenceIsSound`, `CountedVotesStay` |
| `tendermint_views` | 2 honest validators, 1 height, 2 views | `TypeOK`, `PrecommitHasPolc`, `LastLockInPast` |
| `tendermint_node` | one engine and 3 validators that vote as they like, 5 scenarios | `LockIsHeld`, `ChainIsBacked`, `OneBlockPerPrecommitRound`, `PrecommitHasPolc`, `LockRespected`, `HeightNeedsMajority` |
| `queue` | 2 verifiers, branches of 3 and 2 blocks, the first on an invalid block, the second on one the client refuses, an unsound and a future block, batches of 1, 4 calls: at most one `clear`, `flush` and scaling, the others imports | `TypeOK`, `OrderKept`, `NothingLost`, `NoVerifiedChildOfBad`, `SignalNotLost`, `SizesExact`, `QueuedIsProcessing` |
| `queue_liveness` | 3 verifiers, 2 of them active, 3 blocks, one a proposal and one invalid, `drop` at any moment | `NoSleeperAfterExit`, `DropReturns`, `VerifiedIsDelivered`, `WorkIsTaken` |
| `overlay_recent_db` | 5 blocks and a branch of 2, 127 keys, history 2, 1 crash, a reader | `TypeOK`, `StateAvailable`, `ReadersSucceed`, `RecoveredIsSame`, `PruneFindsCanon`, `HistoryIsKept` |
| `tendermint_double_vote`, `tendermint_issue`, `tendermint_old_commit`, `queue_wakeup`, `queue_sizes`, `queue_difficulty` | | violated, see section 7 |

The scenarios of `tendermint_node`:

* *equivocation*: two proposals in one view, votes for both by two others, and a vote
  on one of them in the next view;
* *own_proposal*: the engine's own block, issued with the votes of two others, a restart at
  any moment, two messages counted at once;
* *two_heights*: a prevote and the commit of height 1 come when the engine is at height 2;
* *two_workers*: the same with two messages counted at once, and no votes at height 2;
* *late_commit*: the others prevote at height 2 while the engine is at height 1, and the
  commit of height 1 comes after votes took the engine past it.

**What Tendermint does not promise here.** No run claims that chains of honest
validators agree. With two validators every majority is unanimous, so agreement would say
little, and with more it is not a property of this code: by `tendermint_issue`
the author alone can issue a block on late prevotes while the others precommit nothing.
`LockRespected` is the part of the argument that holds: a precommitted
block is given up only for a majority of a later round. It excludes restarts and
`revisited` heights, because in both cases the lock is lost (TLC finds the counterexample of the
second in *late_commit* when the exclusion is dropped), and a round of a later height counts as a later
round, because the test for a lock change does not compare heights.

**What a clear does to the queue.** `OrderKept` and `SignalNotLost` hold whatever is
called. `NothingLost`, `NoVerifiedChildOfBad`, `SizesExact` and `QueuedIsProcessing` are stated for
queues that were not emptied (`Undisturbed`). After a `clear` an invalid block may still be with a
verifier while its child, which had passed the lookup, is queued and verified; the
verifier that finds the parent bad does not look at `verified`. The child then reaches the
client and is refused there because its parent is missing.

**Why the bounds are enough.** *Votes*: two threads and two messages of one address
are what it takes to count twice; three rounds give a dropped one, a kept one and a
later one. *Tendermint*: a lock and its release need two views, and what is late or
early needs two heights; one engine among
three voters that say anything sees every order of majorities, more than the protocol
tolerates, so the properties of that run are ones a node keeps on its own. *Queue*: an
order can only be broken by two verifiers; an invalid block with two descendants in
different queues and an unrelated branch give every case of `drain_verifying`, the refused block with a verified child that of
`mark_as_bad`; `Wrap` 16
is well above what the counters hold, so a value near it is an underflow. *Overlay*:
there is one key for every non-empty set of the seven blocks, so every pattern of
insertion, deletion and re-insertion in the tree is present at once; a chain of five
with a history of two is pruned several times; `HistoryMem` 80 is passed
by some states and not by others; a second crash starts from a state of the same kind as the first.
`HistoryIsKept` is tight: `prune_ancient` keeps the states of `History` eras before the latest,
and pruning one era more violates it.

Symmetry is used for validators that play the same part (safety properties only).
Deadlock is not checked where a bounded system stops at its bounds; `queue_liveness`
and `vote_collector` check it.

**Fairness** (`queue_liveness`, `queue_wakeup`): weak fairness of each verifier thread, each
thread that runs `import_verified_blocks`, the IO worker that takes a message, and of
the started calls of `import`, `flush` and `drop`. These are operating system threads
that are scheduled; the locks they wait for are held for bounded work. Nothing is
assumed of callers: no call has to be made, and no spurious wake-up has to happen.

Every property of a passing run has a mutant in `PROJECT.json`: an operator marked "wrong
on purpose" beside the definition it changes (a guard dropped, a vote counted
twice, `pending` emptied too early, era 0 not read …), under which TLC finds the property violated.

## 5. What is proved

TLAPS checks the following for every value of the constants the named assumptions allow.

**VoteCollectorProofs.** `TypeCorrect`, `CountedOnce`, `SingleQuorum`,
`SoundEvidence`, `CountedStay`. `OneVotePerAddress` is not inductive: nothing in it says that
a counted address has voted. `IInv` adds, per round, that the last vote of an address is a
message of that round signed by it, and that only addresses in `voted` are counted;
then `insert`, which counts only addresses not in `voted`, keeps it. `SingleQuorum` follows
from counting: two quorums of more than `2n/3` (rounded down) have a common
address (`QuorumsIntersect`).

**VerificationQueueProofs.** `DropWakesAll` (`NoSleeperAfterExit`) rests on the fact that a
verifier is between its test and its wait exactly while it holds `more_to_verify`
(`MutexHeld`): `drop` notifies with the mutex held, so nobody is in between.
`NoLostSignal` (`SignalNotLost`) is inductive with the types of the program counters and
of the number of messages.

**OverlayRecentDBTree, OverlayRecentDBBatches, OverlayRecentDBProofs.** `TypeCorrect`,
`StatesAvailable`, `ReadsSucceed`, `RecoveryIsExact`, `PruningFindsCanon`, `HistoryKept`: all
properties of the run, for any tree of blocks, any states, any history and any
number of crashes.
The inductive invariant speaks of `Settled`, the database as it will be when the waiting
batch is written:

* `DbOK`, of `db`, of `disk` and of `Settled`: every block above the base (the last block
  made canonical) has one record, in the era of its number; the indexes of an era start at 0 and
  have no gap; every era between the base and the latest has a record; the
  blocks are closed under ancestors; the base's state is in `keys`; the hashes by
  number are the prefixes of the best block, which extends the base and is less than
  `History` behind the latest era.
* `MemoryOK`: the overlay's counts, the journal, the eras and the size are those a
  restart would compute from `Settled`.
* `BatchOK`, `ReaderOK`: the batch is well formed, what it puts is in `pending`, and what
  a reader still misses is in `db` and stays in it, while its block is live.

`OverlayRecentDBTree` proves facts about paths. Its central lemma `Inserted` says
that a key in a block's state is in the state of a given ancestor or was inserted by a
block in between; `Journalled` in `OverlayRecentDBBatches` turns it into: it is in the database
or counted in the overlay. `OverlayRecentDBBatches` proves what the two batches do
to a database (`CommitRecords`, `CommitChain`, `MarkRecords`, `MarkCounts`, `MarkChain`) and that
`read_overlay` inverts the journal (`ReadBack`, `JournalRead`). `OverlayRecentDBProofs` has one
lemma per action. TLC has checked `IInv` on the instance of the run. The proofs use
`TreeAssumption`, `StateAssumption`, `HistoryAssumption` and the guard `WithinHistory`.

## 6. What is only model-checked

Liveness and fairness (`DropReturns`, `VerifiedIsDelivered`, `WorkIsTaken`) are out of the
prover's reach. All of `Tendermint`, and `OrderKept`, `NothingLost`, `NoVerifiedChildOfBad` and the books of the
queue, are checked by TLC on the instances above and not yet proved.

## 7. Where code and documentation disagree

* `tendermint_issue`: in step Precommit a majority of **prevotes** that arrives late issues the
  block with prevote signatures, where the module's doc says that blocks are issued on precommits.
* `tendermint_double_vote`: a prevote timeout without enough votes enters Prevote again
  and signs whatever the proposal is by then. A validator that follows the code can so send two different
  prevotes in a view and is reported as malicious.
* `queue_wakeup`: `import` notifies `more_to_verify` without its mutex. If the only active
  verifier is between its test and its wait, the notification is lost and the block waits
  for the next import. With two active verifiers and the three blocks of `queue_liveness` the
  work is taken.
* `queue_sizes`: `clear` between the accounting and the push of an `import` lets a size counter
  wrap around.
* `queue_difficulty`: a block that fails verification, and its descendants that `drain_verifying` drops, leave the
  queues but stay in `processing` and in `total_difficulty`, which is documented as the difficulty "of all the
  blocks in the queue". `QueuedIsProcessing` says that nothing else stays.
* `tendermint_old_commit`: `is_proposal` takes the engine to the height after any commit
  block the client imports. A block that comes again under another seal takes it back to a height its
  chain already has, where the comment says "skip to next height".

Two further observations are recorded as hazards: a lock is not persisted, so a
validator that restarts can precommit another block in the same view; and a key deleted
by a canonical block while a branch holds it stays in the database when that branch
is dropped (garbage, never a missing node).

## 8. Plan

In the order in which it is to be done; a later module composes with or refines an earlier one.

1. **Block queue as a filter**: an abstract specification of the queue (a sequence in,
   the same sequence without bad blocks and their descendants out) and
   `VerificationQueue` shown to implement it, first with TLC, then the step simulation with TLAPS. A
   second importing thread.
2. **Pruned store**: an abstract specification (a set of live states that can all be
   read, pruning from the oldest) implemented by `OverlayRecentDB`, whose proofs give the
   mapping, and by `EarlyMergeDB` with its reference counts; `inject`.
3. **Key-value database**: the two overlays of `kvdb-rocksdb` and their swap during
   `flush`, as the implementation of the atomic ordered batches assumed here.
4. **AuRa**: steps, proposals, `RollingFinality` with eviction; validator set
   transitions and the epoch manager; then epochs in Tendermint.
5. **Tendermint proofs**: `PrecommitHasPolc`, `LockIsHeld`, `LockRespected`,
   `ChainIsBacked` by an inductive invariant over the handlers.
6. **Transaction queue and pool**: current and future sets by sender and nonce,
   limits, replacement; invariants that tie the two indexes together.
7. **Block chain database**: routes between branches, the pending best block and the
   caches read before the commit is applied.
8. **State**: checkpoints (snapshot, revert, discard) against a reference of plain
   copies; the shared cache of `StateDB` under reorganisations.
9. **Snapshot service and synchronisation**: restoration with aborts; requests that
   time out and answers that come late.

Runs are to be merged where two ask the same question, so that each new component
brings one or two. Worth proving next: `OrderKept` and `NothingLost` of the queue, the
refinement of the pruned store, and the Tendermint invariants of step 5.

## 9. Running it

```
tlc -workers 4 -config MCOverlayRecentDB.cfg MCOverlayRecentDB
tlapm OverlayRecentDBProofs.tla
```

A run takes at most two to three minutes. The proofs of the overlay modules take some
thirteen minutes from nothing; the provers' cost grows with the size of a module, which is why
they are three.
