---------------------------- MODULE OverlayRecentDB ----------------------------
(***************************************************************************)
(* The pruned state database (util/journaldb/src/overlayrecentdb.rs) as    *)
(* the client uses it: commit_block journals the state changes of a block, *)
(* prune_ancient makes the oldest era canonical, write_buffered hands a    *)
(* batch to the key-value database and flush makes batches durable.  The   *)
(* node may crash at any moment and rebuild its memory from the disk, and  *)
(* other threads read states meanwhile.                                    *)
(*                                                                         *)
(* A block is the path of labels that leads to it from the genesis block:  *)
(* a hash commits to the whole ancestry.  A key stands for the trie node   *)
(* it is the hash of, every value has size 1, and keys differ in the       *)
(* prefix to_short_key keeps.                                              *)
(***************************************************************************)
EXTENDS Integers, Sequences, FiniteSets

CONSTANTS
  Blocks,       \* the blocks there may be
  Keys,         \* trie nodes
  State,        \* the nodes of the state trie after each block
  Root,         \* state_root of each block
  History,      \* pruning_history
  HistoryMem,   \* history_mem
  MaxCrashes    \* bound: crashes

\* The path before the genesis block, in whose state there is nothing.
Void == <<>>
Number(b) == Len(b) - 1
Parent(b) == SubSeq(b, 1, Len(b) - 1)
Eras == {Number(b) : b \in Blocks}

ASSUME TreeAssumption ==
  /\ Blocks \subseteq Seq(Int) /\ Void \notin Blocks
  /\ \A b \in Blocks : Parent(b) \in Blocks \cup {Void}
ASSUME StateAssumption ==
  /\ IsFiniteSet(Keys)
  /\ State \in [Blocks \cup {Void} -> SUBSET Keys] /\ State[Void] = {}
  /\ Root \in [Blocks -> Keys]
ASSUME HistoryAssumption ==
  /\ History \in Nat \ {0} /\ HistoryMem \in Nat /\ MaxCrashes \in Nat

VARIABLES
  overlay,          \* backing_overlay: the reference count of each key
  pending,          \* pending_overlay
  journal,          \* the blocks journalled in each era
  latest_era, earliest_era, cumulative_size,
  pc, batch,        \* the importing thread, and the batch it has built
  db,               \* the key-value database as its readers see it
  disk,             \* what of it is durable
  reader,           \* a thread between the two lookups of get
  crashes,
  base              \* history: the block that was last made canonical

memory == <<overlay, pending, journal, latest_era, earliest_era, cumulative_size>>
vars == <<memory, pc, batch, db, disk, reader, crashes, base>>

NoEra == -1      \* None of earliest_era and latest_era
NoBatch == [era |-> NoEra]

\* What TrieDBMut::commit puts into the transaction overlay for a block: new
\* nodes with a positive count, nodes gone with a negative one.
Insertions == [b \in Blocks |-> State[b] \ State[Parent(b)]]
Deletions == [b \in Blocks |-> State[Parent(b)] \ State[b]]

\* b is a or descends from it.
Extends(b, a) == Len(a) <= Len(b) /\ SubSeq(b, 1, Len(a)) = a
Live(b) == Extends(b, base)

\* get and contains: the overlays, then the database.
InMemory(k) == overlay[k] > 0 \/ k \in pending
Contains(k) == InMemory(k) \/ k \in db.keys

------------------------------------------------------------------------------
(* read_overlay: journal and overlay as the database has them.             *)

\* The eras from the latest down to the first without a record, and in each
\* the records from index 0 on without a gap.
\* (Wrong on purpose: era 0 is not read; the first era read is the earliest.)
HasRecord(d, e, i) == \E r \in d.records : r.era = e /\ r.index = i
ReadErasAboveZero(d) ==
  {e \in 1 .. d.latest_era : \A f \in e .. d.latest_era : HasRecord(d, f, 0)}
ReadEras(d) == {e \in 0 .. d.latest_era : \A f \in e .. d.latest_era : HasRecord(d, f, 0)}
ReadRecords(d) ==
  {r \in d.records : r.era \in ReadEras(d) /\ \A i \in 0 .. r.index : HasRecord(d, r.era, i)}

ReadJournal(d) ==
  LET read == ReadRecords(d)
  IN  [e \in Eras |->
         LET of == {r \in read : r.era = e}
         IN  [i \in {r.index + 1 : r \in of} |-> (CHOOSE r \in of : r.index = i - 1).id]]
ReadCounts(d) ==
  LET read == ReadRecords(d)
  IN  [k \in Keys |-> Cardinality({r \in read : k \in Insertions[r.id]})]
ReadEarliestFirst(d) == d.latest_era
ReadEarliest(d) ==
  IF ReadEras(d) = {} THEN NoEra
  ELSE CHOOSE e \in ReadEras(d) : \A f \in ReadEras(d) : e <= f

\* cumulative_size counts a key when it enters the overlay.
Size(counts) == Cardinality({k \in Keys : counts[k] > 0})

------------------------------------------------------------------------------
\* A new database: the genesis state is journalled in era 0 and written.
Init ==
  \E g \in {b \in Blocks : Parent(b) = Void} :
    /\ overlay = [k \in Keys |-> IF k \in State[g] THEN 1 ELSE 0]
    /\ pending = {}
    /\ journal = [e \in Eras |-> IF e = 0 THEN <<g>> ELSE <<>>]
    /\ latest_era = 0 /\ earliest_era = 0 /\ cumulative_size = Cardinality(State[g])
    /\ pc = "prune" /\ batch = NoBatch
    /\ db = [keys |-> {}, records |-> {[era |-> 0, index |-> 0, id |-> g]}, latest_era |-> 0,
             blocks |-> {g}, best |-> g, hashes |-> [e \in Eras |-> IF e = 0 THEN g ELSE Void],
             base |-> Void]
    /\ disk = db
    /\ reader = [block |-> Void, missed |-> {}]
    /\ crashes = 0 /\ base = Void

\* An assumption on the imported blocks, not a test of the code, which expects
\* "blocks being imported always within recent history" (blockchain.rs:1034):
\* the chain is not reorganised below the last block made canonical or shortened
\* by History blocks, and no branch is longer than it by History blocks.
WithinHistory(b, new_best) ==
  IF new_best THEN Live(b) /\ Number(b) + History > latest_era
              ELSE Number(b) < Number(db.best) + History

\* MemoryDB::emplace of every insertion of a block, and remove_and_purge of every
\* insertion of a sequence of blocks.
Emplaced(b) == [k \in Keys |-> overlay[k] + (IF k \in Insertions[b] THEN 1 ELSE 0)]
Purged(records) ==
  [k \in Keys |->
     overlay[k] - Cardinality({i \in DOMAIN records : k \in Insertions[records[i]]})]

\* The latest era after a block of era now (first, wrong on purpose: the next).
NextLatest(now) == now + 1
NewLatest(now) == IF now > latest_era THEN now ELSE latest_era

\* check_and_close_block lets the block pass (it is not ancient, the parent's
\* state root is there) and commit_block calls journal_under; whether it is the
\* new best block depends on difficulties.
JournalUnder(b, new_best) ==
  LET now == Number(b)
  IN  /\ pc = "idle"
      /\ b \notin db.blocks /\ Parent(b) \in db.blocks
      /\ earliest_era <= now
      /\ Contains(Root[Parent(b)])
      /\ WithinHistory(b, new_best)
      /\ pending' = {}
      /\ overlay' = Emplaced(b)
      /\ cumulative_size' =
           cumulative_size + Cardinality({k \in Insertions[b] : overlay[k] <= 0})
      /\ journal' = [journal EXCEPT ![now] = Append(@, b)]
      /\ latest_era' = NewLatest(now)
      /\ earliest_era' = IF earliest_era = NoEra \/ earliest_era > now THEN now ELSE earliest_era
      /\ batch' = [era |-> now, index |-> Len(journal[now]), id |-> b, best |-> new_best]
      /\ pc' = "commit"
      /\ UNCHANGED <<db, disk, reader, crashes, base>>

\* The batch of commit_block: the record, the latest era, and the block with
\* the hashes of the chain it makes canonical.
Committed(d) ==
  LET b == batch.id
  IN  [d EXCEPT
         !.records = {r \in @ : r.era # batch.era \/ r.index # batch.index}
                     \cup {[era |-> batch.era, index |-> batch.index, id |-> b]},
         !.latest_era = IF batch.era > @ THEN batch.era ELSE @,
         !.blocks = @ \cup {b},
         !.best = IF batch.best THEN b ELSE @,
         !.hashes = IF batch.best
                    THEN [e \in Eras |-> IF e <= Number(b) THEN SubSeq(b, 1, e + 1) ELSE @[e]]
                    ELSE @]

WriteCommit ==
  /\ pc = "commit"
  /\ db' = Committed(db)
  /\ batch' = NoBatch
  /\ pc' = "prune"
  /\ UNCHANGED <<memory, disk, reader, crashes, base>>

\* prune_ancient: over the memory target, and more than the minimum is kept
\* (first, wrong on purpose: one era more is pruned).
PruneNeededEarly ==
  /\ cumulative_size >= HistoryMem
  /\ earliest_era # NoEra
  /\ earliest_era + History <= latest_era + 1
PruneNeeded ==
  /\ cumulative_size >= HistoryMem
  /\ earliest_era # NoEra
  /\ earliest_era + History <= latest_era

PruneDone ==
  /\ pc = "prune" /\ ~PruneNeeded
  /\ pc' = "idle"
  /\ UNCHANGED <<memory, batch, db, disk, reader, crashes, base>>

\* The insertions mark_canonical writes: those of the canonical block (first,
\* wrong on purpose: only when they leave the overlay).
LeavingPuts(canon, left) == {k \in Insertions[canon] : overlay[k] > 0 /\ left[k] <= 0}
CanonPuts(canon, left) == {k \in Insertions[canon] : overlay[k] > 0}

\* mark_canonical: the insertions of the canonical block go to the database by
\* way of pending, all insertions of the era leave the overlay, and the
\* deletions of the canonical block that nobody re-inserted leave the database.
MarkCanonical ==
  LET era     == earliest_era
      canon   == db.hashes[era]
      records == journal[era]
      is_here == \E i \in DOMAIN records : records[i] = canon
      left    == Purged(records)
      puts    == IF is_here THEN CanonPuts(canon, left) ELSE {}
      deletes == IF is_here THEN {k \in Deletions[canon] : left[k] <= 0} ELSE {}
  IN  /\ pc = "prune" /\ PruneNeeded
      /\ canon # Void
      /\ overlay' = left
      /\ cumulative_size' =
           cumulative_size - Cardinality({k \in Keys : overlay[k] > 0 /\ left[k] <= 0})
      /\ pending' = pending \cup puts
      /\ journal' = [journal EXCEPT ![era] = <<>>]
      /\ earliest_era' = IF \E e \in Eras : journal'[e] # <<>> THEN era + 1 ELSE era
      /\ batch' = [era |-> era, count |-> Len(records), puts |-> puts, deletes |-> deletes]
      /\ base' = canon
      /\ pc' = "mark"
      /\ UNCHANGED <<latest_era, db, disk, reader, crashes>>

\* The batch of mark_canonical.
Marked(d) ==
  [d EXCEPT
     !.records = {r \in @ : r.era # batch.era \/ r.index >= batch.count},
     !.keys = (@ \cup batch.puts) \ batch.deletes,
     !.base = base]

WriteMark ==
  /\ pc = "mark"
  /\ db' = Marked(db)
  /\ batch' = NoBatch
  /\ pc' = "flush"
  /\ UNCHANGED <<memory, disk, reader, crashes, base>>

\* Wrong on purpose: pending is emptied before the batch is written.
FlushPendingEarly ==
  /\ pc \in {"mark", "flush"}
  /\ pending' = {}
  /\ pc' = IF pc = "mark" THEN pc ELSE "prune"
  /\ UNCHANGED <<overlay, journal, latest_era, earliest_era, cumulative_size, batch, db, disk,
                 reader, crashes, base>>

\* journal_db().flush(): the database has what was pending.
FlushPending ==
  /\ pc = "flush"
  /\ pending' = {}
  /\ pc' = "prune"
  /\ UNCHANGED <<overlay, journal, latest_era, earliest_era, cumulative_size, batch, db, disk,
                 reader, crashes, base>>

------------------------------------------------------------------------------
(* Database flushes, crashes and readers.                                  *)

\* Database::flush, by this thread or by one that has released the import lock
\* before it flushes: batches are written whole, and in order.
Flush ==
  /\ disk # db
  /\ disk' = db
  /\ UNCHANGED <<memory, pc, batch, db, reader, crashes, base>>

\* The node dies and starts again: Client::new reads the overlay and prunes.
Crash ==
  /\ crashes < MaxCrashes
  /\ crashes' = crashes + 1
  /\ db' = disk
  /\ overlay' = ReadCounts(disk)
  /\ pending' = {}
  /\ journal' = ReadJournal(disk)
  /\ latest_era' = disk.latest_era /\ earliest_era' = ReadEarliest(disk)
  /\ cumulative_size' = Size(ReadCounts(disk))
  /\ pc' = "prune" /\ batch' = NoBatch
  /\ reader' = [block |-> Void, missed |-> {}]
  /\ base' = disk.base
  /\ UNCHANGED disk

\* get, first half: readers of the keys of a state that found them in neither
\* overlay ...
StartRead(b) ==
  /\ reader.block = Void
  /\ b \in db.blocks /\ Live(b)
  /\ reader' = [block |-> b, missed |-> {k \in State[b] : ~InMemory(k)}]
  /\ UNCHANGED <<memory, pc, batch, db, disk, crashes, base>>

\* ... and second half: they ask the database.
FinishRead ==
  /\ reader.block # Void
  /\ reader' = [block |-> Void, missed |-> {}]
  /\ UNCHANGED <<memory, pc, batch, db, disk, crashes, base>>

Import ==
  \/ \E b \in Blocks, new_best \in BOOLEAN : JournalUnder(b, new_best)
  \/ WriteCommit \/ PruneDone \/ MarkCanonical \/ WriteMark \/ FlushPending

Next == Import \/ Flush \/ Crash \/ (\E b \in Blocks : StartRead(b)) \/ FinishRead
Spec == Init /\ [][Next]_vars

------------------------------------------------------------------------------
(* Properties.                                                             *)

\* Every variable has its type.
TypeOK ==
  /\ overlay \in [Keys -> Int] /\ pending \subseteq Keys
  /\ journal \in [Eras -> Seq(Blocks)]
  /\ {latest_era, earliest_era} \subseteq Eras \cup {NoEra}
  /\ cumulative_size \in Int
  /\ pc \in {"idle", "commit", "prune", "mark", "flush"}
  /\ \A d \in {db, disk} :
       /\ d.keys \subseteq Keys /\ d.blocks \subseteq Blocks /\ d.best \in d.blocks
       /\ \A r \in d.records : r.era \in Eras /\ r.index \in Nat /\ r.id \in Blocks
       /\ d.latest_era \in Eras /\ d.base \in Blocks \cup {Void}
       /\ d.hashes \in [Eras -> Blocks \cup {Void}]
  /\ reader.block \in Blocks \cup {Void} /\ reader.missed \subseteq Keys
  /\ base \in Blocks \cup {Void}

\* Whatever was pruned, and wherever a crash happened, the whole state of the
\* last canonical block and of every block that descends from it can be read:
\* mark_canonical never drops or deletes a node that such a state shares.
StateAvailable == \A b \in db.blocks : Live(b) => \A k \in State[b] : Contains(k)

\* A reader that found a key in neither overlay finds it in the database, as
\* long as its block was not pruned: nodes move from the overlay to the
\* database by way of pending_overlay.
ReadersSucceed == Live(reader.block) => reader.missed \subseteq db.keys

\* can_reconstruct_refs: between operations what a restart would read from
\* the database is what is in memory.
RecoveredIsSame ==
  pc \in {"idle", "prune"} =>
    /\ overlay = ReadCounts(db) /\ journal = ReadJournal(db)
    /\ latest_era = db.latest_era /\ earliest_era = ReadEarliest(db)
    /\ cumulative_size = Size(overlay)

\* prune_ancient always finds the next block to make canonical, as the child
\* of the last one and with its record: it cannot skip an era or loop for ever
\* on a missing hash.
PruneFindsCanon ==
  pc = "prune" /\ PruneNeeded =>
    LET canon == db.hashes[earliest_era]
    IN  /\ canon \in Blocks /\ Parent(canon) = base
        /\ \E i \in DOMAIN journal[earliest_era] : journal[earliest_era][i] = canon

\* "at least --pruning-history states will always be kept" (parity/cli/mod.rs:789):
\* the states of the chain's blocks from History eras before the latest on are
\* there.  The oldest of them is the one made canonical last, one era more of
\* pruning (prune_ancient) would lose it.
HistoryIsKept ==
  \A e \in Eras :
    e + History >= db.latest_era /\ e <= Number(db.best) =>
      \A k \in State[db.hashes[e]] : Contains(k)
==============================================================================
