------------------------ MODULE OverlayRecentDBProofs ------------------------
(***************************************************************************)
(* For any tree of blocks, any states, any history and any number of       *)
(* crashes: the states that should be there can be read, by readers        *)
(* between their two lookups too, a restart reads back what was in memory, *)
(* and pruning finds the next canonical block.                             *)
(***************************************************************************)
EXTENDS OverlayRecentDBBatches

\* The database once the batch that has been built is written.
Settled == IF pc = "commit" THEN Committed(db) ELSE IF pc = "mark" THEN Marked(db) ELSE db

MemoryOK ==
  /\ overlay = Counts(Settled) /\ JournalOf(journal, Settled)
  /\ base = Settled.base /\ latest_era = Settled.latest_era
  /\ earliest_era = Number(base) + 1
  /\ cumulative_size = Size(overlay)
  /\ pending \subseteq Keys

BatchOK ==
  /\ pc \in {"idle", "commit", "prune", "mark", "flush"}
  /\ pc = "commit" => batch \in [era : Eras, index : Nat, id : Blocks, best : BOOLEAN]
  /\ pc = "mark" =>
       /\ batch \in [era : Eras, count : Nat, puts : SUBSET Keys, deletes : SUBSET Keys]
       /\ batch.puts \subseteq pending

\* A reader of a live block still misses only what the database has and keeps.
ReaderOK ==
  /\ reader \in [block : Blocks \cup {Void}, missed : SUBSET Keys]
  /\ reader.block = Void => reader.missed = {}
  /\ reader.block # Void =>
       /\ reader.block \in db.blocks /\ reader.missed \subseteq State[reader.block]
       /\ Live(reader.block) => reader.missed \subseteq db.keys \cap Settled.keys

IInv == DbOK(db) /\ DbOK(disk) /\ DbOK(Settled) /\ MemoryOK /\ BatchOK /\ ReaderOK

\* Once no batch is waiting, the database is settled.
LEMMA SettledFacts ==
  /\ pc \notin {"commit", "mark"} => Settled = db
  /\ pc = "commit" => Settled = Committed(db)
  /\ pc = "mark" => Settled = Marked(db)
BY DEF Settled

\* The invariant holds initially.
LEMMA InitIInv == Init => IInv
<1> SUFFICES ASSUME Init PROVE IInv
  OBVIOUS
<1>1. PICK g \in {b \in Blocks : Parent(b) = Void} :
        /\ overlay = [k \in Keys |-> IF k \in State[g] THEN 1 ELSE 0]
        /\ pending = {}
        /\ journal = [e \in Eras |-> IF e = 0 THEN <<g>> ELSE <<>>]
        /\ latest_era = 0 /\ earliest_era = 0 /\ cumulative_size = Cardinality(State[g])
        /\ pc = "prune"
        /\ db = [keys |-> {}, records |-> {[era |-> 0, index |-> 0, id |-> g]}, latest_era |-> 0,
                 blocks |-> {g}, best |-> g, hashes |-> [e \in Eras |-> IF e = 0 THEN g ELSE Void],
                 base |-> Void]
        /\ disk = db
        /\ reader = [block |-> Void, missed |-> {}]
        /\ base = Void
  BY Zenon DEF Init
<1>2. /\ db.records = {[era |-> 0, index |-> 0, id |-> g]} /\ db.latest_era = 0
      /\ db.blocks = {g} /\ db.best = g /\ db.keys = {} /\ db.base = Void
      /\ db.hashes = [e \in Eras |-> IF e = 0 THEN g ELSE Void]
  BY <1>1
<1>3. db \in DbStates
  <2>1. 0 \in Eras
    <3>1. Len(g) - 1 = 0
      BY <1>1, ParentLength, BlockFacts, Zenon
    <3> QED BY <3>1 DEF Eras, Number
  <2>2. [era |-> 0, index |-> 0, id |-> g] \in Records
    BY <2>1 DEF Records
  <2>3. [e \in Eras |-> IF e = 0 THEN g ELSE Void] \in [Eras -> Blocks \cup {Void}]
    OBVIOUS
  <2> QED BY <1>1, <2>1, <2>2, <2>3 DEF DbStates
<1>4. /\ DbOK(db) /\ Counts(db) = overlay /\ JournalOf(journal, db)
      /\ Size(overlay) = Cardinality(State[g])
  <2>1. /\ DbOK(db)
        /\ JournalOf([e \in Eras |-> IF e = 0 THEN <<g>> ELSE <<>>], db)
        /\ Counts(db) = [k \in Keys |-> IF k \in State[g] THEN 1 ELSE 0]
        /\ Size(Counts(db)) = Cardinality(State[g])
    BY <1>2, <1>3, NewDatabase
  <2> QED BY <1>1, <2>1, Zenon
<1>5. Settled = db
  BY <1>1, SettledFacts, Zenon
<1>6. MemoryOK
  <2>1. Number(Void) = -1
    BY BlockFacts
  <2>2. /\ base = Settled.base /\ latest_era = Settled.latest_era
        /\ earliest_era = Number(base) + 1
    BY <1>1, <1>2, <1>5, <2>1
  <2>3. /\ overlay = Counts(Settled) /\ JournalOf(journal, Settled)
        /\ cumulative_size = Size(overlay) /\ pending \subseteq Keys
    BY <1>1, <1>4, <1>5
  <2> QED BY <1>1, <2>2, <2>3 DEF MemoryOK
<1>7. BatchOK
  BY <1>1 DEF BatchOK
<1>8. ReaderOK
  BY <1>1 DEF ReaderOK
<1> QED BY <1>1, <1>4, <1>5, <1>6, <1>7, <1>8 DEF IInv

\* JournalUnder keeps the invariant.
LEMMA JournalUnderIInv ==
  ASSUME IInv, NEW b \in Blocks, NEW new_best \in BOOLEAN, JournalUnder(b, new_best)
  PROVE  IInv'
<1> DEFINE now == Number(b)
<1>1. /\ pc = "idle" /\ b \notin db.blocks /\ Parent(b) \in db.blocks /\ earliest_era <= now
      /\ WithinHistory(b, new_best)
      /\ pending' = {} /\ overlay' = Emplaced(b)
      /\ cumulative_size' = cumulative_size + Cardinality({k \in Insertions[b] : overlay[k] <= 0})
      /\ journal' = [journal EXCEPT ![now] = Append(@, b)]
      /\ latest_era' = IF now > latest_era THEN now ELSE latest_era
      /\ earliest_era' = IF earliest_era = NoEra \/ earliest_era > now THEN now ELSE earliest_era
      /\ batch' = [era |-> now, index |-> Len(journal[now]), id |-> b, best |-> new_best]
      /\ pc' = "commit"
      /\ db' = db /\ disk' = disk /\ reader' = reader /\ base' = base
  BY Zenon DEF JournalUnder, NewLatest
<1>2. Settled = db /\ Settled' = Committed(db)'
  BY <1>1 DEF Settled
<1>3. /\ DbOK(db) /\ DbOK(disk) /\ overlay = Counts(db) /\ JournalOf(journal, db) /\ base = db.base
      /\ latest_era = db.latest_era /\ earliest_era = Number(db.base) + 1 /\ cumulative_size = Size(overlay)
      /\ ReaderOK /\ db \in DbStates
  BY <1>2 DEF IInv, MemoryOK, DbOK
<1>4. now \in Nat /\ now \in Eras /\ Number(db.base) < now /\ now <= db.latest_era + 1
  <2>1. now \in Nat /\ now \in Eras
    BY BlockFacts DEF Eras
  <2>2. Number(Parent(b)) <= db.latest_era
    BY <1>1, <1>3, Zenon DEF DbOK, BlocksOK
  <2>3. Number(Parent(b)) = now - 1
    BY ParentLength DEF Number
  <2>4. DbOK(db) /\ earliest_era = Number(db.base) + 1
    BY <1>3
  <2>5. Number(db.base) \in Int /\ db.latest_era \in Nat
    BY <2>4, DbTypes
  <2>6. earliest_era <= now
    BY <1>1
  <2> QED BY <2>1, <2>2, <2>3, <2>4, <2>5, <2>6
<1>5. Len(journal[now]) \in Nat /\ \A r \in db.records : r.era = now => r.index < Len(journal[now])
  BY <1>3, <1>4, RecordNumbers
<1> DEFINE c == Committed(db)'
           rec == [era |-> now, index |-> Len(journal[now]), id |-> b]
<1>6. /\ c.keys = db.keys /\ c.base = db.base /\ c.blocks = db.blocks \cup {b}
      /\ c.records = db.records \cup {rec}
      /\ c.latest_era = IF now > db.latest_era THEN now ELSE db.latest_era
      /\ c.best = IF new_best THEN b ELSE db.best
      /\ c.hashes = IF new_best
                    THEN [e \in Eras |-> IF e <= now THEN SubSeq(b, 1, e + 1) ELSE db.hashes[e]]
                    ELSE db.hashes
      /\ c \in DbStates
  <2>1. batch'.era = now /\ batch'.index = Len(journal[now]) /\ batch'.id = b /\ batch'.best = new_best
    BY <1>1
  <2> DEFINE R == {r \in db.records : r.era # batch'.era \/ r.index # batch'.index}
                  \cup {[era |-> batch'.era, index |-> batch'.index, id |-> batch'.id]}
             L == IF batch'.era > db.latest_era THEN batch'.era ELSE db.latest_era
             B == db.blocks \cup {batch'.id}
             T == IF batch'.best THEN batch'.id ELSE db.best
             H == IF batch'.best
                  THEN [e \in Eras |-> IF e <= Number(batch'.id) THEN SubSeq(batch'.id, 1, e + 1)
                                       ELSE db.hashes[e]]
                  ELSE db.hashes
  <2>2. c = [db EXCEPT !.records = R, !.latest_era = L, !.blocks = B, !.best = T, !.hashes = H]
    BY <1>1 DEF Committed
  <2>3. R = db.records \cup {rec}
    <3>1. {r \in db.records : r.era # now \/ r.index # Len(journal[now])} = db.records
      BY <1>5
    <3> QED BY <2>1, <3>1
  <2>4. /\ L = (IF now > db.latest_era THEN now ELSE db.latest_era)
        /\ B = db.blocks \cup {b} /\ T = (IF new_best THEN b ELSE db.best)
    BY <2>1
  <2>5. H = IF new_best
            THEN [e \in Eras |-> IF e <= now THEN SubSeq(b, 1, e + 1) ELSE db.hashes[e]]
            ELSE db.hashes
    BY <2>1
  <2> HIDE DEF R, L, B, T, H, c
  <2>6. R \in SUBSET Records
    <3>1. rec \in Records
      BY <1>4, <1>5 DEF Records
    <3> QED BY <1>3, <2>3, <3>1 DEF DbStates
  <2>7. H \in [Eras -> Blocks \cup {Void}]
    <3>1. ASSUME NEW e \in Eras, e <= now PROVE SubSeq(b, 1, e + 1) \in Blocks
      <4>1. e + 1 \in 1 .. Len(b)
        BY <3>1, BlockFacts DEF Number
      <4> QED BY <4>1, Ancestors
    <3>2. db.hashes \in [Eras -> Blocks \cup {Void}]
      BY <1>3 DEF DbStates
    <3> QED BY <2>5, <3>1, <3>2
  <2>8. L \in Eras /\ B \in SUBSET Blocks /\ T \in Blocks
    BY <1>3, <1>4, <2>4 DEF DbStates
  <2>9. /\ c \in DbStates /\ c.keys = db.keys /\ c.records = R /\ c.latest_era = L /\ c.blocks = B
        /\ c.best = T /\ c.hashes = H /\ c.base = db.base
    BY <1>3, <2>2, <2>6, <2>7, <2>8, Zenon DEF DbStates
  <2> QED BY <2>3, <2>4, <2>5, <2>9
<1> HIDE DEF c
<1>7. /\ RecordsOK(c) /\ JournalOf(journal', c)
      /\ \A k \in Keys : Counts(c)[k] = Counts(db)[k] + (IF k \in Insertions[b] THEN 1 ELSE 0)
  <2>1. /\ RecordsOK(c) /\ JournalOf([journal EXCEPT ![now] = Append(@, b)], c)
        /\ \A k \in Keys : Counts(c)[k] = Counts(db)[k] + (IF k \in Insertions[b] THEN 1 ELSE 0)
    <3>1. /\ c.base = db.base
          /\ c.records = db.records \cup {[era |-> Number(b), index |-> Len(journal[Number(b)]), id |-> b]}
          /\ c.latest_era = IF Number(b) > db.latest_era THEN Number(b) ELSE db.latest_era
      BY <1>6, Zenon
    <3>2. Number(db.base) < Number(b) /\ Number(b) <= db.latest_era + 1
      BY <1>4
    <3>3. DbOK(db) /\ JournalOf(journal, db)
      BY <1>3
    <3> QED BY <3>1, <3>2, <3>3, CommitRecords
  <2> QED BY <1>1, <2>1
<1>8. BlocksOK(c) /\ ChainOK(c)
  <2>1. new_best => Extends(b, db.base) /\ now + History > db.latest_era
    BY <1>1, <1>3, Zenon DEF WithinHistory, Live
  <2>2. ~new_best => now < Number(db.best) + History
    BY <1>1, Zenon DEF WithinHistory
  <2>3. db.records \subseteq c.records /\ \E r \in c.records : r.id = b
    <3>1. c.records = db.records \cup {rec} /\ rec.id = b
      BY <1>6
    <3> HIDE DEF rec
    <3> QED BY <3>1, Zenon
  <2> QED BY <1>1, <1>3, <1>4, <1>6, <2>1, <2>2, <2>3, CommitChain, Zenon
<1>9. DbOK(c)
  BY <1>6, <1>7, <1>8 DEF DbOK
<1>10. overlay' = Counts(c)
  <2>1. Counts(c) = [k \in Keys |-> Counts(c)[k]]
    BY DEF Counts
  <2>2. overlay' = [k \in Keys |-> Counts(db)[k] + (IF k \in Insertions[b] THEN 1 ELSE 0)]
    BY <1>1, <1>3, Zenon DEF Emplaced
  <2> QED BY <1>7, <2>1, <2>2
<1>11. cumulative_size' = Size(overlay')
  <2>1. overlay \in [Keys -> Nat] /\ Insertions[b] \subseteq Keys
    BY <1>3, CountsType, ChangeTypes
  <2>2. overlay' = [k \in Keys |-> overlay[k] + (IF k \in Insertions[b] THEN 1 ELSE 0)]
    BY <1>1 DEF Emplaced
  <2>3. Size(overlay') = Size(overlay) + Cardinality({k \in Insertions[b] : overlay[k] <= 0})
    BY <2>1, <2>2, SizeUp
  <2> QED BY <1>1, <1>3, <2>3, Zenon
<1>12. MemoryOK'
  <2>1. Settled' = c /\ base' = db.base /\ c.base = db.base
    BY <1>1, <1>2, <1>3, <1>6, Zenon DEF c
  <2>2. latest_era' = c.latest_era
    BY <1>1, <1>3, <1>6, Zenon
  <2>3. earliest_era' = Number(base') + 1
    <3>1. /\ DbOK(db) /\ earliest_era = Number(db.base) + 1 /\ earliest_era <= now
          /\ earliest_era' = IF earliest_era = NoEra \/ earliest_era > now THEN now ELSE earliest_era
      BY <1>1, <1>3
    <3>2. Number(db.base) \in Int /\ Number(db.base) >= -1 /\ now \in Nat
      BY <1>4, <3>1, DbTypes
    <3> HIDE DEF now
    <3>3. earliest_era' = earliest_era
      BY <3>1, <3>2 DEF NoEra
    <3> QED BY <2>1, <3>1, <3>3
  <2> QED BY <1>1, <1>7, <1>10, <1>11, <2>1, <2>2, <2>3, Zenon DEF MemoryOK
<1>13. BatchOK'
  BY <1>1, <1>4, <1>5 DEF BatchOK
<1>14. ReaderOK'
  <2>1. Settled'.keys = db.keys /\ Settled.keys = db.keys
    BY <1>2, <1>6 DEF c
  <2> QED BY <1>1, <1>3, <2>1, Zenon DEF ReaderOK, Live
<1>15. DbOK(db)' /\ DbOK(disk)' /\ DbOK(Settled)'
  BY <1>1, <1>2, <1>3, <1>9, Zenon DEF c
<1> QED BY <1>12, <1>13, <1>14, <1>15 DEF IInv

\* MarkCanonical keeps the invariant.
LEMMA MarkCanonicalIInv ==
  ASSUME IInv, MarkCanonical
  PROVE  IInv'
<1> DEFINE era == earliest_era
           canon == db.hashes[era]
           records == journal[era]
           left == Purged(records)
           is_here == \E i \in DOMAIN records : records[i] = canon
           puts == {k \in Insertions[canon] : overlay[k] > 0}
           deletes == {k \in Deletions[canon] : left[k] <= 0}
<1>1. /\ pc = "prune" /\ era + History <= latest_era
      /\ overlay' = left
      /\ cumulative_size' = cumulative_size - Cardinality({k \in Keys : overlay[k] > 0 /\ left[k] <= 0})
      /\ pending' = pending \cup (IF is_here THEN puts ELSE {})
      /\ journal' = [journal EXCEPT ![era] = <<>>]
      /\ earliest_era' = IF \E e \in Eras : journal'[e] # <<>> THEN era + 1 ELSE era
      /\ batch' = [era |-> era, count |-> Len(records), puts |-> IF is_here THEN puts ELSE {},
                   deletes |-> IF is_here THEN deletes ELSE {}]
      /\ base' = canon /\ pc' = "mark"
      /\ latest_era' = latest_era /\ db' = db /\ disk' = disk /\ reader' = reader
  BY Zenon DEF MarkCanonical, PruneNeeded, CanonPuts
<1>2. Settled = db /\ Settled' = Marked(db)'
  BY <1>1 DEF Settled
<1>3. /\ DbOK(db) /\ DbOK(disk) /\ overlay = Counts(db) /\ JournalOf(journal, db) /\ base = db.base
      /\ latest_era = db.latest_era /\ era = Number(db.base) + 1 /\ cumulative_size = Size(overlay)
      /\ ReaderOK /\ db \in DbStates /\ pending \subseteq Keys
  BY <1>2 DEF IInv, MemoryOK, DbOK
<1> HIDE DEF era
<1>4. /\ era \in Int /\ Number(db.base) = era - 1 /\ era + History <= db.latest_era
      /\ db.latest_era \in Nat /\ History \in Nat /\ History > 0
  <2>1. DbOK(db) /\ era = Number(db.base) + 1 /\ latest_era = db.latest_era
    BY <1>3
  <2>2. era + History <= latest_era
    BY <1>1
  <2>3. /\ Number(db.base) \in Int /\ db.latest_era \in Nat
        /\ History \in Nat /\ History > 0
    BY <2>1, DbTypes
  <2> QED BY <2>1, <2>2, <2>3
<1>5. /\ era \in Eras /\ canon \in Blocks /\ Number(canon) = era
      /\ \E r \in db.records : r.id = canon /\ r.era = era
  <2>1. DbOK(db)
    BY <1>3
  <2> QED BY <1>4, <2>1, NextCanon
<1>6. /\ records \in Seq(Blocks) /\ Len(records) \in Nat /\ DOMAIN records = 1 .. Len(records)
      /\ \A r \in db.records : r.era = era => r.index < Len(records) /\ records[r.index + 1] = r.id
  <2>1. DbOK(db) /\ JournalOf(journal, db)
    BY <1>3
  <2> QED BY <1>5, <2>1, RecordNumbers
<1>7. is_here
  <2>1. PICK r \in db.records : r.id = canon /\ r.era = era
    BY <1>5
  <2>2. r.index \in Nat /\ r.index < Len(records) /\ records[r.index + 1] = canon
    <3>1. DbOK(db)
      BY <1>3
    <3> QED BY <1>6, <2>1, <3>1, DbTypes
  <2>3. r.index + 1 \in DOMAIN records
    BY <1>6, <2>2
  <2> QED BY <2>2, <2>3
<1>8. /\ pending' = pending \cup puts
      /\ batch' = [era |-> era, count |-> Len(records), puts |-> puts, deletes |-> deletes]
  <2> HIDE DEF is_here
  <2> QED BY <1>1, <1>7, Zenon
<1> HIDE DEF is_here
<1>9. puts \subseteq Keys /\ deletes \subseteq Keys
  BY <1>5, ChangeTypes
<1> DEFINE c == Marked(db)'
<1>10. /\ c \in DbStates
       /\ c.records = {r \in db.records : r.era # era \/ r.index >= Len(records)}
       /\ c.keys = (db.keys \cup puts) \ deletes
       /\ c.base = canon /\ c.latest_era = db.latest_era /\ c.blocks = db.blocks
       /\ c.best = db.best /\ c.hashes = db.hashes
  <2> HIDE DEF puts, deletes, canon, records
  <2> DEFINE R == {r \in db.records : r.era # batch'.era \/ r.index >= batch'.count}
             K == (db.keys \cup batch'.puts) \ batch'.deletes
  <2>1. c = [db EXCEPT !.records = R, !.keys = K, !.base = base']
    BY <1>1 DEF Marked
  <2>2. /\ R = {r \in db.records : r.era # era \/ r.index >= Len(records)}
        /\ K = (db.keys \cup puts) \ deletes /\ base' = canon
    BY <1>1, <1>8
  <2> HIDE DEF R, K, c
  <2>3. R \in SUBSET Records /\ K \in SUBSET Keys /\ base' \in Blocks \cup {Void}
    BY <1>3, <1>5, <1>9, <2>2 DEF DbStates
  <2>4. /\ c \in DbStates /\ c.records = R /\ c.keys = K /\ c.base = base'
        /\ c.latest_era = db.latest_era /\ c.blocks = db.blocks
        /\ c.best = db.best /\ c.hashes = db.hashes
    BY <1>3, <2>1, <2>3, Zenon DEF DbStates
  <2> QED BY <2>2, <2>4
<1> HIDE DEF c
<1>11. RecordsOK(c) /\ c.records = {r \in db.records : r.era # era} /\ JournalOf(journal', c)
  <2>1. DbOK(db) /\ JournalOf(journal, db)
    BY <1>3
  <2>2. /\ Number(c.base) = era /\ c.latest_era = db.latest_era
        /\ c.records = {r \in db.records : r.era # era \/ r.index >= Len(journal[era])}
    BY <1>5, <1>10
  <2>3. RecordsOK(c) /\ c.records = {r \in db.records : r.era # era} /\ JournalOf([journal EXCEPT ![era] = <<>>], c)
    <3>1. era \in Int /\ Number(db.base) = era - 1 /\ era + History <= db.latest_era
      BY <1>4
    <3>2. era \in Eras
      BY <1>5
    <3> QED BY <2>1, <2>2, <3>1, <3>2, MarkRecords
  <2> QED BY <1>1, <2>3
<1>12. left = Counts(c)
  <2>1. DbOK(db) /\ JournalOf(journal, db) /\ overlay = Counts(db)
    BY <1>3
  <2>2. ASSUME NEW k \in Keys PROVE left[k] = Counts(c)[k]
    <3>1. Counts(db)[k] - Cardinality({i \in DOMAIN journal[era] : k \in Insertions[journal[era][i]]}) = Counts(c)[k]
      BY <1>5, <1>11, <2>1, MarkCounts
    <3> QED BY <2>1, <3>1 DEF Purged
  <2>3. left = [k \in Keys |-> left[k]] /\ Counts(c) = [k \in Keys |-> Counts(c)[k]]
    BY DEF Purged, Counts
  <2> HIDE DEF left
  <2> QED BY <2>2, <2>3
<1>13. /\ BlocksOK(c) /\ ChainOK(c)
       /\ \A b \in db.blocks : Extends(b, c.base) => Extends(b, db.base)
       /\ \A b \in db.blocks : Extends(b, c.base) => \A k \in State[b] : k \in db.keys => k \in c.keys
  <2>1. DbOK(db) /\ overlay = Counts(db)
    BY <1>3
  <2>2. c.keys = (db.keys \cup {k \in Insertions[db.hashes[era]] : Counts(db)[k] > 0})
                 \ {k \in Deletions[db.hashes[era]] : Counts(c)[k] <= 0}
    BY <1>10, <1>12, <2>1, Zenon
  <2>3. /\ c.base = db.hashes[era] /\ c.latest_era = db.latest_era /\ c.blocks = db.blocks
        /\ c.best = db.best /\ c.hashes = db.hashes /\ c.records = {r \in db.records : r.era # era}
    BY <1>10, <1>11
  <2> QED BY <1>4, <1>11, <2>1, <2>2, <2>3, MarkChain, Zenon
<1>14. DbOK(c)
  BY <1>10, <1>11, <1>13, Zenon DEF DbOK
<1>15. cumulative_size' = Size(overlay')
  <2>1. overlay \in [Keys -> Nat] /\ left \in [Keys -> Nat]
    BY <1>3, <1>12, <1>14, CountsType
  <2>2. ASSUME NEW k \in Keys PROVE left[k] <= overlay[k]
    <3>1. {r \in c.records : k \in Insertions[r.id]} \in SUBSET {r \in db.records : k \in Insertions[r.id]}
      BY <1>11
    <3>2. IsFiniteSet({r \in db.records : k \in Insertions[r.id]})
      BY <1>3, FS_Subset, Zenon DEF DbOK, RecordsOK
    <3>3. Cardinality({r \in c.records : k \in Insertions[r.id]}) <= Cardinality({r \in db.records : k \in Insertions[r.id]})
      BY <3>1, <3>2, FS_Subset
    <3> HIDE DEF left
    <3> QED BY <1>3, <1>12, <3>3 DEF Counts
  <2> HIDE DEF left
  <2>3. Size(left) = Size(overlay) - Cardinality({k \in Keys : overlay[k] > 0 /\ left[k] <= 0})
    BY <2>1, <2>2, SizeDown
  <2> QED BY <1>1, <1>3, <2>3, Zenon
<1>16. earliest_era' = Number(base') + 1
  <2>1. db.latest_era \in Eras /\ db.latest_era # era /\ HasRecord(db, db.latest_era, 0)
    <3>1. db.latest_era \in Eras /\ db.latest_era # era /\ db.latest_era \in Number(db.base) + 1 .. db.latest_era
      BY <1>3, <1>4, DbTypes
    <3> QED BY <1>3, <3>1 DEF DbOK, RecordsOK
  <2>2. 0 < Len(journal[db.latest_era])
    <3>1. DbOK(db) /\ JournalOf(journal, db)
      BY <1>3
    <3> QED BY <2>1, <3>1, RecordNumbers
  <2>3. journal' \in [Eras -> Seq(Blocks)] /\ journal'[db.latest_era] = journal[db.latest_era]
    <3>1. journal \in [Eras -> Seq(Blocks)] /\ <<>> \in Seq(Blocks)
      BY <1>3 DEF JournalOf
    <3>2. journal' = [journal EXCEPT ![era] = <<>>]
      BY <1>1
    <3> QED BY <2>1, <3>1, <3>2, Zenon
  <2>4. journal'[db.latest_era] # <<>>
    BY <2>2, <2>3
  <2>5. earliest_era' = era + 1 /\ base' = canon
    BY <1>1, <2>1, <2>4, Zenon
  <2> QED BY <1>5, <2>5
<1>17. MemoryOK'
  <2>1. Settled' = c /\ base' = c.base /\ latest_era' = c.latest_era
    BY <1>1, <1>2, <1>3, <1>10, Zenon DEF c
  <2>2. overlay' = Counts(c) /\ pending' \subseteq Keys
    BY <1>1, <1>3, <1>8, <1>9, <1>12, Zenon
  <2> QED BY <1>11, <1>15, <1>16, <2>1, <2>2 DEF MemoryOK
<1>18. BatchOK'
  <2> HIDE DEF puts, deletes, records
  <2> QED BY <1>1, <1>5, <1>6, <1>8, <1>9 DEF BatchOK
<1>19. ReaderOK'
  <2>1. Settled' = c /\ Settled = db /\ base' = c.base
    BY <1>1, <1>2, <1>10, Zenon DEF c
  <2>2. ASSUME reader.block # Void, Extends(reader.block, c.base)
        PROVE  reader.missed \subseteq db.keys \cap c.keys
    <3>1. reader.block \in db.blocks /\ reader.missed \subseteq State[reader.block]
      BY <1>3, <2>2, Zenon DEF ReaderOK
    <3>2. Extends(reader.block, base)
      BY <1>3, <1>13, <2>2, <3>1, Zenon
    <3>3. reader.missed \subseteq db.keys
      BY <1>3, <2>2, <3>2 DEF ReaderOK, Live
    <3> QED BY <1>13, <2>2, <3>1, <3>3, Zenon
  <2> QED BY <1>1, <1>3, <2>1, <2>2, Zenon DEF ReaderOK, Live
<1>20. DbOK(db)' /\ DbOK(disk)' /\ DbOK(Settled)'
  BY <1>1, <1>2, <1>3, <1>14, Zenon DEF c
<1> QED BY <1>17, <1>18, <1>19, <1>20 DEF IInv

\* The waiting batch adds blocks only, and keys only that are pending.
LEMMA WaitingBatch ==
  ASSUME IInv
  PROVE  /\ db.blocks \subseteq Settled.blocks
         /\ Settled.keys \subseteq db.keys \cup pending
<1>1. db \in DbStates /\ BatchOK
  BY DEF IInv, DbOK
<1>2. CASE pc = "commit"
  <2>1. Committed(db).blocks = db.blocks \cup {batch.id} /\ Committed(db).keys = db.keys
    BY <1>1 DEF Committed, DbStates
  <2> QED BY <1>2, <2>1, SettledFacts
<1>3. CASE pc = "mark"
  <2>1. Marked(db).blocks = db.blocks /\ Marked(db).keys = (db.keys \cup batch.puts) \ batch.deletes
    BY <1>1 DEF Marked, DbStates
  <2>2. batch.puts \subseteq pending
    BY <1>1, <1>3 DEF BatchOK
  <2> QED BY <1>3, <2>1, <2>2, SettledFacts
<1>4. CASE pc \notin {"commit", "mark"}
  BY <1>4, SettledFacts
<1> QED BY <1>2, <1>3, <1>4

\* A key of a live block is in memory, or in the database before and after
\* the waiting batch.
LEMMA LiveIsReadable ==
  ASSUME IInv, NEW b \in db.blocks, Live(b), NEW k \in State[b], ~InMemory(k)
  PROVE  k \in db.keys \cap Settled.keys
<1>1. DbOK(Settled) /\ base = Settled.base /\ overlay = Counts(Settled)
  BY DEF IInv, MemoryOK
<1>2. b \in Settled.blocks /\ Extends(b, Settled.base)
  BY <1>1, WaitingBatch DEF Live
<1>3. k \in Settled.keys \/ Counts(Settled)[k] > 0
  BY <1>1, <1>2, LiveKeys
<1>4. k \in Settled.keys /\ k \notin pending
  BY <1>1, <1>3 DEF InMemory
<1> QED BY <1>4, WaitingBatch

\* Writing the waiting batch keeps the invariant.
LEMMA WriteIInv ==
  ASSUME IInv, pc \in {"commit", "mark"}, db' = Settled, pc' \in {"prune", "flush"},
         UNCHANGED <<memory, disk, reader, base>>
  PROVE  IInv'
<1>1. Settled' = Settled
  BY DEF Settled
<1>2. UNCHANGED <<overlay, pending, journal, latest_era, earliest_era, cumulative_size>>
  BY DEF memory
<1>3. DbOK(db)' /\ DbOK(disk)' /\ DbOK(Settled)'
  BY <1>1 DEF IInv
<1>4. MemoryOK'
  BY <1>1, <1>2 DEF IInv, MemoryOK
<1>5. BatchOK'
  BY DEF BatchOK
<1>6. ReaderOK'
  <2>1. db.blocks \subseteq db'.blocks
    BY WaitingBatch
  <2> QED BY <1>1, <2>1 DEF IInv, ReaderOK, Live
<1> QED BY <1>3, <1>4, <1>5, <1>6 DEF IInv

\* A crash keeps the invariant.
LEMMA CrashIInv ==
  ASSUME IInv, Crash
  PROVE  IInv'
<1>1. /\ db' = disk /\ disk' = disk /\ overlay' = ReadCounts(disk) /\ pending' = {}
      /\ journal' = ReadJournal(disk) /\ latest_era' = disk.latest_era
      /\ earliest_era' = ReadEarliest(disk) /\ cumulative_size' = Size(ReadCounts(disk))
      /\ pc' = "prune" /\ reader' = [block |-> Void, missed |-> {}] /\ base' = disk.base
  BY DEF Crash
<1>2. DbOK(disk)
  BY DEF IInv
<1>3. Settled' = disk
  BY <1>1 DEF Settled
<1>4. /\ overlay' = Counts(disk) /\ earliest_era' = Number(disk.base) + 1
      /\ cumulative_size' = Size(overlay') /\ JournalOf(journal', disk)
  BY <1>1, <1>2, ReadBack, JournalRead
<1>5. MemoryOK'
  BY <1>1, <1>3, <1>4 DEF MemoryOK
<1>6. BatchOK'
  BY <1>1 DEF BatchOK
<1>7. ReaderOK'
  BY <1>1 DEF ReaderOK
<1> QED BY <1>1, <1>2, <1>3, <1>5, <1>6, <1>7 DEF IInv

\* Steps that leave the database and the batch alone keep what is said of them.
LEMMA SameDatabase ==
  ASSUME IInv, UNCHANGED <<overlay, journal, latest_era, earliest_era, cumulative_size, db, base>>,
         \/ UNCHANGED <<pc, batch, pending>>
         \/ pc \notin {"commit", "mark"} /\ pc' \in {"idle", "prune"} /\ pending' \in {{}, pending}
  PROVE  Settled' = Settled /\ DbOK(db)' /\ DbOK(Settled)' /\ MemoryOK' /\ BatchOK'
<1>1. Settled' = Settled
  <2>1. CASE UNCHANGED <<pc, batch, pending>>
    BY <2>1 DEF Settled, Committed, Marked
  <2>2. CASE pc \notin {"commit", "mark"} /\ pc' \in {"idle", "prune"}
    BY <2>2 DEF Settled
  <2> QED BY <2>1, <2>2
<1>2. DbOK(db)' /\ DbOK(Settled)'
  BY <1>1 DEF IInv
<1>3. MemoryOK'
  BY <1>1 DEF IInv, MemoryOK
<1>4. BatchOK'
  BY DEF IInv, BatchOK
<1> QED BY <1>1, <1>2, <1>3, <1>4

\* Every step keeps the invariant.
LEMMA NextIInv == IInv /\ [Next]_vars => IInv'
<1> SUFFICES ASSUME IInv, [Next]_vars PROVE IInv'
  OBVIOUS
<1>1. CASE \E b \in Blocks, new_best \in BOOLEAN : JournalUnder(b, new_best)
  BY <1>1, JournalUnderIInv
<1>2. CASE WriteCommit
  <2>1. /\ pc \in {"commit", "mark"} /\ db' = Settled /\ pc' \in {"prune", "flush"}
        /\ UNCHANGED <<memory, disk, reader, base>>
    BY <1>2, SettledFacts DEF WriteCommit
  <2> QED BY <2>1, WriteIInv
<1>3. CASE WriteMark
  <2>1. /\ pc \in {"commit", "mark"} /\ db' = Settled /\ pc' \in {"prune", "flush"}
        /\ UNCHANGED <<memory, disk, reader, base>>
    BY <1>3, SettledFacts DEF WriteMark
  <2> QED BY <2>1, WriteIInv
<1>4. CASE MarkCanonical
  BY <1>4, MarkCanonicalIInv
<1>5. CASE PruneDone \/ FlushPending
  <2>1. /\ UNCHANGED <<overlay, journal, latest_era, earliest_era, cumulative_size, db, base, disk, reader>>
        /\ pc \notin {"commit", "mark"} /\ pc' \in {"idle", "prune"} /\ pending' \in {{}, pending}
    BY <1>5 DEF PruneDone, FlushPending, memory
  <2>2. Settled' = Settled /\ DbOK(db)' /\ DbOK(Settled)' /\ MemoryOK' /\ BatchOK'
    BY <2>1, SameDatabase
  <2>3. ReaderOK'
    BY <2>1, <2>2 DEF IInv, ReaderOK, Live
  <2> QED BY <2>1, <2>2, <2>3 DEF IInv
<1>6. CASE Flush
  <2>1. disk' = db /\ UNCHANGED <<memory, pc, batch, db, reader, base>>
    BY <1>6 DEF Flush
  <2>2. Settled' = Settled /\ DbOK(db)' /\ DbOK(Settled)' /\ MemoryOK' /\ BatchOK'
    BY <2>1, SameDatabase DEF memory
  <2>3. ReaderOK'
    BY <2>1, <2>2 DEF IInv, ReaderOK, Live
  <2> QED BY <2>1, <2>2, <2>3 DEF IInv
<1>7. CASE Crash
  BY <1>7, CrashIInv
<1>8. ASSUME NEW b \in Blocks, StartRead(b) PROVE IInv'
  <2>1. /\ b \in db.blocks /\ Live(b)
        /\ reader' = [block |-> b, missed |-> {k \in State[b] : ~InMemory(k)}]
        /\ UNCHANGED <<memory, pc, batch, db, disk, base>>
    BY <1>8 DEF StartRead
  <2>2. Settled' = Settled /\ DbOK(db)' /\ DbOK(Settled)' /\ MemoryOK' /\ BatchOK'
    BY <2>1, SameDatabase DEF memory
  <2>3. {k \in State[b] : ~InMemory(k)} \subseteq db.keys \cap Settled.keys
    BY <2>1, LiveIsReadable
  <2>4. State[b] \subseteq Keys /\ b # Void
    BY StateAssumption, TreeAssumption
  <2>5. ReaderOK'
    <3> DEFINE M == {k \in State[b] : ~InMemory(k)}
    <3>1. M \subseteq State[b] /\ M \subseteq Keys /\ M \subseteq db.keys \cap Settled.keys
      BY <2>3, <2>4
    <3>2. reader' = [block |-> b, missed |-> M]
      BY <2>1, Zenon
    <3> HIDE DEF M
    <3>3. reader'.block = b /\ reader'.missed = M
      BY <3>2
    <3>4. reader' \in [block : Blocks \cup {Void}, missed : SUBSET Keys]
      BY <3>1, <3>2
    <3>5. db' = db /\ Settled' = Settled /\ b \in db.blocks
      BY <2>1, <2>2
    <3> QED BY <2>4, <3>1, <3>3, <3>4, <3>5 DEF ReaderOK
  <2> QED BY <2>1, <2>2, <2>5 DEF IInv
<1>9. CASE FinishRead
  <2>1. reader' = [block |-> Void, missed |-> {}] /\ UNCHANGED <<memory, pc, batch, db, disk, base>>
    BY <1>9 DEF FinishRead
  <2>2. Settled' = Settled /\ DbOK(db)' /\ DbOK(Settled)' /\ MemoryOK' /\ BatchOK'
    BY <2>1, SameDatabase DEF memory
  <2>3. ReaderOK'
    BY <2>1 DEF ReaderOK
  <2> QED BY <2>1, <2>2, <2>3 DEF IInv
<1>10. CASE UNCHANGED vars
  <2>1. UNCHANGED <<memory, pc, batch, db, disk, reader, base>>
    BY <1>10 DEF vars
  <2>2. Settled' = Settled /\ DbOK(db)' /\ DbOK(Settled)' /\ MemoryOK' /\ BatchOK'
    BY <2>1, SameDatabase DEF memory
  <2>3. ReaderOK'
    BY <2>1, <2>2 DEF IInv, ReaderOK, Live
  <2> QED BY <2>1, <2>2, <2>3 DEF IInv
<1> QED
  BY <1>1, <1>2, <1>3, <1>4, <1>5, <1>6, <1>7, <1>8, <1>9, <1>10 DEF Next, Import

\* The invariant holds in every reachable state.
THEOREM Invariant == Spec => []IInv
BY InitIInv, NextIInv, PTL DEF Spec

------------------------------------------------------------------------------
(* The properties.                                                         *)

\* Every variable keeps its type: memory, database and disk.
THEOREM TypeCorrect == Spec => []TypeOK
<1>1. IInv => TypeOK
  <2> SUFFICES ASSUME IInv PROVE TypeOK
    OBVIOUS
  <2>1. /\ DbOK(db) /\ DbOK(disk) /\ DbOK(Settled) /\ overlay = Counts(Settled)
        /\ JournalOf(journal, Settled) /\ base = Settled.base /\ latest_era = Settled.latest_era
        /\ earliest_era = Number(Settled.base) + 1 /\ cumulative_size = Size(overlay)
        /\ pending \subseteq Keys /\ BatchOK /\ ReaderOK
    BY DEF IInv, MemoryOK
  <2>2. overlay \in [Keys -> Int] /\ journal \in [Eras -> Seq(Blocks)]
    <3>1. overlay \in [Keys -> Nat]
      BY <2>1, CountsType
    <3> QED BY <2>1, <3>1 DEF JournalOf
  <2>3. latest_era \in Eras /\ earliest_era \in Eras
    <3>1. latest_era \in Eras /\ Number(Settled.base) \in Int /\ Number(Settled.base) >= -1 /\ latest_era \in Nat
      BY <2>1, DbTypes
    <3>2. Number(Settled.base) < latest_era
      BY <2>1, Zenon DEF DbOK, RecordsOK
    <3>3. earliest_era \in Nat /\ earliest_era <= latest_era
      BY <2>1, <3>1, <3>2
    <3> QED BY <3>1, <3>3, LowerEras
  <2>4. cumulative_size \in Int
    <3>1. IsFiniteSet({k \in Keys : overlay[k] > 0})
      BY StateAssumption, FS_Subset
    <3> QED BY <2>1, <3>1, FS_CardinalityType DEF Size
  <2>5. ASSUME NEW d, DbOK(d)
        PROVE  /\ d.keys \subseteq Keys /\ d.blocks \subseteq Blocks /\ d.best \in d.blocks
               /\ \A r \in d.records : r.era \in Eras /\ r.index \in Nat /\ r.id \in Blocks
               /\ d.latest_era \in Eras /\ d.base \in Blocks \cup {Void}
               /\ d.hashes \in [Eras -> Blocks \cup {Void}]
    BY <2>5, DbTypes, Zenon DEF DbOK, DbStates, ChainOK
  <2>6. base \in Blocks \cup {Void}
    BY <2>1, <2>5
  <2>7. reader.block \in Blocks \cup {Void} /\ reader.missed \subseteq Keys
    BY <2>1 DEF ReaderOK
  <2> QED BY <2>1, <2>2, <2>3, <2>4, <2>5, <2>6, <2>7, Zenon DEF TypeOK, BatchOK
<1> QED BY <1>1, Invariant, PTL

\* The state of the base and of all its descendants can be read, whatever was
\* pruned and wherever crashes happened (journal_under, mark_canonical, get).
THEOREM StatesAvailable == Spec => []StateAvailable
<1>1. IInv => StateAvailable
  BY LiveIsReadable DEF StateAvailable, Contains
<1> QED BY <1>1, Invariant, PTL

\* A reader between the two lookups of get finds what it missed in memory.
THEOREM ReadsSucceed == Spec => []ReadersSucceed
<1>1. IInv => ReadersSucceed
  BY DEF IInv, ReaderOK, ReadersSucceed
<1> QED BY <1>1, Invariant, PTL

\* Between operations read_overlay would return what is in memory.
THEOREM RecoveryIsExact == Spec => []RecoveredIsSame
<1>1. IInv => RecoveredIsSame
  <2> SUFFICES ASSUME IInv, pc \in {"idle", "prune"}
               PROVE  /\ overlay = ReadCounts(db) /\ journal = ReadJournal(db)
                      /\ latest_era = db.latest_era /\ earliest_era = ReadEarliest(db)
                      /\ cumulative_size = Size(overlay)
    BY DEF RecoveredIsSame
  <2>1. Settled = db
    BY SettledFacts
  <2>2. /\ DbOK(db) /\ overlay = Counts(db) /\ JournalOf(journal, db) /\ base = db.base
        /\ latest_era = db.latest_era /\ earliest_era = Number(base) + 1 /\ cumulative_size = Size(overlay)
    BY <2>1 DEF IInv, MemoryOK
  <2>3. journal = ReadJournal(db)
    BY <2>2, JournalRead, JournalUnique
  <2> QED BY <2>2, <2>3, ReadBack
<1> QED BY <1>1, Invariant, PTL

\* prune_ancient finds the child of the base on the chain, with its record.
THEOREM PruningFindsCanon == Spec => []PruneFindsCanon
<1>1. IInv => PruneFindsCanon
  <2> SUFFICES ASSUME IInv, pc = "prune", PruneNeeded
               PROVE  /\ db.hashes[earliest_era] \in Blocks /\ Parent(db.hashes[earliest_era]) = base
                      /\ \E i \in DOMAIN journal[earliest_era] :
                           journal[earliest_era][i] = db.hashes[earliest_era]
    BY DEF PruneFindsCanon
  <2>1. Settled = db
    BY SettledFacts
  <2>2. /\ DbOK(db) /\ JournalOf(journal, db) /\ base = db.base /\ latest_era = db.latest_era
        /\ earliest_era = Number(db.base) + 1
    BY <2>1 DEF IInv, MemoryOK
  <2>3. /\ earliest_era \in Int /\ Number(db.base) = earliest_era - 1
        /\ earliest_era + History <= db.latest_era
    BY <2>2, DbTypes DEF PruneNeeded
  <2>4. DbOK(db)
    BY <2>2
  <2>5. /\ db.hashes[earliest_era] \in Blocks /\ Parent(db.hashes[earliest_era]) = db.base
        /\ \E r \in db.records : r.id = db.hashes[earliest_era] /\ r.era = earliest_era
    BY <2>3, <2>4, NextCanon
  <2>6. PICK r \in db.records : r.id = db.hashes[earliest_era] /\ r.era = earliest_era
    BY <2>5
  <2>7. /\ r.index + 1 \in DOMAIN journal[earliest_era]
        /\ journal[earliest_era][r.index + 1] = db.hashes[earliest_era]
    <3>1. r.index + 1 \in DOMAIN journal[r.era] /\ journal[r.era][r.index + 1] = r.id
      BY <2>2 DEF JournalOf
    <3> QED BY <2>6, <3>1
  <2>8. base = db.base
    BY <2>2
  <2> QED BY <2>5, <2>7, <2>8
<1> QED BY <1>1, Invariant, PTL

\* The states of the chain's blocks from History eras before the latest on are
\* there.
THEOREM HistoryKept == Spec => []HistoryIsKept
<1>1. IInv => HistoryIsKept
  <2> SUFFICES ASSUME IInv, NEW e \in Eras, e + History >= db.latest_era, e <= Number(db.best),
                      NEW k \in State[db.hashes[e]]
               PROVE  Contains(k)
    BY DEF HistoryIsKept
  <2>1. DbOK(db) /\ DbOK(Settled) /\ base = Settled.base /\ db \in DbStates
    BY DEF IInv, MemoryOK, DbOK
  <2>2. /\ e \in Nat /\ db.latest_era \in Nat /\ History \in Nat
        /\ db.best \in Blocks /\ db.best \in Seq(Int) /\ Len(db.best) \in Nat
    BY <2>1, DbTypes, BlockFacts
  <2>3. base \in Seq(Int) /\ Len(base) \in Nat /\ base \in Blocks \cup {Void} /\ Number(base) + 1 = Len(base)
    BY <2>1, DbTypes
  <2>4. Extends(db.best, base) /\ (base # Void => Number(base) + History <= db.latest_era)
    <3>1. CASE pc = "commit"
      <4>1. Settled.base = db.base
        BY <2>1, <3>1, SettledFacts, Zenon DEF Committed, DbStates
      <4> QED BY <2>1, <4>1 DEF DbOK, ChainOK
    <3>2. CASE pc = "mark"
      <4>1. Settled.best = db.best /\ Settled.latest_era = db.latest_era
        BY <2>1, <3>2, SettledFacts, Zenon DEF Marked, DbStates
      <4> QED BY <2>1, <4>1 DEF DbOK, ChainOK
    <3>3. CASE pc \notin {"commit", "mark"}
      BY <2>1, <3>3, SettledFacts DEF DbOK, ChainOK
    <3> QED BY <3>1, <3>2, <3>3
  <2>5. Len(base) <= e + 1
    <3>1. CASE base = Void
      BY <2>2, <3>1, BlockFacts
    <3>2. CASE base # Void
      <4>1. Number(base) \in Int /\ Number(base) + History <= db.latest_era
        BY <2>1, <2>4, <3>2, DbTypes
      <4> QED BY <2>2, <2>3, <4>1
    <3> QED BY <3>1, <3>2
  <2> DEFINE b == SubSeq(db.best, 1, e + 1)
  <2>6. e + 1 \in 1 .. Len(db.best)
    BY <2>2 DEF Number
  <2>7. db.hashes[e] = b /\ b \in db.blocks
    <3>1. db.hashes[e] = b
      BY <2>1, Zenon DEF DbOK, ChainOK
    <3>2. db.best \in db.blocks
      BY <2>1 DEF DbOK, ChainOK
    <3>3. b \in db.blocks
      BY <2>1, <2>6, <3>2 DEF DbOK, BlocksOK
    <3> QED BY <3>1, <3>3
  <2>8. Live(b)
    <3>1. b \in Seq(Int) /\ Len(b) = e + 1 /\ Extends(db.best, b)
      BY <2>2, <2>6, Prefix, ExtendsFacts
    <3> HIDE DEF b
    <3> QED BY <2>2, <2>3, <2>4, <2>5, <3>1, ExtendsFacts DEF Live
  <2> HIDE DEF b
  <2> QED BY <2>7, <2>8, LiveIsReadable DEF Contains
<1> QED BY <1>1, Invariant, PTL
==============================================================================
