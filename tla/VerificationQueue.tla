--------------------------- MODULE VerificationQueue ---------------------------
(***************************************************************************)
(* The verification queue (ethcore/src/verification/queue/mod.rs) between  *)
(* the network and the chain, with the client's side of it: import_block,  *)
(* import_verified_blocks, flush_queue and clear_queue.                    *)
(*                                                                         *)
(* Every thread has a program counter; a step is what it does while it     *)
(* holds one set of locks.  The mutex more_to_verify, the client's import  *)
(* lock and the three condition variables are explicit, the other locks    *)
(* are held within a step only.  Heap sizes and difficulties are 1.        *)
(***************************************************************************)
EXTENDS Integers, Sequences, FiniteSets

CONSTANTS
  NumVerifiers,   \* max_verifiers: the threads allocated
  InitialWork,    \* default_amount: the threads active at the start
  Items,          \* the blocks, by hash
  Parent,         \* parent_hash of each
  Genesis,        \* the block the chain starts with
  Unsound,        \* blocks K::create refuses
  Future,         \* blocks K::create finds temporarily invalid
  Invalid,        \* blocks K::verify refuses
  Unclosable,     \* blocks check_and_close_block refuses
  Proposals,      \* blocks the engine takes for proposals
  Batch,          \* max_blocks_to_import
  Wrap,           \* 2^w for the width w of the size counters
  None,           \* no thread, no item
  MaxCalls,       \* bound: calls of import, clear, scale_verifiers and flush
  MaxClears,      \* bound: calls of clear
  MaxScales,      \* bound: calls of scale_verifiers
  MaxFlushes,     \* bound: calls of flush
  Closing         \* whether the queue is dropped

Verifiers == 0 .. NumVerifiers - 1
IO == NumVerifiers               \* the IO worker that handles BlockVerified
Clients == Verifiers \cup {IO}   \* threads that run import_verified_blocks

ASSUME QueueAssumption ==
  /\ NumVerifiers \in Nat \ {0}
  /\ InitialWork \in 1 .. NumVerifiers
  /\ Parent \in [Items -> Items \cup {Genesis}]
  /\ Genesis \notin Items
  /\ None \notin Clients
  /\ {Batch, Wrap} \subseteq Nat \ {0}
  /\ {MaxCalls, MaxClears, MaxScales, MaxFlushes} \subseteq Nat
  /\ Closing \in BOOLEAN

VARIABLES
  unverified,   \* hashes waiting
  verifying,    \* hashes being verified, and whether the output is there
  verified,     \* hashes ready for the client
  bad, processing, total_difficulty, sizes,
  working,      \* x of State::Work(x), 0 for State::Exit
  more,         \* holder of the mutex more_to_verify
  signalled, deleting,
  messages,     \* BlockVerified messages in the IO channel
  vpc, item,    \* verifier threads: where they are, what they verify
  ipc, input,   \* the thread that imports blocks
  lock,         \* holder of the client's import lock
  batch,        \* blocks drained and not yet marked
  invalid,      \* invalid_blocks: those of the batch the client refused
  chain,        \* blocks committed to the chain
  iopc, fpc, cpc,             \* IO worker, flush, drop
  imports, clears, scales, flushes,
  inserted, delivered         \* history: hashes pushed and hashes drained

queueVars == <<unverified, verifying, verified, bad, sizes>>
ledgerVars == <<processing, total_difficulty>>
signalVars == <<signalled, messages>>
verifierVars == <<vpc, item, more>>
importVars == <<ipc, input, imports, inserted>>
clientVars == <<lock, batch, invalid, chain, delivered>>
controlVars == <<working, deleting, cpc, clears, scales>>
flushVars == <<fpc, flushes>>
vars == <<queueVars, ledgerVars, signalVars, verifierVars, importVars, clientVars,
          controlVars, flushVars, iopc>>

Init ==
  /\ unverified = <<>> /\ verifying = <<>> /\ verified = <<>>
  /\ bad = {} /\ processing = {} /\ total_difficulty = 0
  /\ sizes = [unverified |-> 0, verifying |-> 0, verified |-> 0]
  /\ working = InitialWork /\ more = None
  /\ signalled = FALSE /\ deleting = FALSE /\ messages = 0
  /\ vpc = [v \in Verifiers |-> "state"] /\ item = [v \in Verifiers |-> None]
  /\ ipc = "idle" /\ input = None
  /\ lock = None /\ batch = <<>> /\ invalid = {} /\ chain = {Genesis}
  /\ iopc = "idle" /\ fpc = "idle" /\ cpc = "open"
  /\ imports = 0 /\ clears = 0 /\ scales = 0 /\ flushes = 0
  /\ inserted = <<>> /\ delivered = <<>>

Calls == imports + clears + scales + flushes

\* Atomic counters wrap around.
Add(k, n) == (k + n) % Wrap
Sub(k, n) == (k - n) % Wrap

Range(q) == {q[i] : i \in DOMAIN q}
Hashes(q) == {q[i].hash : i \in DOMAIN q}
Goto(v, to) == vpc' = [vpc EXCEPT ![v] = to]
Wake(from, to) == vpc' = [v \in Verifiers |-> IF vpc[v] = from THEN to ELSE vpc[v]]

------------------------------------------------------------------------------
(* The loop of a verifier thread, verify().                                *)

\* Exit, sleep until this thread is required, or go for work.
CheckState(v) ==
  /\ vpc[v] = "state"
  /\ Goto(v, IF working = 0 THEN "exited" ELSE IF v < working THEN "enter" ELSE "asleep")
  /\ UNCHANGED <<queueVars, ledgerVars, signalVars, item, more, importVars, clientVars,
                 controlVars, flushVars, iopc>>

\* Wrong on purpose: waits before the first test.
EnterWaitUntested(v) ==
  /\ vpc[v] = "enter" /\ more = None
  /\ more' = v
  /\ Goto(v, "towait")
  /\ fpc' = IF fpc = "waiting" /\ unverified = <<>> /\ verifying = <<>> THEN "check" ELSE fpc
  /\ UNCHANGED <<queueVars, ledgerVars, signalVars, item, importVars, clientVars,
                 controlVars, flushes, iopc>>

\* Take more_to_verify; tell flush if nothing is queued.
EnterWait(v) ==
  /\ vpc[v] = "enter" /\ more = None
  /\ more' = v
  /\ Goto(v, "check")
  /\ fpc' = IF fpc = "waiting" /\ unverified = <<>> /\ verifying = <<>> THEN "check" ELSE fpc
  /\ UNCHANGED <<queueVars, ledgerVars, signalVars, item, importVars, clientVars,
                 controlVars, flushes, iopc>>

\* The test of the inner loop and the exit checks after it.
CheckWork(v) ==
  /\ vpc[v] = "check" /\ more = v
  /\ Goto(v, IF working = 0 THEN "exited" ELSE IF unverified = <<>> THEN "towait" ELSE "pop")
  /\ more' = IF working # 0 /\ unverified = <<>> THEN more ELSE None
  /\ UNCHANGED <<queueVars, ledgerVars, signalVars, item, importVars, clientVars,
                 controlVars, flushVars, iopc>>

\* Condvar::wait releases the mutex and sleeps.
Wait(v) ==
  /\ vpc[v] = "towait" /\ more = v
  /\ more' = None
  /\ Goto(v, "waiting")
  /\ UNCHANGED <<queueVars, ledgerVars, signalVars, item, importVars, clientVars,
                 controlVars, flushVars, iopc>>

\* A notified thread takes the mutex again and repeats the test.
Relock(v) ==
  /\ vpc[v] = "relock" /\ more = None
  /\ more' = v
  /\ Goto(v, "check")
  /\ UNCHANGED <<queueVars, ledgerVars, signalVars, item, importVars, clientVars,
                 controlVars, flushVars, iopc>>

\* Wrong on purpose: pushed to the front of verifying.
PopToFront(v) ==
  /\ vpc[v] = "pop"
  /\ IF unverified = <<>>
     THEN Goto(v, "state") /\ UNCHANGED <<queueVars, item>>
     ELSE /\ unverified' = Tail(unverified)
          /\ verifying' = <<[hash |-> Head(unverified), done |-> FALSE]>> \o verifying
          /\ sizes' = [sizes EXCEPT !.unverified = Sub(@, 1)]
          /\ item' = [item EXCEPT ![v] = Head(unverified)]
          /\ Goto(v, "verify")
          /\ UNCHANGED <<verified, bad>>
  /\ UNCHANGED <<ledgerVars, signalVars, more, importVars, clientVars, controlVars,
                 flushVars, iopc>>

\* Move the front of unverified to the back of verifying, under both locks.
Pop(v) ==
  /\ vpc[v] = "pop"
  /\ IF unverified = <<>>
     THEN Goto(v, "state") /\ UNCHANGED <<queueVars, item>>
     ELSE /\ unverified' = Tail(unverified)
          /\ verifying' = Append(verifying, [hash |-> Head(unverified), done |-> FALSE])
          /\ sizes' = [sizes EXCEPT !.unverified = Sub(@, 1)]
          /\ item' = [item EXCEPT ![v] = Head(unverified)]
          /\ Goto(v, "verify")
          /\ UNCHANGED <<verified, bad>>
  /\ UNCHANGED <<ledgerVars, signalVars, more, importVars, clientVars, controlVars,
                 flushVars, iopc>>

\* drain_verifying: the finished items at the front, and which of them go to
\* bad because a parent is there (or got there just before them).
FinishedPrefix(q) ==
  CHOOSE k \in 0 .. Len(q) :
    /\ \A i \in 1 .. k : q[i].done
    /\ k < Len(q) => ~q[k + 1].done

\* (first, wrong on purpose: without those that got there just before)
DoomedByOld(hashes, b) == {hashes[i] : i \in {j \in 1 .. Len(hashes) : Parent[hashes[j]] \in b}}
Doomed(hashes, b) ==
  LET mark[i \in 0 .. Len(hashes)] ==
        IF i = 0 THEN {}
        ELSE IF Parent[hashes[i]] \in b \cup mark[i - 1]
             THEN mark[i - 1] \cup {hashes[i]}
             ELSE mark[i - 1]
  IN  mark[Len(hashes)]

\* The sequence of those that are not dropped.
Without(hashes, dropped) ==
  LET keep[i \in 0 .. Len(hashes)] ==
        IF i = 0 THEN <<>>
        ELSE IF hashes[i] \in dropped THEN keep[i - 1] ELSE Append(keep[i - 1], hashes[i])
  IN  keep[Len(hashes)]

\* Wrong on purpose: what is dropped is not bad; what is dropped is added to
\* the size of verified.
DrainVerifyingForgetting(q, b, n) ==
  LET k      == FinishedPrefix(q)
      output == [i \in 1 .. k |-> q[i].hash]
      good   == Without(output, Doomed(output, b))
  IN  /\ verifying' = SubSeq(q, k + 1, Len(q))
      /\ verified' = verified \o good
      /\ bad' = b
      /\ sizes' = [sizes EXCEPT !.verifying = Sub(Add(@, n), k), !.verified = Add(@, Len(good))]
      /\ UNCHANGED unverified
DrainVerifyingOversized(q, b, n) ==
  LET k      == FinishedPrefix(q)
      output == [i \in 1 .. k |-> q[i].hash]
      doomed == Doomed(output, b)
      good   == Without(output, doomed)
  IN  /\ verifying' = SubSeq(q, k + 1, Len(q))
      /\ verified' = verified \o good
      /\ bad' = b \cup doomed
      /\ sizes' = [sizes EXCEPT !.verifying = Sub(Add(@, n), k), !.verified = Add(@, k)]
      /\ UNCHANGED unverified

\* q and b are verifying and bad as the thread leaves them before it drains,
\* n is what it added to the size of verifying.
DrainVerifying(q, b, n) ==
  LET k      == FinishedPrefix(q)
      output == [i \in 1 .. k |-> q[i].hash]
      doomed == Doomed(output, b)
      good   == Without(output, doomed)
  IN  /\ verifying' = SubSeq(q, k + 1, Len(q))
      /\ verified' = verified \o good
      /\ bad' = b \cup doomed
      /\ sizes' = [sizes EXCEPT !.verifying = Sub(Add(@, n), k), !.verified = Add(@, Len(good))]
      /\ UNCHANGED unverified

\* K::verify succeeds: store the output with the first entry of this hash and
\* drain if that entry is the first of all.
VerifyOk(v) ==
  /\ vpc[v] = "verify" /\ item[v] \notin Invalid
  /\ LET at == {i \in DOMAIN verifying : verifying[i].hash = item[v]}
         i  == CHOOSE j \in at : \A k \in at : j <= k
         q  == [verifying EXCEPT ![i].done = TRUE]
     IN  \/ at = {} /\ Goto(v, "state") /\ UNCHANGED queueVars
         \/ /\ at # {} /\ i # 1
            /\ Goto(v, "state")
            /\ verifying' = q
            /\ sizes' = [sizes EXCEPT !.verifying = Add(@, 1)]
            /\ UNCHANGED <<unverified, verified, bad>>
         \/ /\ at # {} /\ i = 1
            /\ Goto(v, "signal")
            /\ DrainVerifying(q, bad, 1)
  /\ item' = [item EXCEPT ![v] = None]
  /\ UNCHANGED <<ledgerVars, signalVars, more, importVars, clientVars, controlVars,
                 flushVars, iopc>>

\* K::verify fails: the hash is bad, its entries leave verifying, and what
\* they held up is drained.
VerifyErr(v) ==
  /\ vpc[v] = "verify" /\ item[v] \in Invalid
  /\ LET q == SelectSeq(verifying, LAMBDA e : e.hash # item[v])
         b == bad \cup {item[v]}
     IN  IF q # <<>> /\ q[1].done
         THEN Goto(v, "signal") /\ DrainVerifying(q, b, 0)
         ELSE /\ Goto(v, "state")
              /\ verifying' = q /\ bad' = b
              /\ UNCHANGED <<unverified, verified, sizes>>
  /\ item' = [item EXCEPT ![v] = None]
  /\ UNCHANGED <<ledgerVars, signalVars, more, importVars, clientVars, controlVars,
                 flushVars, iopc>>

\* QueueSignal::set_sync: the first to raise the signal runs the client's
\* handler itself.
Signal(v) ==
  /\ vpc[v] = "signal"
  /\ IF deleting \/ signalled
     THEN Goto(v, "state") /\ UNCHANGED signalled
     ELSE Goto(v, "import") /\ signalled' = TRUE
  /\ UNCHANGED <<queueVars, ledgerVars, messages, item, more, importVars, clientVars,
                 controlVars, flushVars, iopc>>

------------------------------------------------------------------------------
(* Client::import_verified_blocks, on a verifier thread or on the IO       *)
(* worker.                                                                 *)

At(t, pc) == IF t = IO THEN iopc = pc ELSE vpc[t] = pc
Move(t, pc) ==
  IF t = IO
  THEN iopc' = (IF pc = "state" THEN "idle" ELSE pc) /\ UNCHANGED vpc
  ELSE Goto(t, pc) /\ UNCHANGED iopc

\* The IO worker takes a BlockVerified message.
TakeMessage ==
  /\ iopc = "idle" /\ messages > 0
  /\ messages' = messages - 1
  /\ iopc' = "import"
  /\ UNCHANGED <<queueVars, ledgerVars, signalled, verifierVars, importVars, clientVars,
                 controlVars, flushVars>>

Least(a, b) == IF a <= b THEN a ELSE b

\* Wrong on purpose: the signal is not raised again for what is left.
DrainOnce(t) ==
  /\ At(t, "import") /\ lock = None
  /\ LET n    == Least(Batch, Len(verified))
         rest == SubSeq(verified, n + 1, Len(verified))
     IN  /\ verified' = rest
         /\ batch' = SubSeq(verified, 1, n)
         /\ delivered' = delivered \o SubSeq(verified, 1, n)
         /\ sizes' = [sizes EXCEPT !.verified = Sub(@, n)]
         /\ signalled' = FALSE
         /\ UNCHANGED messages
         /\ IF n = 0
            THEN Move(t, "state") /\ UNCHANGED lock
            ELSE Move(t, "commit") /\ lock' = t
  /\ UNCHANGED <<unverified, verifying, bad, ledgerVars, item, more, importVars, invalid,
                 chain, controlVars, flushVars>>

\* Take the import lock and drain: reset the signal, raise it again (set_async)
\* if something is left.
Drain(t) ==
  /\ At(t, "import") /\ lock = None
  /\ LET n    == Least(Batch, Len(verified))
         rest == SubSeq(verified, n + 1, Len(verified))
         more_left == rest # <<>> /\ ~deleting
     IN  /\ verified' = rest
         /\ batch' = SubSeq(verified, 1, n)
         /\ delivered' = delivered \o SubSeq(verified, 1, n)
         /\ sizes' = [sizes EXCEPT !.verified = Sub(@, n)]
         /\ signalled' = more_left
         /\ messages' = IF more_left THEN messages + 1 ELSE messages
         /\ IF n = 0
            THEN Move(t, "state") /\ UNCHANGED lock
            ELSE Move(t, "commit") /\ lock' = t
  /\ UNCHANGED <<unverified, verifying, bad, ledgerVars, item, more, importVars, invalid,
                 chain, controlVars, flushVars>>

\* The blocks of a batch the client refuses: those check_and_close_block
\* refuses (the parent's absence included) and those whose parent it refused.
\* A proposal is not committed, so nothing is built on it.
Refused(hashes) ==
  LET bads[i \in 0 .. Len(hashes)] ==
        IF i = 0 THEN {}
        ELSE LET h    == hashes[i]
                 good == {hashes[j] : j \in 1 .. i - 1} \ (bads[i - 1] \cup Proposals)
             IN  IF \/ h \in Unclosable
                    \/ Parent[h] \in bads[i - 1]
                    \/ Parent[h] \notin chain \cup good
                 THEN bads[i - 1] \cup {h}
                 ELSE bads[i - 1]
  IN  bads[Len(hashes)]

Remove(hashes) ==
  /\ processing' = processing \ hashes
  /\ total_difficulty' = total_difficulty - Cardinality(processing \cap hashes)

\* Close the blocks and commit them; a proposal is marked as good instead.
CommitBlocks(t) ==
  /\ At(t, "commit") /\ lock = t
  /\ LET closed == Range(batch) \ Refused(batch)
     IN  /\ chain' = chain \cup (closed \ Proposals)
         /\ invalid' = Refused(batch)
         /\ Remove(closed \cap Proposals)
  /\ Move(t, "markbad")
  /\ UNCHANGED <<queueVars, signalVars, item, more, importVars, lock, batch, delivered,
                 controlVars, flushVars>>

\* mark_as_bad: the refused blocks, and every verified block whose parent is or
\* becomes bad.
MarkAsBad(t) ==
  /\ At(t, "markbad") /\ lock = t
  /\ LET doomed == Doomed(verified, bad \cup invalid)
         kept   == Without(verified, doomed)
     IN  IF invalid = {}
         THEN UNCHANGED <<verified, bad, sizes, ledgerVars>>
         ELSE /\ bad' = bad \cup invalid \cup doomed
              /\ verified' = kept
              /\ sizes' = [sizes EXCEPT !.verified = Sub(@, Len(verified) - Len(kept))]
              /\ Remove(invalid \cup doomed)
  /\ Move(t, "markgood")
  /\ UNCHANGED <<unverified, verifying, signalVars, item, more, importVars, clientVars,
                 controlVars, flushVars>>

\* mark_as_good of the imported blocks, and the import lock is released.
MarkAsGood(t) ==
  /\ At(t, "markgood") /\ lock = t
  /\ Remove(Range(batch) \ (invalid \cup Proposals))
  /\ lock' = None /\ batch' = <<>> /\ invalid' = {}
  /\ Move(t, "state")
  /\ UNCHANGED <<queueVars, signalVars, item, more, importVars, chain, delivered,
                 controlVars, flushVars>>

------------------------------------------------------------------------------
(* Client::import_block and VerificationQueue::import.                     *)

\* The client's checks: not in the chain, and the parent is known.
CallImport(h) ==
  /\ cpc = "open" /\ ipc = "idle" /\ Calls < MaxCalls
  /\ h \notin chain
  /\ Parent[h] \in chain \cup processing \cup bad
  /\ ipc' = "lookup" /\ input' = h /\ imports' = imports + 1
  /\ UNCHANGED <<queueVars, ledgerVars, signalVars, verifierVars, inserted, clientVars,
                 controlVars, flushVars, iopc>>

\* AlreadyQueued, KnownBad, or on to K::create; a child of a bad block is bad.
Lookup ==
  /\ ipc = "lookup"
  /\ LET queued == input \in processing
         known  == input \in bad \/ Parent[input] \in bad
     IN  /\ ipc' = IF queued \/ known THEN "idle" ELSE "create"
         /\ input' = IF queued \/ known THEN None ELSE input
         /\ bad' = IF ~queued /\ known THEN bad \cup {input} ELSE bad
  /\ UNCHANGED <<unverified, verifying, verified, sizes, ledgerVars, signalVars, verifierVars,
                 imports, inserted, clientVars, controlVars, flushVars, iopc>>

\* Wrong on purpose: pushed without an entry in processing.
CreateUnregistered ==
  /\ ipc = "create"
  /\ input \notin Unsound \cup Future
  /\ ipc' = "push"
  /\ sizes' = [sizes EXCEPT !.unverified = Add(@, 1)]
  /\ UNCHANGED <<bad, input, unverified, verifying, verified, ledgerVars, signalVars, verifierVars,
                 imports, inserted, clientVars, controlVars, flushVars, iopc>>

\* K::create, and the size of what it made.
Create ==
  /\ ipc = "create"
  /\ IF input \in Unsound \cup Future
     THEN /\ ipc' = "idle" /\ input' = None
          /\ bad' = IF input \in Future THEN bad ELSE bad \cup {input}
          /\ UNCHANGED sizes
     ELSE /\ ipc' = "register"
          /\ sizes' = [sizes EXCEPT !.unverified = Add(@, 1)]
          /\ UNCHANGED <<bad, input>>
  /\ UNCHANGED <<unverified, verifying, verified, ledgerVars, signalVars, verifierVars,
                 imports, inserted, clientVars, controlVars, flushVars, iopc>>

\* The entry in processing, then the difficulty it stands for.
Register ==
  /\ ipc = "register"
  /\ processing' = processing \cup {input}
  /\ ipc' = "difficulty"
  /\ UNCHANGED <<queueVars, total_difficulty, signalVars, verifierVars, input, imports, inserted,
                 clientVars, controlVars, flushVars, iopc>>

AddDifficulty ==
  /\ ipc = "difficulty"
  /\ total_difficulty' = total_difficulty + 1
  /\ ipc' = "push"
  /\ UNCHANGED <<queueVars, processing, signalVars, verifierVars, input, imports, inserted,
                 clientVars, controlVars, flushVars, iopc>>

Push ==
  /\ ipc = "push"
  /\ unverified' = Append(unverified, input)
  /\ inserted' = Append(inserted, input)
  /\ ipc' = "notify"
  /\ UNCHANGED <<verifying, verified, bad, sizes, ledgerVars, signalVars, verifierVars,
                 input, imports, clientVars, controlVars, flushVars, iopc>>

\* more_to_verify.notify_all(), without the mutex.
Notify ==
  /\ ipc = "notify"
  /\ Wake("waiting", "relock")
  /\ ipc' = "idle" /\ input' = None
  /\ UNCHANGED <<queueVars, ledgerVars, signalVars, item, more, imports, inserted, clientVars,
                 controlVars, flushVars, iopc>>

------------------------------------------------------------------------------
(* flush, scale_verifiers, clear and drop.                                 *)

\* flush takes its own mutex, which nobody else takes.
CallFlush ==
  /\ cpc = "open" /\ fpc = "idle" /\ flushes < MaxFlushes /\ Calls < MaxCalls
  /\ fpc' = "check" /\ flushes' = flushes + 1
  /\ UNCHANGED <<queueVars, ledgerVars, signalVars, verifierVars, importVars, clientVars,
                 controlVars, iopc>>

CheckEmpty ==
  /\ fpc = "check"
  /\ fpc' = IF unverified = <<>> /\ verifying = <<>> THEN "idle" ELSE "towait"
  /\ UNCHANGED <<queueVars, ledgerVars, signalVars, verifierVars, importVars, clientVars,
                 controlVars, flushes, iopc>>

WaitEmpty ==
  /\ fpc = "towait"
  /\ fpc' = "waiting"
  /\ UNCHANGED <<queueVars, ledgerVars, signalVars, verifierVars, importVars, clientVars,
                 controlVars, flushes, iopc>>

\* Wrong on purpose: the target is not limited to the threads there are.
ScaleVerifiersUnlimited(target) ==
  /\ cpc = "open" /\ scales < MaxScales /\ Calls < MaxCalls
  /\ working' = IF target < 1 THEN 1 ELSE target
  /\ scales' = scales + 1
  /\ Wake("asleep", "state")
  /\ UNCHANGED <<queueVars, ledgerVars, signalVars, item, more, importVars, clientVars,
                 deleting, cpc, clears, flushVars, iopc>>

\* scale_verifiers, which collect_garbage calls with one of these targets.
Targets == {1, working - 1, working, working + 1}
ScaleVerifiers(target) ==
  /\ cpc = "open" /\ scales < MaxScales /\ Calls < MaxCalls
  /\ working' = IF target < 1 THEN 1 ELSE Least(NumVerifiers, target)
  /\ scales' = scales + 1
  /\ Wake("asleep", "state")
  /\ UNCHANGED <<queueVars, ledgerVars, signalVars, item, more, importVars, clientVars,
                 deleting, cpc, clears, flushVars, iopc>>

EmptyQueues ==
  /\ unverified' = <<>> /\ verifying' = <<>> /\ verified' = <<>>
  /\ sizes' = [unverified |-> 0, verifying |-> 0, verified |-> 0]
  /\ total_difficulty' = 0 /\ processing' = {}
  /\ UNCHANGED bad

\* clear, under the locks of the three queues.
Clear ==
  /\ cpc = "open" /\ clears < MaxClears /\ Calls < MaxCalls
  /\ clears' = clears + 1
  /\ EmptyQueues
  /\ UNCHANGED <<signalVars, verifierVars, importVars, clientVars, working, deleting, cpc,
                 scales, flushVars, iopc>>

\* drop: the owner has the queue to itself, so no import, flush or client
\* handler is running; the verifier threads are.
CallDrop ==
  /\ Closing /\ cpc = "open"
  /\ ipc = "idle" /\ fpc = "idle" /\ iopc = "idle" /\ lock = None
  /\ \A v \in Verifiers : vpc[v] # "import"
  /\ cpc' = "delete"
  /\ EmptyQueues
  /\ UNCHANGED <<signalVars, verifierVars, importVars, clientVars, working, deleting, clears,
                 scales, flushVars, iopc>>

SetDeleting ==
  /\ cpc = "delete"
  /\ cpc' = "exit"
  /\ deleting' = TRUE
  /\ UNCHANGED <<queueVars, ledgerVars, signalVars, verifierVars, importVars, clientVars,
                 working, clears, scales, flushVars, iopc>>

SetExit ==
  /\ cpc = "exit"
  /\ cpc' = "notify"
  /\ working' = 0
  /\ Wake("asleep", "state")
  /\ UNCHANGED <<queueVars, ledgerVars, signalVars, item, more, importVars, clientVars,
                 deleting, clears, scales, flushVars, iopc>>

\* Wrong on purpose: notified without the mutex.
NotifyExitUnlocked ==
  /\ cpc = "notify"
  /\ cpc' = "join"
  /\ Wake("waiting", "relock")
  /\ UNCHANGED <<queueVars, ledgerVars, signalVars, item, more, importVars, clientVars,
                 working, deleting, clears, scales, flushVars, iopc>>

\* "acquire this lock to force threads to reach the waiting point if they're
\* in-between the exit check and the more_to_verify wait"
NotifyExit ==
  /\ cpc = "notify" /\ more = None
  /\ cpc' = "join"
  /\ Wake("waiting", "relock")
  /\ UNCHANGED <<queueVars, ledgerVars, signalVars, item, more, importVars, clientVars,
                 working, deleting, clears, scales, flushVars, iopc>>

Join ==
  /\ cpc = "join"
  /\ \A v \in Verifiers : vpc[v] = "exited"
  /\ cpc' = "closed"
  /\ UNCHANGED <<queueVars, ledgerVars, signalVars, verifierVars, importVars, clientVars,
                 working, deleting, clears, scales, flushVars, iopc>>

------------------------------------------------------------------------------
ImportVerifiedBlocks(t) ==
  Drain(t) \/ CommitBlocks(t) \/ MarkAsBad(t) \/ MarkAsGood(t)

Verify(v) ==
  \/ CheckState(v) \/ EnterWait(v) \/ CheckWork(v) \/ Wait(v) \/ Relock(v)
  \/ Pop(v) \/ VerifyOk(v) \/ VerifyErr(v) \/ Signal(v)

\* std::sync::Condvar may wake a thread without a notification.
SpuriousWakeup(v) ==
  /\ vpc[v] = "waiting"
  /\ Goto(v, "relock")
  /\ UNCHANGED <<queueVars, ledgerVars, signalVars, item, more, importVars, clientVars,
                 controlVars, flushVars, iopc>>

Import == Lookup \/ Create \/ Register \/ AddDifficulty \/ Push \/ Notify
Flush == CheckEmpty \/ WaitEmpty
Drop == SetDeleting \/ SetExit \/ NotifyExit \/ Join

\* The end of a behaviour in which the queue was dropped.
Closed == cpc = "closed" /\ UNCHANGED vars

Next ==
  \/ \E v \in Verifiers : Verify(v) \/ SpuriousWakeup(v)
  \/ \E t \in Clients : ImportVerifiedBlocks(t)
  \/ TakeMessage
  \/ \E h \in Items : CallImport(h)
  \/ Import
  \/ CallFlush \/ Flush
  \/ \E target \in Targets : ScaleVerifiers(target)
  \/ Clear
  \/ CallDrop \/ Drop
  \/ Closed

Spec == Init /\ [][Next]_vars

\* Threads run: every started operation takes its next step when it can.
Fairness ==
  /\ \A v \in Verifiers : WF_vars(Verify(v))
  /\ \A t \in Clients : WF_vars(ImportVerifiedBlocks(t))
  /\ WF_vars(TakeMessage)
  /\ WF_vars(Import)
  /\ WF_vars(Flush)
  /\ WF_vars(Drop)

FairSpec == Spec /\ Fairness

------------------------------------------------------------------------------
(* Properties.                                                             *)

Pcs == {"state", "asleep", "enter", "check", "towait", "waiting", "relock", "pop", "verify",
        "signal", "import", "commit", "markbad", "markgood", "exited"}

\* Every variable has its type; counters stay within their width.
TypeOK ==
  /\ Range(unverified) \cup Range(verified) \cup Range(batch) \subseteq Items
  /\ Hashes(verifying) \subseteq Items
  /\ bad \subseteq Items /\ processing \subseteq Items /\ chain \subseteq Items \cup {Genesis}
  /\ invalid \subseteq Items
  /\ sizes \in [{"unverified", "verifying", "verified"} -> 0 .. Wrap - 1]
  /\ total_difficulty \in Int /\ messages \in Nat
  /\ working \in 0 .. NumVerifiers
  /\ more \in Verifiers \cup {None} /\ lock \in Clients \cup {None}
  /\ signalled \in BOOLEAN /\ deleting \in BOOLEAN
  /\ vpc \in [Verifiers -> Pcs] /\ item \in [Verifiers -> Items \cup {None}]
  /\ iopc \in {"idle", "import", "commit", "markbad", "markgood"}
  /\ ipc \in {"idle", "lookup", "create", "register", "difficulty", "push", "notify"}
  /\ input \in Items \cup {None}
  /\ fpc \in {"idle", "check", "towait", "waiting"}
  /\ cpc \in {"open", "delete", "exit", "notify", "join", "closed"}

IsSubsequence(s, t) ==
  \E f \in [DOMAIN s -> DOMAIN t] :
    /\ \A i, j \in DOMAIN s : i < j => f[i] < f[j]
    /\ \A i \in DOMAIN s : s[i] = t[f[i]]

\* "Keeps them in the same order as inserted, minus invalid items": however
\* many threads verify, what the client has drained and what it can drain next
\* are inserted blocks in the order of insertion.
OrderKept == IsSubsequence(delivered \o verified, inserted)

\* Neither clear nor drop has emptied the queues under the verifiers.
Undisturbed == clears = 0 /\ cpc = "open"

\* A block that was inserted is in one of the queues, was handed to the
\* client, or is known to be bad, unless the queues were emptied.
NothingLost ==
  Undisturbed =>
    Range(inserted) \subseteq
      Range(unverified) \cup Hashes(verifying) \cup Range(verified) \cup Range(delivered) \cup bad

\* No block waits for the client after its parent was found bad: the order of
\* the queue puts the parent first, and drain_verifying and mark_as_bad look for
\* children.  After a clear the parent may be with a verifier still, which does
\* not look at verified when it finds it bad (mod.rs:384-398).
NoVerifiedChildOfBad ==
  Undisturbed => \A h \in Range(verified) : Parent[h] \notin bad

\* The signal is never lost: if blocks wait for the client then a drain is
\* bound to come, by a thread about to signal, a message in the channel or a
\* thread about to drain.
SignalNotLost ==
  /\ verified # <<>> /\ ~deleting => signalled \/ \E v \in Verifiers : vpc[v] = "signal"
  /\ signalled => \/ messages > 0
                  \/ \E t \in Clients : At(t, "import")

\* The heap sizes queue_info reports are those of the queues, up to the block
\* an import has accounted for and not yet pushed.
SizesExact ==
  Undisturbed =>
    /\ sizes.unverified =
         (Len(unverified) + (IF ipc \in {"register", "difficulty", "push"} THEN 1 ELSE 0)) % Wrap
    /\ sizes.verifying = Cardinality({i \in DOMAIN verifying : verifying[i].done}) % Wrap
    /\ sizes.verified = Len(verified) % Wrap

\* status() reports what is in the queues as queued, and nothing else but what
\* an import is about to push, what the client has not marked yet and what was
\* found bad: the entry of a good block does not outlive it.
QueuedIsProcessing ==
  Undisturbed =>
    LET queued == Range(unverified) \cup Hashes(verifying) \cup Range(verified)
    IN  /\ queued \subseteq processing
        /\ processing \subseteq queued \cup Range(batch) \cup bad
                               \cup (IF ipc \in {"difficulty", "push"} THEN {input} ELSE {})

\* "Get the total difficulty of all the blocks in the queue." (queue/mod.rs:618):
\* when no import and no batch is on its way, total_difficulty is that of the
\* blocks in the three queues.
DifficultyOfQueued ==
  Undisturbed /\ ipc = "idle" /\ batch = <<>> =>
    total_difficulty = Len(unverified) + Len(verifying) + Len(verified)

\* Once drop has notified the verifiers none of them sleeps or is about to.
NoSleeperAfterExit ==
  cpc \in {"join", "closed"} =>
    \A v \in Verifiers : vpc[v] \notin {"asleep", "towait", "waiting"}

\* Drop returns: all verifier threads leave their loop.
DropReturns == (cpc # "open") ~> (cpc = "closed")

\* What is verified is handed to the client.
VerifiedIsDelivered == (verified # <<>>) ~> (verified = <<>>)

\* "wait for work if empty" (mod.rs:320): verifiers do not sleep on a queue
\* that has work, so what is pushed is taken.
WorkIsTaken == (unverified # <<>>) ~> (unverified = <<>>)

\* "Heap memory used in bytes" (types/verification_queue_info.rs:32): the
\* queue never accounts for more than it was given.
SizesBounded == \A q \in DOMAIN sizes : sizes[q] <= imports
==============================================================================
