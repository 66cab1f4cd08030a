------------------------ MODULE VerificationQueueProofs ------------------------
(***************************************************************************)
(* Proofs about the verification queue, for any number of verifier threads *)
(* and any blocks: drop leaves no verifier asleep, and the signal to the   *)
(* client is never lost.                                                   *)
(***************************************************************************)
EXTENDS VerificationQueue, TLAPS

\* A verifier is between taking more_to_verify and releasing it exactly while
\* it holds that mutex.
MutexHeld == \A v \in Verifiers : more = v <=> vpc[v] \in {"check", "towait"}

\* State::Exit is set while drop notifies and joins, and then no verifier
\* sleeps until it is required.
ExitKnown ==
  /\ working = 0 <=> cpc \in {"notify", "join", "closed"}
  /\ working = 0 => \A v \in Verifiers : vpc[v] # "asleep"

\* The inductive invariant behind NoSleeperAfterExit.
SleepInv ==
  /\ vpc \in [Verifiers -> Pcs]
  /\ working \in 0 .. NumVerifiers
  /\ cpc \in {"open", "delete", "exit", "notify", "join", "closed"}
  /\ MutexHeld
  /\ ExitKnown
  /\ NoSleeperAfterExit

\* The inductive invariant behind SignalNotLost.
SignalInv ==
  /\ vpc \in [Verifiers -> Pcs]
  /\ messages \in Nat
  /\ SignalNotLost

sleepVars == <<vpc, more, working, cpc>>

\* A step that changes none of the variables of SleepInv keeps it.
LEMMA SleepFrame == ASSUME SleepInv, UNCHANGED sleepVars PROVE SleepInv'
  BY DEF SleepInv, sleepVars, MutexHeld, ExitKnown, NoSleeperAfterExit

\* A client step moves a verifier between states in which it does not sleep
\* and does not hold the mutex.
LEMMA SleepMove ==
  ASSUME SleepInv, NEW t \in Clients,
         NEW from \in {"import", "commit", "markbad", "markgood"},
         NEW to \in {"state", "commit", "markbad", "markgood"},
         At(t, from), Move(t, to), UNCHANGED <<more, working, cpc>>
  PROVE  SleepInv'
  <1> USE QueueAssumption
  <1>1. CASE t = IO
    BY <1>1, SleepFrame DEF Move, sleepVars
  <1>2. CASE t # IO
    <2>1. t \in Verifiers /\ vpc[t] = from /\ vpc' = [vpc EXCEPT ![t] = to]
      BY <1>2 DEF Clients, At, Move, Goto
    <2> QED
      BY <2>1 DEF SleepInv, MutexHeld, ExitKnown, NoSleeperAfterExit, Pcs
  <1> QED BY <1>1, <1>2

\* Every step of a verifier thread keeps SleepInv.
LEMMA SleepVerify ==
  ASSUME SleepInv, NEW v \in Verifiers, Verify(v) \/ SpuriousWakeup(v)
  PROVE  SleepInv'
  <1> USE QueueAssumption DEF SleepInv, MutexHeld, ExitKnown, NoSleeperAfterExit, Pcs, Goto,
          controlVars
  <1>0. \A u \in Verifiers : u # None BY DEF Clients
  <1>1. CASE CheckState(v) BY <1>1 DEF CheckState, Verifiers
  <1>2. CASE EnterWait(v) BY <1>0, <1>2 DEF EnterWait
  <1>3. CASE CheckWork(v) BY <1>0, <1>3 DEF CheckWork
  <1>4. CASE Wait(v) BY <1>0, <1>4 DEF Wait
  <1>5. CASE Relock(v) BY <1>0, <1>5 DEF Relock
  <1>6. CASE Pop(v) BY <1>6 DEF Pop
  <1>7. CASE VerifyOk(v)
    <2>1. \E to \in {"state", "signal"} : vpc' = [vpc EXCEPT ![v] = to]
      BY <1>7 DEF VerifyOk
    <2>2. vpc[v] = "verify" /\ UNCHANGED <<more, working, cpc>>
      BY <1>7 DEF VerifyOk
    <2> QED BY <2>1, <2>2
  <1>8. CASE VerifyErr(v)
    <2>1. \E to \in {"state", "signal"} : vpc' = [vpc EXCEPT ![v] = to]
      BY <1>8 DEF VerifyErr
    <2>2. vpc[v] = "verify" /\ UNCHANGED <<more, working, cpc>>
      BY <1>8 DEF VerifyErr
    <2> QED BY <2>1, <2>2
  <1>9. CASE Signal(v) BY <1>9 DEF Signal
  <1>10. CASE SpuriousWakeup(v) BY <1>10 DEF SpuriousWakeup
  <1> QED
    BY <1>1, <1>2, <1>3, <1>4, <1>5, <1>6, <1>7, <1>8, <1>9, <1>10 DEF Verify

\* Every step of import_verified_blocks keeps SleepInv.
LEMMA SleepClient ==
  ASSUME SleepInv, NEW t \in Clients, ImportVerifiedBlocks(t)
  PROVE  SleepInv'
  <1>1. CASE Drain(t)
    <2>1. At(t, "import") /\ UNCHANGED <<more, working, cpc>>
      BY <1>1 DEF Drain, controlVars
    <2>2. \E to \in {"state", "commit"} : Move(t, to)
      BY <1>1 DEF Drain
    <2> QED BY <2>1, <2>2, SleepMove
  <1>2. CASE CommitBlocks(t)
    BY <1>2, SleepMove DEF CommitBlocks, controlVars
  <1>3. CASE MarkAsBad(t)
    BY <1>3, SleepMove DEF MarkAsBad, controlVars
  <1>4. CASE MarkAsGood(t)
    BY <1>4, SleepMove DEF MarkAsGood, controlVars
  <1> QED BY <1>1, <1>2, <1>3, <1>4 DEF ImportVerifiedBlocks

\* SleepInv holds initially.
LEMMA SleepInit == Init => SleepInv
  BY QueueAssumption
  DEF Init, SleepInv, MutexHeld, ExitKnown, NoSleeperAfterExit, Pcs, Clients

\* Every step of the queue keeps SleepInv.
LEMMA SleepNext == SleepInv /\ [Next]_vars => SleepInv'
  <1> SUFFICES ASSUME SleepInv, [Next]_vars PROVE SleepInv'
    OBVIOUS
  <1> USE QueueAssumption
  <1>1. CASE \E v \in Verifiers : Verify(v) \/ SpuriousWakeup(v)
    BY <1>1, SleepVerify
  <1>2. CASE \E t \in Clients : ImportVerifiedBlocks(t)
    BY <1>2, SleepClient
  <1>3. CASE TakeMessage
    BY <1>3, SleepFrame DEF TakeMessage, verifierVars, controlVars, sleepVars
  <1>4. CASE \E h \in Items : CallImport(h)
    BY <1>4, SleepFrame DEF CallImport, verifierVars, controlVars, sleepVars
  <1>5. CASE Lookup \/ Create \/ Register \/ AddDifficulty \/ Push
    BY <1>5, SleepFrame
    DEF Lookup, Create, Register, AddDifficulty, Push, verifierVars, controlVars, sleepVars
  <1>6. CASE Notify
    BY <1>6
    DEF Notify, Wake, SleepInv, MutexHeld, ExitKnown, NoSleeperAfterExit, Pcs, controlVars
  <1>7. CASE CallFlush \/ Flush
    BY <1>7, SleepFrame
    DEF CallFlush, Flush, CheckEmpty, WaitEmpty, verifierVars, controlVars, sleepVars
  <1>8. CASE \E target \in Targets : ScaleVerifiers(target)
    <2>1. working' \in 1 .. NumVerifiers
      BY <1>8 DEF Targets, ScaleVerifiers, Least, SleepInv
    <2> QED
      BY <1>8, <2>1
      DEF ScaleVerifiers, Wake, SleepInv, MutexHeld, ExitKnown, NoSleeperAfterExit, Pcs
  <1>9. CASE Clear
    BY <1>9, SleepFrame DEF Clear, verifierVars, sleepVars
  <1>10. CASE CallDrop
    BY <1>10 DEF CallDrop, verifierVars, SleepInv, MutexHeld, ExitKnown, NoSleeperAfterExit
  <1>11. CASE SetDeleting
    BY <1>11 DEF SetDeleting, verifierVars, SleepInv, MutexHeld, ExitKnown, NoSleeperAfterExit
  <1>12. CASE SetExit
    BY <1>12 DEF SetExit, Wake, SleepInv, MutexHeld, ExitKnown, NoSleeperAfterExit, Pcs
  <1>13. CASE NotifyExit
    <2>1. \A v \in Verifiers : vpc[v] # "towait"
      BY <1>13 DEF NotifyExit, SleepInv, MutexHeld, Clients
    <2> QED
      BY <1>13, <2>1
      DEF NotifyExit, Wake, SleepInv, MutexHeld, ExitKnown, NoSleeperAfterExit, Pcs
  <1>14. CASE Join
    BY <1>14 DEF Join, verifierVars, SleepInv, MutexHeld, ExitKnown, NoSleeperAfterExit
  <1>15. CASE UNCHANGED vars
    BY <1>15, SleepFrame DEF vars, verifierVars, controlVars, sleepVars
  <1> QED
    BY <1>1, <1>2, <1>3, <1>4, <1>5, <1>6, <1>7, <1>8, <1>9, <1>10, <1>11, <1>12, <1>13,
       <1>14, <1>15 DEF Next, Import, Drop, Closed

\* Once drop has set State::Exit and notified under more_to_verify, no
\* verifier thread sleeps or is about to sleep (Drop for VerificationQueue),
\* for any number of threads.
THEOREM DropWakesAll == Spec => []NoSleeperAfterExit
  <1>1. SleepInv => NoSleeperAfterExit BY DEF SleepInv
  <1> QED BY SleepInit, SleepNext, <1>1, PTL DEF Spec

------------------------------------------------------------------------------
signalInvVars == <<vpc, iopc, messages, verified, signalled, deleting>>

\* A step that changes none of the variables of SignalInv keeps it.
LEMMA SignalFrame == ASSUME SignalInv, UNCHANGED signalInvVars PROVE SignalInv'
  BY DEF SignalInv, signalInvVars, SignalNotLost, At

\* The threads that are bound to drain stay so when nobody leaves the states
\* signal and import, and nothing new is verified.
LEMMA SignalQuiet ==
  ASSUME SignalInv,
         vpc' \in [Verifiers -> Pcs],
         \A v \in Verifiers : vpc[v] \in {"signal", "import"} => vpc'[v] = vpc[v],
         iopc = "import" => iopc' = "import",
         verified' # <<>> => verified # <<>>,
         ~deleting' => ~deleting,
         UNCHANGED <<messages, signalled>>
  PROVE  SignalInv'
  <1>1. ASSUME NEW t \in Clients, At(t, "import") PROVE At(t, "import")'
    BY <1>1 DEF At, Clients
  <1>2. signalled' => messages' > 0 \/ \E t \in Clients : At(t, "import")'
    BY <1>1 DEF SignalInv, SignalNotLost
  <1>3. verified' # <<>> /\ ~deleting' => signalled' \/ \E v \in Verifiers : vpc'[v] = "signal"
    BY DEF SignalInv, SignalNotLost
  <1> QED
    BY <1>2, <1>3 DEF SignalInv, SignalNotLost

\* Every step of a verifier thread keeps SignalInv.
LEMMA SignalVerify ==
  ASSUME SignalInv, NEW v \in Verifiers, Verify(v) \/ SpuriousWakeup(v)
  PROVE  SignalInv'
  <1>0. vpc \in [Verifiers -> Pcs] /\ messages \in Nat BY DEF SignalInv
  <1>1. CASE CheckState(v) \/ EnterWait(v) \/ CheckWork(v) \/ Wait(v) \/ Relock(v)
             \/ SpuriousWakeup(v)
    <2>1. vpc[v] \notin {"signal", "import"}
      BY <1>1 DEF CheckState, EnterWait, CheckWork, Wait, Relock, SpuriousWakeup
    <2>2. \E to \in Pcs : vpc' = [vpc EXCEPT ![v] = to]
      BY <1>1 DEF CheckState, EnterWait, CheckWork, Wait, Relock, SpuriousWakeup, Goto, Pcs
    <2>3. UNCHANGED <<iopc, messages, verified, signalled, deleting>>
      BY <1>1 DEF CheckState, EnterWait, CheckWork, Wait, Relock, SpuriousWakeup, queueVars,
                  signalVars, controlVars
    <2> QED BY <1>0, <2>1, <2>2, <2>3, SignalQuiet
  <1>2. CASE Pop(v)
    <2>1. vpc[v] = "pop" /\ UNCHANGED <<iopc, messages, verified, signalled, deleting>>
      BY <1>2 DEF Pop, queueVars, signalVars, controlVars
    <2>2. \E to \in Pcs : vpc' = [vpc EXCEPT ![v] = to]
      BY <1>2 DEF Pop, Goto, Pcs
    <2> QED BY <1>0, <2>1, <2>2, SignalQuiet
  <1>3. CASE VerifyOk(v) \/ VerifyErr(v)
    <2>1. vpc[v] = "verify" /\ UNCHANGED <<iopc, messages, signalled, deleting>>
      BY <1>3 DEF VerifyOk, VerifyErr, signalVars, controlVars
    <2>2. \/ vpc' = [vpc EXCEPT ![v] = "state"] /\ UNCHANGED verified
          \/ vpc' = [vpc EXCEPT ![v] = "signal"]
      BY <1>3 DEF VerifyOk, VerifyErr, Goto, queueVars
    <2>3. CASE vpc' = [vpc EXCEPT ![v] = "state"] /\ UNCHANGED verified
      BY <1>0, <2>1, <2>3, SignalQuiet DEF Pcs
    <2>4. CASE vpc' = [vpc EXCEPT ![v] = "signal"]
      <3>1. vpc' \in [Verifiers -> Pcs] /\ vpc'[v] = "signal"
        BY <1>0, <2>4 DEF Pcs
      <3>2. ASSUME NEW t \in Clients, At(t, "import") PROVE At(t, "import")'
        BY <1>0, <2>1, <2>4, <3>2 DEF At, Clients
      <3> QED
        BY <2>1, <3>1, <3>2 DEF SignalInv, SignalNotLost
    <2> QED BY <2>2, <2>3, <2>4
  <1>4. CASE Signal(v)
    <2>1. vpc[v] = "signal" /\ UNCHANGED <<iopc, messages, verified, deleting>>
      BY <1>4 DEF Signal, queueVars, controlVars
    <2>2. CASE deleting \/ signalled
      <3>1. vpc' = [vpc EXCEPT ![v] = "state"] /\ UNCHANGED signalled
        BY <1>4, <2>2 DEF Signal, Goto
      <3>2. vpc' \in [Verifiers -> Pcs]
        BY <1>0, <3>1 DEF Pcs
      <3>3. ASSUME NEW t \in Clients, At(t, "import") PROVE At(t, "import")'
        BY <1>0, <2>1, <3>1, <3>3 DEF At, Clients
      <3> QED
        BY <2>1, <2>2, <3>1, <3>2, <3>3 DEF SignalInv, SignalNotLost
    <2>3. CASE ~(deleting \/ signalled)
      <3>1. vpc' = [vpc EXCEPT ![v] = "import"] /\ signalled' = TRUE
        BY <1>4, <2>3 DEF Signal, Goto
      <3>2. vpc' \in [Verifiers -> Pcs] /\ vpc'[v] = "import"
        BY <1>0, <3>1 DEF Pcs
      <3>3. v \in Clients /\ v # IO
        BY QueueAssumption DEF Clients, Verifiers, IO
      <3>4. At(v, "import")'
        BY <3>2, <3>3 DEF At
      <3> QED
        BY <2>1, <3>1, <3>2, <3>3, <3>4 DEF SignalInv, SignalNotLost
    <2> QED BY <2>2, <2>3
  <1> QED
    BY <1>1, <1>2, <1>3, <1>4 DEF Verify

\* Nothing is left of an empty queue.
LEMMA WithoutEmpty ==
  ASSUME NEW D PROVE Without(<<>>, D) = <<>>
  <1> DEFINE Body(f) == [i \in 0 .. 0 |->
                IF i = 0 THEN <<>>
                ELSE IF <<>>[i] \in D THEN f[i - 1] ELSE Append(f[i - 1], <<>>[i])]
             none == [i \in 0 .. 0 |-> <<>>]
             keep == CHOOSE f : f = Body(f)
  <1>1. none = Body(none)
    OBVIOUS
  <1>2. keep = Body(keep)
    BY <1>1
  <1>3. keep[0] = <<>>
    BY <1>2
  <1>4. Len(<<>>) = 0
    OBVIOUS
  <1> QED
    BY <1>3, <1>4 DEF Without

\* Moving a client out of commit or markgood loses no thread that is bound to
\* drain.
LEMMA SignalMove ==
  ASSUME SignalInv, NEW t \in Clients, NEW from \in {"commit", "markbad", "markgood"},
         NEW to \in {"state", "markbad", "markgood"},
         At(t, from), Move(t, to),
         verified' # <<>> => verified # <<>>,
         UNCHANGED <<messages, signalled, deleting>>
  PROVE  SignalInv'
  <1>0. vpc \in [Verifiers -> Pcs] BY DEF SignalInv
  <1>1. CASE t = IO
    BY <1>0, <1>1, SignalQuiet DEF At, Move
  <1>2. CASE t # IO
    <2>1. t \in Verifiers /\ vpc[t] = from /\ vpc' = [vpc EXCEPT ![t] = to] /\ iopc' = iopc
      BY <1>2 DEF Clients, At, Move, Goto
    <2>2. vpc' \in [Verifiers -> Pcs]
      BY <1>0, <2>1 DEF Pcs
    <2> QED
      BY <1>0, <2>1, <2>2, SignalQuiet
  <1> QED BY <1>1, <1>2

\* Every step of import_verified_blocks keeps SignalInv: drain lowers the
\* signal only when it leaves nothing (or the queue is being dropped).
LEMMA SignalClient ==
  ASSUME SignalInv, NEW t \in Clients, ImportVerifiedBlocks(t)
  PROVE  SignalInv'
  <1>0. vpc \in [Verifiers -> Pcs] /\ messages \in Nat BY DEF SignalInv
  <1>1. CASE Drain(t)
    <2> DEFINE rest == SubSeq(verified, Least(Batch, Len(verified)) + 1, Len(verified))
               left == rest # <<>> /\ ~deleting
    <2>1. /\ verified' = rest /\ deleting' = deleting
          /\ signalled' = left
          /\ messages' = IF left THEN messages + 1 ELSE messages
      BY <1>1 DEF Drain, controlVars
    <2>2. \E to \in {"state", "commit"} : Move(t, to)
      BY <1>1 DEF Drain
    <2>3. vpc' \in [Verifiers -> Pcs]
      BY <1>0, <2>2 DEF Move, Goto, Pcs
    <2> HIDE DEF rest
    <2>4. messages' \in Nat /\ (signalled' => messages' > 0)
      <3> HIDE DEF left
      <3>1. messages' \in Nat /\ (left => messages' > 0)
        <4>1. messages + 1 \in Nat /\ messages + 1 > 0 BY <1>0
        <4> QED BY <1>0, <2>1, <4>1, Zenon
      <3> QED BY <2>1, <3>1, Zenon
    <2>5. verified' # <<>> /\ ~deleting' => signalled'
      BY <2>1
    <2> QED
      BY <2>3, <2>4, <2>5 DEF SignalInv, SignalNotLost
  <1>2. CASE CommitBlocks(t)
    BY <1>2, SignalMove DEF CommitBlocks, queueVars, signalVars, controlVars
  <1>3. CASE MarkAsBad(t)
    <2>1. verified' # <<>> => verified # <<>>
      <3>1. UNCHANGED verified \/ \E D : verified' = Without(verified, D)
        BY <1>3 DEF MarkAsBad
      <3> QED BY <3>1, WithoutEmpty
    <2>2. At(t, "markbad") /\ Move(t, "markgood") /\ UNCHANGED <<messages, signalled, deleting>>
      BY <1>3 DEF MarkAsBad, signalVars, controlVars
    <2> QED BY <2>1, <2>2, SignalMove
  <1>4. CASE MarkAsGood(t)
    BY <1>4, SignalMove DEF MarkAsGood, queueVars, signalVars, controlVars
  <1> QED BY <1>1, <1>2, <1>3, <1>4 DEF ImportVerifiedBlocks

\* SignalInv holds initially.
LEMMA SignalInit == Init => SignalInv
  BY DEF Init, SignalInv, SignalNotLost, Pcs

\* Every step of the queue keeps SignalInv.
LEMMA SignalNext == SignalInv /\ [Next]_vars => SignalInv'
  <1> SUFFICES ASSUME SignalInv, [Next]_vars PROVE SignalInv'
    OBVIOUS
  <1>0. vpc \in [Verifiers -> Pcs] /\ messages \in Nat BY DEF SignalInv
  <1>1. CASE \E v \in Verifiers : Verify(v) \/ SpuriousWakeup(v)
    BY <1>1, SignalVerify
  <1>2. CASE \E t \in Clients : ImportVerifiedBlocks(t)
    BY <1>2, SignalClient
  <1>3. CASE TakeMessage
    <2>1. /\ messages > 0 /\ messages' = messages - 1 /\ iopc' = "import"
          /\ UNCHANGED <<vpc, verified, signalled, deleting>>
      BY <1>3 DEF TakeMessage, queueVars, verifierVars, controlVars
    <2>2. IO \in Clients /\ At(IO, "import")'
      BY <2>1 DEF At, Clients
    <2> QED
      BY <1>0, <2>1, <2>2 DEF SignalInv, SignalNotLost
  <1>4. CASE (\E h \in Items : CallImport(h)) \/ Lookup \/ Create \/ Register \/ AddDifficulty
             \/ Push \/ CallFlush \/ Flush
    BY <1>4, SignalFrame
    DEF CallImport, Lookup, Create, Register, AddDifficulty, Push, CallFlush, Flush, CheckEmpty,
        WaitEmpty, queueVars, signalVars, verifierVars, controlVars, signalInvVars
  <1>5. CASE Notify \/ (\E target \in Targets : ScaleVerifiers(target)) \/ SetExit \/ NotifyExit
    <2>1. /\ UNCHANGED <<iopc, messages, verified, signalled, deleting>>
          /\ Wake("waiting", "relock") \/ Wake("asleep", "state")
      BY <1>5
      DEF Notify, ScaleVerifiers, SetExit, NotifyExit, queueVars, signalVars, controlVars
    <2> QED BY <1>0, <2>1, SignalQuiet DEF Wake, Pcs
  <1>6. CASE Clear \/ CallDrop \/ SetDeleting
    <2>1. /\ UNCHANGED <<vpc, iopc, messages, signalled>>
          /\ verified' # <<>> => verified # <<>>
          /\ ~deleting' => ~deleting
      BY <1>6
      DEF Clear, CallDrop, SetDeleting, EmptyQueues, queueVars, signalVars, verifierVars
    <2> QED BY <1>0, <2>1, SignalQuiet
  <1>7. CASE Join \/ UNCHANGED vars
    BY <1>7, SignalFrame
    DEF Join, vars, queueVars, signalVars, verifierVars, controlVars, signalInvVars
  <1> QED
    BY <1>1, <1>2, <1>3, <1>4, <1>5, <1>6, <1>7 DEF Next, Import, Drop, Closed

\* While blocks wait for the client the signal is raised or about to be, and a
\* raised signal has a message or a thread that will drain (QueueSignal, drain
\* and drain_verifying), for any number of verifiers and whatever is imported,
\* cleared, scaled or refused meanwhile.
THEOREM NoLostSignal == Spec => []SignalNotLost
  <1>1. SignalInv => SignalNotLost BY DEF SignalInv
  <1> QED BY SignalInit, SignalNext, <1>1, PTL DEF Spec
==============================================================================
