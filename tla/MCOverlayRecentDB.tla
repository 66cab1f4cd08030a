-------------------------- MODULE MCOverlayRecentDB --------------------------
EXTENDS OverlayRecentDB, TLC

\* A chain of five blocks with a branch of two from the genesis block.
Main(n) == [i \in 1 .. n |-> IF i = 1 THEN 0 ELSE 1]
Numbered == <<Main(1), Main(2), Main(3), Main(4), Main(5), <<0, 2>>, <<0, 2, 2>>>>
Tree == {Numbered[i] : i \in DOMAIN Numbered}

\* One key for every set of blocks, in the states of these blocks and in no
\* other: every pattern of insertions and deletions at once.
AllKeys == 1 .. 2 ^ Len(Numbered) - 1
Bit(i, k) == (k \div 2 ^ (i - 1)) % 2 = 1
AllStates ==
  [b \in Tree \cup {Void} |-> {k \in AllKeys : \E i \in DOMAIN Numbered : Numbered[i] = b /\ Bit(i, k)}]
OwnKey == [b \in Tree |-> 2 ^ ((CHOOSE i \in DOMAIN Numbered : Numbered[i] = b) - 1)]
==============================================================================
