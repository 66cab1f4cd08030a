--------------------------- MODULE MCVoteCollector ---------------------------
EXTENDS VoteCollector, TLC

NatLeq(r, s) == r <= s
Symmetry == Permutations(Addresses) \cup Permutations(Threads)
==============================================================================
