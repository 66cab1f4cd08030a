SPECIFICATION Spec
CONSTANTS
  RoundLeq <- NatLeq
  Threads = {t1, t2}
  Addresses = {a1, a2}
  Hashes = {None, h1}
  Variants = {1}
  MaxRound = 2
SYMMETRY Symmetry
INVARIANTS OneVotePerAddress AtMostOneQuorum EvidenceIsSound
PROPERTIES CountedVotesStay
