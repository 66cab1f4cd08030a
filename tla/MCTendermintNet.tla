--------------------------- MODULE MCTendermintNet ---------------------------
EXTENDS Tendermint, TLC

CONSTANTS n1, n2

\* Two views of one height.
Network ==
  [all_honest |-> [list |-> <<n1, n2>>, messages |-> {}, proposals |-> {},
                   max_height |-> 1, max_view |-> 1, max_restarts |-> 0,
                   workers |-> 1, ids |-> {1}]]
==============================================================================
