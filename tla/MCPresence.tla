------------------------------ MODULE MCPresence -------------------------------
\* Sockets of a guild's hunters on two nodes, for TLC.
EXTENDS Presence, TLC

CONSTANTS node1, node2, hunter1, hunter2, t1, t2, i1, i2

Symmetry ==
  Permutations({node1, node2}) \cup Permutations({hunter1, hunter2})
    \cup Permutations({t1, t2}) \cup Permutations({i1, i2})
===============================================================================
