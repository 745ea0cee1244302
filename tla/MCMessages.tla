------------------------------ MODULE MCMessages -------------------------------
\* Messages of two friends, for TLC.
EXTENDS Messages, TLC

CONSTANTS hunter1, hunter2, c1, c2, s1, s2

Symmetry ==
  Permutations({hunter1, hunter2}) \cup Permutations({c1, c2}) \cup Permutations({s1, s2})
===============================================================================
