------------------------------- MODULE MCServer --------------------------------
EXTENDS Server

CONSTANTS n1, n2, g1, g2, a1, s1, s2

MCNodes == {n1, n2}
MCGuilds == {g1, g2}
MCAccounts == {a1}
MCSlots == {s1, s2}
MCDeployed == {0, 7}
MCSteps == {1, 17}

\* Nodes and slots are interchangeable; the guilds are not, one is there first.
Symmetry == Permutations(MCNodes) \union Permutations(MCSlots)
===============================================================================
