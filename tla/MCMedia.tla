-------------------------------- MODULE MCMedia --------------------------------
(***************************************************************************)
(* Instance of Media for TLC: two friends and a third who is a friend of   *)
(* the first only.                                                         *)
(***************************************************************************)
EXTENDS Media, TLC

CONSTANTS ann, bob, cy, m1, m2, t1, t2, t3, g1, g2, s1, s2

MCFriend == {<<ann, bob>>, <<bob, ann>>, <<ann, cy>>, <<cy, ann>>}
MCHomeGuild == [h \in Hunters |-> IF h = cy THEN g2 ELSE g1]

Symmetry == Permutations(Slots) \cup Permutations(Media) \cup Permutations(Tokens)
===============================================================================
