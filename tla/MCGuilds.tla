------------------------------- MODULE MCGuilds --------------------------------
(***************************************************************************)
(* Instance of Guilds for TLC.                                             *)
(***************************************************************************)
EXTENDS Guilds, TLC

CONSTANTS u1, u2, h1, h2, h3, p1, p2, i1, i2, s1, s2

Symmetry == Permutations(Slots) \cup Permutations(Users) \cup Permutations(Hunters)
              \cup Permutations(Invites)
===============================================================================
