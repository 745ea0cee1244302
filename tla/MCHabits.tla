------------------------------- MODULE MCHabits --------------------------------
(***************************************************************************)
(* Instance of Habits for TLC.                                             *)
(***************************************************************************)
EXTENDS Habits, TLC

CONSTANTS habit1, s1, s2

Symmetry == Permutations(Slots)
===============================================================================
