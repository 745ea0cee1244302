----------------------------- MODULE MCSettlement -----------------------------
(***************************************************************************)
(* Instances of Settlement for TLC.                                        *)
(***************************************************************************)
EXTENDS Settlement, TLC

CONSTANTS alice, master, sword, quest, habit, s1, s2, s3, k1, k2

MCAssignee == [q \in Quests |-> Anyone]
MCAssignedToAlice == [q \in Quests |-> alice]
MCRewardXp == [q \in Quests |-> 60]
MCRewardCoins == [q \in Quests |-> 3]

SlotSymmetry == Permutations(Slots)
KeySymmetry == Permutations(Keys)
Symmetry == SlotSymmetry \cup KeySymmetry
===============================================================================
