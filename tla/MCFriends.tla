------------------------------- MODULE MCFriends -------------------------------
(***************************************************************************)
(* Instance of Friends for TLC.                                            *)
(***************************************************************************)
EXTENDS Friends, TLC

CONSTANTS ann, bob, s1, s2, s3
===============================================================================
