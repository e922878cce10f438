------------------------------ MODULE MCStore ------------------------------
(* Store with the records of two chats. *)
EXTENDS Store, TLC

CONSTANTS c1, c2
MCChat == {c1, c2}
MCSymmetry == Permutations(MCChat)
=============================================================================
