---------------------------- MODULE MCChatStream ----------------------------
(* Instances of ChatStream for TLC. *)
EXTENDS ChatStream, TLC

CONSTANTS c1, c2

MCChats == {c1, c2}
Sym == Permutations(Chat)
=============================================================================
