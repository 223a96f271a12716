----------------------------- MODULE MCChatHub -----------------------------
(* Small instances of the chat hub for TLC. *)
EXTENDS ChatHub, TLC

Symmetry == Permutations(Conns) \cup Permutations(Peers) \cup Permutations(Sends)
=============================================================================
