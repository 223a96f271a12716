------------------------- MODULE MCSignalingServer -------------------------
(* Small instances of the signaling server for TLC. *)
EXTENDS SignalingServer, TLC

Symmetry == Permutations(Clients) \cup Permutations(Rooms)
=============================================================================
