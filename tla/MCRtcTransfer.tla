--------------------------- MODULE MCRtcTransfer ---------------------------
(* The instance of RtcTransfer: two files of one chunk, and an app that may *)
(* give less or more than it announced.                                     *)
EXTENDS RtcTransfer

CONSTANTS f1, f2

MCSize == [f \in Files |-> 1]
=============================================================================
