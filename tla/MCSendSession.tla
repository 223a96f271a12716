---------------------------- MODULE MCSendSession ----------------------------
(* Two files, so that a transfer is still running when one of them is sent *)
(* again.                                                                  *)
EXTENDS SendSession
=============================================================================
