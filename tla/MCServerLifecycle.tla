------------------------- MODULE MCServerLifecycle -------------------------
(* Calls of users beside those of the watchdog; three names are enough for *)
(* the Rust servers that can exist at a time, and one connection for what  *)
(* a stop waits for.                                                       *)
EXTENDS ServerLifecycle
=============================================================================
