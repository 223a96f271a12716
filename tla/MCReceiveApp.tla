---------------------------- MODULE MCReceiveApp ----------------------------
(* ReceiveApp on small sets of interchangeable requests and file ids; two    *)
(* requests may offer the same file id, as a sender that retries does.       *)
EXTENDS ReceiveApp, TLC

Symmetry == Permutations(Sessions) \cup Permutations(Files)
=============================================================================
