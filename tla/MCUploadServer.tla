--------------------------- MODULE MCUploadServer ---------------------------
(* UploadServer on small sets of interchangeable requests and files. *)
EXTENDS UploadServer, TLC

Symmetry == Permutations(Requests) \cup Permutations(Uploads) \cup Permutations(Files)
=============================================================================
