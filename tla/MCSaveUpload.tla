---------------------------- MODULE MCSaveUpload ----------------------------
(* A file of five chunks that may have grown by one, and channels that     *)
(* hold fewer chunks than the file has.                                    *)
EXTENDS SaveUpload
=============================================================================
