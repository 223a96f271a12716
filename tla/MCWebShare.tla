----------------------------- MODULE MCWebShare -----------------------------
(* WebShare on two browsers and two files whose names differ only in what    *)
(* clean_entry_name drops and in case.  One browser asks for the list, any   *)
(* request follows, then a download or an archive: of one file, which stays  *)
(* below Limit32, of both, which needs ZIP64, or of none.                    *)
EXTENDS WebShare

CONSTANTS c1, c2, f1, f2

MCAsks == <<{c1} \X {"prepare"}, Clients \X Kinds, {c1} \X {"download", "zip"}>>
MCFileName == [f \in Files |-> IF f = f1 THEN <<"..", "a">> ELSE <<"A">>]
MCFileSize == [f \in Files |-> IF f = f1 THEN 1 ELSE 0]
MCFileByte == [f \in Files |-> IF f = f1 THEN {0, 5, 6} ELSE {}]
MCSelections == {<<f1>>, <<f1, f2, f1>>, <<>>}
Batch(id, name) == [k \in {1} |-> [id |-> id, name |-> name]]
MCAnnounced == {Batch(1, <<"a">>), Batch(1, <<"..">>), Batch(2, <<"a">>)}

\* The check value of CRC-32, the checksum of "123456789": 0xCBF43926.
Digits == [i \in 1 .. 9 |-> {4, 5} \cup {b \in 0 .. 3 : (i \div 2^b) % 2 = 1}]
CheckValue == {1, 2, 5, 8, 11, 12, 13} \cup (20 .. 25) \cup {18, 27, 30, 31}
ASSUME CheckValueAssumption == Checksum(Digits) = CheckValue /\ CrcOf(Digits) = CheckValue
=============================================================================
