------------------------------- MODULE WebZip -------------------------------
(***************************************************************************)
(* The ZIP archives of the web share (http/server/web_zip.rs): the names   *)
(* of the entries, the layout that is announced as Content-Length before   *)
(* the first byte is read, and the records that are then written.          *)
(*                                                                         *)
(* A name is the sequence of its path parts, a part one symbol; the        *)
(* numbers with_suffix adds are kept apart from it.  The 32-bit and 16-bit *)
(* limits are constants, so that small archives cross them.  A word or a   *)
(* byte is the set of its one bits.                                        *)
(***************************************************************************)
EXTENDS Integers, Sequences, FiniteSetsExt, Functions

CONSTANTS
  Limit32,    \* 0xFFFF_FFFF: the largest value of a 32-bit field
  Limit16,    \* 0xFFFF: the largest value of a 16-bit field
  MaxZipFiles \* MAX_ZIP_FILES

ASSUME ZipAssumption ==
  /\ Limit32 \in Nat
  /\ Limit16 \in Nat
  /\ MaxZipFiles \in Nat
  /\ MaxZipFiles < Limit16

-----------------------------------------------------------------------------
(* Names *)

\* `clean_entry_name`: parts that mean nothing or lead out are dropped.
Meaningless == {"", ".", ".."}

CleanEntryName(parts) ==
  LET kept[i \in 0 .. Len(parts)] ==
        IF i = 0 THEN <<>>
        ELSE IF parts[i] \in Meaningless THEN kept[i - 1] ELSE Append(kept[i - 1], parts[i])
  IN  IF kept[Len(parts)] = <<>> THEN <<"file">> ELSE kept[Len(parts)]

\* `to_lowercase`, on the letters the instances use.
Lower(name) ==
  [name EXCEPT !.path = [i \in DOMAIN @ |-> IF @[i] = "A" THEN "a" ELSE @[i]]]

\* `with_suffix`: " (n)" before the extension of the last part.
WithSuffix(name, n) == [name EXCEPT !.suffix = Append(@, n)]

\* The first of name, name (2), name (3), ... whose lower case is not yet used.
EntryName(parts, used) ==
  LET clean == [path |-> CleanEntryName(parts), suffix |-> <<>>]
      Candidate(n) == IF n = 1 THEN clean ELSE WithSuffix(clean, n)
  IN  Candidate(Min({n \in 1 .. Cardinality(used) + 1 : Lower(Candidate(n)) \notin used}))

\* `zip_entry_names`
ZipEntryNames(files) ==
  LET entry[i \in 1 .. Len(files)] ==
        EntryName(files[i], {Lower(entry[j]) : j \in 1 .. i - 1})
  IN  entry

\* `name.len()`: one byte for each part, its separators and " (n)".
NameLen(name) == 2 * Len(name.path) - 1 + 4 * Len(name.suffix)

-----------------------------------------------------------------------------
(* The plan: what is announced *)

\* The sums of the first numbers of a sequence, as a loop adds them up, and of them all.
PartialSums(s) ==
  LET sum[i \in 0 .. Len(s)] == IF i = 0 THEN 0 ELSE sum[i - 1] + s[i] IN sum

Total(s) == PartialSums(s)[Len(s)]

LocalHeaderLen(e, zip64) == 30 + NameLen(e.name) + IF zip64 THEN 20 ELSE 0

DescriptorLen(zip64) == IF zip64 THEN 24 ELSE 16

CentralHeaderLen(e, zip64) == 46 + NameLen(e.name) + IF zip64 THEN 28 ELSE 0

Layout(entries, zip64) ==
  LET offset ==
        PartialSums([i \in DOMAIN entries |-> LocalHeaderLen(entries[i], zip64)
                                               + entries[i].size + DescriptorLen(zip64)])
      centralOffset == offset[Len(entries)]
      centralSize == Total([i \in DOMAIN entries |-> CentralHeaderLen(entries[i], zip64)])
  IN  [entries |-> entries, zip64 |-> zip64,
       offsets |-> [i \in DOMAIN entries |-> offset[i - 1]],
       centralOffset |-> centralOffset, centralSize |-> centralSize,
       totalLen |-> centralOffset + centralSize + IF zip64 THEN 56 + 20 + 22 ELSE 22]

\* `ZipPlan::new`
ZipPlan(entries) ==
  LET classic == Layout(entries, FALSE)
      zip64 == Len(entries) >= Limit16 \/ classic.totalLen >= Limit32
  IN  IF zip64 THEN Layout(entries, TRUE) ELSE classic

-----------------------------------------------------------------------------
(* The records: what is written, as the widths of their fields *)

Bytes(widths) == Total(widths)

LocalHeader(plan, i) ==
  <<4, 2, 2, 2, 2, 2, 4, 4, 4, 2, 2, NameLen(plan.entries[i].name)>>
    \o IF plan.zip64 THEN <<2, 2, 8, 8>> ELSE <<>>

DataDescriptor(plan) == IF plan.zip64 THEN <<4, 4, 8, 8>> ELSE <<4, 4, 4, 4>>

CentralHeader(plan, i) ==
  <<4, 2, 2, 2, 2, 2, 2, 4, 4, 4, 2, 2, 2, 2, 2, 4, 4, NameLen(plan.entries[i].name)>>
    \o IF plan.zip64 THEN <<2, 2, 8, 8, 8>> ELSE <<>>

EndRecords(plan) ==
  (IF plan.zip64 THEN <<4, 8, 2, 2, 4, 4, 8, 8, 8, 8>> \o <<4, 4, 8, 4>> ELSE <<>>)
    \o <<4, 2, 2, 2, 2, 4, 4, 2>>

\* `central_directory`: the entries once more, then the end records.
CentralDirectory(plan) ==
  Total([i \in DOMAIN plan.entries |-> Bytes(CentralHeader(plan, i))])
    + Bytes(EndRecords(plan))

\* The numbers the records keep in fields of 32 bits.
NarrowFields(plan) ==
  IF plan.zip64 THEN {Limit32}
  ELSE {plan.entries[i].size : i \in DOMAIN plan.entries} \cup Range(plan.offsets)
         \cup {plan.centralSize, plan.centralOffset}

-----------------------------------------------------------------------------
(* The checksum of the contents: bit 0 of a word is the lowest. *)

Byte == SUBSET (0 .. 7)

ShiftRight(word, n) == {b - n : b \in {c \in word : c >= n}}

\* `CRC_TABLE`: eight steps of the division, with 0xEDB88320 as the divisor.
CrcDivisor == {5, 8, 9, 15, 19, 20, 21, 23, 24, 26, 27, 29, 30, 31}

CrcStep(c) == IF 0 \in c THEN SymDiff(CrcDivisor, ShiftRight(c, 1)) ELSE ShiftRight(c, 1)

CrcTable ==
  [i \in Byte |->
     CrcStep(CrcStep(CrcStep(CrcStep(CrcStep(CrcStep(CrcStep(CrcStep(i))))))))]

\* `Crc32::new`, `update` with one byte, `finish`.
CrcNew == 0 .. 31
CrcUpdate(c, byte) == SymDiff(CrcTable[SymDiff(c, byte) \cap (0 .. 7)], ShiftRight(c, 8))
CrcFinish(c) == SymDiff(c, 0 .. 31)

\* The value after each of the bytes, and the checksum of them all.
CrcAfter(bytes) ==
  LET crc[k \in 0 .. Len(bytes)] == IF k = 0 THEN CrcNew ELSE CrcUpdate(crc[k - 1], bytes[k])
  IN  crc

Checksum(bytes) == CrcFinish(CrcAfter(bytes)[Len(bytes)])

\* The definition: the message is a polynomial over GF(2), first bit highest, its first
\* 32 bits inverted; the checksum is its remainder, inverted and reflected.
Generator == {0, 1, 2, 4, 5, 7, 8, 10, 11, 12, 16, 22, 23, 26, 32}

CrcOf(bytes) ==
  LET n == 8 * Len(bytes)
      message ==
        UNION {{n + 31 - (8 * (i - 1) + b) : b \in bytes[i]} : i \in DOMAIN bytes}
      Reduce(p, d) == IF d \in p THEN SymDiff(p, {d - 32 + g : g \in Generator}) ELSE p
      rest[k \in 0 .. n] ==
        IF k = 0 THEN SymDiff(message, n .. n + 31) ELSE Reduce(rest[k - 1], n + 32 - k)
  IN  (0 .. 31) \ {31 - e : e \in rest[n]}

\* The incremental checksum is the defined one: for every byte, after each of two others,
\* and for the empty content (0).
ChecksumsAreCrc32 ==
  /\ \A a \in {{}, 0 .. 7}, b \in Byte : \A s \in {<<b>>, <<a, b>>, <<a, b, a>>} :
       Checksum(s) = CrcOf(s)
  /\ Checksum(<<>>) = {} /\ CrcOf(<<>>) = {}

-----------------------------------------------------------------------------
(* The date of the entries *)

\* The year of a day in an era of 400 years, its day of the year and the month of that,
\* all counted from a first of March.
YearOfEra(doe) == (doe - doe \div 1460 + doe \div 36524 - doe \div 146096) \div 365

DayOfYear(doe) ==
  LET yoe == YearOfEra(doe) IN doe - (365 * yoe + yoe \div 4 - yoe \div 100)

MonthOfYear(doy) == (5 * doy + 2) \div 153

\* `dos_date_time`: year, month and day of a day counted from 1970-01-01.
DosDate(days) ==
  LET z == days + 719468
      era == z \div 146097
      doe == z % 146097
      doy == DayOfYear(doe)
      mp == MonthOfYear(doy)
      month == IF mp < 10 THEN mp + 3 ELSE mp - 9
      year == YearOfEra(doe) + era * 400 + IF month <= 2 THEN 1 ELSE 0
  IN  IF year < 1980 THEN <<1980, 1, 1>>
      ELSE <<Min({year, 2107}), month, doy - (153 * mp + 2) \div 5 + 1>>

\* The calendar: days from 1970-01-01 to a date.
LeapYear(y) == y % 4 = 0 /\ (y % 100 # 0 \/ y % 400 = 0)

DaysIn(y, m) ==
  IF m = 2 THEN IF LeapYear(y) THEN 29 ELSE 28 ELSE IF m \in {4, 6, 9, 11} THEN 30 ELSE 31

DaysUntil(y, m, d) ==
  365 * (y - 1970) + Cardinality({k \in 1970 .. y - 1 : LeapYear(k)})
    + PartialSums([k \in 1 .. 12 |-> DaysIn(y, k)])[m - 1] + d - 1

\* Every day DOS can date.
DosYears == 1980 .. 2107

DatesAreCalendarDates ==
  \A y \in DosYears, m \in 1 .. 12 : \A d \in 1 .. DaysIn(y, m) :
    DosDate(DaysUntil(y, m, d)) = <<y, m, d>>
=============================================================================
