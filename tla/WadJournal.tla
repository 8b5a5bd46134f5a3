----------------------------- MODULE WadJournal -----------------------------
(***************************************************************************)
(* What refresh_journal of src/wizwalker-rs/src/file_readers/wad.rs makes  *)
(* of the bytes of an archive, and what those bytes are when a list of     *)
(* files has been written to it. Bytes are counted from 0 in the code and  *)
(* from 1 here: the byte at offset k is bytes[k + 1].                      *)
(***************************************************************************)
EXTENDS Integers, Sequences, SequencesExt

(***************************************************************************)
(* The format, as the fields that refresh_journal reads tell it: a mark of *)
(* five bytes, version and number of files, one more byte from version 2   *)
(* on, the entries, each with a name of its own length, and then the data  *)
(* of the files.                                                           *)
(***************************************************************************)
Byte == 0 .. 255
Positive32 == {n \in Nat : n <= 2147483647}

\* A file as it is written; crc is what its four bytes are.
WrittenFile ==
  [name : Seq(Byte), offset : Positive32, size : Positive32, zsize : Positive32,
   is_zip : BOOLEAN, crc : [1 .. 4 -> Byte]]

Int32(n) ==
  <<n % 256, (n \div 256) % 256, (n \div 65536) % 256, (n \div 16777216) % 256>>

WrittenEntry(e) ==
  Int32(e.offset) \o Int32(e.size) \o Int32(e.zsize) \o
  <<IF e.is_zip THEN 1 ELSE 0>> \o e.crc \o Int32(Len(e.name)) \o e.name

WrittenArchive(version, entries, data) ==
  <<75, 73, 87, 65, 68>> \o Int32(version) \o Int32(Len(entries)) \o
  (IF version >= 2 THEN <<0>> ELSE <<>>) \o
  FlattenSeq([i \in DOMAIN entries |-> WrittenEntry(entries[i])]) \o data

-----------------------------------------------------------------------------
\* read_i32::<LittleEndian> at offset k.
ReadInt32(bytes, k) ==
  bytes[k + 1] + 256 * bytes[k + 2] + 65536 * bytes[k + 3] +
  16777216 * (IF bytes[k + 4] < 128 THEN bytes[k + 4] ELSE bytes[k + 4] - 256)

Version(bytes) == ReadInt32(bytes, 5)
\* 0..file_num is empty when file_num is negative.
FileNum(bytes) == LET n == ReadInt32(bytes, 9) IN IF n < 0 THEN 0 ELSE n

\* Faulty: version 2 is taken for one without the extra byte.
Start_After(bytes) == IF Version(bytes) > 2 THEN 14 ELSE 13

Start(bytes) == IF Version(bytes) >= 2 THEN 14 ELSE 13

\* An entry is 21 bytes and a name; vec![0u8, name_length] is a vector of the
\* two bytes 0 and name_length, not one of name_length bytes.
NameLength == 2
EntryLength == 21 + NameLength

\* The offset of the i-th entry.
Position(bytes, i) == Start(bytes) + (i - 1) * EntryLength

EntryAt(bytes, k) ==
  [name |-> SubSeq(bytes, k + 22, k + 21 + NameLength),
   size |-> ReadInt32(bytes, k + 4),
   is_zip |-> bytes[k + 13] # 0]

\* String::from_utf8 of two bytes.
IsText(name) ==
  \/ name[1] < 128 /\ name[2] < 128
  \/ name[1] \in 194 .. 223 /\ name[2] \in 128 .. 191

IsReadable(bytes, i) ==
  /\ Position(bytes, i) + EntryLength <= Len(bytes)
  /\ IsText(EntryAt(bytes, Position(bytes, i)).name)

\* The header, of the length that version says.
HasHeader(bytes) == Len(bytes) >= 13 /\ Len(bytes) >= Start(bytes)

\* The entries that are read before one cannot be, and whether all are.
ReadJournal(bytes) ==
  IF ~HasHeader(bytes) THEN [entries |-> <<>>, broken |-> TRUE]
  ELSE
    LET n == CHOOSE k \in 0 .. FileNum(bytes) :
               /\ \A i \in 1 .. k : IsReadable(bytes, i)
               /\ k < FileNum(bytes) => ~IsReadable(bytes, k + 1)
    IN  [entries |-> [i \in 1 .. n |-> EntryAt(bytes, Position(bytes, i))],
         broken |-> n < FileNum(bytes)]
=============================================================================
