------------------------------ MODULE WadBytes ------------------------------
(***************************************************************************)
(* Wad with archives that are bytes: each content is what a list of files  *)
(* comes to when it is written in a version of the format, and its journal *)
(* is what refresh_journal of src/wizwalker-rs/src/file_readers/wad.rs     *)
(* reads from those bytes.                                                 *)
(***************************************************************************)
EXTENDS Wad, WadJournal

CONSTANTS
  Format,      \* Format[c]: the version of the format
  Written,     \* Written[c]: the files that were put into the archive
  Data         \* Data[c]: what they hold, as it follows the journal

Bytes == [c \in Contents |-> WrittenArchive(Format[c], Written[c], Data[c])]

ASSUME WrittenAssumption ==
  /\ Format \in [Contents -> Positive32]
  /\ Written \in [Contents -> Seq(WrittenFile)]
  /\ \A c \in Contents : Len(Written[c]) \in Positive32
  /\ Data \in [Contents -> Seq(Byte)]

ASSUME BytesAssumption ==
  \A c \in Contents :
    /\ Journal[c] = ReadJournal(Bytes[c]).entries
    /\ Broken[c] = ReadJournal(Bytes[c]).broken
    /\ Length[c] = Len(Bytes[c])

-----------------------------------------------------------------------------
\* The written file a read entry stands for: cut to two bytes, its name.
IsWritten(e, f) ==
  e = [name |-> SubSeq(f.name, 1, NameLength), size |-> f.size, is_zip |-> f.is_zip]

\* The i-th file has a name that is long enough for refresh_journal, and each one
\* before it a name that is no longer.
InStep(files, i) ==
  /\ Len(files[i].name) >= NameLength
  /\ \A j \in 1 .. i - 1 : Len(files[j].name) = NameLength

\* Whatever refresh_journal returned, an entry it has read of an archive is what
\* was written there, as long as every name before it is two bytes long.
JournalIsInStep ==
  \A w \in Wads : fresh[w] # <<>> => \E c \in Contents :
    /\ Len(fresh[w]) <= Len(Written[c])
    /\ \A i \in DOMAIN fresh[w] :
         InStep(Written[c], i) => IsWritten(fresh[w][i], Written[c][i])
=============================================================================
