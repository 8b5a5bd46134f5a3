------------------------------- MODULE MCWad -------------------------------
(***************************************************************************)
(* Small instances of Wad for TLC: two versions of an archive that share a *)
(* file. Of the new one the first three of four entries can be read, the   *)
(* third of them out of step, since the name before it is too long, and    *)
(* with a negative size.                                                   *)
(***************************************************************************)
EXTENDS WadBytes, TLC

CONSTANTS old, new

Entry(n, s, z) ==
  [name |-> n, offset |-> 90, size |-> s, zsize |-> 99, is_zip |-> z,
   crc |-> <<9, 9, 200, 200>>]

OldFiles == <<Entry(<<97, 47, 98>>, 20, TRUE)>>
NewFiles == <<Entry(<<97, 47>>, 2, TRUE),
              Entry(<<97, 97, 99>>, 20, FALSE),
              Entry(<<97, 100>>, 8388609, FALSE),
              Entry(<<200, 200>>, 1, FALSE)>>
Versions == [c \in Contents |-> IF c = old THEN 1 ELSE 2]
FilesOf == [c \in Contents |-> IF c = old THEN OldFiles ELSE NewFiles]

\* The beginning of a zlib stream, and more of it.
DataOf == [c \in Contents |-> [i \in 1 .. 24 |-> IF i % 2 = 1 THEN 120 ELSE 156]]

Archive(c) == WrittenArchive(Versions[c], FilesOf[c], DataOf[c])
Journals == [c \in Contents |-> ReadJournal(Archive(c)).entries]
IsBroken == [c \in Contents |-> ReadJournal(Archive(c)).broken]
Sizes == [c \in Contents |-> Len(Archive(c))]
\* What is read as a name, or would be from one byte earlier on.
NamesRead == {<<97, 47>>, <<97, 97>>, <<0, 97>>, <<0, 0>>}
\* 47 is "/".
NestedRead == {n \in NamesRead : 47 \in Range(n)}

Symmetry == Permutations(Wads) \cup Permutations(Files)
=============================================================================
