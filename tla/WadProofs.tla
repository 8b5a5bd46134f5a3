----------------------------- MODULE WadProofs -----------------------------
(***************************************************************************)
(* Proofs about Wad, for any number of Wads, files, paths and versions of  *)
(* archives, and any journals these have.                                  *)
(***************************************************************************)
EXTENDS Wad, NaturalRanges, SequenceTheorems, TLAPS

(***************************************************************************)
(* Looking an entry up.                                                    *)
(***************************************************************************)
IsTail(tail, list) ==
  /\ Len(tail) <= Len(list)
  /\ \A i \in 1 .. Len(tail) : list[Len(list) - Len(tail) + i] = tail[i]

\* The last entry of a name is the one at the end of a list that has the name.
LEMMA LookupInTail ==
  ASSUME NEW list \in Seq(WadFileInfo), NEW tail \in Seq(WadFileInfo),
         IsTail(tail, list), NEW n, Positions(tail, n) # {}
  PROVE  Lookup(list, n) = Lookup(tail, n)
<1> DEFINE P == Positions(tail, n)
           Q == Positions(list, n)
           k == Len(list) - Len(tail)
<1>1. /\ DOMAIN tail = 1 .. Len(tail) /\ Len(tail) \in Nat
      /\ DOMAIN list = 1 .. Len(list) /\ Len(list) \in Nat
      /\ k \in Nat
  BY DEF IsTail
<1>2. PICK m \in P : \A j \in P : j <= m
  <2>1. P \in SUBSET Nat /\ P # {} /\ \A j \in P : j <= Len(tail)
    BY <1>1 DEF Positions
  <2> HIDE DEF P
  <2> QED BY <1>1, <2>1, GreatestElement
<1>3. m \in 1 .. Len(tail) /\ tail[m].name = n
  BY <1>1 DEF Positions
<1>4. k + m \in Q /\ list[k + m] = tail[m]
  BY <1>1, <1>3 DEF IsTail, Positions
<1>5. ASSUME NEW j \in Q PROVE j <= k + m
  <2>1. j \in 1 .. Len(list) /\ list[j].name = n
    BY <1>1 DEF Positions
  <2>2. CASE j > k
    <3>1. j - k \in 1 .. Len(tail) /\ k + (j - k) = j
      BY <1>1, <2>1, <2>2
    <3>2. tail[j - k] = list[j]
      BY <3>1 DEF IsTail
    <3>3. j - k \in P
      BY <1>1, <2>1, <3>1, <3>2 DEF Positions
    <3> QED BY <1>1, <1>2, <1>3, <2>1, <3>3
  <2> QED BY <1>1, <1>3, <2>1, <2>2
<1>6. (CHOOSE i \in P : \A j \in P : j <= i) = m
  <2>1. \A i \in P : (\A j \in P : j <= i) => i = m
    BY <1>1, <1>2, <1>3 DEF Positions
  <2> QED BY <1>2, <2>1
<1>7. (CHOOSE i \in Q : \A j \in Q : j <= i) = k + m
  <2>1. \A i \in Q : (\A j \in Q : j <= i) => i = k + m
    BY <1>1, <1>3, <1>4, <1>5 DEF Positions
  <2> QED BY <1>4, <1>5, <2>1
<1> QED BY <1>4, <1>6, <1>7 DEF Lookup

-----------------------------------------------------------------------------
(***************************************************************************)
(* Types. A file that is at a path or open has been made.                  *)
(***************************************************************************)
DiskInv ==
  /\ \A p \in Paths : at[p] # None => content[at[p]] \in Contents
  /\ \A w \in Wads : file[w] # None => content[file[w]] \in Contents

\* The lists of w are as before, or a journal has been appended.
Listed(w) ==
  \/ UNCHANGED <<file_list, fresh>>
  \/ \E c \in Contents :
       /\ file_list' = [file_list EXCEPT ![w] = @ \o Journal[c]]
       /\ fresh' = [fresh EXCEPT ![w] = Journal[c]]

LEMMA ListedTypes ==
  ASSUME TypeOK, NEW w \in Wads, Listed(w)
  PROVE  /\ file_list' \in [Wads -> Seq(WadFileInfo)]
         /\ fresh' \in [Wads -> Seq(WadFileInfo)]
<1> USE DEF TypeOK
<1>1. CASE UNCHANGED <<file_list, fresh>>
  BY <1>1
<1>2. ASSUME NEW c \in Contents,
             file_list' = [file_list EXCEPT ![w] = @ \o Journal[c]],
             fresh' = [fresh EXCEPT ![w] = Journal[c]]
      PROVE  /\ file_list' \in [Wads -> Seq(WadFileInfo)]
             /\ fresh' \in [Wads -> Seq(WadFileInfo)]
  <2>1. /\ Journal[c] \in Seq(WadFileInfo)
        /\ file_list[w] \o Journal[c] \in Seq(WadFileInfo)
    BY ContentAssumption, ConcatProperties
  <2> QED BY <1>2, <2>1
<1> QED BY <1>1, <1>2 DEF Listed

\* What refresh_journal does to the lists, given no file or one that has been
\* made.
LEMMA Refreshed ==
  ASSUME TypeOK, NEW w \in Wads, NEW f, NEW once,
         f # None => content[f] \in Contents, Refresh(w, f, once)
  PROVE  Listed(w) /\ \E r \in Results : Call(w, r)
<1>1. f # None => Journal[content[f]] \in Seq(WadFileInfo)
  BY ContentAssumption
<1> QED BY <1>1 DEF Refresh, Appended, Listed, Results

\* What open() does.
LEMMA Opened ==
  ASSUME TypeOK, DiskInv, NEW w \in made, Opening(w)
  PROVE  /\ \E r \in Results : Call(w, r)
         /\ \/ UNCHANGED <<file, file_list, fresh, opened_at, is_open>>
            \/ /\ at[file_path[w]] # None
               /\ file' = [file EXCEPT ![w] = at[file_path[w]]]
               /\ opened_at' = [opened_at EXCEPT ![w] = file_path[w]]
               /\ is_open' \in [Wads -> BOOLEAN]
               /\ Listed(w)
<1> DEFINE f == at[file_path[w]]
<1>1. w \in Wads /\ file_path[w] \in Paths /\ f \in Files \cup {None}
  BY DEF TypeOK
<1>2. CASE f = None
  BY <1>2 DEF Opening, historyVars, Results
<1>3. CASE f # None
  <2>1. f \in Files /\ content[f] \in Contents
    BY <1>1, <1>3 DEF DiskInv
  <2>2. /\ file' = [file EXCEPT ![w] = f]
        /\ opened_at' = [opened_at EXCEPT ![w] = file_path[w]]
        /\ Refresh(w, f, refreshed_once[w])
        /\ is_open' = [is_open EXCEPT ![w] = last'.result = "ok"]
    BY <1>3 DEF Opening
  <2>3. is_open' \in [Wads -> BOOLEAN]
    BY <2>2 DEF TypeOK
  <2>4. Listed(w) /\ \E r \in Results : Call(w, r)
    <3> HIDE DEF f
    <3> QED BY <1>1, <2>1, <2>2, Refreshed
  <2> QED BY <1>3, <2>2, <2>3, <2>4
<1> QED BY <1>2, <1>3

LEMMA OpenTypes ==
  ASSUME TypeOK, DiskInv, NEW w \in made, Opening(w),
         UNCHANGED <<at, content, dirs, made, file_path, refreshed_once>>
  PROVE  TypeOK' /\ DiskInv'
<1> USE NamesAssumption DEF TypeOK, DiskInv, Results
<1> w \in Wads /\ file_path[w] \in Paths
  OBVIOUS
<1>1. \E r \in Results : Call(w, r)
  BY Opened
<1>2. CASE UNCHANGED <<file, file_list, fresh, opened_at, is_open>>
  BY <1>1, <1>2 DEF Call
<1>3. CASE /\ at[file_path[w]] # None
           /\ file' = [file EXCEPT ![w] = at[file_path[w]]]
           /\ opened_at' = [opened_at EXCEPT ![w] = file_path[w]]
           /\ is_open' \in [Wads -> BOOLEAN]
           /\ Listed(w)
  <2>1. /\ file_list' \in [Wads -> Seq(WadFileInfo)]
        /\ fresh' \in [Wads -> Seq(WadFileInfo)]
    BY <1>3, ListedTypes
  <2>2. at[file_path[w]] \in Files /\ content[at[file_path[w]]] \in Contents
    BY <1>3
  <2>3. /\ file' \in [Wads -> Files \cup {None}]
        /\ opened_at' \in [Wads -> Paths \cup {None}]
    BY <1>3, <2>2
  <2>4. \A v \in Wads : file'[v] \in {file[v], at[file_path[w]]}
    BY <1>3
  <2>5. DiskInv'
    BY <2>2, <2>4
  <2>6. last'.result \in Results
    BY <1>1 DEF Call
  <2> QED BY <1>1, <1>3, <2>1, <2>3, <2>5, <2>6
<1> QED BY <1>2, <1>3, Opened

LEMMA TypeInit == Init => TypeOK /\ DiskInv
  BY NamesAssumption DEF Init, TypeOK, DiskInv, Results

LEMMA TypeNext == TypeOK /\ DiskInv /\ [Next]_vars => TypeOK' /\ DiskInv'
<1> SUFFICES ASSUME TypeOK, DiskInv, [Next]_vars PROVE TypeOK' /\ DiskInv'
  OBVIOUS
<1> USE NamesAssumption
    DEF TypeOK, DiskInv, Results, diskVars, wadVars, historyVars, otherVars
<1>1. ASSUME NEW w \in Wads, New(w) PROVE TypeOK' /\ DiskInv'
  BY <1>1 DEF New, Call
<1>2. ASSUME NEW w \in Wads, Clone(w) PROVE TypeOK' /\ DiskInv'
  BY <1>2 DEF Clone, Call
<1>3. ASSUME NEW w \in Wads, FromGameData(w) PROVE TypeOK' /\ DiskInv'
  <2>1. UNCHANGED <<at, content, dirs, made, opened_at, is_open>>
    BY <1>3 DEF FromGameData
  <2>2. CASE /\ Call(w, "error")
             /\ UNCHANGED <<file, file_list, file_path, refreshed_once, fresh>>
    BY <2>1, <2>2 DEF Call
  <2>3. ASSUME NEW p \in GamePaths, file_path' = [file_path EXCEPT ![w] = p],
               file' = [file EXCEPT ![w] = None],
               refreshed_once' = [refreshed_once EXCEPT ![w] = FALSE],
               Refresh(w, file'[w], refreshed_once'[w])
        PROVE  TypeOK' /\ DiskInv'
    <3>1. Listed(w) /\ \E r \in Results : Call(w, r)
      <4>1. file'[w] = None
        BY <2>3
      <4> QED BY <2>3, <4>1, Refreshed
    <3>2. /\ file_list' \in [Wads -> Seq(WadFileInfo)]
          /\ fresh' \in [Wads -> Seq(WadFileInfo)]
      BY <3>1, ListedTypes
    <3>3. /\ file' \in [Wads -> Files \cup {None}]
          /\ \A v \in Wads : file'[v] \in {file[v], None}
          /\ file_path' \in [Wads -> Paths \cup {None}]
          /\ \A v \in made : file_path'[v] \in Paths
          /\ refreshed_once' \in [Wads -> BOOLEAN]
      <4> p \in Paths
        OBVIOUS
      <4> QED BY <2>3
    <3>4. last'.result \in Results
      BY <3>1 DEF Call
    <3> QED BY <2>1, <3>2, <3>3, <3>4
  <2> QED BY <1>3, <2>2, <2>3 DEF FromGameData
<1>4. ASSUME NEW w \in Wads, Open(w) PROVE TypeOK' /\ DiskInv'
  BY <1>4, OpenTypes DEF Open
<1>5. ASSUME NEW w \in Wads, Close(w) PROVE TypeOK' /\ DiskInv'
  BY <1>5 DEF Close, Call
<1>6. ASSUME NEW w \in Wads, SizeOrNames(w) PROVE TypeOK' /\ DiskInv'
  <2>1. /\ w \in made
        /\ UNCHANGED <<at, content, dirs, made, file_path, refreshed_once>>
    BY <1>6 DEF SizeOrNames
  <2>2. CASE Opening(w)
    BY <2>1, <2>2, OpenTypes
  <2>3. CASE Call(w, "ok") /\ UNCHANGED <<file, file_list, historyVars>>
    BY <2>1, <2>3 DEF Call
  <2> QED BY <1>6, <2>2, <2>3 DEF SizeOrNames
<1>7. ASSUME NEW w \in Wads, RefreshJournal(w) PROVE TypeOK' /\ DiskInv'
  <2>1. UNCHANGED <<at, content, dirs, made, file, file_path, refreshed_once,
                    opened_at, is_open>>
    BY <1>7 DEF RefreshJournal
  <2>2. Listed(w) /\ \E r \in Results : Call(w, r)
    BY <1>7, Refreshed DEF RefreshJournal
  <2>3. /\ file_list' \in [Wads -> Seq(WadFileInfo)]
        /\ fresh' \in [Wads -> Seq(WadFileInfo)]
    BY <2>2, ListedTypes
  <2> QED BY <2>1, <2>2, <2>3 DEF Call
<1>8. ASSUME NEW w \in Wads, GetFile(w) PROVE TypeOK' /\ DiskInv'
  BY <1>8 DEF GetFile, Call
<1>9. ASSUME NEW w \in Wads, GetFileInfo(w) PROVE TypeOK' /\ DiskInv'
  BY <1>9 DEF GetFileInfo, Call
<1>10. ASSUME NEW w \in Wads, Unarchive(w) PROVE TypeOK' /\ DiskInv'
  <2>1. dirs' \subseteq Nested
    BY <1>10 DEF Unarchive
  <2> QED BY <1>10, <2>1 DEF Unarchive, Call
<1>11. ASSUME NEW p \in Paths, Put(p) PROVE TypeOK' /\ DiskInv'
  BY <1>11 DEF Put
<1>12. ASSUME NEW p \in Paths, Overwrite(p) PROVE TypeOK' /\ DiskInv'
  BY <1>12 DEF Overwrite
<1>13. ASSUME NEW p \in Paths, Unlink(p) PROVE TypeOK' /\ DiskInv'
  BY <1>13 DEF Unlink
<1>14. CASE UNCHANGED vars
  BY <1>14 DEF vars
<1> QED
  BY <1>1, <1>2, <1>3, <1>4, <1>5, <1>6, <1>7, <1>8, <1>9, <1>10, <1>11,
     <1>12, <1>13, <1>14
  DEF Next, Patch, WadStep

\* Each call returns one of its results, each handle and path is of its type,
\* and a file that is open or at a path has been made.
THEOREM TypeCorrect == Spec => [](TypeOK /\ DiskInv)
  BY TypeInit, TypeNext, PTL DEF Spec

-----------------------------------------------------------------------------
(***************************************************************************)
(* Lists. A step appends a journal to the list of one object, copies lists *)
(* to a clone, or leaves them alone.                                       *)
(***************************************************************************)
Copied(w, v) ==
  /\ file_list' = [file_list EXCEPT ![w] = file_list[v]]
  /\ fresh' = [fresh EXCEPT ![w] = fresh[v]]

LEMMA ListStep ==
  ASSUME TypeOK, DiskInv, [Next]_vars
  PROVE  \/ UNCHANGED <<file_list, fresh>>
         \/ \E w \in made : Listed(w)
         \/ \E w \in Wads \ made, v \in made : Copied(w, v)
<1> USE DEF wadVars, historyVars, otherVars
<1> made \subseteq Wads
  BY DEF TypeOK
<1>1. ASSUME NEW w \in Wads, Clone(w) PROVE \E v \in made : Copied(w, v)
  BY <1>1 DEF Clone, Copied
<1>2. ASSUME NEW w \in Wads, Open(w) PROVE w \in made /\ Listed(w)
  <2>1. w \in made /\ Opening(w)
    BY <1>2 DEF Open
  <2> QED BY <2>1, Opened DEF Listed
<1>3. ASSUME NEW w \in Wads, SizeOrNames(w) PROVE w \in made /\ Listed(w)
  BY <1>3, Opened DEF SizeOrNames, Listed
<1>4. ASSUME NEW w \in Wads, RefreshJournal(w) \/ FromGameData(w)
      PROVE  w \in made /\ Listed(w)
  <2>1. w \in made
    BY <1>4 DEF RefreshJournal, FromGameData
  <2>2. ASSUME NEW f \in {None, file[w]}, NEW once, Refresh(w, f, once)
        PROVE  Listed(w)
    BY <2>2, Refreshed DEF TypeOK, DiskInv
  <2>3. CASE RefreshJournal(w)
    BY <2>1, <2>2, <2>3 DEF RefreshJournal
  <2>4. CASE FromGameData(w)
    <3>1. CASE UNCHANGED <<file_list, fresh>>
      BY <2>1, <3>1 DEF Listed
    <3>2. CASE /\ file' = [file EXCEPT ![w] = None]
               /\ Refresh(w, file'[w], refreshed_once'[w])
      <4>1. file'[w] = None
        BY <3>2 DEF TypeOK
      <4> QED BY <2>1, <2>2, <3>2, <4>1
    <3> QED BY <2>4, <3>1, <3>2 DEF FromGameData
  <2> QED BY <1>4, <2>3, <2>4
<1>5. ASSUME NEW w \in Wads,
             \/ New(w) \/ Close(w)
             \/ GetFile(w) \/ GetFileInfo(w) \/ Unarchive(w)
      PROVE  UNCHANGED <<file_list, fresh>>
  BY <1>5 DEF New, Close, GetFile, GetFileInfo, Unarchive
<1>6. ASSUME NEW p \in Paths, Put(p) \/ Overwrite(p) \/ Unlink(p)
      PROVE  UNCHANGED <<file_list, fresh>>
  BY <1>6 DEF Put, Overwrite, Unlink
<1>7. CASE UNCHANGED vars
  BY <1>7 DEF vars
<1>8. ASSUME NEW w \in Wads, Clone(w) PROVE w \notin made
  BY <1>8 DEF Clone
<1> QED
  BY <1>1, <1>2, <1>3, <1>4, <1>5, <1>6, <1>7, <1>8 DEF Next, Patch, WadStep

\* What was read last is at the end of the list.
TailInv == \A w \in Wads : IsTail(fresh[w], file_list[w])

LEMMA TailOfConcat ==
  ASSUME NEW s \in Seq(WadFileInfo), NEW j \in Seq(WadFileInfo)
  PROVE  IsTail(j, s \o j) /\ IsPrefix(s, s \o j)
<1>1. /\ Len(s \o j) = Len(s) + Len(j)
      /\ \A i \in 1 .. Len(s) : (s \o j)[i] = s[i]
      /\ \A i \in 1 .. Len(j) : (s \o j)[Len(s) + i] = j[i]
      /\ s \o j \in Seq(WadFileInfo)
  BY ConcatProperties
<1>2. Len(s) \in Nat /\ Len(j) \in Nat
  OBVIOUS
<1>3. IsTail(j, s \o j)
  BY <1>1, <1>2 DEF IsTail
<1>4. SubSeq(s, 1, Len(s)) = SubSeq(s \o j, 1, Len(s))
  BY <1>1, <1>2
<1> QED BY <1>1, <1>2, <1>3, <1>4 DEF IsPrefix

LEMMA TailNext ==
  ASSUME TypeOK, DiskInv, TailInv, [Next]_vars
  PROVE  TailInv'
<1> USE DEF TypeOK, TailInv
<1>1. CASE UNCHANGED <<file_list, fresh>>
  BY <1>1
<1>2. ASSUME NEW w \in Wads, NEW j \in Seq(WadFileInfo),
             file_list' = [file_list EXCEPT ![w] = @ \o j],
             fresh' = [fresh EXCEPT ![w] = j]
      PROVE  TailInv'
  <2>1. IsTail(j, file_list[w] \o j)
    BY TailOfConcat
  <2>2. /\ file_list'[w] = file_list[w] \o j /\ fresh'[w] = j
        /\ \A v \in Wads \ {w} :
             file_list'[v] = file_list[v] /\ fresh'[v] = fresh[v]
    BY <1>2
  <2> QED BY <2>1, <2>2
<1>3. ASSUME NEW w \in Wads, NEW v \in Wads, Copied(w, v) PROVE TailInv'
  BY <1>3 DEF Copied
<1> QED BY <1>1, <1>2, <1>3, ListStep, ContentAssumption DEF Listed

\* The entries of the journal read last are the ones get_file finds.
THEOREM LastReadWins == Spec => []FreshEntriesWin
<1>1. Init => TailInv
  BY DEF Init, TailInv, IsTail
<1>2. TypeOK /\ DiskInv /\ TailInv /\ [Next]_vars => TailInv'
  BY TailNext
<1>3. TypeOK /\ TailInv => FreshEntriesWin
  <2> SUFFICES ASSUME TypeOK, TailInv, NEW w \in Wads,
                      NEW e \in Range(fresh[w])
               PROVE  Lookup(file_list[w], e.name) = Lookup(fresh[w], e.name)
    BY DEF FreshEntriesWin
  <2>1. /\ file_list[w] \in Seq(WadFileInfo) /\ fresh[w] \in Seq(WadFileInfo)
        /\ IsTail(fresh[w], file_list[w])
    BY DEF TypeOK, TailInv
  <2>2. Positions(fresh[w], e.name) # {}
    BY DEF Range, Positions
  <2> QED BY <2>1, <2>2, LookupInTail
<1> QED BY <1>1, <1>2, <1>3, TypeCorrect, PTL DEF Spec

\* A list of names only ever grows.
THEOREM ListsOnlyGrow == Spec => NamesAreKept
<1>1. ASSUME TypeOK, DiskInv, [Next]_vars, NEW w \in made
      PROVE  IsPrefix(file_list[w], file_list'[w])
  <2>1. /\ w \in Wads /\ file_list \in [Wads -> Seq(WadFileInfo)]
        /\ made \subseteq Wads
    BY <1>1 DEF TypeOK
  <2>2. CASE file_list'[w] = file_list[w]
    BY <2>1, <2>2 DEF IsPrefix
  <2>3. ASSUME NEW j \in Seq(WadFileInfo), NEW v \in Wads,
               file_list' = [file_list EXCEPT ![v] = @ \o j]
        PROVE  IsPrefix(file_list[w], file_list'[w])
    <3>1. CASE v = w
      <4>1. file_list'[w] = file_list[w] \o j
        BY <2>1, <2>3, <3>1
      <4> QED BY <2>1, <4>1, TailOfConcat
    <3>2. CASE v # w
      BY <2>1, <2>2, <2>3, <3>2
    <3> QED BY <3>1, <3>2
  <2>4. ASSUME NEW v \in Wads \ made, NEW u \in made, Copied(v, u)
        PROVE  IsPrefix(file_list[w], file_list'[w])
    BY <2>1, <2>2, <2>4 DEF Copied
  <2> QED
    BY <1>1, <2>1, <2>2, <2>3, <2>4, ListStep, ContentAssumption DEF Listed
<1>2. TypeOK /\ DiskInv /\ [Next]_vars
        => [\A w \in made : IsPrefix(file_list[w], file_list'[w])]_vars
  BY <1>1
<1> QED BY <1>2, TypeCorrect, PTL DEF Spec, NamesAreKept

-----------------------------------------------------------------------------
(***************************************************************************)
(* Handles.                                                                *)
(***************************************************************************)
HandleInv == FileIsOfPath /\ \A w \in Wads \ made : file[w] = None

LEMMA HandleNext ==
  ASSUME TypeOK, DiskInv, HandleInv, [Next]_vars
  PROVE  HandleInv'
<1> USE DEF TypeOK, HandleInv, FileIsOfPath, wadVars, historyVars, otherVars
<1>1. ASSUME NEW w \in Wads, New(w) PROVE HandleInv'
  BY <1>1 DEF New
<1>2. ASSUME NEW w \in Wads, Clone(w) PROVE HandleInv'
  BY <1>2 DEF Clone
<1>3. ASSUME NEW w \in Wads, FromGameData(w) PROVE HandleInv'
  <2>1. CASE UNCHANGED <<file, file_path>>
    BY <1>3, <2>1 DEF FromGameData
  <2>2. ASSUME NEW p \in GamePaths, file' = [file EXCEPT ![w] = None],
               file_path' = [file_path EXCEPT ![w] = p]
        PROVE  HandleInv'
    BY <1>3, <2>2 DEF FromGameData
  <2> QED BY <1>3, <2>1, <2>2 DEF FromGameData
<1>4. ASSUME NEW w \in made, Opening(w),
             UNCHANGED <<made, file_path>>
      PROVE  HandleInv'
  <2>1. CASE UNCHANGED <<file, opened_at>>
    BY <1>4, <2>1
  <2>2. CASE /\ file' = [file EXCEPT ![w] = at[file_path[w]]]
             /\ opened_at' = [opened_at EXCEPT ![w] = file_path[w]]
    BY <1>4, <2>2
  <2> QED BY <1>4, <2>1, <2>2, Opened
<1>5. ASSUME NEW w \in Wads, Open(w) PROVE HandleInv'
  BY <1>4, <1>5 DEF Open
<1>6. ASSUME NEW w \in Wads, SizeOrNames(w) PROVE HandleInv'
  BY <1>4, <1>6 DEF SizeOrNames
<1>7. ASSUME NEW w \in Wads, Close(w) PROVE HandleInv'
  BY <1>7 DEF Close
<1>8. ASSUME NEW w \in Wads,
             \/ RefreshJournal(w) \/ GetFile(w) \/ GetFileInfo(w)
             \/ Unarchive(w)
      PROVE  HandleInv'
  BY <1>8 DEF RefreshJournal, GetFile, GetFileInfo, Unarchive
<1>9. ASSUME NEW p \in Paths, Put(p) \/ Overwrite(p) \/ Unlink(p)
      PROVE  HandleInv'
  BY <1>9 DEF Put, Overwrite, Unlink
<1>10. CASE UNCHANGED vars
  BY <1>10 DEF vars
<1> QED
  BY <1>1, <1>2, <1>3, <1>5, <1>6, <1>7, <1>8, <1>9, <1>10
  DEF Next, Patch, WadStep

\* A handle is never one of another archive than the path of its object.
THEOREM HandleMatchesPath == Spec => []FileIsOfPath
<1>1. Init => HandleInv
  BY DEF Init, HandleInv, FileIsOfPath
<1>2. TypeOK /\ DiskInv /\ HandleInv /\ [Next]_vars => HandleInv'
  BY HandleNext
<1> QED BY <1>1, <1>2, TypeCorrect, PTL DEF Spec, HandleInv
=============================================================================
