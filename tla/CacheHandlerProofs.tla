------------------------- MODULE CacheHandlerProofs -------------------------
(***************************************************************************)
(* Proofs about CacheHandler, for any archives, cache files and template   *)
(* files.                                                                  *)
(***************************************************************************)
EXTENDS CacheHandler, NaturalRanges, TLAPS

\* What the last call may have returned.
LastInv ==
  /\ SteamIsNeverFound /\ NothingIsCached /\ LangNeedsTemplate
  /\ NothingOverRootWad /\ NoTemplateFile

(***************************************************************************)
(* The invariant: root_wad is never open and never Steam's, the cache is   *)
(* there only after a call of cache_template, and every template name was  *)
(* looked up in what template_ids holds.                                   *)
(***************************************************************************)
FieldInv ==
  /\ root_wad.file = None /\ root_wad.path # Steam
  /\ wad_cache # None => templated
  /\ template_ids \in {None} \cup Versions
  /\ answered \subseteq {template_ids} \ {None}

LEMMA WizInstall == GetWizInstall(None) \in {Default, None}
  BY CacheAssumption DEF GetWizInstall, HasExecutable

LEMMA GameData ==
  ASSUME NEW w \in Wads, w.file = None, w.path # Steam
  PROVE  /\ FromGameData(w) \in Wads
         /\ FromGameData(w).file = None /\ FromGameData(w).path # Steam
  BY WizInstall, CacheAssumption DEF FromGameData, Wads

\* Neither the template file nor a language file is in a journal.
LEMMA NotInJournal ==
  ASSUME NEW w \in Wads, NEW n \in LangFiles \cup {Template}
  PROVE  ~InJournal(w, {n})
<1> SUFFICES ASSUME w.file # None PROVE n \notin Journal(w.file)
  BY DEF InJournal
<1>1. Journal(w.file) = Read[w.file]
  BY DEF Journal
<1>2. w.file \in Files
  BY DEF Wads
<1> QED BY <1>1, <1>2, CacheAssumption

\* A zlib stream does not begin with the letter B.
LEMMA IdIsNoStream ==
  ASSUME NEW data \in TemplateFiles
  PROVE  ParseTemplateIdFile(data) = "error"
<1> SUFFICES ASSUME SubSeq(data.bytes, 1, 4) = Id PROVE ~Inflates(data.bytes, 1)
  BY DEF ParseTemplateIdFile
<1>1. data.bytes \in Seq(Nat)
  BY CacheAssumption
<1>2. Id[1] = 66
  BY DEF Id
<1>3. Len(Id) = 4
  BY DEF Id
<1>4. data.bytes[1] = 66
  BY <1>1, <1>2, <1>3
<1> QED BY <1>4 DEF Inflates

LEMMA ReadsAreVersions ==
  ASSUME folder \in [CacheFiles -> Unusual \cup Versions]
  PROVE  /\ ReadWadCache \in {None, "empty"} \cup Versions
         /\ \A f \in CacheFiles : ReadJson(f) \in {None} \cup Versions
  BY CacheAssumption DEF ReadWadCache, ReadJson, CacheFiles, Unusual

-----------------------------------------------------------------------------
IInv == TypeOK /\ FieldInv /\ LastInv

LEMMA CacheInit == Init => IInv
<1> SUFFICES ASSUME Init PROVE IInv
  OBVIOUS
<1> USE CacheAssumption DEF Init
<1>1. root_wad \in Wads
  BY DEF Wads
<1>2. TypeOK
  BY <1>1 DEF TypeOK, Games, Unusual
<1>3. FieldInv
  BY DEF FieldInv
<1>4. LastInv
  BY DEF LastInv, SteamIsNeverFound, NothingIsCached, LangNeedsTemplate,
         NothingOverRootWad, NoTemplateFile, LangCalls
<1> QED BY <1>2, <1>3, <1>4 DEF IInv

LEMMA CacheNext == IInv /\ [Next]_vars => IInv'
<1> SUFFICES ASSUME IInv, [Next]_vars PROVE IInv'
  OBVIOUS
<1> USE DEF IInv, TypeOK, FieldInv, LastInv, SteamIsNeverFound, NothingIsCached,
      LangNeedsTemplate, NothingOverRootWad, NoTemplateFile,
      LangCalls, CacheFiles, Call, diskVars, fieldVars, historyVars
<1>1. CASE New
  <2>1. [path |-> Relative, file |-> None] \in Wads
    BY DEF Wads
  <2>2. root_wad' \in Wads /\ root_wad'.file = None /\ root_wad'.path # Steam
    BY <1>1, <2>1, GameData, CacheAssumption DEF New
  <2> QED BY <1>1, <2>2 DEF New
<1>2. CASE InstallLocation
  BY <1>2 DEF InstallLocation
<1>3. CASE Cache
  BY <1>3 DEF Cache
<1>4. CASE GetTemplateName
  <2>1. /\ template_ids' \in {None} \cup Versions
        /\ template_ids # None => template_ids' = template_ids
        /\ answered' = answered \cup ({template_ids'} \ {None})
    BY <1>4, ReadsAreVersions DEF GetTemplateName
  <2> QED BY <1>4, <2>1 DEF GetTemplateName
<1>5. CASE GetLangcodeName
  BY <1>5 DEF GetLangcodeName
<1>6. ASSUME NEW op \in LangCalls, NEW w \in Wads, CacheLangFiles(op, w)
      PROVE  IInv'
  BY <1>6 DEF CacheLangFiles
<1>7. CASE CacheAllLangcodeMaps
  BY <1>6, <1>7 DEF CacheAllLangcodeMaps
<1>8. CASE WriteWadCache
  BY <1>8 DEF WriteWadCache
<1>9. ASSUME NEW w \in Wads, CacheTemplate(w) PROVE IInv'
  <2>1. ~InJournal(w, {Template})
    BY NotInJournal
  <2>2. wad_cache' \in {None, "empty"} \cup Versions
    BY <1>9, ReadsAreVersions DEF CacheTemplate
  <2> QED BY <1>9, <2>1, <2>2 DEF CacheTemplate, CheckUpdated
<1>10. ASSUME NEW w \in Wads, NEW n, ReadLangFile(w, n) PROVE IInv'
  BY <1>10 DEF ReadLangFile
<1>11. ASSUME NEW w \in Wads, NEW n, CacheLangFile(w, n) PROVE IInv'
  BY <1>11 DEF CacheLangFile
<1>12. ASSUME NEW data \in TemplateFiles, ParseTemplate(data) PROVE IInv'
  BY <1>12, IdIsNoStream DEF ParseTemplate
<1>13. ASSUME NEW p \in {Default, Steam}, NEW g \in Games, GameChanges(p, g)
       PROVE  IInv'
  BY <1>13 DEF GameChanges, Installs
<1>14. ASSUME NEW p \in Installs, RootChanges(Drive[p]) PROVE IInv'
  BY <1>14 DEF RootChanges
<1>15. ASSUME NEW f \in CacheFiles, NEW text \in Texts[f], FileChanges(f, text)
       PROVE  IInv'
  <2>1. text \in Unusual \cup Versions
    BY CacheAssumption
  <2> QED BY <1>15, <2>1 DEF FileChanges
<1>16. CASE UNCHANGED vars
  BY <1>16 DEF vars
<1> QED
  BY <1>1, <1>2, <1>3, <1>4, <1>5, <1>6, <1>7, <1>8, <1>9, <1>10, <1>11,
     <1>12, <1>13, <1>14, <1>15, <1>16 DEF Next, ToolStep, OtherStep

LEMMA CacheCorrect == Spec => []IInv
  BY CacheInit, CacheNext, PTL DEF Spec

\* Every variable keeps its type, for any archives and cache files.
THEOREM CacheTypeCorrect == Spec => []TypeOK
<1>1. IInv => TypeOK
  BY DEF IInv
<1> QED BY <1>1, CacheCorrect, PTL

\* A game that only Steam has installed is never read, wherever \Wizard101.exe
\* may be.
THEOREM SteamIsNeverUsed == Spec => []SteamIsNeverFound
<1>1. IInv => SteamIsNeverFound
  BY DEF IInv, FieldInv, SteamIsNeverFound
<1> QED BY <1>1, CacheCorrect, PTL

\* All the template names a handler gives are of one version of the file.
THEOREM OneVersionOfTemplates == Spec => []TemplatesOfOneVersion
<1>1. IInv => TemplatesOfOneVersion
  BY DEF IInv, FieldInv, TemplatesOfOneVersion
<1> QED BY <1>1, CacheCorrect, PTL

\* cache() and cache_template() never return Ok, for any archive and any names
\* in it.
THEOREM NothingIsEverCached == Spec => []NothingIsCached
<1>1. IInv => NothingIsCached
  BY DEF IInv, LastInv
<1> QED BY <1>1, CacheCorrect, PTL

\* A language call that returns Ok comes after a cache_template.
THEOREM LanguageNeedsTemplate == Spec => []LangNeedsTemplate
<1>1. IInv => LangNeedsTemplate
  BY DEF IInv, LastInv
<1> QED BY <1>1, CacheCorrect, PTL

\* write_wad_cache never finds root_wad open.
THEOREM RootWadIsNotWritten == Spec => []NothingOverRootWad
<1>1. IInv => NothingOverRootWad
  BY DEF IInv, LastInv
<1> QED BY <1>1, CacheCorrect, PTL

\* parse_template_id_file returns an error for any data.
THEOREM NoTemplateFileIsParsed == Spec => []NoTemplateFile
<1>1. IInv => NoTemplateFile
  BY DEF IInv, LastInv
<1> QED BY <1>1, CacheCorrect, PTL

-----------------------------------------------------------------------------
(***************************************************************************)
(* The loop over the template ids, for inflated data of any size.          *)
(***************************************************************************)
\* What turn of Ids has to be, and what it is.
IsTurn(f, size) ==
  f = [pos \in 36 .. size + 36 |->
         IF pos >= size THEN "ok"
         ELSE IF pos + 5 > size - 13 THEN "error" ELSE f[pos + 5]]

Turn(size) ==
  [pos \in 36 .. size + 36 |-> IF pos >= size THEN "ok" ELSE "error"]

LEMMA TurnExists ==
  ASSUME NEW size \in Nat
  PROVE  IsTurn(Turn(size), size)
<1> DEFINE D == 36 .. size + 36
           T == Turn(size)
<1>1. ASSUME NEW pos \in D, pos < size, ~(pos + 5 > size - 13)
      PROVE  T[pos + 5] = "error"
  <2>1. pos + 5 \in D /\ pos + 5 < size
    BY <1>1
  <2> QED BY <2>1 DEF Turn
<1>2. T = [pos \in D |-> T[pos]]
  BY DEF Turn
<1>3. ASSUME NEW pos \in D
      PROVE  T[pos] = IF pos >= size THEN "ok"
                      ELSE IF pos + 5 > size - 13 THEN "error" ELSE T[pos + 5]
  <2>1. T[pos] = IF pos >= size THEN "ok" ELSE "error"
    BY DEF Turn
  <2> HIDE DEF T
  <2> QED BY <1>1, <2>1
<1> HIDE DEF T
<1>4. T = [pos \in D |->
             IF pos >= size THEN "ok"
             ELSE IF pos + 5 > size - 13 THEN "error" ELSE T[pos + 5]]
  BY <1>2, <1>3
<1> QED BY <1>4 DEF IsTurn, T

\* Two of them could differ nowhere: not at the greatest position they did.
LEMMA TurnIsUnique ==
  ASSUME NEW size \in Nat, NEW f, IsTurn(f, size), NEW pos \in 36 .. size + 36
  PROVE  f[pos] = IF pos >= size THEN "ok" ELSE "error"
<1> DEFINE D == 36 .. size + 36
           S == {p \in D : f[p] # IF p >= size THEN "ok" ELSE "error"}
<1>1. \A p \in D : f[p] = IF p >= size THEN "ok"
                         ELSE IF p + 5 > size - 13 THEN "error" ELSE f[p + 5]
  BY Zenon DEF IsTurn
<1>2. SUFFICES ASSUME S # {} PROVE FALSE
  OBVIOUS
<1>3. PICK m \in S : \A x \in S : x <= m
  <2>1. S \in SUBSET Nat /\ size + 36 \in Nat /\ \A x \in S : x <= size + 36
    OBVIOUS
  <2> HIDE DEF S
  <2> QED BY <1>2, <2>1, GreatestElement
<1>4. m \in D /\ f[m] # (IF m >= size THEN "ok" ELSE "error")
  BY <1>3
<1>5. m < size /\ m + 5 <= size - 13 /\ f[m] = f[m + 5]
  BY <1>1, <1>4
<1>6. m + 5 \in D /\ f[m + 5] # "error" /\ ~(m + 5 >= size)
  BY <1>4, <1>5
<1>7. m + 5 \in S
  BY <1>6
<1> QED BY <1>3, <1>4, <1>7

\* Even if the data were inflated from where it is compressed, no file that has
\* an id in it would be parsed: the loop reads past the thirteen bytes it has cut
\* off before it comes to the size it compares its position with. Fewer than
\* thirteen bytes cannot be cut at all.
THEOREM NoIdIsParsed ==
  ASSUME NEW size \in Nat
  PROVE  Ids(size) = IF size < 13 THEN "panic"
                     ELSE IF size <= 36 THEN "ok" ELSE "error"
<1> DEFINE turn == CHOOSE f : IsTurn(f, size)
<1>1. Ids(size) = IF size < 13 THEN "panic" ELSE turn[36]
  BY DEF Ids, IsTurn
<1>2. IsTurn(turn, size)
  BY TurnExists, Zenon
<1> HIDE DEF turn
<1>3. turn[36] = IF 36 >= size THEN "ok" ELSE "error"
  <2>1. 36 \in 36 .. size + 36
    OBVIOUS
  <2> QED BY <1>2, <2>1, TurnIsUnique
<1> QED BY <1>1, <1>3
=============================================================================
