-------------------------- MODULE PatternScanProofs --------------------------
(***************************************************************************)
(* Proofs about PatternScan, for an address space of any size, any of the  *)
(* protections of winnt.h and occurrences of any length.                   *)
(***************************************************************************)
EXTENDS PatternScan, NaturalRanges, FiniteSetTheorems, TLAPS

\* Of the protections a committed region can have, the three low bits make an
\* allowed one of PAGE_NOACCESS only.
LEMMA ScannedIsNoAccess ==
  ASSUME NEW prot \in States, IsScanned(prot)
  PROVE  prot = PAGE_NOACCESS
<1>1. prot \in {1, 2, 4, 8, 32, 64}
  BY ScanAssumption
  DEF IsScanned, States, WinProtections, NOT_COMMITTED, PAGE_NOACCESS,
      PAGE_READONLY, PAGE_READWRITE, PAGE_WRITECOPY, PAGE_EXECUTE_READ,
      PAGE_EXECUTE_READWRITE
<1>2. prot % 8 \in {1, 3, 5, 7}
  BY DEF IsScanned, FromBitsTruncate, AllowedProtections, READ, READ_WRITE,
         READ_EXECUTE, READ_WRITE_EXECUTE
<1>3. 2 % 8 = 2 /\ 4 % 8 = 4 /\ 8 % 8 = 0 /\ 32 % 8 = 0 /\ 64 % 8 = 0
  OBVIOUS
<1> QED
  BY <1>1, <1>2, <1>3 DEF PAGE_NOACCESS

LEMMA NoAccessIsScanned == IsScanned(PAGE_NOACCESS)
  BY DEF IsScanned, FromBitsTruncate, AllowedProtections, NOT_COMMITTED,
         PAGE_NOACCESS, READ

(***************************************************************************)
(* The inductive invariant: a region that is about to be read was all      *)
(* PAGE_NOACCESS when it was queried, so whatever is read from it now lies *)
(* on pages that have changed since.                                       *)
(***************************************************************************)
QueriedInv ==
  pc = "read" =>
    \A p \in page .. next - 1 : p \in changed \/ protect[p] = PAGE_NOACCESS

ScanInv ==
  TypeOK /\ QueriedInv /\ FindsOnlyInChangedPages /\ StopsAtNoAccess

LEMMA ScanInit == Init => ScanInv
<1> SUFFICES ASSUME Init PROVE ScanInv
  OBVIOUS
<1>1. 0 \in Pages /\ 0 \in 0 .. Limit
  BY ScanAssumption DEF Pages
<1>2. first <= page /\ (pc = "read" => page < next)
  BY DEF Init
<1>3. TypeOK
  BY <1>1, <1>2, Zenon DEF Init, TypeOK
<1>4. QueriedInv /\ FindsOnlyInChangedPages /\ StopsAtNoAccess
  BY DEF Init, QueriedInv, FindsOnlyInChangedPages, StopsAtNoAccess
<1> QED
  BY <1>3, <1>4 DEF ScanInv

LEMMA ScanNext == ScanInv /\ [Next]_vars => ScanInv'
<1> SUFFICES ASSUME ScanInv, [Next]_vars PROVE ScanInv'
  OBVIOUS
<1> USE ScanAssumption
    DEF ScanInv, TypeOK, QueriedInv, FindsOnlyInChangedPages, StopsAtNoAccess,
        Pages, clientVars, callVars, scanVars, Return, CloseAndFail
<1>1. ASSUME NEW from \in Pages, NEW to \in from + 1 .. Limit,
             NEW all \in BOOLEAN, NEW many \in BOOLEAN,
             Enter(from, to, all, many)
      PROVE  ScanInv'
  BY <1>1 DEF Enter
<1>2. CASE ModuleNotFound
  BY <1>2 DEF ModuleNotFound
<1>3. CASE QueryFails
  BY <1>3 DEF QueryFails
<1>4. CASE QueryRegion
  <2>1. PICK e \in page .. Limit :
          /\ IsRegion(page, e)
          /\ \/ /\ IsScanned(protect[page])
                /\ pc' = "read" /\ next' = e /\ page' = page
             \/ /\ ~IsScanned(protect[page])
                /\ page' = e /\ pc' = pc /\ next' = next
    BY <1>4 DEF QueryRegion
  <2>2. /\ pc = "query" /\ page < e /\ page \in Pages
        /\ \A q \in page .. e - 1 : protect[q] = protect[page]
        /\ UNCHANGED <<clientVars, handle, callVars, found, result, changed>>
    BY <1>4, <2>1 DEF QueryRegion, IsRegion
  <2>3. protect[page] \in States
    BY <2>2
  <2>4. CASE IsScanned(protect[page])
    BY <2>1, <2>2, <2>3, <2>4, ScannedIsNoAccess
  <2>5. CASE ~IsScanned(protect[page])
    <3>1. protect[page] # PAGE_NOACCESS
      BY <2>5, NoAccessIsScanned
    <3> QED
      BY <2>1, <2>2, <2>5, <3>1
  <2> QED
    BY <2>4, <2>5
<1>5. CASE ReadFails
  BY <1>5 DEF ReadFails
<1>6. CASE ReadRegion
  <2>1. \A p \in page .. next - 1 : p \in changed /\ protect[p] # PAGE_NOACCESS
    BY <1>6 DEF ReadRegion, IsReadable
  <2>2. FoundIn(page, next) \subseteq changed
    <3>1. ASSUME NEW p \in FoundIn(page, next) PROVE p \in page .. next - 1
      BY <3>1 DEF FoundIn
    <3> QED BY <2>1, <3>1
  <2>3. UNCHANGED <<clientVars, handle, callVars, next, changed>>
    BY <1>6 DEF ReadRegion
  <2>4. \/ /\ found' = found \cup FoundIn(page, next)
           /\ page' = next /\ pc' = "query" /\ result' = result
        \/ pc' = "idle" /\ result' = "error" /\ found' = found /\ page' = page
    BY <1>6 DEF ReadRegion
  <2>5. pc = "read"
    BY <1>6 DEF ReadRegion
  <2>6. FoundIn(page, next) \subseteq Pages
    BY DEF FoundIn
  <2>7. FindsOnlyInChangedPages'
    BY <2>2, <2>3, <2>4
  <2>8. found' \subseteq Pages /\ page' \in 0 .. Limit /\ first <= page'
    <3>1. /\ page \in 0 .. Limit /\ next \in 0 .. Limit
          /\ first \in Int /\ first <= page /\ page < next
      BY <2>5
    <3>2. found' \subseteq Pages
      BY <2>4, <2>6
    <3>3. page' \in {page, next}
      BY <2>4
    <3> HIDE DEF Pages
    <3> QED
      BY <3>1, <3>2, <3>3
  <2>9. TypeOK'
    BY <2>3, <2>4, <2>8
  <2>10. QueriedInv'
    BY <2>4
  <2>11. StopsAtNoAccess'
    BY <2>1, <2>3, <2>4, <2>5
  <2> QED
    BY <2>7, <2>9, <2>10, <2>11
<1>7. CASE ScanEnds
  BY <1>7 DEF ScanEnds
<1>8. ASSUME NEW p \in Pages, ClientProtects(p) PROVE ScanInv'
  BY <1>8 DEF ClientProtects
<1>9. ASSUME NEW p \in Pages, ClientWrites(p) PROVE ScanInv'
  BY <1>9 DEF ClientWrites
<1>10. CASE ClientEnds
  BY <1>10 DEF ClientEnds
<1>11. CASE UNCHANGED vars
  BY <1>11 DEF vars
<1>12. CASE ScanAll
  <2>1. PICK many \in BOOLEAN : Enter(0, Limit, TRUE, many)
    BY <1>12 DEF ScanAll
  <2>2. 0 \in Pages /\ Limit \in 0 + 1 .. Limit
    OBVIOUS
  <2> QED
    BY <1>1, <2>1, <2>2
<1>13. CASE ScanModule
  BY <1>13, <1>1 DEF ScanModule
<1> QED
  BY <1>2, <1>3, <1>4, <1>5, <1>6, <1>7, <1>8, <1>9, <1>10, <1>11, <1>12,
     <1>13
  DEF Next, Begin, Step, ClientStep

\* Each variable keeps its type; next_region is never before the first page,
\* and a region that is read is never empty.
THEOREM TypeCorrect == Spec => []TypeOK
<1>1. ScanInv => TypeOK
  BY DEF ScanInv
<1> QED
  BY <1>1, ScanInit, ScanNext, PTL DEF Spec

\* Whatever the size of the address space, its protections and what the client
\* does to them: every address a scan finds is on a page whose protection
\* changed while the scan ran.
THEOREM ScanCorrect == Spec => []FindsOnlyInChangedPages
<1>1. ScanInv => FindsOnlyInChangedPages
  BY DEF ScanInv
<1> QED
  BY <1>1, ScanInit, ScanNext, PTL DEF Spec

\* No scan passes a page that stays PAGE_NOACCESS, nor answers from beyond it.
THEOREM NoAccessStops == Spec => []StopsAtNoAccess
<1>1. ScanInv => StopsAtNoAccess
  BY DEF ScanInv
<1> QED
  BY <1>1, ScanInit, ScanNext, PTL DEF Spec

-----------------------------------------------------------------------------
(***************************************************************************)
(* The two halves of ScanReturns that need no fairness: a step always      *)
(* brings the scan nearer to its end, and VirtualQueryEx always has a      *)
(* region to answer with.                                                  *)
(***************************************************************************)
LEMMA RegionsDoNotOverlap ==
  ASSUME NEW p \in Pages, NEW e \in 0 .. Limit, NEW f \in 0 .. Limit,
         IsRegion(p, e), IsRegion(p, f)
  PROVE  ~(e < f)
<1> SUFFICES ASSUME e < f PROVE FALSE
  OBVIOUS
<1> USE ScanAssumption DEF Pages
<1>1. e \in Pages /\ e \in p .. f - 1
  BY DEF IsRegion
<1>2. protect[e] # protect[p] /\ protect[e] = protect[p]
  BY <1>1 DEF IsRegion
<1> QED BY <1>2

\* Whatever the protections are, VirtualQueryEx reports one region at a page,
\* and only one.
THEOREM OneRegion ==
  ASSUME NEW p \in Pages
  PROVE  /\ \E e \in 0 .. Limit : IsRegion(p, e)
         /\ \A e, f \in 0 .. Limit : IsRegion(p, e) /\ IsRegion(p, f) => e = f
<1> USE ScanAssumption DEF Pages
<1> DEFINE Ends == {e \in p + 1 .. Limit : e \in Pages => protect[e] # protect[p]}
<1>1. Limit \in Ends /\ Ends \in SUBSET Nat
  OBVIOUS
<1>2. PICK e \in Ends : \A x \in Ends : e <= x
  <2> HIDE DEF Ends
  <2> QED BY <1>1, LeastElement
<1>3. ASSUME NEW q \in p .. e - 1 PROVE protect[q] = protect[p]
  <2>1. CASE q = p
    BY <2>1
  <2>2. CASE q # p
    <3>1. q \in p + 1 .. Limit /\ q \in Pages /\ q \notin Ends
      BY <1>2, <2>2
    <3> QED BY <3>1
  <2> QED BY <2>1, <2>2
<1>4. IsRegion(p, e)
  BY <1>2, <1>3 DEF IsRegion
<1>5. ASSUME NEW x \in 0 .. Limit, NEW y \in 0 .. Limit,
             IsRegion(p, x), IsRegion(p, y)
      PROVE  x = y
  <2>1. ~(x < y) /\ ~(y < x)
    BY <1>5, RegionsDoNotOverlap
  <2> QED BY <2>1
<1> QED BY <1>2, <1>4, <1>5

\* A scan that has not come to its end is never without a region to go on with.
THEOREM QueryIsAnswered ==
  Spec => [](pc = "query" /\ ~LoopEnds => \E e \in page .. Limit : IsRegion(page, e))
<1>1. ScanInv =>
        (pc = "query" /\ ~LoopEnds => \E e \in page .. Limit : IsRegion(page, e))
  <2> SUFFICES ASSUME ScanInv, ~LoopEnds
               PROVE  \E e \in page .. Limit : IsRegion(page, e)
    OBVIOUS
  <2>1. page \in Pages
    BY ScanAssumption DEF ScanInv, TypeOK, LoopEnds, Pages
  <2>2. PICK e \in 0 .. Limit : IsRegion(page, e)
    BY <2>1, OneRegion
  <2>3. e \in page .. Limit
    BY <2>1, <2>2, ScanAssumption DEF IsRegion, Pages
  <2> QED BY <2>2, <2>3
<1> QED BY <1>1, ScanInit, ScanNext, PTL DEF Spec

\* Each step of a scan brings it nearer to its end, for an address space of any
\* size and a client that changes its regions in any way.
THEOREM ScanAlwaysAdvances == Spec => ScanAdvances
<1>1. ASSUME ScanInv, [Next]_vars
      PROVE  [pc # "idle" => Rank' < Rank \/ UNCHANGED scanVars]_vars
  <2> SUFFICES ASSUME pc # "idle", Next
               PROVE  Rank' < Rank \/ UNCHANGED scanVars
    BY <1>1
  <2>1. /\ Limit \in Nat /\ page \in 0 .. Limit /\ next \in 0 .. Limit
        /\ pc \in {"query", "read"} /\ (pc = "read" => page < next)
    BY <1>1, ScanAssumption DEF ScanInv, TypeOK
  <2>2. ASSUME pc' = "idle" PROVE Rank' < Rank
    BY <2>1, <2>2 DEF Rank
  <2>3. CASE QueryRegion
    <3>1. PICK e \in page .. Limit :
            /\ page < e
            /\ \/ pc' = "read" /\ page' = page
               \/ pc' = pc /\ page' = e
      BY <2>3 DEF QueryRegion, IsRegion
    <3>2. pc = "query"
      BY <2>3 DEF QueryRegion
    <3> QED BY <2>1, <3>1, <3>2 DEF Rank
  <2>4. CASE ReadRegion
    <3>1. pc = "read" /\ (\/ pc' = "query" /\ page' = next
                          \/ pc' = "idle")
      BY <2>4 DEF ReadRegion, Return
    <3> QED BY <2>1, <2>2, <3>1 DEF Rank
  <2>5. CASE QueryFails \/ ReadFails \/ ScanEnds
    <3>1. pc' = "idle"
      BY <2>5 DEF QueryFails, ReadFails, ScanEnds, CloseAndFail, Return
    <3> QED BY <2>2, <3>1
  <2>6. ~Begin
    BY DEF Begin, ScanAll, ScanModule, ModuleNotFound, Enter
  <2>7. CASE ClientStep
    BY <2>7 DEF ClientStep, ClientEnds, ClientProtects, ClientWrites
  <2> QED BY <2>3, <2>4, <2>5, <2>6, <2>7 DEF Next, Step
<1> QED BY <1>1, ScanInit, ScanNext, PTL DEF Spec, ScanAdvances

-----------------------------------------------------------------------------
(***************************************************************************)
(* The scan implements the search.                                         *)
(***************************************************************************)
LEMMA OneIsFound ==
  ASSUME found \subseteq Pages, found # {}, ~(Cardinality(found) > 1)
  PROVE  \E p \in found : found = {p}
<1>1. IsFiniteSet(Pages)
  BY ScanAssumption, FS_Interval DEF Pages
<1>2. IsFiniteSet(found)
  BY <1>1, FS_Subset
<1>3. Cardinality(found) \in Nat /\ Cardinality(found) # 0
  BY <1>2, FS_CardinalityType, FS_EmptySet
<1>4. Cardinality(found) = 1
  BY <1>3
<1>5. \E p : found = {p}
  BY <1>2, <1>4, FS_Singleton
<1> QED BY <1>5

\* Whatever regions a client has and whatever it does to them between the Win32
\* calls of a scan: the scan looks only at a client that runs, never answers
\* with two addresses where one was asked for, and never answers with the handle
\* closed.
THEOREM SearchImplemented == Spec => ImplementsSearch
<1>1. Init => S!Init
  BY DEF Init, S!Init
<1>2. ASSUME TypeOK, [Next]_vars PROVE [S!Next]_(S!vars)
  <2> USE <1>2 DEF Return, CloseAndFail, clientVars, callVars, scanVars
  <2>1. ASSUME NEW from \in Pages, NEW to, NEW all, NEW many \in BOOLEAN,
               Enter(from, to, all, many)
        PROVE  S!Ask
    BY <2>1 DEF Enter, S!Ask
  <2>2. ASSUME ModuleNotFound PROVE S!Refuse
    BY <2>2 DEF ModuleNotFound, S!Refuse
  <2>3. ASSUME QueryFails \/ ReadFails PROVE S!Fail
    BY <2>3 DEF QueryFails, ReadFails, S!Fail
  <2>4. ASSUME QueryRegion PROVE UNCHANGED S!vars
    BY <2>4 DEF QueryRegion, S!vars
  <2>5. ASSUME ReadRegion PROVE S!Look \/ S!Fail
    <3>1. pc = "read" /\ Attached /\ UNCHANGED <<clientVars, handle, callVars>>
      BY <2>5 DEF ReadRegion
    <3>2. CASE /\ found' = found \cup FoundIn(page, next)
               /\ pc' = "query" /\ UNCHANGED result
      <4>1. FoundIn(page, next) \in SUBSET occurs
        BY DEF FoundIn
      <4> QED BY <3>1, <3>2, <4>1 DEF Attached, S!Look
    <3>3. CASE pc' = "idle" /\ result' = "error" /\ UNCHANGED found
      BY <3>1, <3>3 DEF S!Fail
    <3> QED BY <2>5, <3>2, <3>3 DEF ReadRegion
  <2>6. ASSUME ScanEnds PROVE S!Fail \/ S!Answer
    <3>1. /\ pc = "query" /\ pc' = "idle"
          /\ UNCHANGED <<clientVars, handle, callVars, found>>
      BY <2>6 DEF ScanEnds
    <3>2. CASE found = {} \/ (Cardinality(found) > 1 /\ ~multiple)
      BY <2>6, <3>1, <3>2 DEF ScanEnds, S!Fail
    <3>3. CASE ~(found = {} \/ (Cardinality(found) > 1 /\ ~multiple))
      <4>1. result' = "ok"
        BY <2>6, <3>3 DEF ScanEnds
      <4>2. \E p \in found : multiple \/ found = {p}
        BY <3>3, OneIsFound DEF TypeOK
      <4> QED BY <3>1, <4>1, <4>2 DEF S!Answer
    <3> QED BY <3>2, <3>3
  <2>7. ASSUME NEW p \in Pages, ClientProtects(p) \/ ClientWrites(p)
        PROVE  S!Change \/ UNCHANGED S!vars
    BY <2>7 DEF ClientProtects, ClientWrites, S!Change, S!vars, TypeOK
  <2>8. ASSUME ClientEnds PROVE S!End
    BY <2>8 DEF ClientEnds, S!End
  <2>9. ASSUME UNCHANGED vars PROVE UNCHANGED S!vars
    BY <2>9 DEF vars, S!vars
  <2>10. ASSUME ScanAll \/ ScanModule PROVE S!Ask
    <3>1. 0 \in Pages
      BY ScanAssumption DEF Pages
    <3> QED BY <2>1, <2>10, <3>1 DEF ScanAll, ScanModule
  <2> QED
    BY <2>2, <2>3, <2>4, <2>5, <2>6, <2>7, <2>8, <2>9, <2>10
    DEF Next, Begin, Step, ClientStep, S!Next
<1> QED BY <1>1, <1>2, TypeCorrect, PTL DEF Spec, ImplementsSearch, S!Spec
=============================================================================
