----------------------------- MODULE PatternScan -----------------------------
(***************************************************************************)
(* pattern_scan of src/wizwalker-rs/src/memory/memory_reader.rs: a walk    *)
(* over the regions of a client's address space, or over those of one      *)
(* module, while the client goes on running and changes its pages between  *)
(* the VirtualQueryEx and the ReadProcessMemory made for a region.         *)
(*                                                                         *)
(* An address is the number of its page. A region is the longest run of    *)
(* pages with one protection, as VirtualQueryEx reports it from the page   *)
(* it is asked about. An occurrence of the pattern starts late on its page *)
(* and ends Span pages further on.                                         *)
(***************************************************************************)
EXTENDS Integers, FiniteSets

CONSTANTS
  Limit,         \* pages of the address space; 0x07FFFFFFF0000 in the code
  Protections,   \* the values of MEMORY_BASIC_INFORMATION.Protect considered
  Span           \* how many further pages an occurrence reaches into

\* winnt.h; 0 stands for pages that are not committed.
NOT_COMMITTED == 0
PAGE_NOACCESS == 1
PAGE_READONLY == 2
PAGE_READWRITE == 4
PAGE_WRITECOPY == 8
PAGE_EXECUTE_READ == 32
PAGE_EXECUTE_READWRITE == 64
WinProtections == {PAGE_NOACCESS, PAGE_READONLY, PAGE_READWRITE,
                   PAGE_WRITECOPY, PAGE_EXECUTE_READ, PAGE_EXECUTE_READWRITE}

ASSUME ScanAssumption ==
  /\ Limit \in Nat \ {0}
  /\ Protections \subseteq WinProtections
  /\ Span \in Nat

VARIABLES
  \* The client.
  running,       \* has it not ended?
  protect,       \* protect[p]: the protection of page p
  occurs,        \* the pages an occurrence of the pattern starts on
  \* The scan in progress.
  handle,        \* the process handle, shared with everything else
  pc,            \* idle, or the Win32 call that is next
  first, limit,  \* the pages to scan: first .. limit - 1
  whole,         \* scan_all (TRUE) or scan_entire_module (FALSE)
  multiple,      \* return_multiple
  page,          \* next_region, page_address
  next,          \* the end of the region that has been queried
  found,         \* the addresses found so far
  result,        \* what the last scan returned
  \* History variable, read by the properties only.
  changed        \* pages whose protection has changed since the scan began

clientVars == <<running, protect, occurs>>
callVars == <<first, limit, whole, multiple>>
scanVars == <<handle, pc, callVars, page, next, found, result>>
vars == <<clientVars, scanVars, changed>>

Pages == 0 .. Limit - 1
States == Protections \cup {NOT_COMMITTED}

Init ==
  /\ running = TRUE
  /\ protect \in [Pages -> States]
  /\ occurs \in SUBSET Pages
  /\ handle = "open" /\ pc = "idle"
  /\ first = 0 /\ limit = 0 /\ whole = TRUE /\ multiple = FALSE
  /\ page = 0 /\ next = 0 /\ found = {} /\ result = "none"
  /\ changed = {}

-----------------------------------------------------------------------------
Attached == handle = "open" /\ running

\* Faulty: the region is taken to be empty.
IsRegion_Empty(p, e) == e = p

\* The pages p .. e - 1 are the region VirtualQueryEx reports at p.
IsRegion(p, e) ==
  /\ p < e
  /\ \A q \in p .. e - 1 : protect[q] = protect[p]
  /\ e \in Pages => protect[e] # protect[p]

(***************************************************************************)
(* Protection::from_bits_truncate keeps the three low bits, which are      *)
(* READ, WRITE and EXECUTE of the region crate and not PAGE_ constants.    *)
(***************************************************************************)
READ == 1
READ_WRITE == 3
READ_EXECUTE == 5
READ_WRITE_EXECUTE == 7
FromBitsTruncate(prot) == prot % 8
AllowedProtections == {READ_EXECUTE, READ_WRITE_EXECUTE, READ_WRITE, READ}

\* Faulty (as a mutant): the protections the list names.
IsScanned_AsListed(prot) ==
  prot \in {PAGE_EXECUTE_READ, PAGE_EXECUTE_READWRITE, PAGE_READWRITE,
            PAGE_READONLY}

IsScanned(prot) ==
  prot # NOT_COMMITTED /\ FromBitsTruncate(prot) \in AllowedProtections

\* ReadProcessMemory fails when any page of the range is not accessible.
IsReadable(from, to) ==
  \A p \in from .. to - 1 : protect[p] \notin {NOT_COMMITTED, PAGE_NOACCESS}

\* Occurrences that lie wholly in the pages read.
FoundIn(from, to) == {p \in occurs : from <= p /\ p + Span < to}

Return(r) == pc' = "idle" /\ result' = r

\* A failing Win32 call makes the scan close the handle it was given.
CloseAndFail ==
  /\ handle' = "closed"
  /\ Return("error")
  /\ UNCHANGED <<callVars, page, next, found>>

-----------------------------------------------------------------------------
Enter(from, to, all, many) ==
  /\ pc = "idle"
  /\ pc' = "query" /\ result' = "none"
  /\ first' = from /\ limit' = to /\ whole' = all /\ multiple' = many
  /\ page' = from /\ next' = from /\ found' = {} /\ changed' = {}
  /\ UNCHANGED <<clientVars, handle>>

\* pattern_scan without a module name: scan_all.
ScanAll == \E many \in BOOLEAN : Enter(0, Limit, TRUE, many)

(***************************************************************************)
(* pattern_scan with a module name: the module that module_from_name finds *)
(* in the process whose id is the numeric value of the handle, so any      *)
(* range of addresses or none.                                             *)
(***************************************************************************)
ScanModule ==
  \E from \in Pages, many \in BOOLEAN : \E to \in from + 1 .. Limit :
    Enter(from, to, FALSE, many)

ModuleNotFound ==
  /\ pc = "idle"
  /\ Return("error")
  /\ UNCHANGED <<clientVars, handle, callVars, page, next, found, changed>>

\* scan_all stops at the first region with an occurrence when one is wanted.
LoopEnds == page >= limit \/ (whole /\ ~multiple /\ found # {})

\* VirtualQueryEx fails, which it may for any reason, of a running client too.
QueryFails ==
  /\ pc = "query" /\ ~LoopEnds
  /\ CloseAndFail
  /\ UNCHANGED <<clientVars, changed>>

\* VirtualQueryEx; a region whose protection is not listed is passed over.
QueryRegion ==
  /\ pc = "query" /\ ~LoopEnds /\ Attached
  /\ \E e \in page .. Limit :
       /\ IsRegion(page, e)
       /\ \/ /\ IsScanned(protect[page])
             /\ pc' = "read" /\ next' = e
             /\ UNCHANGED page
          \/ /\ ~IsScanned(protect[page])
             /\ page' = e
             /\ UNCHANGED <<pc, next>>
  /\ UNCHANGED <<clientVars, handle, callVars, found, result, changed>>

\* Faulty: a region that cannot be read is passed over.
ReadFails_Skips ==
  /\ pc = "read" /\ ~(Attached /\ IsReadable(page, next))
  /\ pc' = "query" /\ page' = next
  /\ UNCHANGED <<clientVars, handle, callVars, next, found, result, changed>>

ReadFails ==
  /\ pc = "read" /\ ~(Attached /\ IsReadable(page, next))
  /\ CloseAndFail
  /\ UNCHANGED <<clientVars, changed>>

\* ReadProcessMemory, then the search of what was read; a pattern that is not
\* a regular expression ends the scan here and leaves the handle alone.
ReadRegion ==
  /\ pc = "read" /\ Attached /\ IsReadable(page, next)
  /\ \/ /\ found' = found \cup FoundIn(page, next)
        /\ page' = next /\ pc' = "query"
        /\ UNCHANGED result
     \/ /\ Return("error")
        /\ UNCHANGED <<found, page>>
  /\ UNCHANGED <<clientVars, handle, callVars, next, changed>>

\* Faulty: the results are not counted.
ScanEnds_Uncounted ==
  /\ pc = "query" /\ LoopEnds
  /\ Return(IF found = {} THEN "error" ELSE "ok")
  /\ UNCHANGED <<clientVars, handle, callVars, page, next, found, changed>>

\* The end of pattern_scan.
ScanEnds ==
  /\ pc = "query" /\ LoopEnds
  /\ LET refused == found = {} \/ (Cardinality(found) > 1 /\ ~multiple)
     IN Return(IF refused THEN "error" ELSE "ok")
  /\ UNCHANGED <<clientVars, handle, callVars, page, next, found, changed>>

Begin == ScanAll \/ ScanModule \/ ModuleNotFound
Step == QueryFails \/ QueryRegion \/ ReadFails \/ ReadRegion \/ ScanEnds

-----------------------------------------------------------------------------
(***************************************************************************)
(* The client commits, frees and protects pages, writes to them, and ends. *)
(***************************************************************************)
ClientProtects(p) ==
  /\ running
  /\ \E prot \in States \ {protect[p]} : protect' = [protect EXCEPT ![p] = prot]
  /\ changed' = changed \cup {p}
  /\ UNCHANGED <<running, occurs, scanVars>>

ClientWrites(p) ==
  /\ running
  /\ occurs' \in {occurs \cup {p}, occurs \ {p}}
  /\ UNCHANGED <<running, protect, scanVars, changed>>

ClientEnds ==
  /\ running
  /\ running' = FALSE
  /\ UNCHANGED <<protect, occurs, scanVars, changed>>

ClientStep == ClientEnds \/ \E p \in Pages : ClientProtects(p) \/ ClientWrites(p)

Next == Begin \/ Step \/ ClientStep

Spec == Init /\ [][Next]_vars

\* The scan is an ordinary loop of the calling thread.
FairSpec == Spec /\ WF_vars(Step)

-----------------------------------------------------------------------------
\* Every variable has its type, pages and results being those of one scan.
TypeOK ==
  /\ running \in BOOLEAN
  /\ protect \in [Pages -> States]
  /\ occurs \subseteq Pages /\ found \subseteq Pages /\ changed \subseteq Pages
  /\ handle \in {"open", "closed"}
  /\ pc \in {"idle", "query", "read"}
  /\ first \in Pages /\ limit \in 0 .. Limit
  /\ whole \in BOOLEAN /\ multiple \in BOOLEAN
  /\ page \in 0 .. Limit /\ next \in 0 .. Limit
  /\ result \in {"none", "ok", "error"}
  /\ first <= page
  /\ pc = "read" => page < next

\* The filter of scan_page_return_all lets only PAGE_NOACCESS regions through,
\* and those cannot be read: a scan finds an occurrence only on a page whose
\* protection the client changed while the scan was running.
FindsOnlyInChangedPages == found \subseteq changed

\* No scan gets past a page that is not accessible from its beginning on: none
\* that goes on has, and no answer comes from beyond such a page.
StopsAtNoAccess ==
  \A p \in first .. page - 1 : p \notin changed => protect[p] # PAGE_NOACCESS

\* Every scan returns: next_region always moves, whatever the client does to
\* its regions.
ScanReturns == pc # "idle" ~> pc = "idle"

\* How many steps a scan is from its end at most: two for each page to come.
Rank ==
  IF pc = "idle" THEN 0
  ELSE 2 * (Limit - page) + (IF pc = "query" THEN 1 ELSE 0)

\* No step leaves a scan as far from its end as it was, whatever the client has
\* done to its regions since the step before: next_region never stays or goes
\* back, and a scan of n pages is over after 2 * n + 1 steps.
ScanAdvances ==
  [][pc # "idle" => Rank' < Rank \/ UNCHANGED scanVars]_vars

\* The abstract search.
S == INSTANCE Search WITH
  Places <- Pages, there <- occurs, busy <- pc # "idle", many <- multiple,
  seen <- found, answer <- result

\* Each Win32 call of a scan is one step of the search or none: addresses are
\* only seen while the client runs, no answer has two where one was asked for,
\* and the handle is closed by no scan that answers.
ImplementsSearch == S!Spec

\* "Define allowed protections": READ_EXECUTE, READ_WRITE_EXECUTE, READ_WRITE
\* and READ. A region with such a protection is read, not passed over.
AllowedAreScanned ==
  [][pc = "query" /\ page' > page =>
       protect[page] \notin {PAGE_EXECUTE_READ, PAGE_EXECUTE_READWRITE,
                             PAGE_READWRITE, PAGE_READONLY}]_vars

=============================================================================
