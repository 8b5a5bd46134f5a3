------------------------- MODULE SymbolTableProofs -------------------------
(***************************************************************************)
(* Proofs about SymbolTable, for any directories, modules and versions.    *)
(***************************************************************************)
EXTENDS SymbolTable, TLAPS

(***************************************************************************)
(* An address that was returned pairs the module that was loaded with the  *)
(* version whose table was cached, which was at the path of that call.     *)
(***************************************************************************)
AddressInv ==
  address # None =>
    /\ call \in Calls /\ Path(call) \in Paths
    /\ address.offset \in versions[Path(call)]

LEMMA TypeInit == Init => TypeOK /\ AddressInv
  BY DllAssumption DEF Init, TypeOK, AddressInv

LEMMA TypeNext == TypeOK /\ AddressInv /\ [Next]_vars => TypeOK' /\ AddressInv'
<1> SUFFICES ASSUME TypeOK, AddressInv, [Next]_vars
             PROVE  TypeOK' /\ AddressInv'
  OBVIOUS
<1> USE DllAssumption DEF TypeOK, AddressInv
<1>1. ASSUME NEW c \in Calls, Begin(c) PROVE TypeOK' /\ AddressInv'
  <2>1. PICK dir \in Dirs \cup {None} :
          LET made == [c EXCEPT !.dir = dir]
              p == Path(made)
          IN /\ dir = None => c.op # "get_symbols"
             /\ call' = made
             /\ \/ ~Exists(p) /\ Return("no_module", None)
                \/ /\ c.op = "get_symbols" \/ Exists(p)
                   /\ IF Cached(p) # None /\ ~c.force
                      THEN Got(made, Cached(p))
                      ELSE Goto("read")
    BY <1>1 DEF Begin, Calls, GetSystemDirectory
  <2>2. UNCHANGED <<disk, loaded, symbol_table, versions>>
    BY <1>1 DEF Begin
  <2> DEFINE made == [c EXCEPT !.dir = dir]
             p == Path(made)
  <2>3. made \in Calls /\ (c.op = "get_symbols" \/ Exists(p) => p \in Paths)
    BY <2>1 DEF Calls, Path, Paths, Exists
  <2>4. /\ address' = None /\ pc' \in {"idle", "read", "find"} /\ call' = made
        /\ pc' # "idle" => p \in Paths
        /\ pc' = "find" => symbol_table[p] # None
    BY <2>1, <2>3 DEF Cached, Got, Return, Goto
  <2> HIDE DEF made
  <2> QED BY <2>2, <2>3, <2>4 DEF Path
<1>2. CASE ReadFails
  BY <1>2 DEF ReadFails, Return
<1>3. CASE ReadDll
  <2> DEFINE p == Path(call)
             d == disk[p]
  <2>1. p \in Paths /\ d \in Parsed /\ d # None /\ d \in versions[p]
    BY <1>3 DEF ReadDll, Calls, Path, Paths
  <2>2. /\ symbol_table' = [symbol_table EXCEPT ![p] = d]
        /\ UNCHANGED <<disk, loaded, call, versions>>
    BY <1>3 DEF ReadDll
  <2>3. address' = None /\ pc' \in {"idle", "find"}
    BY <1>3 DEF ReadDll, Got, Return, Goto
  <2>4. pc = "read"
    BY <1>3 DEF ReadDll
  <2> QED BY <2>1, <2>2, <2>3, <2>4 DEF Path
<1>4. CASE FindModule
  <2> DEFINE p == Path(call)
             m == loaded[call.module]
  <2>1. /\ p \in Paths /\ call.module \in Modules /\ call \in Calls
        /\ symbol_table[p] \in Dlls /\ symbol_table[p] \in versions[p]
    BY <1>4 DEF FindModule, Calls, Path, Paths
  <2>2. /\ UNCHANGED <<disk, loaded, symbol_table, call, versions>>
        /\ pc' = "idle"
    BY <1>4 DEF FindModule, Return
  <2>3. CASE m = None
    <3>1. address' = None
      BY <1>4, <2>3 DEF FindModule, Return
    <3> QED BY <2>2, <3>1
  <2>4. CASE m # None
    <3>1. address' = [base |-> m, offset |-> symbol_table[p]] /\ m \in Loaded
      BY <1>4, <2>1, <2>4 DEF FindModule, Return, Cached
    <3> QED BY <2>1, <2>2, <3>1 DEF Address, Path
  <2> QED BY <2>3, <2>4
<1>5. ASSUME NEW p \in Paths, Put(p) PROVE TypeOK' /\ AddressInv'
  <2>1. PICK d \in Dlls : /\ disk' = [disk EXCEPT ![p] = d]
                         /\ versions' = [versions EXCEPT ![p] = @ \cup {d}]
    BY <1>5 DEF Put
  <2>2. UNCHANGED <<loaded, readerVars>>
    BY <1>5 DEF Put
  <2>3. \A q \in Paths : versions[q] \subseteq versions'[q]
    BY <2>1
  <2> QED BY <2>1, <2>2, <2>3 DEF readerVars, Path
<1>6. ASSUME NEW p \in Paths, Remove(p) PROVE TypeOK' /\ AddressInv'
  BY <1>6 DEF Remove, readerVars, Path
<1>7. ASSUME NEW p \in Paths, Load(p) PROVE TypeOK' /\ AddressInv'
  <2>1. p[1] \in Dirs /\ p[2] \in Modules
    BY DEF Paths
  <2>2. [dir |-> p[1], dll |-> disk[p]] \in Loaded
    BY <1>7, <2>1 DEF Load, Loaded
  <2> QED BY <1>7, <2>1, <2>2 DEF Load, readerVars, Path
<1>8. ASSUME NEW m \in Modules, Unload(m) PROVE TypeOK' /\ AddressInv'
  BY <1>8 DEF Unload, readerVars, Path
<1>9. CASE UNCHANGED vars
  BY <1>9 DEF vars, readerVars, Path
<1> QED
  BY <1>1, <1>2, <1>3, <1>4, <1>5, <1>6, <1>7, <1>8, <1>9 DEF Next

LEMMA TypesAndAddress == Spec => [](TypeOK /\ AddressInv)
  BY TypeInit, TypeNext, PTL DEF Spec

\* Every variable keeps its type, and each table cached is one read from a DLL
\* that was at its path.
THEOREM TypeCorrect == Spec => []TypeOK
  BY TypesAndAddress, PTL

\* An address returned is one of the module that is loaded, if that was loaded
\* from the directory of the call and the DLL there was never replaced.
THEOREM AddressIsAlwaysRight == Spec => []AddressIsRight
<1>1. AddressInv => AddressIsRight
  BY DEF AddressInv, AddressIsRight
<1> QED BY <1>1, TypesAndAddress, PTL

-----------------------------------------------------------------------------
\* A call reads a DLL because its table is not cached, or because it is forced.
ReadInv == pc = "read" => symbol_table[Path(call)] = None \/ call.force

LEMMA ReadInit == Init => ReadInv
  BY DEF Init, ReadInv

LEMMA ReadNext == ReadInv /\ [Next]_vars => ReadInv'
<1> SUFFICES ASSUME ReadInv, [Next]_vars PROVE ReadInv'
  OBVIOUS
<1> USE DEF ReadInv, Path
<1>1. ASSUME NEW c \in Calls, Begin(c) PROVE ReadInv'
  <2>1. PICK dir : call' = [c EXCEPT !.dir = dir]
    BY <1>1 DEF Begin
  <2>2. call'.force = c.force
    BY <2>1 DEF Calls
  <2>3. /\ UNCHANGED symbol_table
        /\ pc' = "read" => symbol_table[Path(call')] = None \/ c.force
    BY <1>1 DEF Begin, Cached, Got, Return, Goto
  <2> QED BY <2>2, <2>3
<1>2. CASE ReadFails \/ ReadDll \/ FindModule
  BY <1>2 DEF ReadFails, ReadDll, FindModule, Got, Return, Goto
<1>3. CASE UNCHANGED <<symbol_table, pc, call>>
  BY <1>3
<1> QED
  BY <1>1, <1>2, <1>3
  DEF Next, Put, Remove, Load, Unload, vars, readerVars

\* What a step does to the cached tables: at most it replaces the table of the
\* DLL that the call in progress is reading.
LEMMA TableStep ==
  TypeOK /\ [Next]_vars =>
    \/ UNCHANGED symbol_table
    \/ /\ pc = "read" /\ disk[Path(call)] # None
       /\ symbol_table' =
            [symbol_table EXCEPT ![Path(call)] = disk[Path(call)]]
<1> SUFFICES ASSUME TypeOK, [Next]_vars, symbol_table' # symbol_table
             PROVE  /\ pc = "read" /\ disk[Path(call)] # None
                    /\ symbol_table' =
                         [symbol_table EXCEPT ![Path(call)] = disk[Path(call)]]
  OBVIOUS
<1>1. ReadDll
  BY DEF Next, Begin, ReadFails, FindModule, Put, Remove, Load, Unload, vars,
         readerVars
<1> QED BY <1>1, DllAssumption DEF ReadDll

\* A cached table is replaced only by a call that forces it, whatever happens
\* to the DLL it was read from.
THEOREM OnlyForcedCallsReplace == Spec => OnlyForcedReads
<1> DEFINE Forced ==
      \A p \in Paths : symbol_table[p] \notin {None, symbol_table'[p]} =>
        call.force /\ Path(call) = p
<1>1. TypeOK /\ ReadInv /\ [Next]_vars => Forced
  BY TableStep DEF ReadInv, TypeOK
<1>2. TypeOK /\ ReadInv /\ [Next]_vars => [Forced]_vars
  BY <1>1
<1> QED
  BY <1>2, ReadInit, ReadNext, TypesAndAddress, PTL DEF Spec, OnlyForcedReads

\* A table once cached is never lost, also when a forced read of it fails.
THEOREM TablesAreNeverLost == Spec => TablesAreKept
<1> DEFINE Kept ==
      \A p \in Paths : symbol_table[p] # None => symbol_table'[p] # None
<1>1. TypeOK /\ [Next]_vars => Kept
  BY TableStep DEF TypeOK
<1>2. TypeOK /\ [Next]_vars => [Kept]_vars
  BY <1>1
<1> QED BY <1>2, TypesAndAddress, PTL DEF Spec, TablesAreKept

=============================================================================
