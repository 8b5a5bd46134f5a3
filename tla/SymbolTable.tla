---------------------------- MODULE SymbolTable ----------------------------
(***************************************************************************)
(* get_symbols and get_address_from_symbol of                              *)
(* src/wizwalker-rs/src/memory/memory_reader.rs: export tables of DLLs,    *)
(* cached by path for the life of the reader, while DLLs are replaced on   *)
(* disk and loaded and unloaded in the process that is looked at. That is  *)
(* the process whose id has the value of the process handle.               *)
(*                                                                         *)
(* A DLL version stands for its bytes. The table made of one has a single  *)
(* entry at most, its own name with the first function it exports, so      *)
(* a version also stands for its table and for that function's offset.     *)
(***************************************************************************)
CONSTANTS
  Dirs,        \* directories
  SystemDirs,  \* the system's and the current one
  Modules,     \* file names of DLLs
  Dlls,        \* versions of DLLs
  Parsed,      \* the ones whose export directory can be read
  Symbols,     \* names asked for
  DllName,     \* DllName[d]: the name d gives itself, None if it has a bad table
  Exports,     \* Exports[d]: the names d exports
  None

ASSUME DllAssumption ==
  /\ SystemDirs \subseteq Dirs
  /\ Parsed \subseteq Dlls
  /\ DllName \in [Dlls -> Symbols \cup {None}]
  /\ Exports \in [Dlls -> SUBSET Symbols]
  /\ None \notin Dlls \cup Symbols \cup Dirs

Paths == Dirs \X Modules

VARIABLES
  disk,          \* disk[p]: the version at path p, or None
  loaded,        \* loaded[m]: the path and version m was loaded from, or None
  symbol_table,  \* symbol_table[p]: the version whose table is cached, or None
  pc,            \* idle, or what the call does next
  call,          \* its arguments; those of the last call when idle
  result,        \* what the last call returned
  address,       \* the address, when that was one
  versions       \* history: versions[p] are those that were ever at path p

readerVars == <<symbol_table, pc, call, result, address>>
vars == <<disk, loaded, readerVars, versions>>

Loaded == [dir : Dirs, dll : Dlls]

\* dir is module_dir_opt until the call has begun, and then its directory.
Calls ==
  {c \in [op : {"get_symbols", "get_address_from_symbol"},
          dir : Dirs \cup {None},
          module : Modules, symbol : Symbols, force : BOOLEAN] :
     c.op = "get_symbols" => c.dir # None}
Path(c) == <<c.dir, c.module>>

\* An address is a base and an offset: the loaded module the base is of and
\* the version the offset was read from.
Address == [base : Loaded, offset : Dlls]

Init ==
  /\ disk \in [Paths -> Dlls \cup {None}]
  /\ versions = [p \in Paths |-> {disk[p]} \ {None}]
  /\ loaded = [m \in Modules |-> None]
  /\ symbol_table = [p \in Paths |-> None]
  /\ pc = "idle" /\ call = None
  /\ result = "none" /\ address = None

-----------------------------------------------------------------------------
Return(r, a) == pc' = "idle" /\ result' = r /\ address' = a

Goto(step) == pc' = step /\ result' = "none" /\ address' = None

\* get_symbols has returned Ok with the table of d to the call c.
Got(c, d) ==
  \/ /\ c.op = "get_symbols"
     /\ Return("ok", None)
  \/ /\ c.op = "get_address_from_symbol" /\ c.symbol # DllName[d]
     /\ Return("no_symbol", None)
  \/ /\ c.op = "get_address_from_symbol" /\ c.symbol = DllName[d]
     /\ Goto("find")

\* Faulty: the key asked for is never the one that was inserted.
Cached_Missed(p) == None

\* Faulty: the table is looked up by the name of the file.
Cached_ByName(p) ==
  IF \E q \in Paths : q[2] = p[2] /\ symbol_table[q] # None
  THEN symbol_table[CHOOSE q \in Paths : q[2] = p[2] /\ symbol_table[q] # None]
  ELSE None

Cached(p) == symbol_table[p]

\* get_system_directory(100): the system's; the current one, which "" stands
\* for, when GetSystemDirectoryW fails; and a hundred zeros, where no file can be
\* (None), when the path is longer than that.
GetSystemDirectory == SystemDirs \cup {None}

Exists(p) == p \in Paths /\ disk[p] # None

(***************************************************************************)
(* A call: get_address_from_symbol wants the file to exist even when its   *)
(* table is cached, get_symbols does not.                                  *)
(***************************************************************************)
Begin(c) ==
  /\ pc = "idle"
  /\ \E dir \in IF c.dir = None THEN GetSystemDirectory ELSE {c.dir} :
       LET made == [c EXCEPT !.dir = dir]
           p == Path(made)
       IN /\ call' = made
          /\ \/ /\ c.op = "get_address_from_symbol" /\ ~Exists(p)
                /\ Return("no_module", None)
             \/ /\ c.op = "get_symbols" \/ Exists(p)
                /\ IF Cached(p) # None /\ ~c.force
                   THEN Got(made, Cached(p))
                   ELSE Goto("read")
  /\ UNCHANGED <<disk, loaded, symbol_table, versions>>

\* Faulty: the old table goes before the new one has been read.
ReadFails_Drops ==
  /\ pc = "read"
  /\ symbol_table' = [symbol_table EXCEPT ![Path(call)] = None]
  /\ Return("error", None)
  /\ UNCHANGED <<disk, loaded, call, versions>>

\* The file cannot be opened or read, or is not a DLL with exports.
ReadFails ==
  /\ pc = "read"
  /\ Return("error", None)
  /\ UNCHANGED <<disk, loaded, symbol_table, call, versions>>

ReadDll ==
  /\ pc = "read"
  /\ LET d == disk[Path(call)] IN
     /\ d \in Parsed
     /\ symbol_table' = [symbol_table EXCEPT ![Path(call)] = d]
     /\ Got(call, d)
  /\ UNCHANGED <<disk, loaded, call, versions>>

\* module_from_name compares names, not directories.
FindModule ==
  /\ pc = "find"
  /\ LET m == loaded[call.module] IN
     \/ m = None /\ Return("not_loaded", None)
     \/ /\ m # None
        /\ Return("ok", [base |-> m, offset |-> Cached(Path(call))])
  /\ UNCHANGED <<disk, loaded, symbol_table, call, versions>>

-----------------------------------------------------------------------------
(***************************************************************************)
(* Updates of DLLs on disk, and the process that loads them.               *)
(***************************************************************************)
Put(p) ==
  /\ \E d \in Dlls \ {disk[p]} :
       /\ disk' = [disk EXCEPT ![p] = d]
       /\ versions' = [versions EXCEPT ![p] = @ \cup {d}]
  /\ UNCHANGED <<loaded, readerVars>>

Remove(p) ==
  /\ disk[p] # None
  /\ disk' = [disk EXCEPT ![p] = None]
  /\ UNCHANGED <<loaded, versions, readerVars>>

Load(p) ==
  /\ disk[p] # None /\ loaded[p[2]] = None
  /\ loaded' = [loaded EXCEPT ![p[2]] = [dir |-> p[1], dll |-> disk[p]]]
  /\ UNCHANGED <<disk, versions, readerVars>>

Unload(m) ==
  /\ loaded[m] # None
  /\ loaded' = [loaded EXCEPT ![m] = None]
  /\ UNCHANGED <<disk, versions, readerVars>>

Next ==
  \/ \E c \in Calls : Begin(c)
  \/ ReadFails \/ ReadDll \/ FindModule
  \/ \E p \in Paths : Put(p) \/ Remove(p) \/ Load(p)
  \/ \E m \in Modules : Unload(m)

Spec == Init /\ [][Next]_vars

-----------------------------------------------------------------------------
\* Every variable has its type, and a cached table is of a version that was at
\* the path and could be read.
TypeOK ==
  /\ disk \in [Paths -> Dlls \cup {None}]
  /\ versions \in [Paths -> SUBSET Dlls]
  /\ \A p \in Paths : disk[p] \in versions[p] \cup {None}
  /\ loaded \in [Modules -> Loaded \cup {None}]
  /\ symbol_table \in [Paths -> Parsed \cup {None}]
  /\ \A p \in Paths : symbol_table[p] \in versions[p] \cup {None}
  /\ pc \in {"idle", "read", "find"}
  /\ call \in Calls \cup {None}
  /\ pc # "idle" => call \in Calls /\ Path(call) \in Paths
  /\ pc = "find" => symbol_table[Path(call)] # None
  /\ address \in Address \cup {None}

\* An address that get_address_from_symbol returns is one inside the module
\* that is loaded, its first export, except where the DLL at the path was ever
\* replaced, or the module was loaded from another directory. What is cached
\* for a DLL of the same name elsewhere does not come into it.
AddressIsRight ==
  address # None =>
    \/ address.offset = address.base.dll
    \/ versions[Path(call)] # {address.base.dll}
    \/ address.base.dir # call.dir

\* A table that is cached is not read again, whatever happens to the DLL,
\* except by a call that forces it ...
OnlyForcedReads ==
  [][\A p \in Paths : symbol_table[p] \notin {None, symbol_table'[p]} =>
       call.force /\ Path(call) = p]_vars

\* ... and is not lost when a forced read fails.
TablesAreKept ==
  [][\A p \in Paths : symbol_table[p] # None => symbol_table'[p] # None]_vars

\* "No symbol named ... in module ..." is said of a name the DLL does not
\* export.
NoSymbolIsTrue ==
  result = "no_symbol" => call.symbol \notin Exports[symbol_table[Path(call)]]

=============================================================================
