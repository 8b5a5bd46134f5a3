-------------------------------- MODULE Wad --------------------------------
(***************************************************************************)
(* The archive readers of src/wizwalker-rs/src/file_readers/wad.rs: Wad    *)
(* objects and their clones, the open files they share, and a patcher that *)
(* overwrites, replaces and removes archives while they are in use.        *)
(*                                                                         *)
(* A content is what the bytes of an archive are. Journal[c] is the list   *)
(* of entries refresh_journal makes of it (each name being the two bytes   *)
(* it reads), up to where it fails when Broken[c].                         *)
(***************************************************************************)
EXTENDS Integers, Sequences, SequencesExt

CONSTANTS
  Wads,        \* the Wad objects, clones included
  Paths,       \* where archives may be
  GamePaths,   \* the ones from_game_data can name
  Files,       \* the files that may ever be at a path
  Names,       \* of the files in archives
  Nested,      \* the names with a "/"
  Contents,    \* what a file may contain
  Journal, Broken,
  Length,      \* Length[c]: the size of a file with that content
  None,
  MaxEntries   \* bound: the journal is read while file_list is shorter

ASSUME NamesAssumption ==
  /\ GamePaths \subseteq Paths
  /\ Nested \subseteq Names
  /\ None \notin Files \cup Contents \cup Paths

\* WadFileInfo, without its offset, which nothing reads, and its checksum. A
\* negative size becomes a huge one "as usize", and negative again in seek().
WadFileInfo == [name : Names, size : Int, is_zip : BOOLEAN]

ASSUME ContentAssumption ==
  /\ Journal \in [Contents -> Seq(WadFileInfo)]
  /\ Broken \in [Contents -> BOOLEAN]
  /\ Length \in [Contents -> Nat]
  /\ MaxEntries \in Nat

VARIABLES
  \* The disk.
  at,          \* at[p]: the file at path p, or None
  content,     \* content[f]: what file f contains, None before it is made
  dirs,        \* names whose directories exist where unarchive extracts to
  \* The fields of the Wad objects; file is None for a Wad not yet made too.
  made,        \* the objects that exist
  file, file_list, file_path, refreshed_once,
  \* The last call: its object, what it returned.
  last,
  \* History variables, read by the properties only.
  opened_at,   \* opened_at[w]: the path file[w] was opened at
  fresh,       \* fresh[w]: the entries read by the last refresh_journal of w
  is_open      \* open() of w returned Ok, and close() was not called since

diskVars == <<at, content>>
wadVars == <<made, file, file_list, file_path, refreshed_once>>
historyVars == <<opened_at, fresh, is_open>>
vars == <<diskVars, dirs, wadVars, last, historyVars>>

Results == {"ok", "error", "call_open"}

Init ==
  /\ at = [p \in Paths |-> None]
  /\ content = [f \in Files |-> None]
  /\ dirs = {}
  /\ made = {}
  /\ file = [w \in Wads |-> None]
  /\ file_list = [w \in Wads |-> <<>>]
  /\ file_path = [w \in Wads |-> None]
  /\ refreshed_once = [w \in Wads |-> FALSE]
  /\ last = [wad |-> None, result |-> "ok"]
  /\ opened_at = [w \in Wads |-> None]
  /\ fresh = [w \in Wads |-> <<>>]
  /\ is_open = [w \in Wads |-> FALSE]

-----------------------------------------------------------------------------
Call(w, r) == last' = [wad |-> w, result |-> r]

Positions(list, n) == {i \in DOMAIN list : list[i].name = n}

\* Faulty: the search stops at the first match.
Lookup_First(list, n) ==
  list[CHOOSE i \in Positions(list, n) : \A j \in Positions(list, n) : i <= j]

\* The entry get_file and get_file_info use: the last one with the name.
Lookup(list, n) ==
  list[CHOOSE i \in Positions(list, n) : \A j \in Positions(list, n) : j <= i]

\* Faulty: the new journal goes in front of what the list holds.
Appended_InFront(list, journal) == journal \o list

Appended(list, journal) == list \o journal

(***************************************************************************)
(* refresh_journal with the file f, or None. refreshed_once stays FALSE    *)
(* for ever: every call reads the journal again and appends it to          *)
(* file_list, as far as it can be read.                                    *)
(***************************************************************************)
Refresh(w, f, once) ==
  \/ /\ once
     /\ Call(w, "ok")
     /\ UNCHANGED <<file_list, fresh>>
  \/ /\ ~once /\ f = None
     /\ Call(w, "call_open")
     /\ UNCHANGED <<file_list, fresh>>
  \/ /\ ~once /\ f # None /\ Len(file_list[w]) < MaxEntries
     /\ LET c == content[f] IN
          /\ file_list' = [file_list EXCEPT ![w] = Appended(@, Journal[c])]
          /\ fresh' = [fresh EXCEPT ![w] = Journal[c]]
          /\ Call(w, IF Broken[c] THEN "error" ELSE "ok")

\* open(): a new file handle replaces the old one, then the journal is read.
Opening(w) ==
  LET f == at[file_path[w]] IN
  \/ /\ f # None
     /\ file' = [file EXCEPT ![w] = f]
     /\ opened_at' = [opened_at EXCEPT ![w] = file_path[w]]
     /\ Refresh(w, f, refreshed_once[w])
     /\ is_open' = [is_open EXCEPT ![w] = last'.result = "ok"]
  \/ /\ f = None
     /\ Call(w, "error")
     /\ UNCHANGED <<file, file_list, historyVars>>

-----------------------------------------------------------------------------
\* Faulty: the path is not kept.
New_NoPath(w) ==
  /\ w \notin made
  /\ made' = made \cup {w}
  /\ Call(w, "ok")
  /\ UNCHANGED <<diskVars, dirs, file, file_list, file_path, refreshed_once,
                 historyVars>>

New(w) ==
  /\ w \notin made
  /\ made' = made \cup {w}
  /\ \E p \in Paths : file_path' = [file_path EXCEPT ![w] = p]
  /\ Call(w, "ok")
  /\ UNCHANGED <<diskVars, dirs, file, file_list, refreshed_once, historyVars>>

\* #[derive(Clone)]: the open file is shared, the list is copied.
Clone(w) ==
  /\ w \notin made
  /\ \E v \in made :
       /\ file' = [file EXCEPT ![w] = file[v]]
       /\ file_list' = [file_list EXCEPT ![w] = file_list[v]]
       /\ file_path' = [file_path EXCEPT ![w] = file_path[v]]
       /\ refreshed_once' = [refreshed_once EXCEPT ![w] = refreshed_once[v]]
       /\ opened_at' = [opened_at EXCEPT ![w] = opened_at[v]]
       /\ fresh' = [fresh EXCEPT ![w] = fresh[v]]
       /\ is_open' = [is_open EXCEPT ![w] = is_open[v]]
  /\ made' = made \cup {w}
  /\ Call(w, "ok")
  /\ UNCHANGED <<diskVars, dirs>>

\* Faulty: the handle of the archive before stays.
FromGameData_KeepsFile(w) ==
  /\ w \in made
  /\ \E p \in GamePaths :
       /\ at[p] # None
       /\ file_path' = [file_path EXCEPT ![w] = p]
  /\ refreshed_once' = [refreshed_once EXCEPT ![w] = FALSE]
  /\ Refresh(w, file[w], FALSE)
  /\ UNCHANGED <<diskVars, dirs, made, file, opened_at, is_open>>

\* from_game_data: when there is an archive of that name, the Wad forgets its
\* file, takes the new path, and calls refresh_journal.
FromGameData(w) ==
  /\ w \in made
  /\ \/ /\ \E p \in GamePaths :
            /\ at[p] # None
            /\ file_path' = [file_path EXCEPT ![w] = p]
       /\ file' = [file EXCEPT ![w] = None]
       /\ refreshed_once' = [refreshed_once EXCEPT ![w] = FALSE]
       /\ Refresh(w, file'[w], refreshed_once'[w])
     \/ /\ Call(w, "error")   \* no install, or no such file
        /\ UNCHANGED <<file, file_list, file_path, refreshed_once, fresh>>
  /\ UNCHANGED <<diskVars, dirs, made, opened_at, is_open>>

Open(w) ==
  /\ w \in made
  /\ Opening(w)
  /\ UNCHANGED <<diskVars, dirs, made, file_path, refreshed_once>>

\* Faulty: the list goes with the file.
Close_Forgets(w) ==
  /\ w \in made
  /\ file' = [file EXCEPT ![w] = None]
  /\ file_list' = [file_list EXCEPT ![w] = <<>>]
  /\ is_open' = [is_open EXCEPT ![w] = FALSE]
  /\ Call(w, "ok")
  /\ UNCHANGED <<diskVars, dirs, made, file_path, refreshed_once, opened_at,
                 fresh>>

Close(w) ==
  /\ w \in made
  /\ file' = [file EXCEPT ![w] = None]
  /\ is_open' = [is_open EXCEPT ![w] = FALSE]
  /\ Call(w, "ok")
  /\ UNCHANGED <<diskVars, dirs, made, file_list, file_path, refreshed_once,
                 opened_at, fresh>>

\* size() and names() open a Wad that has no file.
SizeOrNames(w) ==
  /\ w \in made
  /\ \/ /\ file[w] = None
        /\ Opening(w)
     \/ /\ file[w] # None
        /\ Call(w, "ok")
        /\ UNCHANGED <<file, file_list, historyVars>>
  /\ UNCHANGED <<diskVars, dirs, made, file_path, refreshed_once>>

RefreshJournal(w) ==
  /\ w \in made
  /\ Refresh(w, file[w], refreshed_once[w])
  /\ UNCHANGED <<diskVars, dirs, made, file, file_path, refreshed_once,
                 opened_at, is_open>>

-----------------------------------------------------------------------------
(***************************************************************************)
(* get_file reads two bytes at the position that is the entry's size, and  *)
(* fails to seek to a negative one. Two bytes may or may not pass for the  *)
(* beginning of a zlib stream.                                             *)
(***************************************************************************)
CanGet(w, n) ==
  /\ file[w] # None
  /\ Positions(file_list[w], n) # {}
  /\ Lookup(file_list[w], n).size \in 0 .. Length[content[file[w]]] - 2

GetFile(w) ==
  /\ w \in made
  /\ \E n \in Names :
       \/ /\ CanGet(w, n)
          /\ Call(w, "ok")
       \/ /\ CanGet(w, n) => Lookup(file_list[w], n).is_zip
          /\ Call(w, "error")
  /\ UNCHANGED <<diskVars, dirs, wadVars, historyVars>>

GetFileInfo(w) ==
  /\ w \in made
  /\ \E n \in Names :
       Call(w,
            IF file[w] = None THEN "call_open"
            ELSE IF Positions(file_list[w], n) = {} THEN "error" ELSE "ok")
  /\ UNCHANGED <<diskVars, dirs, wadVars, historyVars>>

\* File::open opens the file to extract to for reading: write() fails.
IsWritable == FALSE

\* unarchive: entry after entry, until one fails, before or after the
\* directories it needs have been made; or none, when the path given is no
\* directory.
Unarchive(w) ==
  /\ w \in made
  /\ LET list == file_list[w]
         works(i) == CanGet(w, list[i].name) /\ IsWritable
         prepared(k) == dirs \cup (Nested \cap {list[i].name : i \in 1 .. k})
     IN \/ /\ Call(w, "error")
           /\ UNCHANGED dirs
        \/ \E k \in 0 .. Len(list) :
             /\ \A i \in 1 .. k : works(i)
             /\ \/ /\ k = Len(list) /\ Call(w, "ok")
                   /\ dirs' = prepared(k)
                \/ /\ k < Len(list) /\ Call(w, "error")
                   /\ dirs' \in {prepared(k), prepared(k + 1)}
  /\ UNCHANGED <<diskVars, wadVars, historyVars>>

-----------------------------------------------------------------------------
(***************************************************************************)
(* The patcher of the game. Rust opens files so that others may write to   *)
(* them and remove them; a handle then keeps the file it was opened on.    *)
(***************************************************************************)
otherVars == <<dirs, wadVars, last, historyVars>>

Put(p) ==
  /\ \E f \in Files, c \in Contents :
       /\ content[f] = None
       /\ at' = [at EXCEPT ![p] = f]
       /\ content' = [content EXCEPT ![f] = c]
  /\ UNCHANGED otherVars

Overwrite(p) ==
  /\ at[p] # None
  /\ \E c \in Contents \ {content[at[p]]} :
       content' = [content EXCEPT ![at[p]] = c]
  /\ UNCHANGED <<at, otherVars>>

Unlink(p) ==
  /\ at[p] # None
  /\ at' = [at EXCEPT ![p] = None]
  /\ UNCHANGED <<content, otherVars>>

Patch == \E p \in Paths : Put(p) \/ Overwrite(p) \/ Unlink(p)

WadStep(w) ==
  \/ New(w) \/ Clone(w) \/ FromGameData(w) \/ Open(w) \/ Close(w)
  \/ SizeOrNames(w) \/ RefreshJournal(w)
  \/ GetFile(w) \/ GetFileInfo(w) \/ Unarchive(w)

Next == Patch \/ \E w \in Wads : WadStep(w)

Spec == Init /\ [][Next]_vars

-----------------------------------------------------------------------------
\* Every variable has its type, and an object that exists has a path.
TypeOK ==
  /\ at \in [Paths -> Files \cup {None}]
  /\ content \in [Files -> Contents \cup {None}]
  /\ dirs \subseteq Nested
  /\ made \subseteq Wads
  /\ file \in [Wads -> Files \cup {None}]
  /\ file_list \in [Wads -> Seq(WadFileInfo)]
  /\ fresh \in [Wads -> Seq(WadFileInfo)]
  /\ file_path \in [Wads -> Paths \cup {None}]
  /\ \A w \in made : file_path[w] \in Paths
  /\ opened_at \in [Wads -> Paths \cup {None}]
  /\ refreshed_once \in [Wads -> BOOLEAN] /\ is_open \in [Wads -> BOOLEAN]
  /\ last.result \in Results

\* However often an archive is opened, and whatever the versions its journal
\* was read in, get_file and get_file_info answer with the version that was
\* read last: the entries of earlier ones never hide its own.
FreshEntriesWin ==
  \A w \in Wads : \A e \in Range(fresh[w]) :
    Lookup(file_list[w], e.name) = Lookup(fresh[w], e.name)

\* The open file of a Wad, clones included, is one found at its own path, also
\* after from_game_data has given it another path.
FileIsOfPath ==
  \A w \in Wads : file[w] # None => opened_at[w] = file_path[w]

\* A name that a Wad has once listed it goes on listing: close(), another
\* archive and a new version of it only ever add to file_list.
NamesAreKept ==
  [][\A w \in made : IsPrefix(file_list[w], file_list'[w])]_vars

\* "Call open() on this wad before using this method." is said of a Wad that
\* open() has not been called on, or that was closed.
CallOpenIsNews ==
  [][last' # last /\ last'.result = "call_open" => ~is_open[last'.wad]]_vars

=============================================================================
