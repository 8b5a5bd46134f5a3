---------------------------- MODULE CacheHandler ----------------------------
(***************************************************************************)
(* The cache handler of src/wizwalker-rs/src/file_readers/cache_handler.rs *)
(* and what it calls in utils.rs: it looks for an installation of the game *)
(* and answers from the archive root.wad and from files of a cache folder, *)
(* which other programs change while it runs. A third file, langmap.json,  *)
(* is only touched behind lists that are never filled (CheckUpdated).      *)
(*                                                                         *)
(* A Wad is [path, file]: where its archive is, and the archive it has     *)
(* open or None. A method that fails for want of a cache folder fails as   *)
(* it does when the file it wants is not there.                            *)
(***************************************************************************)
EXTENDS Naturals, Sequences

CONSTANTS
  Default, Steam,   \* DEFAULT_INSTALL and DEFAULT_STEAM_INSTALL
  Override,         \* a path a caller may name instead
  Relative,         \* the path "root", before from_game_data has found one
  Drive,            \* Drive[p]: the drive of path p
  Archives,         \* what a readable root.wad may contain
  Held,             \* Held[a]: the names of the files in archive a
  TwoBytes,         \* the names that are two bytes long
  Read,             \* Read[a]: the names that refresh_journal reads of archive
                    \* a, all of two bytes: WadJournal
  Template,         \* "TemplateManifest.xml"
  LangFiles,        \* names that start with "Locales/English/"
  Versions,         \* well-formed contents of a file of the cache folder
  Texts,            \* Texts[f]: the contents that cache file f may have
  TemplateFiles,    \* what parse_template_id_file may be given: its bytes,
                    \* whether they are UTF-8, how many they inflate to
  None

Installs == {Default, Steam, Override}
Names == TwoBytes \cup LangFiles \cup {Template}
CacheFiles == {"wad_cache.data", "template_ids.json"}

\* "broken" is an archive whose journal cannot be read to its end.
Files == Archives \cup {"broken"}

\* The contents that are not well-formed: no file, nothing in it, something
\* that is not JSON, and JSON of another shape.
Unusual == {None, "empty", "no_json", "misshapen"}

ASSUME CacheAssumption ==
  /\ Drive[Default] = Drive[Steam]
  /\ TemplateFiles \subseteq [bytes : Seq(Nat), text : BOOLEAN, size : Nat]
  /\ \A a \in Files : Read[a] \subseteq TwoBytes
  /\ TwoBytes \cap (LangFiles \cup {Template}) = {}
  /\ Steam # Default /\ Steam # Relative
  /\ Texts \in [CacheFiles -> SUBSET (Unusual \cup Versions)]
  /\ None \notin Files \cup Versions \cup {"empty", "no_json", "misshapen"}
  /\ "broken" \notin Archives
  /\ {"empty", "no_json", "misshapen"} \cap Versions = {}

VARIABLES
  \* The disk.
  game,         \* game[p]: root.wad of the game at p, None for no game at p
  rooted,       \* drives that have a file \Wizard101.exe
  folder,       \* folder[f]: the content of cache file f
  \* The fields of the handler.
  wad_cache, template_ids, root_wad,
  \* The last call: its name and its result.
  last,
  \* History variables, read by the properties only.
  answered,     \* versions that template names were looked up in
  templated     \* has cache_template been called?

diskVars == <<game, rooted, folder>>
fieldVars == <<wad_cache, template_ids, root_wad>>
historyVars == <<answered, templated>>
vars == <<diskVars, fieldVars, last, historyVars>>

Games == Files \cup {None}

\* Any Wad a caller may have: open() keeps the file although it then fails to
\* read the journal.
Wads == [path : {Default, Steam, Relative}, file : Files \cup {None}]

Call(op, result) == last' = [op |-> op, result |-> result]

Init ==
  /\ game = [p \in Installs |-> None] /\ rooted = {}
  /\ folder = [f \in CacheFiles |-> None]
  /\ wad_cache = None /\ template_ids = None
  /\ root_wad = [path |-> Relative, file |-> None]
  /\ last = [op |-> "none", result |-> "ok"]
  /\ answered = {} /\ templated = FALSE

-----------------------------------------------------------------------------
(***************************************************************************)
(* utils.rs.                                                               *)
(***************************************************************************)
\* Faulty: the executable is looked for in the directory.
HasExecutable_Inside(p) == game[p] # None

\* path.join(r"\Wizard101.exe") keeps nothing of the path but its drive.
HasExecutable(p) == Drive[p] \in rooted

\* get_wiz_install: the first candidate that has the executable, or None.
GetWizInstall(override) ==
  IF override # None /\ HasExecutable(override) THEN override
  ELSE IF HasExecutable(Default) THEN Default
  ELSE IF HasExecutable(Steam) THEN Steam ELSE None

\* "BINd"; and does a zlib stream begin at byte i? (Its low bits say deflate.)
Id == <<66, 73, 78, 100>>
Inflates(bytes, i) == bytes[i] % 16 = 8

\* The loop over the ids: from position 36, five bytes a turn, to the end of
\* the inflated data, thirteen of which have been cut off the front.
Ids(size) ==
  LET turn[pos \in 36 .. size + 36] ==
        IF pos >= size THEN "ok"
        ELSE IF pos + 5 > size - 13 THEN "error" ELSE turn[pos + 5]
  IN  IF size < 13 THEN "panic" ELSE turn[36]

\* Faulty: the stream is taken to begin behind the id.
ParseTemplateIdFile_Behind(data) ==
  IF data.text /\ SubSeq(data.bytes, 1, 4) = Id /\ Inflates(data.bytes, 5)
  THEN Ids(data.size) ELSE "error"

\* parse_template_id_file: the whole data must be text that starts with the
\* id, and is then inflated from its first byte on.
ParseTemplateIdFile(data) ==
  IF data.text /\ SubSeq(data.bytes, 1, 4) = Id /\ Inflates(data.bytes, 1)
  THEN Ids(data.size) ELSE "error"

-----------------------------------------------------------------------------
(***************************************************************************)
(* What the handler asks of a Wad.                                         *)
(***************************************************************************)
\* Faulty: names are read whole.
Journal_Whole(a) == Held[a]

\* The names in the journal of an open Wad; of a broken archive, those before
\* the place where the reading failed.
Journal(a) == Read[a]

\* Are the files found by get_file_info, which wants the Wad open?
InJournal(w, files) == w.file # None /\ files \subseteq Journal(w.file)

\* names() opens a Wad that is closed, and fails when that fails; it lists what
\* an open one has, broken or not. The archive it lists, or None: there is none
\* at the path "root" itself.
Listed(w) ==
  IF w.file # None THEN w.file
  ELSE IF w.path # Relative /\ game[w.path] \in Archives THEN game[w.path]
  ELSE None

\* from_game_data moves the Wad, then fails: it has just closed its file.
FromGameData(w) ==
  LET p == GetWizInstall(None) IN
  IF p = None \/ game[p] = None THEN w
  ELSE [path |-> p, file |-> None]

-----------------------------------------------------------------------------
(***************************************************************************)
(* The cache files.                                                        *)
(***************************************************************************)
\* Faulty: any JSON is taken for a cache.
ReadWadCache_Unchecked ==
  IF folder["wad_cache.data"] = "no_json" THEN None ELSE folder["wad_cache.data"]

\* get_wad_cache: an empty file is an empty cache; None for an error.
ReadWadCache ==
  IF folder["wad_cache.data"] \in {"no_json", "misshapen"} THEN None
  ELSE folder["wad_cache.data"]

\* A file of the cache folder that has JSON of the right shape, or None.
ReadJson(f) == IF folder[f] \in Versions THEN folder[f] ELSE None

\* Does check_updated return Ok? It looks each file up, puts those that have
\* changed on a list, and returns another list, which is empty: its callers
\* find that nothing has changed whenever it does not fail.
CheckUpdated(w, files) == InJournal(w, files)

-----------------------------------------------------------------------------
(***************************************************************************)
(* The methods.                                                            *)
(***************************************************************************)
\* Faulty: the Wad is opened, as the error of from_game_data asks.
New_Opens ==
  LET w == FromGameData([path |-> Relative, file |-> None]) IN
  /\ root_wad' = [w EXCEPT !.file = Listed(w)]
  /\ wad_cache' = None /\ template_ids' = None
  /\ answered' = {} /\ templated' = FALSE
  /\ Call("new", "ok")
  /\ UNCHANGED diskVars

\* new() makes do with whatever from_game_data leaves.
New ==
  /\ root_wad' = FromGameData([path |-> Relative, file |-> None])
  /\ wad_cache' = None /\ template_ids' = None
  /\ answered' = {} /\ templated' = FALSE
  /\ Call("new", "ok")
  /\ UNCHANGED diskVars

InstallLocation ==
  /\ \E override \in {None, Override} :
       Call("install_location",
            IF GetWizInstall(override) = None THEN "no_install" ELSE "ok")
  /\ UNCHANGED <<diskVars, fieldVars, historyVars>>

\* cache() gets no further than from_game_data of a new Wad.
Cache ==
  /\ Call("cache", IF GetWizInstall(None) = None THEN "no_install" ELSE "error")
  /\ UNCHANGED <<diskVars, fieldVars, historyVars>>

\* cache_template(w): the cache it loads stays, whatever comes of the rest.
CacheTemplate(w) ==
  /\ wad_cache' = IF wad_cache = None THEN ReadWadCache ELSE wad_cache
  /\ \E result \in
       {"error"} \cup (IF wad_cache' # None /\ CheckUpdated(w, {Template})
                      THEN {"ok"} ELSE {}) :
       Call("cache_template", result)
  /\ templated' = TRUE
  /\ UNCHANGED <<diskVars, template_ids, root_wad, answered>>

\* Faulty: the file is read at each call.
GetTemplateName_Rereads ==
  LET ids == ReadJson("template_ids.json") IN
  /\ template_ids' = ids
  /\ answered' = answered \cup ({ids} \ {None})
  /\ Call("get_template_name", IF ids = None THEN "error" ELSE "ok")
  /\ UNCHANGED <<diskVars, wad_cache, root_wad, templated>>

\* get_template_name, by get_template_ids, which reads the file once.
GetTemplateName ==
  LET ids == IF template_ids # None THEN template_ids
             ELSE ReadJson("template_ids.json") IN
  /\ template_ids' = ids
  /\ answered' = answered \cup ({ids} \ {None})
  /\ Call("get_template_name", IF ids = None THEN "error" ELSE "ok")
  /\ UNCHANGED <<diskVars, wad_cache, root_wad, templated>>

\* read_lang_file(w, n): two bytes of data are one character, which is
\* a header only if it is a colon.
ReadLangFile(w, n) ==
  /\ \E result \in {"error"} \cup (IF InJournal(w, {n}) THEN {"ok"} ELSE {}) :
       Call("read_lang_file", result)
  /\ UNCHANGED <<diskVars, fieldVars, historyVars>>

\* cache_lang_file(w, n) returns as soon as it has found n unchanged.
CacheLangFile(w, n) ==
  /\ Call("cache_lang_file",
          IF wad_cache # None /\ CheckUpdated(w, {n}) THEN "ok" ELSE "error")
  /\ UNCHANGED <<diskVars, fieldVars, historyVars>>

\* Faulty: without a cache the files are compared with an empty one.
CacheLangFiles_Defaults(op, w) ==
  /\ Call(op, IF Listed(w) = None THEN "error" ELSE "ok")
  /\ UNCHANGED <<diskVars, fieldVars, historyVars>>

\* cache_lang_files(w): the names come from a clone of w, the rest from w.
CacheLangFiles(op, w) ==
  /\ LET files == LangFiles \cap Journal(Listed(w)) IN
     Call(op, IF /\ Listed(w) # None /\ wad_cache # None
                 /\ files = {} \/ CheckUpdated(w, files)
              THEN "ok" ELSE "error")
  /\ UNCHANGED <<diskVars, fieldVars, historyVars>>

CacheAllLangcodeMaps == CacheLangFiles("cache_all_langcode_maps", root_wad)

\* get_langcode_name fails for a code without "_". The names it lists begin
\* "Locales/", the one it wants "Locale/", so that it never comes to
\* cache_lang_file or langmap.json.
GetLangcodeName ==
  /\ \E result \in
       {"error"} \cup (IF Listed(root_wad) = None THEN {} ELSE {"no_lang_file"}) :
       Call("get_langcode_name", result)
  /\ UNCHANGED <<diskVars, fieldVars, historyVars>>

\* write_wad_cache writes what it read, which may be any JSON, to the archive
\* root_wad has open, by a handle that is open for reading.
WriteWadCache ==
  /\ Call("write_wad_cache",
          IF folder["wad_cache.data"] \in {None, "empty", "no_json"} THEN "error"
          ELSE IF root_wad.file = None THEN "no_file" ELSE "denied")
  /\ UNCHANGED <<diskVars, fieldVars, historyVars>>

ParseTemplate(data) ==
  /\ Call("parse_template_id_file", ParseTemplateIdFile(data))
  /\ UNCHANGED <<diskVars, fieldVars, historyVars>>

ToolStep ==
  \/ New \/ InstallLocation \/ Cache \/ GetTemplateName \/ GetLangcodeName
  \/ CacheAllLangcodeMaps \/ WriteWadCache
  \/ \E w \in Wads : CacheTemplate(w) \/ CacheLangFiles("cache_lang_files", w)
  \/ \E w \in Wads, n \in Names : ReadLangFile(w, n) \/ CacheLangFile(w, n)
  \/ \E data \in TemplateFiles : ParseTemplate(data)

(***************************************************************************)
(* Other programs: the game is installed, patched and removed, and the     *)
(* files of the cache folder are written, all by somebody else.            *)
(***************************************************************************)
GameChanges(p, g) ==
  /\ game' = [game EXCEPT ![p] = g]
  /\ UNCHANGED <<rooted, folder, fieldVars, last, historyVars>>

RootChanges(drive) ==
  /\ rooted' \in {rooted \cup {drive}, rooted \ {drive}}
  /\ UNCHANGED <<game, folder, fieldVars, last, historyVars>>

FileChanges(f, text) ==
  /\ folder' = [folder EXCEPT ![f] = text]
  /\ UNCHANGED <<game, rooted, fieldVars, last, historyVars>>

OtherStep ==
  \/ \E p \in {Default, Steam}, g \in Games : GameChanges(p, g)
  \/ \E drive \in {Drive[p] : p \in Installs} : RootChanges(drive)
  \/ \E f \in CacheFiles : \E text \in Texts[f] : FileChanges(f, text)

Next == ToolStep \/ OtherStep
Spec == Init /\ [][Next]_vars

-----------------------------------------------------------------------------
(***************************************************************************)
(* Properties.                                                             *)
(***************************************************************************)
\* Every variable has its type.
TypeOK ==
  /\ game \in [Installs -> Games]
  /\ rooted \subseteq {Drive[p] : p \in Installs}
  /\ folder \in [CacheFiles -> Unusual \cup Versions]
  /\ wad_cache \in {None, "empty"} \cup Versions
  /\ template_ids \in {None} \cup Versions
  /\ root_wad \in Wads
  /\ answered \subseteq Versions
  /\ templated \in BOOLEAN

LangCalls == {"cache_lang_file", "cache_lang_files", "cache_all_langcode_maps"}

\* The two standard installations are on one drive, and only the drive is
\* looked at: an archive of the one that Steam installed is never read.
SteamIsNeverFound == root_wad.path # Steam

\* A handler looks up all template names in one version of template_ids.json,
\* however often the file is written between its calls.
TemplatesOfOneVersion == \A v, w \in answered : v = w

\* Neither cache() nor cache_template() ever returns Ok, whatever the archive
\* holds: no entry of a journal has the name "TemplateManifest.xml".
NothingIsCached ==
  last.op \in {"cache", "cache_template"} => last.result # "ok"

\* The only way to make the language calls return Ok is to call cache_template
\* first, though that call fails: it leaves the cache behind that they need.
LangNeedsTemplate ==
  last.op \in LangCalls /\ last.result = "ok" => templated

\* write_wad_cache never comes to write what it has read from wad_cache.data
\* over root.wad: no method leaves root_wad open.
NothingOverRootWad == last.result # "denied"

\* No template file is ever accepted: what starts with the id is not a zlib
\* stream from its first byte on.
NoTemplateFile == last.op = "parse_template_id_file" => last.result = "error"

\* "Unable to find Wizard101 installation in default or Steam install
\* directories." is said only when there is none in either.
NoInstallIsTrue ==
  [][ToolStep /\ last'.result = "no_install" =>
       \A p \in {Default, Steam} : game[p] = None]_vars
=============================================================================
