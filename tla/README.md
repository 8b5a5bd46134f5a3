# Verification of wizwalker-rs

TLA+ models of wizwalker-rs, a library that attaches to a running Wizard101
client, patches hooks into its code and reads its archives. Source paths below
are relative to `src/wizwalker-rs/src/`.

## 1. The system

| Component | State it keeps | Operations |
|---|---|---|
| Hook objects, `memory/hooks.rs` | `jump_address`, `jump_original_bytecode`, `hook_address`, `allocated_addresses`; the process handle they share | `alloc`, `hook`, `unhook` (and the methods an implementor supplies: pattern and bytecodes) |
| Memory reader, `memory/memory_reader.rs` | process handle, symbol table | `read_bytes`, `write_bytes`, `allocate`, `free`, `start_thread`, `pattern_scan`, `get_symbols`, `get_address_from_symbol` |
| WAD archives, `file_readers/wad.rs` | open file (shared by clones), `file_list`, `file_path`, `refreshed_once` | `open`, `close`, `size`, `names`, `refresh_journal`, `from_game_data`, `get_file`, `get_file_info`, `unarchive` |
| Cache handler, `file_readers/cache_handler.rs` | `wad_cache`, `template_ids`, `root_wad`; the files of a cache folder | `new`, `cache`, `cache_template`, `cache_lang_file(s)`, `cache_all_langcode_maps`, `get_template_name`, `get_langcode_name`, `write_wad_cache` and what these call |
| Utilities, `utils.rs` | none | exit code of the client, module lookup, install path, template file parser |
| Client, handler, game data types | none yet | stubs, constants, enumerations |

The parts interact as follows. A hook object *is* a memory reader (`trait
WizWalkerMemoryHook: WizWalkerMemoryReader`); all of them hold the same raw
`HANDLE`. `hook()` finds its site with `pattern_scan`, allocates with
`allocate`, saves with `read_bytes`, patches with `write_bytes`; `unhook()`
writes the saved bytes back and frees what `alloc()` recorded. The client is
another process: it goes on running between any two of these calls. `Wad` is
used by the cache handler, and the archives it reads are written by the game's
patcher. All methods of the cache handler but `new()` are private, and nothing in
the repository calls them yet.

What is hard to test:

* *The client moves between two Win32 calls.* Code is unloaded and loaded
  again, threads run into a jump as soon as it is there, pages change
  protection between query and read, the process ends.
* *Steps that fail in the middle.* `hook()` sets its fields one by one and
  returns early with `?`; a write of a jump may break off half-way; `unhook()`
  stops at the first address it cannot free;
  `open()` can fail after it has opened the file and read half a journal.
* *Fields that outlive what they describe.* Freed addresses stay recorded,
  entries of replaced archives stay listed, a closed handle stays in use.
* *Legal sequences of calls with illegal results*: hook, alloc, unhook, hook,
  unhook; open, close, open; open, from_game_data.
* *Errors that hide others.* The cache handler opens what it means to write for
  reading, compares and drops the result, and never finds the files it caches:
  which of its branches are ever reached depends on all of these together.

There is no concurrency *inside* the tool around hooks: a raw `HANDLE` makes
the objects `!Send`, so one caller drives them, a call at a time.

The list of hazards, each at its line and with the properties that guard it, is
in `PROJECT.json`.

## 2. The modules

| Module | Models | Checked by | Proved in |
|---|---|---|---|
| `Detour` | what hooks promise of the client's code, without Win32 calls | as a property of `MemoryHook` | |
| `MemoryHook` | hook lifecycle with the reads, writes, allocations it makes | `MCMemoryHook` | `MemoryHookProofs`, `MemoryHookDetourProofs` |
| `MemoryHookDetour` | the refinement mapping from `MemoryHook` to `Detour` | `MCMemoryHook` | `MemoryHookDetourProofs` |
| `Search` | what a caller of `pattern_scan` may rely on | as a property of `PatternScan` | |
| `PatternScan` | `pattern_scan` and everything below it | itself | `PatternScanProofs` |
| `SymbolTable` | `get_symbols`, `get_address_from_symbol` | `MCSymbolTable` | `SymbolTableProofs` |
| `Wad` | `Wad` objects and their clones | `MCWad` | `WadProofs` |
| `WadJournal` | what `refresh_journal` makes of an archive's bytes | `MCWad` | `WadJournalProofs` |
| `WadBytes` | the archives of `Wad` as the bytes they consist of | `MCWad` | `WadJournalProofs` |
| `CacheHandler` | the cache handler, the install path, the template file | `MCCacheHandler` | `CacheHandlerProofs` |

`NaturalRanges` holds no model but the lemmas about least and greatest numbers,
and about induction over a range, that three of the proof modules cite.

Operators whose name has a suffix after an underscore (`Matches_AnyBytes`,
`Close_Forgets`, ...) and whose comment begins "Faulty" are not part of a
specification: each is a plausible bug, used to show that a property can fail.

### MemoryHook

* **Calls become steps.** `hook()` and `unhook()` are sequences of actions, one
  for each Win32 call: `HookFound` or `HookNotFound` (the scan), `HookAllocate`,
  `HookRead`, `HookWriteBody`, `HookWriteJump`; `UnhookRestore`, `UnhookFree`
  once for each address, `UnhookDone`. `pc` is the call the step has come to.
  `read_bytes` and `write_bytes` make two calls, the transfer and
  `GetExitCodeProcess`: after the first, `io` holds its outcome until
  `CheckFailed`, `CheckRead` or `CheckWrite` applies `Verdict`, which is
  `check_if_process_running` followed by the two tests in the code. Between any
  two steps the client may move.
* **Bytes.** What is at a site is its own code (the site itself), a jump into a
  region (that region), what a hook object's write left there when it failed
  half-way (that object), or nothing (`None`: no module is loaded there). A read
  that saves bytes saves one of these. `WriteCode` is a `WriteProcessMemory` to a
  site: it may fail at any time, also on loaded code of a client that runs, and
  then has written nothing or a part. It is assumed that no pattern matches a
  jump or a part of one. A thread that runs into a part of a jump is one of the
  reasons for which the client may end at any time.
* **Regions** have an owner in `body` when `get_hook_address` got them and in
  `data` when `alloc` did; neither for the client's own. `VirtualAllocEx`
  returns any region that is free, so addresses are reused.
* **The client** loads and unloads the code of a site, allocates, enters a hook
  through a jump, leaves it, and exits with 0, with 259 (which
  `GetExitCodeProcess` also reports for running processes) or otherwise.
* **History.** `released` counts the addresses an object has ever freed. Three
  variables record what the code does that defeats it, each by the regions or
  sites it concerns, so that the properties say exactly what holds elsewhere:
  - `stolen`: regions that `unhook()` freed at a position of
    `allocated_addresses` it had freed before; they may be anybody's by then;
  - `abandoned`: sites that still had the jump of an object (or a part of it)
    when a `hook()` of the same object moved `jump_address` on;
  - `exposed`: sites at which a `hook()` failed between moving `jump_address`
    there and saving the bytes, with those of another site in hand. This takes
    no misuse: it is the error path of `hook()` itself.

`get_pattern`, `get_jump_bytecode` and `get_hook_bytecode` panic unless the
implementor overrides them; the model is of objects that do. Scanning is
abstracted to its outcome, which `PatternScan` details: found exactly once, or
an error that may have closed the handle. Success is kept in `MemoryHook`
although the filter makes it rare (section 4), as the implementor may
also override `get_jump_address`.

`hook()` always names a module, so its scan reads on to the end of the module,
and two occurrences are an error. `HookFound` may still take any of the sites that
match: the scan passes over regions, so that "once" says nothing of the others.

### Detour

The abstract specification of hooks. A site of the client is absent, has its
own code, has the working detour of one object, or is `damaged` by a write of one
that failed half-way; when a `hook()` moves its object on, what that had in the
client is "lost". `Install` puts a detour on the client's own code at one stroke,
`Restore` takes it out at one stroke, `Damage` is where either fails half-way, at
the one site its object aims at, and memory is taken from an object (`Disown`)
only when it has neither a detour nor damage left. The client loads, unloads and
ends. `MemoryHookDetour` maps `MemoryHook` to it: a jump counts as a detour only
when its region is committed and holds the complete bytecode, and anything else
at a site maps to "broken", a value that no step of `Detour` produces; `target` is
the site that `unhook()` restores, once the saved bytes belong to it. So `hook()`
takes effect at its last Win32 call, `unhook()` at its first, and a failure at any
of the others leaves the client's code as it was. The promise ends (`Void`) when a
region is `stolen` or a site `exposed`; a site that is `abandoned` does not end
it, but is "lost".

### PatternScan

A page number stands for an address. `Query...` and `Read...` are the two Win32
calls made for each region; the client changes protections and contents, and
may end, between them. `IsScanned` is the filter as it is compiled: the
`PAGE_` value reduced to its three low bits and looked up among the flags of the
`region` crate. An occurrence reaches `Span` pages further, so that one may lie
across two regions. `ScanAll` is a scan without, `ScanModule` with a module
name; the module is any range of addresses, since the code looks it up in the
process whose id equals the handle's value.

`Search` is the abstract specification, without regions: a search looks at a
running client any number of times, each time at any of the places where the
pattern is, and answers with what it has seen, with one address unless more were
asked for. It never answers with the handle closed. That is what `MemoryHook`
takes `pattern_scan` to be: `HookFound` is the look at the address answered, made
while the client ran, and `HookNotFound` an error with or without the handle.
`Search` does not say that an answer is complete, since it is not.

### SymbolTable

A version of a DLL stands for its bytes and for the table that is made of them,
which has one entry at most: the DLL's own name with the first function it
exports (`exports.by()` yields one value, not the exports). `disk` holds what is
at each path, `loaded` which module of a name is in the process and where it
came from, `symbol_table` which version's table is cached for a path. A lookup
is up to three steps: `Begin` (the file exists, the table is cached or not),
`ReadDll` or `ReadFails`, `FindModule`. Without a directory, a lookup uses what
`get_system_directory(100)` returns (`GetSystemDirectory`): the system's, the
current one when the call fails, or none that can be. DLLs are replaced, removed, loaded and
unloaded between any two. `Begin` keeps a difference in the code:
`get_address_from_symbol` requires the file to exist even when its table is
cached, `get_symbols` does not.

### Wad

Files are identities and `at` says which one is at a path: a handle keeps its
file when the patcher removes it or puts another in its place, and sees what is
written into it in place. `Journal[c]` and `Broken[c]` say what
`refresh_journal` reads from a content `c` and whether it gets to the end.
`Refresh` is the whole of `refresh_journal` in one step, since it holds the file's
lock; `open`, `names`, `size` and `from_game_data` come to it with the file they
have, or none. `Nested` are the names with a "/", for which `unarchive` makes
directories.
`refreshed_once` is kept although nothing sets it, so its guard is never true.

`WadJournal` reads fields at their offsets in a sequence of bytes and takes two
bytes for each name, as `vec![0u8, name_length]` does (`ReadJournal`); it also
writes a list of files as the format has it (`WrittenArchive`), with `i32` fields
of four bytes and the files' data behind the journal. `WadBytes` joins the two: a content of `Wad` is a list of files
in a version of the format, its `Journal`, `Broken` and `Length` are what the
bytes of that list are read as (`BytesAssumption`), and its properties compare an
entry read with the file written. `MCWad` gives it two such lists. What is read
out of step may be a size with the sign bit set; the cast to `usize` and the one
back in `seek()` cancel out, so sizes are integers in `Wad`, and `get_file` fails
for those below zero.

### CacheHandler

Each method is one action: the handler has no concurrency of its own, but other
programs install and remove games and rewrite the files of the cache folder
between its calls. `game` says which archive, if any, the game at a path has,
`rooted` which drives have the file `\Wizard101.exe` that `get_wiz_install`
really looks for, `folder` what the cache files contain. A file is missing,
empty, not JSON, JSON of another shape, or a version; `write_wad_cache` accepts
any JSON. The three fields are kept as they are; a `Wad` is where its archive is
and which archive it has open, which may be one whose journal could not be read
to its end, and its journal comes with names of two bytes. `last` is the last call
and its result. `cache_template`, `cache_lang_file`, `cache_lang_files`
and `read_lang_file` take any `Wad`, open or not; the other methods use the
handler's own. `parse_template_id_file` is a function from what its data is
(text or not, its first bytes, how much it inflates to) to "ok", "error" or
"panic". `check_updated` returns an empty list whenever it does not fail, so
`CheckUpdated` says only when that is, and what its callers do with a file that
has changed is left out.

## 3. The runs

| Run | Instance | What it shows |
|---|---|---|
| `shared_site` | 2 hook objects, 1 site, 3 regions, 1 tracked allocation each | saved bytes are never a jump or a part of one; every jump, and every thread that followed one, is on a complete hook; `unhook()` frees its own memory only, all but for what it frees twice; `Detour` is implemented by objects that overwrite each other |
| `moving_sites` | 1 object, 2 sites, 3 regions, 2 tracked allocations, DEP on | what is restored belongs where it is written, but for `exposed` sites; every jump that is not `abandoned` can be undone; memory is freed after the jump is gone, and all of it; `Detour` is implemented by an object that is moved |
| `calls_return` | 1 object, 1 site, 3 regions, 2 tracked, DEP on | each step brings a call nearer to its end, and every call returns |
| `not_running` | 1 object | *violated*: "Client must be running" is said of a running client |
| `scan_moving` | 3 pages, protections `PAGE_NOACCESS`, `PAGE_EXECUTE_READ`, occurrences across pages | what a scan finds and what it cannot get past; each step brings a scan nearer to its end, and every scan returns; `Search` is implemented |
| `scan_allowed` | 2 pages, four allowed protections | *violated*: regions with a listed protection are skipped |
| `symbols` | 1 module name in 2 directories, 3 versions, one of them no DLL | an address is right unless the DLL was replaced or the module was loaded from another directory; only forced calls replace a table, none loses one |
| `no_symbol` | the same, 2 versions | *violated*: "No symbol named" is said of an exported function |
| `archives` | 2 Wads, 2 paths, 2 files, 2 contents, one of them out of step after its second name and broken after its third | newest journal wins; names are only ever added; an open file is one of the Wad's own path; a journal is read in step up to the first name that is not two bytes long |
| `call_open` | 1 Wad | *violated*: "Call open() on this wad" is said of an open Wad |
| `cache` | 2 standard installations and another on a second drive, 1 archive, 2 versions of the cache files, 12 template files | nothing is ever cached, or written over the archive; Steam's game is never found; template names are of one version; no template file parses; language calls work only after a failed `cache_template` |
| `no_install` | the same | *violated*: "Unable to find Wizard101 installation" is said with the game installed in a standard directory |

**Bounds.** Two hook objects and one site are enough for objects to overwrite
and unpatch each other; two sites are what one object needs to be moved, and its
client faults on hooks (DEP) since a thread inside a hook, which is what
`shared_site` is about, would only multiply its states; three
regions give one body, one tracked allocation and one for the client or a second
body, so every kind of reuse occurs. `MaxTracked` bounds the calls of `alloc()`.
Three pages let a region have a neighbour, be split and be joined, an occurrence
reach from one into the other, and one region have two occurrences. Two versions
of a DLL that can be read are what an update needs, and one that cannot is what
fails a forced reload; two directories let the loaded module be another than the
one looked up, and each may be what `get_system_directory` says, or neither.
`MaxEntries` is the length from which a journal is not appended
again: with 2, the journal of one archive can be followed by that of a newer
version, or of another archive. Of the new version's four files the first two
are read right, but the second name is too long for the buffer, so that the
third is read out of step, with a negative size, and the fourth not at all:
every way an entry can be read. The first names of both versions are the same,
and have a "/". Two versions of a cache file are what it takes
to tell a fresh answer from a stale one; the sizes 12, 36 and 60 of inflated
template files are one too short for the slice, one without ids and one that
ends in the slice before its length; the names of an archive are all read with
two bytes, so that one archive with the two files the handler asks for has every
outcome. The theorems of section 5 hold without any of these bounds but
`MaxTracked` and `MaxEntries`, for which they hold at every value. Symmetry is
used for hook objects, sites, regions, Wads, files and DLLs: the specifications
compare them only for equality. No liveness is checked under symmetry.

**Fairness.** `calls_return` and `scan_moving` use `FairSpec`, weak fairness of
the steps of a call that has begun: the calling thread is an ordinary thread and
none of the Win32 calls waits for the client. Nothing is assumed of the client,
nor that anybody calls.

**Deadlock** is checked everywhere: some call, or the patcher, can always act.

## 4. What the checks found

* `not_running`: a scan that fails on a page closes the handle every object
  uses. `GetExitCodeProcess` then fails too, the exit code stays 0, and each
  later call reports that the client is not running.
* `scan_allowed`: the list of allowed protections is compared with another
  encoding. Only `PAGE_NOACCESS` regions pass, and those cannot be read.
  Consequently a scan finds something only where the client changed a protection
  between the query and the read (proved as `ScanCorrect`), and gets past no page
  that stays inaccessible (`NoAccessStops`): it ends there with an error, having
  closed the handle.
* `no_symbol`: of everything a DLL exports, only its own name is ever found, so
  each other export is reported as missing.
* `call_open`: `from_game_data` drops the open file and then requires one.
* `no_install`: `path.join(r"\Wizard101.exe")` replaces the path up to its
  drive: both standard directories are on `C:`, and the file looked for is
  `C:\Wizard101.exe` for both. Where that file does exist, the first directory
  is returned whether or not it has the game, so a game that only Steam has
  installed is never read (proved as `SteamIsNeverUsed`).

The cache handler keeps no promise of any text, so what it cannot do is stated as
properties that hold: `cache()` and `cache_template()` always fail, no template
file parses. They rest on defects at several places (the two-byte names, the
inflation from the id on, `from_game_data`), and each property names what would
change if one of these were mended: `NothingOverRootWad` is the one to watch,
since an open `root_wad` is all `write_wad_cache` needs to write to the archive,
were it not for the read-only handle.

Some defects are one constant in the models, and no property restates them:
`from_game_data` never returns `Ok`, `unarchive` extracts nothing (`IsWritable`),
a hook never runs on a client with DEP (`PageExecutable`), and `check_updated`
reports no change.

What `MemoryHook` records as history is no finding, since no text of the
repository rules it out, but each of the three is reachable, and the properties
and theorems that except them say so:

* `stolen`: hook, alloc, unhook, hook, unhook frees the same address twice.
  Excepted in `JumpsAreReady`, `ThreadIsSafe`, `FreesOwnOnly`, `Undoable`,
  `FreesAfterRestore`; ends the promise of `Detour`.
* `abandoned`: hook, and hook again when the pattern is found at another site.
  Excepted in `Undoable` and `FreesAfterRestore`; "lost" in `Detour`.
* `exposed`: hook, unhook, and a second `hook()` that finds another site and then
  fails to allocate or to read; an `unhook()` after it writes the first site's
  code to the second. Excepted in `RestoresOwnCode` and `Undoable`; ends the
  promise of `Detour`.

## 5. The proofs

TLAPS proves every safety property the passing runs check, for every value of
the constants.

**`MemoryHookProofs`** proves `TypeCorrect`, and `OriginalIsAlwaysCode` from
`CodeInv`: between the match of the pattern and the end of the read no jump is
at `jump_address[self]`, because only the caller writes jumps and it is busy
with this call; nor is a part of one. `OriginalIsCode` alone is not inductive: it
says nothing of what `HookRead` is about to save.

Its second part is about who owns which region.

* `RegionInv`: a region has at most one owner and is committed while it has one.
* `TrackInv`: every region an object has from `alloc()` is recorded at a position
  of `allocated_addresses` it has never freed, and the loop of `unhook()` skips
  none. With `RegionInv` this gives `UnhookFreesEverything`, without any
  assumption on the caller.
* `OwnInv`: but for regions that are `stolen`, an object owns exactly what it has
  recorded and not freed, each region once. This gives `FreesOnlyOwn`.
* `ReadyInv`: a jump, a thread and the `hook()` in progress are at a region that
  is some hook's body, unless it is `stolen`. No `alloc()` returned it, so by `OwnInv` no `unhook()`
  frees it, and it is filled before the jump is written: `JumpsAreAlwaysReady`
  and `ThreadIsAlwaysSafe`.

Its last part is what can be proved of `CallsReturn` without fairness.
`CallsAlwaysAdvance`: `Rank`, the number of steps a call has left at most,
becomes smaller with each of its steps; for `unhook()` this rests on `TrackInv`,
which bounds its position in the vector. `CallsNeverStick`: a call that has not
returned is never without a step (`PendingInv`). That a call with a step to make
makes it is the fairness, which TLC takes for granted in `calls_return`.

**`MemoryHookDetourProofs`** is about the client's code, and first about what
`unhook()` undoes.

* `PairInv`: `jump_address` and `jump_original_bytecode` of an object fit
  together except while its own `hook()` is between moving the one and renewing
  the other, and at sites that are `exposed`. This gives `RestoresItsOwnCode`.
* `UndoInv`: up to the step that writes a jump, and once `unhook()` has restored
  the site, an object has no mark anywhere, neither a jump nor a part of one, but
  for those it has `abandoned`; and it never works at a site it has abandoned.
  This gives `AlwaysUndoable` and `FreesOnlyAfterRestore`.

Then it proves `DetourImplemented`: every behaviour of `MemoryHook` is one of
`Detour` under the mapping. `AllInv` collects all invariants above and `FreshInv`,
that the site of a `hook()` holds no jump from the match of its pattern to the
write of its own; under it, and as long as nothing is `stolen` or `exposed`
(`Kept`), `SiteCases` excludes "broken", and each action of `MemoryHook` is shown
to be one action of `Detour` or a stutter. A step that adds the first such region
or site is `Void`, and after it every step is a stutter.

**`CacheHandlerProofs`** proves every property of the run from one invariant:
`FieldInv`, that `root_wad` is never open and never Steam's, that a cache is
held only after a call of `cache_template` and that all template names came from
the ids that are held, and `LastInv`, what the last call may have returned.
`WizInstall`, `NotInJournal` and `IdIsNoStream` are the facts about
`get_wiz_install`, two-byte names and the zlib header they rest on.
`NoIdIsParsed` says what the loop of `parse_template_id_file` would do with data
that did inflate, of every size: it never gets past an id. `Ids` is a recursive
function, so the theorem has two lemmas: a function that satisfies its equation
exists (`TurnExists`, in closed form), and no two do (`TurnIsUnique`: they would
differ at a greatest position, but there the equation refers to one beyond it).

**`PatternScanProofs`** proves `ScanCorrect` from `ScanInv`: while a read is
pending, each page of the queried region is still `PAGE_NOACCESS` or has
changed. It includes the types (`TypeCorrect`) and `NoAccessStops`, and rests on
`ScannedIsNoAccess`, the arithmetic of the filter.

`OneRegion` says that at every page there is exactly one region to report, so
the `\E e` of `QueryRegion` is no choice. With it, `QueryIsAnswered` and
`ScanAlwaysAdvances` are for a scan what the two theorems above are for `hook()`:
it is never stuck, and `Rank` bounds its steps by two for each page and one.
`SearchImplemented` shows each action of `PatternScan` to be one of `Search` or a
stutter; `OneIsFound` is where the count of the results comes in.

**`SymbolTableProofs`** proves `AddressIsAlwaysRight` from `AddressInv` (an
address pairs the loaded module with a version that was at the path of the
call, and the theorem excepts a DLL that was ever replaced and a module loaded
from another directory), `OnlyForcedCallsReplace` from `ReadInv` (a call reads a DLL because no
table is cached or because it is forced), and `TablesAreNeverLost` from
`TableStep`, what any step does to the cache.

**`WadProofs`** proves `LastReadWins`: `TailInv` says that what was read last is
the end of the list, and `LookupInTail` that the last entry of a name is then
found there. `ListStep` says what any step does to the lists, and gives
`ListsOnlyGrow`. `HandleInv` gives `HandleMatchesPath`.

**`WadJournalProofs`** is about archives of any files in any version of the
format. The entries of an archive are concatenated, so that what is at a position
depends on the lengths of all names before it: `FlattenedInStep` says where the
i-th of several sequences is if all before it have the same length, and is
proved by `RangeInduction` of `NaturalRanges`, an induction over the set of
numbers a fact holds of. `EntryLayout` and `ArchiveLayout` say at which offsets
the fields are written, `Int32Bytes` that an `i32` is read as it was written,
and `ReadsUpTo` that the loop stops at the first entry it cannot read.
`EntryInStep` puts these together: if each earlier name has two bytes
(`InStep`), the i-th entry is read where it was written. `ReadInStep` is that
for a whole journal, `ShortNamesAreRead` the case in which all of it is right, and
`JournalsAreInStep` that for `Wad`, by `ReadInv`: what was read last is the journal
of some content, whatever the patcher did since. `NamesReadAreShort` holds of any
bytes at all and justifies what `CacheHandler` assumes of journals.

The assumptions are the named `ASSUME`s of the modules: names of different kinds
are different, constants are functions of the right sets, bounds are numbers.
Each run evaluates those of its module.

**Only model-checked:** `CallsReturn` and `ScanReturns`, since liveness under
fairness is out of the prover's reach; the theorems above are as much of them as
is about single steps. Nothing is claimed of what is read after a name that is
too long: bytes read out of step may happen to be those that were written.

## 6. Not modelled

* `read_typed`, `write_typed`, `start_thread`: conversions around calls that
  are modelled, and one call without state that nothing makes. That a thread
  started in a region of `alloc()` is forgotten, and the region freed under it,
  is a hazard without a property.
* `is_cached`, `cache`, `get_cached`: a map no other code reads.
* `Orient`: nothing uses it.
* The bytes of jumps and of patterns; what `get_file` returns; what the cache
  files say beyond the version they are; the text of language files, which two
  bytes of an archive can never be.
* What follows an update in the cache handler, `langmap.json` included, since no
  update is ever reported.
* Reuse of a closed handle's number by the operating system.
* `memory/handler.rs`, `client.rs`: traits of accessors and TODO comments;
  `memory_objects/`: data, most of what the models do not cover by lines.

## 7. Plan

Done: the hook lifecycle and its refinement to `Detour`, the pattern scan, the
symbol table, the archives with their parser, the cache handler; proofs of
their safety properties, of both refinements and of the steps' progress.

Left, in this order:

1. `HookedScan`: `PatternScan` composed with `MemoryHook`, so that the outcome
   of the scan is not assumed.
2. `start_thread` as a second way for a thread into memory of the tool, once
   something calls it, with the property that `unhook()` would have to keep.
3. The language file parser, once archives are read by their whole names.
