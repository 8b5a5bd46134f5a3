----------------------------- MODULE MemoryHook -----------------------------
(***************************************************************************)
(* The lifecycle of the hooks of src/wizwalker-rs/src/memory/hooks.rs: any *)
(* number of hook objects share one process handle and patch the code of a *)
(* game client that keeps running, and may exit, between their Win32 calls.*)
(*                                                                         *)
(* One caller drives the hook objects (they hold a raw HANDLE, so they are *)
(* not Send): a call of hook() or unhook() is a sequence of steps, one for *)
(* each Win32 call, and between two steps only the client moves.           *)
(*                                                                         *)
(* The bytes at a site are named by what they are: t \in Sites stands for  *)
(* the client's own code at t, r \in Regions for a jump into region r,     *)
(* h \in Hooks for what is there after a write by h that failed half-way,  *)
(* and None for no code at all (the module that held it is not loaded).    *)
(***************************************************************************)
EXTENDS Naturals, Sequences

CONSTANTS
  Hooks,       \* the objects implementing WizWalkerMemoryHook
  Sites,       \* addresses of the client's code a hook may patch
  Regions,     \* addresses VirtualAllocEx may return
  Pattern,     \* Pattern[h]: the sites whose own code h's pattern matches
  None,        \* no address, no bytes
  DEP,         \* does the client fault on executing a PAGE_READWRITE page?
  MaxTracked   \* bound: alloc() is called while the vector is shorter

ASSUME NamesAssumption ==
  /\ Sites \cap Regions = {}
  /\ Hooks \cap (Sites \cup Regions) = {}
  /\ None \notin Sites \cup Regions \cup Hooks
ASSUME ParameterAssumption ==
  /\ Pattern \in [Hooks -> SUBSET Sites]
  /\ DEP \in BOOLEAN
  /\ MaxTracked \in Nat

VARIABLES
  \* The client process.
  status,      \* running, or what GetExitCodeProcess will say of its end
  code,        \* the bytes at each site
  live,        \* regions that are committed in the client
  body,        \* body[r]: the hook object whose get_hook_address got r
  data,        \* data[r]: the hook object whose alloc got r
  filled,      \* regions that hold the complete bytecode of a hook
  thread,      \* the region a thread of the client is executing, or None
  \* The tool: the shared handle and the fields of the hook objects.
  handle,
  jump_address, jump_original_bytecode, hook_address, allocated_addresses,
  \* The call in progress.
  pc, self,    \* the Win32 call it has come to, and its hook object
  idx,         \* unhook()'s position in allocated_addresses
  io,          \* result of the last read or write, until is_running is asked
  buf,         \* the bytes read_bytes has read
  result,      \* what the last call returned
  \* History variables, read by the properties only.
  released,    \* released[h]: how many tracked addresses h has ever freed
  stolen,      \* regions unhook() freed at a position it had freed before
  abandoned,   \* <<h, s>>: h's hook() moved on and left its mark at s
  exposed      \* sites a failed hook() left paired with other sites' bytes

clientVars == <<status, code, live, body, data, filled, thread>>
regionVars == <<live, body, data, filled>>
fieldVars == <<jump_address, jump_original_bytecode, hook_address,
               allocated_addresses>>
callVars == <<pc, self, idx, io, buf, result>>
historyVars == <<released, stolen, abandoned, exposed>>
vars == <<clientVars, handle, fieldVars, callVars, historyVars>>

-----------------------------------------------------------------------------
(***************************************************************************)
(* Types and the initial state.                                            *)
(***************************************************************************)
Bytes == Sites \cup Regions \cup Hooks \cup {None}

\* GetExitCodeProcess reports 259 both for a running process and for one that
\* ended with that code.
Exits == {"exit_0", "exit_259", "exit_other"}

\* "not_running" is the error "Client must be running to perform this action.".
Results == {"none", "ok", "not_running", "error"}

\* Where hook() can be once it has set jump_address.
HookSteps == {"allocate", "read", "write_hook", "write_jump"}

Init ==
  /\ status = "running"
  /\ code \in [Sites -> Bytes]
  /\ \A s \in Sites : code[s] \in {s, None}
  /\ live = {}
  /\ body = [r \in Regions |-> None]
  /\ data = [r \in Regions |-> None]
  /\ filled = {}
  /\ thread = None
  /\ handle = "open"
  /\ jump_address = [h \in Hooks |-> None]
  /\ jump_original_bytecode = [h \in Hooks |-> None]
  /\ hook_address = [h \in Hooks |-> None]
  /\ allocated_addresses = [h \in Hooks |-> <<>>]
  /\ pc = "idle" /\ self = None /\ idx = 0
  /\ io = "none" /\ buf = None /\ result = "none"
  /\ released = [h \in Hooks |-> 0]
  /\ stolen = {} /\ abandoned = {} /\ exposed = {}

-----------------------------------------------------------------------------
(***************************************************************************)
(* Helpers.                                                                *)
(***************************************************************************)
Attached == handle = "open" /\ status = "running"

HasJumpOf(h, s) == code[s] \in Regions /\ body[code[s]] = h

\* What is at s is h's doing: its jump, or what is left of a write it made.
HasMarkOf(h, s) == code[s] = h \/ HasJumpOf(h, s)

\* Faulty: the pattern also matches the bytes of a jump.
Matches_AnyBytes(h) == {s \in Sites : code[s] # None}

\* Sites where h's pattern is found now.
Matches(h) == {s \in Sites : code[s] \in Pattern[h]}

\* The saved bytes were not read from the address they would be written to.
Mispaired(h) == jump_original_bytecode[h] \notin {None, jump_address[h]}

\* Faulty: the outcome of a read or write is not looked at.
Verdict_Ignored == "ok"

\* check_if_process_running, after the read or write whose result is io. A
\* closed handle leaves the exit code at 0, which reads as "not running".
Verdict ==
  IF handle = "open" /\ status = "exit_other" THEN "error"
  ELSE IF io = "ok" THEN "ok"
  ELSE IF handle = "closed" \/ status = "exit_0" THEN "not_running"
  ELSE "error"

Idle == pc = "idle"
At(step) == pc = step /\ io = "none"

\* A call of h is under way and its next Win32 call is step.
Goto(step, h) ==
  /\ pc' = step /\ self' = h /\ idx' = 1
  /\ io' = "none" /\ buf' = None /\ result' = "none"

\* A read or write of the call of h has been made; is_running comes next.
Issued(step, h, outcome, bytes) ==
  /\ pc' = step /\ self' = h /\ idx' = 0
  /\ io' = outcome /\ buf' = bytes /\ result' = "none"

Return(r) ==
  /\ pc' = "idle" /\ self' = None /\ idx' = 0
  /\ io' = "none" /\ buf' = None /\ result' = r

\* The call of h returns an error. When hook() does so after it has moved
\* jump_address and before it has saved the bytes there, an unhook() will write
\* the bytes of another site to this one.
Fail(h, r) ==
  /\ Return(r)
  /\ exposed' = exposed \cup {s \in Sites : s = jump_address[h] /\ Mispaired(h)}
  /\ UNCHANGED <<released, stolen, abandoned>>

\* WriteProcessMemory of bytes to the code at s. It fails where no code is, and
\* may fail anywhere; then it has written nothing, or a part of the bytes. A
\* thread that meets such a part is the client's end, which may come anyway.
WriteCode(step, h, s, bytes) ==
  \/ /\ Attached /\ code[s] # None
     /\ code' = [code EXCEPT ![s] = bytes]
     /\ Issued(step, h, "ok", None)
  \/ /\ \/ UNCHANGED code
        \/ Attached /\ code[s] # None /\ code' = [code EXCEPT ![s] = h]
     /\ Issued(step, h, "failed", None)

-----------------------------------------------------------------------------
\* Faulty: the address is pushed before it is compared with null.
Alloc_PushesNull(h) ==
  /\ Idle /\ Len(allocated_addresses[h]) < MaxTracked
  /\ allocated_addresses' = [allocated_addresses EXCEPT ![h] = Append(@, None)]
  /\ Return("error")
  /\ UNCHANGED <<clientVars, handle, jump_address, jump_original_bytecode,
                 hook_address, historyVars>>

(***************************************************************************)
(* alloc(size): VirtualAllocEx, and the address is pushed on               *)
(* allocated_addresses. A failure changes nothing but the result.          *)
(***************************************************************************)
Alloc(h) ==
  /\ Idle
  /\ Len(allocated_addresses[h]) < MaxTracked
  /\ \/ \E r \in Regions \ live :
          /\ Attached
          /\ live' = live \cup {r}
          /\ data' = [data EXCEPT ![r] = h]
          /\ allocated_addresses' =
               [allocated_addresses EXCEPT ![h] = Append(@, r)]
          /\ Return("ok")
     \/ /\ Return("error")
        /\ UNCHANGED <<live, data, allocated_addresses>>
  /\ UNCHANGED <<status, code, body, filled, thread, handle, jump_address,
                 jump_original_bytecode, hook_address, historyVars>>

-----------------------------------------------------------------------------
(***************************************************************************)
(* hook(), one action for each Win32 call.                                 *)
(***************************************************************************)

(***************************************************************************)
(* get_pattern and get_jump_address. hook() names a module, so the search  *)
(* reads all regions from it on, and more than one occurrence is an error. *)
(* It passes over regions too: the one occurrence it sees may be any of    *)
(* those there are. When the search failed in VirtualQueryEx or            *)
(* ReadProcessMemory the scanner has closed the handle that every hook     *)
(* object uses. jump_address moves to the match, whatever h still has at   *)
(* other sites.                                                            *)
(***************************************************************************)
HookFound(h) ==
  /\ Idle /\ Attached
  /\ \E s \in Matches(h) :
       /\ jump_address' = [jump_address EXCEPT ![h] = s]
       /\ abandoned' = (abandoned \ {<<h, s>>})
                         \cup ({h} \X {t \in Sites : HasMarkOf(h, t)})
  /\ Goto("allocate", h)
  /\ UNCHANGED <<clientVars, handle, jump_original_bytecode, hook_address,
                 allocated_addresses, released, stolen, exposed>>

HookNotFound(h) ==
  /\ Idle
  /\ handle' \in {handle, "closed"}
  /\ Return("error")
  /\ UNCHANGED <<clientVars, fieldVars, historyVars>>

\* get_hook_address: VirtualAllocEx, without the push alloc() makes.
HookAllocate(h) ==
  /\ At("allocate") /\ self = h
  /\ \/ \E r \in Regions \ live :
          /\ Attached
          /\ live' = live \cup {r}
          /\ body' = [body EXCEPT ![r] = h]
          /\ hook_address' = [hook_address EXCEPT ![h] = r]
          /\ Goto("read", h)
          /\ UNCHANGED historyVars
     \/ /\ Fail(h, "error")
        /\ UNCHANGED <<live, body, hook_address>>
  /\ UNCHANGED <<status, code, data, filled, thread, handle, jump_address,
                 jump_original_bytecode, allocated_addresses>>

\* get_hook_bytecode and get_jump_bytecode, which may fail, then
\* ReadProcessMemory at jump_address.
HookRead(h) ==
  /\ At("read") /\ self = h
  /\ \/ LET bytes == code[jump_address[h]] IN
          /\ \/ Attached /\ bytes # None /\ Issued("read", h, "ok", bytes)
             \/ Issued("read", h, "failed", None)
          /\ UNCHANGED historyVars
     \/ Fail(h, "error")
  /\ UNCHANGED <<clientVars, handle, fieldVars>>

\* The hook's bytecode goes to hook_address first ...
HookWriteBody(h) ==
  /\ At("write_hook") /\ self = h
  /\ \/ /\ Attached /\ hook_address[h] \in live
        /\ filled' = filled \cup {hook_address[h]}
        /\ Issued("write_hook", h, "ok", None)
     \/ /\ Issued("write_hook", h, "failed", None)
        /\ UNCHANGED filled
  /\ UNCHANGED <<status, code, live, body, data, thread, handle, fieldVars,
                 historyVars>>

\* ... and the jump to it to jump_address last.
HookWriteJump(h) ==
  /\ At("write_jump") /\ self = h
  /\ WriteCode("write_jump", h, jump_address[h], hook_address[h])
  /\ UNCHANGED <<status, regionVars, thread, handle, fieldVars, historyVars>>

-----------------------------------------------------------------------------
(***************************************************************************)
(* unhook(): jump_original_bytecode goes back to jump_address, then every  *)
(* tracked address is freed in order. The vector is never cleared, and the *)
(* region of the hook's own bytecode was never in it.                      *)
(***************************************************************************)
UnhookRestore(h) ==
  /\ Idle
  /\ IF jump_original_bytecode[h] = None  \* no bytes: it may succeed or fail
     THEN /\ \/ Attached /\ Issued("restore", h, "ok", None)
             \/ Issued("restore", h, "failed", None)
          /\ UNCHANGED code
     ELSE WriteCode("restore", h, jump_address[h], jump_original_bytecode[h])
  /\ UNCHANGED <<status, regionVars, thread, handle, fieldVars, historyVars>>

\* One turn of the loop: VirtualFreeEx, and the first failure ends unhook().
UnhookFree(h) ==
  /\ At("free") /\ self = h /\ idx <= Len(allocated_addresses[h])
  /\ LET r == allocated_addresses[h][idx] IN
     IF Attached /\ r \in live
     THEN /\ live' = live \ {r}
          /\ body' = [body EXCEPT ![r] = None]
          /\ data' = [data EXCEPT ![r] = None]
          /\ filled' = filled \ {r}
          /\ idx' = idx + 1
          /\ released' = [released EXCEPT ![h] = IF idx > @ THEN idx ELSE @]
          /\ stolen' = IF idx <= released[h] THEN stolen \cup {r} ELSE stolen
          /\ UNCHANGED <<pc, self, io, buf, result, abandoned, exposed>>
     ELSE /\ Fail(h, "error")
          /\ UNCHANGED regionVars
  /\ UNCHANGED <<status, code, thread, handle, fieldVars>>

\* Faulty: the loop leaves the last address out.
UnhookDone_OffByOne(h) ==
  /\ At("free") /\ self = h /\ idx >= Len(allocated_addresses[h])
  /\ Return("ok")
  /\ UNCHANGED <<clientVars, handle, fieldVars, historyVars>>

\* Faulty: the region of the hook's bytecode is freed as well.
UnhookDone_FreesBody(h) ==
  /\ At("free") /\ self = h /\ idx > Len(allocated_addresses[h])
  /\ live' = live \ {hook_address[h]}
  /\ body' = [r \in Regions |-> IF r = hook_address[h] THEN None ELSE body[r]]
  /\ filled' = filled \ {hook_address[h]}
  /\ Return("ok")
  /\ UNCHANGED <<status, code, data, thread, handle, fieldVars, historyVars>>

UnhookDone(h) ==
  /\ At("free") /\ self = h /\ idx > Len(allocated_addresses[h])
  /\ Return("ok")
  /\ UNCHANGED <<clientVars, handle, fieldVars, historyVars>>

-----------------------------------------------------------------------------
(***************************************************************************)
(* The end of read_bytes and write_bytes: is_running is asked, and the     *)
(* caller goes on only when the result is Ok.                              *)
(***************************************************************************)
\* Faulty: a failed call is made again and again.
CheckFailed_Retries(h) ==
  /\ io # "none" /\ self = h /\ Verdict # "ok"
  /\ io' = "none"
  /\ UNCHANGED <<clientVars, handle, fieldVars, pc, self, idx, buf, result,
                 historyVars>>

CheckFailed(h) ==
  /\ io # "none" /\ self = h /\ Verdict # "ok"
  /\ Fail(h, Verdict)
  /\ UNCHANGED <<clientVars, handle, fieldVars>>

\* Faulty: the bytes found by the first hook() are kept for ever.
CheckRead_FirstOnly(h) ==
  /\ io # "none" /\ self = h /\ pc = "read" /\ Verdict = "ok"
  /\ jump_original_bytecode' =
       [jump_original_bytecode EXCEPT ![h] = IF @ = None THEN buf ELSE @]
  /\ Goto("write_hook", h)
  /\ UNCHANGED <<clientVars, handle, jump_address, hook_address,
                 allocated_addresses, historyVars>>

\* Faulty: the jump is written without the bytecode it leads to.
CheckRead_JumpFirst(h) ==
  /\ io # "none" /\ self = h /\ pc = "read" /\ Verdict = "ok"
  /\ jump_original_bytecode' = [jump_original_bytecode EXCEPT ![h] = buf]
  /\ Goto("write_jump", h)
  /\ UNCHANGED <<clientVars, handle, jump_address, hook_address,
                 allocated_addresses, historyVars>>

CheckRead(h) ==
  /\ io # "none" /\ self = h /\ pc = "read" /\ Verdict = "ok"
  /\ jump_original_bytecode' = [jump_original_bytecode EXCEPT ![h] = buf]
  /\ Goto("write_hook", h)
  /\ UNCHANGED <<clientVars, handle, jump_address, hook_address,
                 allocated_addresses, historyVars>>

CheckWrite(h) ==
  /\ io # "none" /\ self = h /\ Verdict = "ok"
  /\ \/ pc = "write_hook" /\ Goto("write_jump", h)
     \/ pc = "write_jump" /\ Return("ok")
     \/ pc = "restore" /\ Goto("free", h)
  /\ UNCHANGED <<clientVars, handle, fieldVars, historyVars>>

Hook(h) ==
  \/ HookFound(h) \/ HookNotFound(h) \/ HookAllocate(h)
  \/ HookRead(h) \/ HookWriteBody(h) \/ HookWriteJump(h)
Unhook(h) == UnhookRestore(h) \/ UnhookFree(h) \/ UnhookDone(h)
Check(h) == CheckFailed(h) \/ CheckRead(h) \/ CheckWrite(h)
ToolStep(h) == Alloc(h) \/ Hook(h) \/ Unhook(h) \/ Check(h)

-----------------------------------------------------------------------------
(***************************************************************************)
(* The client: it loads and unloads modules, uses its own memory, runs     *)
(* through the patched code, and may exit at any time.                     *)
(***************************************************************************)
toolVars == <<handle, fieldVars, callVars, historyVars>>

\* allocate() asks for PAGE_READWRITE.
PageExecutable == FALSE

\* A process that ends takes its memory with it.
ProcessEnds(exit) ==
  /\ status' = exit
  /\ code' = [s \in Sites |-> None]
  /\ live' = {} /\ filled' = {} /\ thread' = None
  /\ body' = [r \in Regions |-> None]
  /\ data' = [r \in Regions |-> None]

ClientLoads(s) ==
  /\ status = "running" /\ code[s] = None
  /\ code' = [code EXCEPT ![s] = s]
  /\ UNCHANGED <<status, regionVars, thread, toolVars>>

ClientUnloads(s) ==
  /\ status = "running" /\ code[s] # None
  /\ code' = [code EXCEPT ![s] = None]
  /\ UNCHANGED <<status, regionVars, thread, toolVars>>

ClientAllocates(r) ==
  /\ status = "running" /\ r \notin live
  /\ live' = live \cup {r}
  /\ UNCHANGED <<status, code, body, data, filled, thread, toolVars>>

\* A client thread reaches a patched site and follows the jump.
ClientEnters(s) ==
  /\ status = "running" /\ thread = None /\ code[s] \in Regions
  /\ \/ /\ DEP /\ ~PageExecutable
        /\ ProcessEnds("exit_other")
     \/ /\ PageExecutable \/ ~DEP
        /\ thread' = code[s]
        /\ UNCHANGED <<status, code, regionVars>>
  /\ UNCHANGED toolVars

ClientLeaves ==
  /\ status = "running" /\ thread # None
  /\ thread' = None
  /\ UNCHANGED <<status, code, regionVars, toolVars>>

ClientExits ==
  /\ status = "running"
  /\ \E exit \in Exits : ProcessEnds(exit)
  /\ UNCHANGED toolVars

ClientStep ==
  \/ \E s \in Sites : ClientLoads(s) \/ ClientUnloads(s) \/ ClientEnters(s)
  \/ \E r \in Regions : ClientAllocates(r)
  \/ ClientLeaves \/ ClientExits

Next == (\E h \in Hooks : ToolStep(h)) \/ ClientStep

Spec == Init /\ [][Next]_vars

\* A call that has begun is carried on: the tool is an ordinary thread.
Continue == pc # "idle" /\ \E h \in Hooks : ToolStep(h)
FairSpec == Spec /\ WF_vars(Continue)

-----------------------------------------------------------------------------
(***************************************************************************)
(* Properties.                                                             *)
(***************************************************************************)

ClientTypeOK ==
  /\ status \in {"running"} \cup Exits
  /\ code \in [Sites -> Bytes]
  /\ live \subseteq Regions /\ filled \subseteq Regions
  /\ body \in [Regions -> Hooks \cup {None}]
  /\ data \in [Regions -> Hooks \cup {None}]
  /\ thread \in Regions \cup {None}

FieldTypeOK ==
  /\ handle \in {"open", "closed"}
  /\ jump_address \in [Hooks -> Sites \cup {None}]
  /\ jump_original_bytecode \in [Hooks -> Bytes]
  /\ hook_address \in [Hooks -> Regions \cup {None}]
  /\ allocated_addresses \in [Hooks -> Seq(Regions)]

CallTypeOK ==
  /\ pc \in {"idle", "restore", "free"} \cup HookSteps
  /\ self \in Hooks \cup {None}
  /\ pc # "idle" => self \in Hooks
  /\ pc \in HookSteps => jump_address[self] \in Sites
  /\ idx \in Nat
  /\ io \in {"none", "ok", "failed"}
  /\ buf \in Bytes
  /\ result \in Results

HistoryTypeOK ==
  /\ released \in [Hooks -> Nat]
  /\ stolen \subseteq Regions
  /\ abandoned \subseteq Hooks \X Sites
  /\ exposed \subseteq Sites

\* Every variable has its type.
TypeOK == ClientTypeOK /\ FieldTypeOK /\ CallTypeOK /\ HistoryTypeOK

\* The bytes unhook() would restore are never a jump nor a part of one,
\* whichever hook objects share a site and whichever writes broke off: hook()
\* saves what it finds there after its pattern matched, and a jump that is in
\* place hides the site from every pattern.
OriginalIsCode ==
  \A h \in Hooks : jump_original_bytecode[h] \notin Regions \cup Hooks

\* hook() writes the jump last, so every jump the client can reach leads to a
\* region that is committed and holds a complete hook, at every moment of any
\* call and after any failed one. Only a region that a repeated unhook() freed
\* for the second time, whoever has it by then, is excepted.
JumpsAreReady ==
  \A s \in Sites : code[s] \in Regions => code[s] \in (live \cap filled) \cup stolen

\* A client thread inside a hook's bytecode keeps it under its feet through all
\* calls of hook() and unhook(), but for a region that a repeated unhook() freed
\* for the second time.
ThreadIsSafe == thread # None => thread \in (live \cap filled) \cup stolen

\* Every jump in the client, and every part of one that a failed write left, is
\* one its hook object can take out: unhook() would write the site's own code
\* back to that site. The exceptions are those hook() makes itself: it moved on
\* to another site and left the mark (abandoned), or failed there once with the
\* bytes of another site in hand (exposed).
Undoable ==
  \A h \in Hooks, s \in Sites :
    HasMarkOf(h, s) /\ <<h, s>> \notin abandoned /\ code[s] \notin stolen =>
      jump_address[h] = s /\ (jump_original_bytecode[h] = s \/ s \in exposed)

\* A site holds the code of another site only where a hook() has failed after
\* it moved jump_address there and before it saved the bytes: whatever else
\* unhook() restores was read from where it is written.
RestoresOwnCode ==
  \A s \in Sites : code[s] \in Sites => code[s] = s \/ s \in exposed

\* unhook() frees memory only when no jump leads to its hook any more, nor a
\* part of one is left, but for those its own hook() has moved away from.
FreesAfterRestore ==
  pc = "free" =>
    \A s \in Sites : HasMarkOf(self, s) =>
      <<self, s>> \in abandoned \/ code[s] \in stolen

\* A VirtualFreeEx of unhook() releases memory its own object got from
\* alloc(), never another object's, a hook's bytecode or the client's, unless
\* it has freed at this position before.
FreesOwnOnly ==
  [][\A r \in live \ live' :
       data[r] = self \/ r \in stolen' \/ status' # "running"]_vars

\* An unhook() that returns Ok has freed everything alloc() gave its object.
UnhookFreesAll ==
  [][pc = "free" /\ result' = "ok" => \A r \in Regions : data'[r] # self]_vars

\* Every call of hook() and unhook() returns.
CallsReturn == pc # "idle" ~> pc = "idle"

\* How many steps a call is from its end at most: hook() has a read and two
\* writes to make, each with its check, and unhook() its addresses to free.
Rank ==
  LET unchecked == IF io = "none" THEN 1 ELSE 0
      addresses == Len(allocated_addresses[self]) + 2
  IN CASE pc = "idle"       -> 0
       [] pc = "write_jump" -> 1 + unchecked
       [] pc = "write_hook" -> 3 + unchecked
       [] pc = "read"       -> 5 + unchecked
       [] pc = "allocate"   -> 7
       [] pc = "free"       -> addresses - idx
       [] pc = "restore"    -> addresses

\* No step leaves a call of hook() or unhook() as far from its end as it was:
\* whatever fails and whatever the client does, nothing is tried again.
CallsAdvance == [][pc # "idle" => Rank' < Rank \/ UNCHANGED toolVars]_vars

\* read_bytes and write_bytes report "Client must be running to perform this
\* action." only of a client that is not running.
NotRunningIsTrue == result = "not_running" => status # "running"

=============================================================================
