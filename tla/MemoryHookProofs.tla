-------------------------- MODULE MemoryHookProofs --------------------------
(***************************************************************************)
(* Proofs about MemoryHook, for any number of hook objects, sites, regions *)
(* and patterns: types, the bytes that are saved, and who owns which       *)
(* region of the client (jumps and threads stay on complete hooks, and     *)
(* unhook() frees all of its own memory and no other).                     *)
(***************************************************************************)
EXTENDS MemoryHook, TLAPS

LEMMA TypeInit == Init => TypeOK
  BY NamesAssumption
  DEF Init, TypeOK, ClientTypeOK, FieldTypeOK, CallTypeOK, HistoryTypeOK,
      Bytes, Results, Exits, HookSteps

LEMMA TypeNext == TypeOK /\ [Next]_vars => TypeOK'
<1> SUFFICES ASSUME TypeOK, [Next]_vars PROVE TypeOK'
  OBVIOUS
<1> USE NamesAssumption, ParameterAssumption
    DEF TypeOK, ClientTypeOK, FieldTypeOK, CallTypeOK, HistoryTypeOK,
        clientVars, regionVars, fieldVars, callVars, historyVars, toolVars,
        Bytes, Results, Exits, HookSteps, Idle, At, Goto, Issued,
        Return, Fail, Verdict, WriteCode, ProcessEnds
<1>1. ASSUME NEW h \in Hooks, Alloc(h) PROVE TypeOK'
  <2> DEFINE Fails == /\ Return("error")
                      /\ UNCHANGED <<live, data, allocated_addresses>>
  <2> DEFINE Gets(r) == /\ Return("ok")
                       /\ live' = live \cup {r}
                       /\ data' = [data EXCEPT ![r] = h]
                       /\ allocated_addresses' =
                            [allocated_addresses EXCEPT ![h] = Append(@, r)]
  <2>1. /\ UNCHANGED <<status, code, body, filled, thread, handle, jump_address,
                       jump_original_bytecode, hook_address, historyVars>>
        /\ Fails \/ \E r \in Regions : Gets(r)
    BY <1>1 DEF Alloc
  <2>2. CASE Fails
    BY <2>1, <2>2
  <2>3. ASSUME NEW r \in Regions, Gets(r) PROVE TypeOK'
    <3>1. ClientTypeOK'
      BY <2>1, <2>3
    <3>2. allocated_addresses' \in [Hooks -> Seq(Regions)]
      <4>1. Append(allocated_addresses[h], r) \in Seq(Regions)
        OBVIOUS
      <4> QED BY <2>3, <4>1
    <3>3. FieldTypeOK'
      BY <2>1, <3>2
    <3>4. CallTypeOK' /\ HistoryTypeOK'
      BY <2>1, <2>3
    <3> QED BY <3>1, <3>3, <3>4
  <2> QED BY <2>1, <2>2, <2>3
<1>2. ASSUME NEW h \in Hooks, HookFound(h) PROVE TypeOK'
  <2>1. ClientTypeOK'
    BY <1>2 DEF HookFound
  <2>2. FieldTypeOK'
    BY <1>2 DEF HookFound, Matches
  <2>3. CallTypeOK'
    BY <1>2 DEF HookFound, Matches
  <2>4. HistoryTypeOK'
    BY <1>2 DEF HookFound
  <2> QED BY <2>1, <2>2, <2>3, <2>4
<1>3. ASSUME NEW h \in Hooks, HookNotFound(h) PROVE TypeOK'
  <2>1. ClientTypeOK'
    BY <1>3 DEF HookNotFound
  <2>2. FieldTypeOK'
    BY <1>3 DEF HookNotFound
  <2>3. CallTypeOK'
    BY <1>3 DEF HookNotFound
  <2>4. HistoryTypeOK'
    BY <1>3 DEF HookNotFound
  <2> QED BY <2>1, <2>2, <2>3, <2>4
<1>4. ASSUME NEW h \in Hooks, HookAllocate(h) PROVE TypeOK'
  <2> DEFINE Gets(r) == /\ Goto("read", h) /\ UNCHANGED historyVars
                       /\ live' = live \cup {r}
                       /\ body' = [body EXCEPT ![r] = h]
                       /\ hook_address' = [hook_address EXCEPT ![h] = r]
  <2> DEFINE Fails == Fail(h, "error") /\ UNCHANGED <<live, body, hook_address>>
  <2>1. /\ pc = "allocate" /\ self = h
        /\ UNCHANGED <<status, code, data, filled, thread, handle, jump_address,
                       jump_original_bytecode, allocated_addresses>>
        /\ Fails \/ \E r \in Regions : Gets(r)
    BY <1>4 DEF HookAllocate
  <2>2. CASE Fails
    BY <2>1, <2>2
  <2>3. ASSUME NEW r \in Regions, Gets(r) PROVE TypeOK'
    <3>1. ClientTypeOK'
      BY <2>1, <2>3
    <3>2. FieldTypeOK'
      BY <2>1, <2>3
    <3>3. CallTypeOK' /\ HistoryTypeOK'
      BY <2>1, <2>3
    <3> QED BY <3>1, <3>2, <3>3
  <2> QED BY <2>1, <2>2, <2>3
<1>5. ASSUME NEW h \in Hooks, HookRead(h) PROVE TypeOK'
  <2>1. ClientTypeOK'
    BY <1>5 DEF HookRead
  <2>2. FieldTypeOK'
    BY <1>5 DEF HookRead
  <2>3. CallTypeOK'
    BY <1>5 DEF HookRead
  <2>4. HistoryTypeOK'
    BY <1>5 DEF HookRead
  <2> QED BY <2>1, <2>2, <2>3, <2>4
<1>6. ASSUME NEW h \in Hooks, HookWriteBody(h) PROVE TypeOK'
  <2>1. ClientTypeOK'
    BY <1>6 DEF HookWriteBody
  <2>2. FieldTypeOK'
    BY <1>6 DEF HookWriteBody
  <2>3. CallTypeOK'
    BY <1>6 DEF HookWriteBody
  <2>4. HistoryTypeOK'
    BY <1>6 DEF HookWriteBody
  <2> QED BY <2>1, <2>2, <2>3, <2>4
<1>w. ASSUME NEW h \in Hooks, NEW s \in Sites, NEW bytes \in Bytes, NEW step,
             WriteCode(step, h, s, bytes)
      PROVE  code' \in [Sites -> Bytes]
  <2>1. \/ code' = code
        \/ code' = [code EXCEPT ![s] = bytes]
        \/ code' = [code EXCEPT ![s] = h]
    BY <1>w
  <2>2. h \in Bytes /\ code \in [Sites -> Bytes]
    OBVIOUS
  <2>3. ASSUME NEW b \in Bytes, code' = [code EXCEPT ![s] = b]
        PROVE  code' \in [Sites -> Bytes]
    <3> HIDE DEF Bytes
    <3> QED BY <2>2, <2>3
  <2> HIDE DEF Bytes
  <2> QED BY <2>1, <2>2, <2>3
<1>7. ASSUME NEW h \in Hooks, HookWriteJump(h) PROVE TypeOK'
  <2>1. ClientTypeOK'
    <3>1. /\ jump_address[h] \in Sites /\ hook_address[h] \in Bytes
          /\ WriteCode("write_jump", h, jump_address[h], hook_address[h])
          /\ UNCHANGED <<status, regionVars, thread>>
      BY <1>7 DEF HookWriteJump
    <3>2. code' \in [Sites -> Bytes]
      BY <3>1, <1>w
    <3> QED BY <3>1, <3>2
  <2>2. FieldTypeOK'
    BY <1>7 DEF HookWriteJump
  <2>3. CallTypeOK'
    BY <1>7 DEF HookWriteJump
  <2>4. HistoryTypeOK'
    BY <1>7 DEF HookWriteJump
  <2> QED BY <2>1, <2>2, <2>3, <2>4
<1>8. ASSUME NEW h \in Hooks, UnhookRestore(h) PROVE TypeOK'
  <2>1. ClientTypeOK'
    <3> DEFINE s == jump_address[h]
               bytes == jump_original_bytecode[h]
    <3>1. /\ bytes \in Bytes /\ UNCHANGED <<status, regionVars, thread>>
          /\ code' = code \/ WriteCode("restore", h, s, bytes)
      BY <1>8 DEF UnhookRestore
    <3>2. CASE s \in Sites
      <4>1. code' \in [Sites -> Bytes]
        BY <3>1, <3>2, <1>w
      <4> QED BY <3>1, <4>1
    <3>3. CASE s \notin Sites
      <4>1. code' = code
        BY <3>1, <3>3
      <4> QED BY <3>1, <4>1
    <3> QED BY <3>2, <3>3
  <2>2. FieldTypeOK'
    BY <1>8 DEF UnhookRestore
  <2>3. CallTypeOK'
    BY <1>8 DEF UnhookRestore
  <2>4. HistoryTypeOK'
    BY <1>8 DEF UnhookRestore
  <2> QED BY <2>1, <2>2, <2>3, <2>4
<1>9. ASSUME NEW h \in Hooks, UnhookFree(h) PROVE TypeOK'
  <2> DEFINE r == allocated_addresses[h][idx]
  <2>a. /\ pc = "free" /\ self = h
        /\ UNCHANGED <<status, code, thread, handle, fieldVars>>
    BY <1>9 DEF UnhookFree
  <2>1. ClientTypeOK'
    <3>1. \/ UNCHANGED regionVars
          \/ /\ r \in Regions
             /\ live' = live \ {r} /\ filled' = filled \ {r}
             /\ body' = [body EXCEPT ![r] = None]
             /\ data' = [data EXCEPT ![r] = None]
      BY <1>9 DEF UnhookFree
    <3> QED BY <2>a, <3>1
  <2>2. FieldTypeOK'
    BY <2>a
  <2>3. CallTypeOK'
    BY <1>9 DEF UnhookFree
  <2>4. HistoryTypeOK'
    <3> DEFINE n == IF idx > released[h] THEN idx ELSE released[h]
    <3>1. /\ n \in Nat /\ released \in [Hooks -> Nat]
          /\ released' = released \/ released' = [released EXCEPT ![h] = n]
      BY <1>9 DEF UnhookFree
    <3>2. released' \in [Hooks -> Nat]
      <4>1. CASE UNCHANGED released
        BY <3>1, <4>1
      <4>2. CASE released' = [released EXCEPT ![h] = n]
        <5> HIDE DEF n
        <5> QED BY <3>1, <4>2
      <4> QED BY <3>1, <4>1, <4>2
    <3>3. stolen' \subseteq Regions
      <4>1. stolen' = stolen \/ (r \in live /\ stolen' = stolen \cup {r})
        BY <1>9 DEF UnhookFree
      <4> QED BY <4>1
    <3>4. abandoned' = abandoned /\ exposed' \subseteq Sites
      BY <1>9 DEF UnhookFree
    <3> QED BY <3>2, <3>3, <3>4
  <2> QED BY <2>1, <2>2, <2>3, <2>4
<1>10. ASSUME NEW h \in Hooks, UnhookDone(h) PROVE TypeOK'
  <2>1. ClientTypeOK'
    BY <1>10 DEF UnhookDone
  <2>2. FieldTypeOK'
    BY <1>10 DEF UnhookDone
  <2>3. CallTypeOK'
    BY <1>10 DEF UnhookDone
  <2>4. HistoryTypeOK'
    BY <1>10 DEF UnhookDone
  <2> QED BY <2>1, <2>2, <2>3, <2>4
<1>11. ASSUME NEW h \in Hooks, CheckFailed(h) PROVE TypeOK'
  <2>1. ClientTypeOK'
    BY <1>11 DEF CheckFailed
  <2>2. FieldTypeOK'
    BY <1>11 DEF CheckFailed
  <2>3. CallTypeOK'
    BY <1>11 DEF CheckFailed
  <2>4. HistoryTypeOK'
    BY <1>11 DEF CheckFailed
  <2> QED BY <2>1, <2>2, <2>3, <2>4
<1>12. ASSUME NEW h \in Hooks, CheckRead(h) PROVE TypeOK'
  <2>1. ClientTypeOK'
    BY <1>12 DEF CheckRead
  <2>2. FieldTypeOK'
    BY <1>12 DEF CheckRead
  <2>3. CallTypeOK'
    BY <1>12 DEF CheckRead
  <2>4. HistoryTypeOK'
    BY <1>12 DEF CheckRead
  <2> QED BY <2>1, <2>2, <2>3, <2>4
<1>13. ASSUME NEW h \in Hooks, CheckWrite(h) PROVE TypeOK'
  <2>1. ClientTypeOK'
    BY <1>13 DEF CheckWrite
  <2>2. FieldTypeOK'
    BY <1>13 DEF CheckWrite
  <2>3. CallTypeOK'
    BY <1>13 DEF CheckWrite
  <2>4. HistoryTypeOK'
    BY <1>13 DEF CheckWrite
  <2> QED BY <2>1, <2>2, <2>3, <2>4
<1>14. ASSUME NEW s \in Sites, ClientLoads(s) PROVE TypeOK'
  BY <1>14 DEF ClientLoads
<1>15. ASSUME NEW s \in Sites, ClientUnloads(s) PROVE TypeOK'
  BY <1>15 DEF ClientUnloads
<1>16. ASSUME NEW s \in Sites, ClientEnters(s) PROVE TypeOK'
  BY <1>16 DEF ClientEnters
<1>17. ASSUME NEW r \in Regions, ClientAllocates(r) PROVE TypeOK'
  BY <1>17 DEF ClientAllocates
<1>18. CASE ClientLeaves
  BY <1>18 DEF ClientLeaves
<1>19. CASE ClientExits
  BY <1>19 DEF ClientExits
<1>20. CASE UNCHANGED vars
  BY <1>20 DEF vars
<1> QED
  BY <1>1, <1>2, <1>3, <1>4, <1>5, <1>6, <1>7, <1>8, <1>9, <1>10, <1>11, <1>12, <1>13, <1>14, <1>15, <1>16, <1>17, <1>18, <1>19, <1>20
  DEF Next, ToolStep, Hook, Unhook, Check, ClientStep

\* Every variable keeps its type, for any number of hook objects, sites and
\* regions.
THEOREM TypeCorrect == Spec => []TypeOK
  BY TypeInit, TypeNext, PTL DEF Spec

-----------------------------------------------------------------------------
(***************************************************************************)
(* The bytes hook() saves. They are the bytes its pattern matched, or no   *)
(* bytes at all when the module was unloaded in between: from the match to *)
(* the read nothing but the client writes at jump_address.                 *)
(***************************************************************************)
CodeInv ==
  /\ OriginalIsCode
  /\ pc \in {"allocate", "read"} =>
       code[jump_address[self]] \notin Regions \cup Hooks
  /\ buf \notin Regions \cup Hooks

LEMMA CodeInit == Init => CodeInv
  BY NamesAssumption DEF Init, CodeInv, OriginalIsCode

LEMMA CodeNext == TypeOK /\ CodeInv /\ [Next]_vars => CodeInv'
<1> SUFFICES ASSUME TypeOK, CodeInv, [Next]_vars PROVE CodeInv'
  OBVIOUS
<1> USE NamesAssumption, ParameterAssumption
    DEF TypeOK, ClientTypeOK, FieldTypeOK, CallTypeOK, CodeInv, OriginalIsCode,
        clientVars, regionVars, fieldVars, callVars, historyVars, toolVars,
        Bytes, HookSteps, Idle, At, Goto, Issued, Return, Fail, WriteCode,
        ProcessEnds
<1>1. ASSUME NEW h \in Hooks, Alloc(h) PROVE CodeInv'
  BY <1>1 DEF Alloc
<1>2. ASSUME NEW h \in Hooks, HookFound(h) PROVE CodeInv'
  <2>1. PICK s \in Matches(h) :
          jump_address' = [jump_address EXCEPT ![h] = s]
    BY <1>2 DEF HookFound
  <2>2. code[s] \in Pattern[h] /\ Pattern[h] \subseteq Sites /\ s \in Sites
    BY <2>1 DEF Matches
  <2>3. /\ jump_address'[self'] = s /\ buf' = None
        /\ UNCHANGED <<code, jump_original_bytecode>>
    BY <1>2, <2>1 DEF HookFound
  <2> QED BY <2>2, <2>3
<1>3. ASSUME NEW h \in Hooks, HookNotFound(h) PROVE CodeInv'
  BY <1>3 DEF HookNotFound
<1>4. ASSUME NEW h \in Hooks, HookAllocate(h) PROVE CodeInv'
  BY <1>4 DEF HookAllocate
<1>5. ASSUME NEW h \in Hooks, HookRead(h) PROVE CodeInv'
  BY <1>5 DEF HookRead
<1>6. ASSUME NEW h \in Hooks, HookWriteBody(h) PROVE CodeInv'
  BY <1>6 DEF HookWriteBody
<1>7. ASSUME NEW h \in Hooks, HookWriteJump(h) PROVE CodeInv'
  BY <1>7 DEF HookWriteJump
<1>8. ASSUME NEW h \in Hooks, UnhookRestore(h) PROVE CodeInv'
  BY <1>8 DEF UnhookRestore
<1>9. ASSUME NEW h \in Hooks, UnhookFree(h) PROVE CodeInv'
  BY <1>9 DEF UnhookFree
<1>10. ASSUME NEW h \in Hooks, UnhookDone(h) PROVE CodeInv'
  BY <1>10 DEF UnhookDone
<1>11. ASSUME NEW h \in Hooks, CheckFailed(h) PROVE CodeInv'
  BY <1>11 DEF CheckFailed
<1>12. ASSUME NEW h \in Hooks, CheckRead(h) PROVE CodeInv'
  BY <1>12 DEF CheckRead
<1>13. ASSUME NEW h \in Hooks, CheckWrite(h) PROVE CodeInv'
  BY <1>13 DEF CheckWrite
<1>14. ASSUME NEW s \in Sites, ClientLoads(s) PROVE CodeInv'
  BY <1>14 DEF ClientLoads
<1>15. ASSUME NEW s \in Sites, ClientUnloads(s) PROVE CodeInv'
  BY <1>15 DEF ClientUnloads
<1>16. ASSUME NEW s \in Sites, ClientEnters(s) PROVE CodeInv'
  BY <1>16 DEF ClientEnters
<1>17. ASSUME NEW r \in Regions, ClientAllocates(r) PROVE CodeInv'
  BY <1>17 DEF ClientAllocates
<1>18. CASE ClientLeaves
  BY <1>18 DEF ClientLeaves
<1>19. CASE ClientExits
  BY <1>19 DEF ClientExits
<1>20. CASE UNCHANGED vars
  BY <1>20 DEF vars
<1> QED
  BY <1>1, <1>2, <1>3, <1>4, <1>5, <1>6, <1>7, <1>8, <1>9, <1>10, <1>11,
     <1>12, <1>13, <1>14, <1>15, <1>16, <1>17, <1>18, <1>19, <1>20
  DEF Next, ToolStep, Hook, Unhook, Check, ClientStep

\* However many hook objects share a site, and whatever the client does
\* between the Win32 calls of hook(), the bytes a hook object saves to restore
\* are never another object's jump, nor its own, nor a part of one that a
\* failed write left there.
THEOREM OriginalIsAlwaysCode == Spec => []OriginalIsCode
<1>1. CodeInv => OriginalIsCode
  BY DEF CodeInv
<1> QED
  BY <1>1, CodeInit, CodeNext, TypeCorrect, PTL DEF Spec

-----------------------------------------------------------------------------
(***************************************************************************)
(* A region has at most one owner and is committed while it has one; a     *)
(* client that has ended has no memory.                                    *)
(***************************************************************************)
RegionInv ==
  /\ filled \subseteq live
  /\ \A r \in Regions : data[r] # None => r \in live /\ body[r] = None
  /\ \A r \in Regions : body[r] # None => r \in live
  /\ status # "running" =>
       live = {} /\ thread = None /\ \A s \in Sites : code[s] = None

LEMMA RegionInit == Init => RegionInv
  BY DEF Init, RegionInv

LEMMA RegionNext == TypeOK /\ RegionInv /\ [Next]_vars => RegionInv'
<1> SUFFICES ASSUME TypeOK, RegionInv, [Next]_vars PROVE RegionInv'
  OBVIOUS
<1> USE NamesAssumption
    DEF TypeOK, ClientTypeOK, FieldTypeOK, CallTypeOK, RegionInv, Attached,
        clientVars, regionVars, fieldVars, callVars, toolVars, Exits,
        HookSteps, Idle, At, WriteCode, ProcessEnds
<1>1. ASSUME NEW h \in Hooks, Alloc(h) PROVE RegionInv'
  BY <1>1 DEF Alloc
<1>2. ASSUME NEW h \in Hooks, HookFound(h) PROVE RegionInv'
  BY <1>2 DEF HookFound
<1>3. ASSUME NEW h \in Hooks, HookNotFound(h) PROVE RegionInv'
  BY <1>3 DEF HookNotFound
<1>4. ASSUME NEW h \in Hooks, HookAllocate(h) PROVE RegionInv'
  BY <1>4 DEF HookAllocate
<1>5. ASSUME NEW h \in Hooks, HookRead(h) PROVE RegionInv'
  BY <1>5 DEF HookRead
<1>6. ASSUME NEW h \in Hooks, HookWriteBody(h) PROVE RegionInv'
  BY <1>6 DEF HookWriteBody
<1>7. ASSUME NEW h \in Hooks, HookWriteJump(h) PROVE RegionInv'
  BY <1>7 DEF HookWriteJump
<1>8. ASSUME NEW h \in Hooks, UnhookRestore(h) PROVE RegionInv'
  BY <1>8 DEF UnhookRestore
<1>9. ASSUME NEW h \in Hooks, UnhookFree(h) PROVE RegionInv'
  <2> DEFINE r == allocated_addresses[h][idx]
  <2>1. CASE Attached /\ r \in live
    <3>1. /\ r \in Regions /\ live' = live \ {r} /\ filled' = filled \ {r}
          /\ body' = [body EXCEPT ![r] = None]
          /\ data' = [data EXCEPT ![r] = None]
          /\ UNCHANGED <<status, code, thread>>
      BY <1>9, <2>1 DEF UnhookFree
    <3> QED BY <2>1, <3>1
  <2>2. CASE ~(Attached /\ r \in live)
    <3>1. UNCHANGED <<status, code, regionVars, thread>>
      BY <1>9, <2>2 DEF UnhookFree
    <3> QED BY <3>1
  <2> QED BY <2>1, <2>2
<1>10. ASSUME NEW h \in Hooks, UnhookDone(h) PROVE RegionInv'
  BY <1>10 DEF UnhookDone
<1>11. ASSUME NEW h \in Hooks, CheckFailed(h) PROVE RegionInv'
  BY <1>11 DEF CheckFailed
<1>12. ASSUME NEW h \in Hooks, CheckRead(h) PROVE RegionInv'
  BY <1>12 DEF CheckRead
<1>13. ASSUME NEW h \in Hooks, CheckWrite(h) PROVE RegionInv'
  BY <1>13 DEF CheckWrite
<1>14. ASSUME NEW s \in Sites, ClientLoads(s) PROVE RegionInv'
  BY <1>14 DEF ClientLoads
<1>15. ASSUME NEW s \in Sites, ClientUnloads(s) PROVE RegionInv'
  BY <1>15 DEF ClientUnloads
<1>16. ASSUME NEW s \in Sites, ClientEnters(s) PROVE RegionInv'
  BY <1>16 DEF ClientEnters
<1>17. ASSUME NEW r \in Regions, ClientAllocates(r) PROVE RegionInv'
  BY <1>17 DEF ClientAllocates
<1>18. CASE ClientLeaves
  BY <1>18 DEF ClientLeaves
<1>19. CASE ClientExits
  BY <1>19 DEF ClientExits
<1>20. CASE UNCHANGED vars
  BY <1>20 DEF vars
<1> QED
  BY <1>1, <1>2, <1>3, <1>4, <1>5, <1>6, <1>7, <1>8, <1>9, <1>10, <1>11,
     <1>12, <1>13, <1>14, <1>15, <1>16, <1>17, <1>18, <1>19, <1>20
  DEF Next, ToolStep, Hook, Unhook, Check, ClientStep

-----------------------------------------------------------------------------
(***************************************************************************)
(* What allocated_addresses says of the client. Without any assumption on  *)
(* the caller: every region an object has from alloc() is recorded at a    *)
(* position it has never freed, and the loop of unhook() skips none.       *)
(***************************************************************************)
TrackInv ==
  /\ \A h \in Hooks : released[h] <= Len(allocated_addresses[h])
  /\ pc = "free" =>
       /\ 1 <= idx /\ idx <= released[self] + 1
       /\ idx <= Len(allocated_addresses[self]) + 1
       /\ result = "none"
  /\ \A h \in Hooks, r \in Regions : data[r] = h =>
       \E i \in DOMAIN allocated_addresses[h] :
         i > released[h] /\ allocated_addresses[h][i] = r

LEMMA TrackInit == Init => TrackInv
  BY NamesAssumption DEF Init, TrackInv

LEMMA TrackNext == TypeOK /\ TrackInv /\ [Next]_vars => TrackInv'
<1> SUFFICES ASSUME TypeOK, TrackInv, [Next]_vars PROVE TrackInv'
  OBVIOUS
<1> USE NamesAssumption
    DEF TypeOK, ClientTypeOK, FieldTypeOK, CallTypeOK, HistoryTypeOK, TrackInv,
        clientVars, regionVars, fieldVars, callVars, historyVars, toolVars,
        HookSteps, Idle, At, Goto, Issued, Return, Fail, WriteCode,
        ProcessEnds
<1>1. ASSUME NEW h \in Hooks, Alloc(h) PROVE TrackInv'
  <2> DEFINE list == allocated_addresses[h]
             Fails == UNCHANGED <<live, data, allocated_addresses>>
             Gets(r) == /\ data' = [data EXCEPT ![r] = h]
                        /\ allocated_addresses' =
                             [allocated_addresses EXCEPT ![h] = Append(@, r)]
  <2>1. /\ pc' = "idle" /\ UNCHANGED released
        /\ Fails \/ \E r \in Regions : Gets(r)
    BY <1>1 DEF Alloc
  <2>2. CASE Fails
    BY <2>1, <2>2
  <2>3. ASSUME NEW r \in Regions, Gets(r) PROVE TrackInv'
    <3>1. /\ allocated_addresses'[h] = Append(list, r)
          /\ \A g \in Hooks \ {h} :
               allocated_addresses'[g] = allocated_addresses[g]
          /\ data'[r] = h
          /\ \A q \in Regions \ {r} : data'[q] = data[q]
      BY <2>3
    <3>2. /\ Len(Append(list, r)) = Len(list) + 1
          /\ DOMAIN Append(list, r) = 1 .. Len(list) + 1
          /\ DOMAIN list = 1 .. Len(list) /\ Len(list) \in Nat
          /\ Append(list, r)[Len(list) + 1] = r
          /\ \A i \in 1 .. Len(list) : Append(list, r)[i] = list[i]
      <4>1. list \in Seq(Regions)
        OBVIOUS
      <4> QED BY <4>1
    <3>3. \A g \in Hooks : released'[g] <= Len(allocated_addresses'[g])
      BY <2>1, <3>1, <3>2
    <3>4. ASSUME NEW g \in Hooks, NEW q \in Regions, data'[q] = g
          PROVE  \E i \in DOMAIN allocated_addresses'[g] :
                   i > released'[g] /\ allocated_addresses'[g][i] = q
      <4>1. CASE q = r
        <5>1. g = h /\ Len(list) + 1 > released'[h]
          BY <2>1, <3>1, <3>2, <3>4, <4>1
        <5> QED BY <3>1, <3>2, <4>1, <5>1
      <4>2. CASE q # r
        <5>1. PICK i \in DOMAIN allocated_addresses[g] :
                i > released[g] /\ allocated_addresses[g][i] = q
          BY <3>1, <3>4, <4>2
        <5>2. released'[g] = released[g]
          BY <2>1
        <5>3. CASE g = h
          <6>1. i \in 1 .. Len(list) /\ Append(list, r)[i] = q
            BY <3>2, <5>1, <5>3
          <6>2. i \in DOMAIN allocated_addresses'[g]
            BY <3>1, <3>2, <5>3, <6>1
          <6>3. allocated_addresses'[g][i] = q
            BY <3>1, <5>3, <6>1
          <6> QED BY <5>1, <5>2, <6>2, <6>3
        <5>4. CASE g # h
          BY <3>1, <5>1, <5>2, <5>4
        <5> QED BY <5>3, <5>4
      <4> QED BY <4>1, <4>2
    <3> QED BY <2>1, <3>3, <3>4
  <2> QED BY <2>1, <2>2, <2>3
<1>2. ASSUME NEW h \in Hooks, HookFound(h) PROVE TrackInv'
  BY <1>2 DEF HookFound
<1>3. ASSUME NEW h \in Hooks, HookNotFound(h) PROVE TrackInv'
  BY <1>3 DEF HookNotFound
<1>4. ASSUME NEW h \in Hooks, HookAllocate(h) PROVE TrackInv'
  BY <1>4 DEF HookAllocate
<1>5. ASSUME NEW h \in Hooks, HookRead(h) PROVE TrackInv'
  BY <1>5 DEF HookRead
<1>6. ASSUME NEW h \in Hooks, HookWriteBody(h) PROVE TrackInv'
  BY <1>6 DEF HookWriteBody
<1>7. ASSUME NEW h \in Hooks, HookWriteJump(h) PROVE TrackInv'
  BY <1>7 DEF HookWriteJump
<1>8. ASSUME NEW h \in Hooks, UnhookRestore(h) PROVE TrackInv'
  BY <1>8 DEF UnhookRestore
<1>9. ASSUME NEW h \in Hooks, UnhookFree(h) PROVE TrackInv'
  <2> DEFINE r == allocated_addresses[h][idx]
  <2>1. /\ pc = "free" /\ result = "none" /\ self = h
        /\ idx \in 1 .. Len(allocated_addresses[h])
        /\ Len(allocated_addresses[h]) \in Nat /\ released[h] \in Nat
        /\ idx <= released[h] + 1 /\ released[h] <= Len(allocated_addresses[h])
        /\ UNCHANGED allocated_addresses
    BY <1>9 DEF UnhookFree
  <2>2. CASE Attached /\ r \in live
    <3>1. /\ idx' = idx + 1 /\ UNCHANGED <<pc, self, result>>
          /\ data' = [data EXCEPT ![r] = None]
          /\ released' =
               [released EXCEPT ![h] = IF idx > @ THEN idx ELSE @]
      BY <1>9, <2>2 DEF UnhookFree
    <3>2. /\ released'[h] = IF idx > released[h] THEN idx ELSE released[h]
          /\ \A g \in Hooks \ {h} : released'[g] = released[g]
      BY <3>1
    <3>3. ASSUME NEW g \in Hooks
          PROVE  released'[g] <= Len(allocated_addresses'[g])
      <4>1. CASE g = h
        <5>1. released'[h] \in {idx, released[h]}
          BY <3>2
        <5> QED BY <2>1, <4>1, <5>1
      <4>2. CASE g # h
        BY <2>1, <3>2, <4>2
      <4> QED BY <4>1, <4>2
    <3>4. pc' = "free" =>
            /\ 1 <= idx' /\ idx' <= released'[self'] + 1
            /\ idx' <= Len(allocated_addresses'[self']) + 1
            /\ result' = "none"
      BY <2>1, <3>1, <3>2
    <3>5. ASSUME NEW g \in Hooks, NEW q \in Regions, data'[q] = g
          PROVE  \E i \in DOMAIN allocated_addresses'[g] :
                   i > released'[g] /\ allocated_addresses'[g][i] = q
      <4>1. q # r /\ data[q] = g
        BY <3>1, <3>5
      <4>2. PICK i \in DOMAIN allocated_addresses[g] :
              i > released[g] /\ allocated_addresses[g][i] = q
        BY <4>1
      <4>3. i > released'[g]
        <5>1. CASE g = h
          <6>1. i # idx
            BY <4>1, <4>2, <5>1
          <6>2. i \in Nat
            BY <4>2
          <6> QED BY <2>1, <3>2, <4>2, <5>1, <6>1, <6>2
        <5>2. CASE g # h
          BY <3>2, <4>2, <5>2
        <5> QED BY <5>1, <5>2
      <4> QED BY <2>1, <4>2, <4>3
    <3> QED BY <3>3, <3>4, <3>5
  <2>3. CASE ~(Attached /\ r \in live)
    <3>1. pc' = "idle" /\ UNCHANGED <<data, released, allocated_addresses>>
      BY <1>9, <2>3 DEF UnhookFree
    <3> QED BY <3>1
  <2> QED BY <2>2, <2>3
<1>10. ASSUME NEW h \in Hooks, UnhookDone(h) PROVE TrackInv'
  BY <1>10 DEF UnhookDone
<1>11. ASSUME NEW h \in Hooks, CheckFailed(h) PROVE TrackInv'
  BY <1>11 DEF CheckFailed
<1>12. ASSUME NEW h \in Hooks, CheckRead(h) PROVE TrackInv'
  BY <1>12 DEF CheckRead
<1>13. ASSUME NEW h \in Hooks, CheckWrite(h) PROVE TrackInv'
  BY <1>13 DEF CheckWrite
<1>14. ASSUME NEW s \in Sites, ClientLoads(s) PROVE TrackInv'
  BY <1>14 DEF ClientLoads
<1>15. ASSUME NEW s \in Sites, ClientUnloads(s) PROVE TrackInv'
  BY <1>15 DEF ClientUnloads
<1>16. ASSUME NEW s \in Sites, ClientEnters(s) PROVE TrackInv'
  BY <1>16 DEF ClientEnters
<1>17. ASSUME NEW r \in Regions, ClientAllocates(r) PROVE TrackInv'
  BY <1>17 DEF ClientAllocates
<1>18. CASE ClientLeaves
  BY <1>18 DEF ClientLeaves
<1>19. CASE ClientExits
  BY <1>19 DEF ClientExits
<1>20. CASE UNCHANGED vars
  BY <1>20 DEF vars
<1> QED
  BY <1>1, <1>2, <1>3, <1>4, <1>5, <1>6, <1>7, <1>8, <1>9, <1>10, <1>11,
     <1>12, <1>13, <1>14, <1>15, <1>16, <1>17, <1>18, <1>19, <1>20
  DEF Next, ToolStep, Hook, Unhook, Check, ClientStep

\* An unhook() that returns Ok has freed every region its object ever got from
\* alloc(), whatever the caller and the client did before.
THEOREM UnhookFreesEverything == Spec => UnhookFreesAll
<1> DEFINE Freed == pc = "free" /\ result' = "ok" =>
                      \A r \in Regions : data'[r] # self
<1>1. TypeOK /\ TrackInv /\ [Next]_vars => [Freed]_vars
  <2> SUFFICES ASSUME TypeOK, TrackInv, Next, pc = "free", result' = "ok"
               PROVE  \A r \in Regions : data'[r] # self
    OBVIOUS
  <2>1. \A h \in Hooks : ~(UnhookFree(h) \/ Alloc(h) \/ Check(h))
    BY DEF TrackInv, UnhookFree, Alloc, Check, CheckFailed, CheckRead,
           CheckWrite, Verdict, Idle, Goto, Return, Fail
  <2>2. \A h \in Hooks : ~(Hook(h) \/ UnhookRestore(h))
    BY DEF Hook, HookFound, HookNotFound, HookAllocate, HookRead,
           HookWriteBody, HookWriteJump, UnhookRestore, Idle, At
  <2>3. ~ClientStep
    BY DEF ClientStep, ClientLoads, ClientUnloads, ClientEnters,
           ClientAllocates, ClientLeaves, ClientExits, toolVars, callVars,
           TrackInv
  <2>4. PICK h \in Hooks : UnhookDone(h)
    BY <2>1, <2>2, <2>3 DEF Next, ToolStep, Unhook
  <2>5. self = h /\ idx > Len(allocated_addresses[h]) /\ data' = data
    BY <2>4 DEF UnhookDone, clientVars
  <2>6. /\ Len(allocated_addresses[h]) \in Nat /\ idx \in Nat
        /\ released[h] \in Nat /\ idx <= released[h] + 1
        /\ DOMAIN allocated_addresses[h] = 1 .. Len(allocated_addresses[h])
    BY <2>5 DEF TrackInv, TypeOK, FieldTypeOK, CallTypeOK, HistoryTypeOK
  <2> QED BY <2>5, <2>6 DEF TrackInv
<1>2. UnhookFreesAll <=> [][Freed]_vars
  BY DEF UnhookFreesAll
<1> QED
  BY <1>1, <1>2, TrackInit, TrackNext, TypeCorrect, PTL DEF Spec

-----------------------------------------------------------------------------
(***************************************************************************)
(* An object owns exactly the regions it has recorded and not freed, each  *)
(* of them once, but for those an unhook() freed for the second time.      *)
(***************************************************************************)
Owned(h) == {i \in DOMAIN allocated_addresses[h] : i > released[h]}

Owns(h) ==
  \A i \in Owned(h) : allocated_addresses[h][i] \notin stolen =>
    /\ data[allocated_addresses[h][i]] = h
    /\ \A j \in Owned(h) :
         allocated_addresses[h][i] = allocated_addresses[h][j] => i = j

OwnInv ==
  status = "running" => \A h \in Hooks : Owns(h)

LEMMA OwnInit == Init => OwnInv
  BY DEF Init, OwnInv, Owns, Owned

LEMMA OwnNext == TypeOK /\ RegionInv /\ TrackInv /\ OwnInv /\ [Next]_vars => OwnInv'
<1> SUFFICES ASSUME TypeOK, RegionInv, TrackInv, OwnInv, [Next]_vars PROVE OwnInv'
  OBVIOUS
<1> USE NamesAssumption
    DEF TypeOK, ClientTypeOK, FieldTypeOK, CallTypeOK, HistoryTypeOK, RegionInv,
        clientVars, regionVars, fieldVars, callVars, historyVars, toolVars,
        HookSteps, Idle, At, Goto, Issued, Return, Fail, WriteCode,
        ProcessEnds
<1>1. ASSUME NEW h \in Hooks, Alloc(h) PROVE OwnInv'
  <2> DEFINE list == allocated_addresses[h]
             Fails == UNCHANGED <<live, data, allocated_addresses>>
             Gets(r) == /\ r \notin live
                        /\ data' = [data EXCEPT ![r] = h]
                        /\ allocated_addresses' =
                             [allocated_addresses EXCEPT ![h] = Append(@, r)]
  <2>1. /\ UNCHANGED <<status, released, stolen>>
        /\ Fails \/ \E r \in Regions : Gets(r)
    BY <1>1 DEF Alloc
  <2>2. CASE Fails
    BY <2>1, <2>2 DEF OwnInv, Owns, Owned
  <2>3. ASSUME NEW r \in Regions, Gets(r), status = "running"
        PROVE  \A g \in Hooks : Owns(g)'
    <3>1. /\ allocated_addresses'[h] = Append(list, r)
          /\ \A g \in Hooks \ {h} :
               allocated_addresses'[g] = allocated_addresses[g]
          /\ data'[r] = h /\ data[r] = None
          /\ \A q \in Regions \ {r} : data'[q] = data[q]
      BY <2>3
    <3>2. /\ DOMAIN Append(list, r) = 1 .. Len(list) + 1
          /\ DOMAIN list = 1 .. Len(list) /\ Len(list) \in Nat
          /\ Append(list, r)[Len(list) + 1] = r
          /\ \A i \in 1 .. Len(list) : Append(list, r)[i] = list[i]
      <4>1. list \in Seq(Regions)
        OBVIOUS
      <4> QED BY <4>1
    <3>3. \A g \in Hooks : Owns(g)
      BY <2>3 DEF OwnInv
    <3>4. \A g \in Hooks : \A i \in Owned(g) :
            /\ allocated_addresses[g][i] \in Regions
            /\ allocated_addresses[g][i] \notin stolen =>
                 /\ allocated_addresses[g][i] # r
                 /\ data'[allocated_addresses[g][i]] = g
      BY <3>1, <3>3 DEF Owned, Owns
    <3>5. ASSUME NEW g \in Hooks PROVE Owns(g)'
      <4>1. CASE g = h
        <5>1. Owned(h)' \subseteq Owned(h) \cup {Len(list) + 1}
          BY <2>1, <3>1, <3>2 DEF Owned
        <5>2. \A i \in Owned(h) :
                /\ allocated_addresses'[h][i] = allocated_addresses[h][i]
                /\ allocated_addresses[h][i] \notin stolen =>
                     /\ allocated_addresses[h][i] # r
                     /\ data'[allocated_addresses[h][i]] = h
          BY <3>1, <3>2, <3>4 DEF Owned
        <5>3. allocated_addresses'[h][Len(list) + 1] = r
          BY <3>1, <3>2
        <5>4. \A i, j \in Owned(h) :
                /\ allocated_addresses[h][i] \notin stolen
                /\ allocated_addresses[h][i] = allocated_addresses[h][j]
                => i = j
          BY <3>3 DEF Owns
        <5>5. ASSUME NEW i \in Owned(h)', NEW j \in Owned(h)',
                     allocated_addresses'[h][i] \notin stolen
              PROVE  /\ data'[allocated_addresses'[h][i]] = h
                     /\ allocated_addresses'[h][i] = allocated_addresses'[h][j]
                          => i = j
          <6> DEFINE new == Len(list) + 1
          <6>1. i \in Owned(h) \/ i = new
            BY <5>1
          <6>2. j \in Owned(h) \/ j = new
            BY <5>1
          <6>3. allocated_addresses'[h][new] = r
            BY <5>3
          <6> HIDE DEF new, list
          <6>4. CASE i \in Owned(h) /\ j \in Owned(h)
            BY <5>5, <5>2, <5>4, <6>4
          <6>5. CASE i \in Owned(h) /\ j = new
            BY <5>5, <5>2, <6>3, <6>5
          <6>6. CASE i = new /\ j \in Owned(h)
            BY <5>5, <3>1, <5>2, <6>3, <6>6
          <6>7. CASE i = new /\ j = new
            BY <5>5, <3>1, <6>3, <6>7
          <6> QED BY <6>1, <6>2, <6>4, <6>5, <6>6, <6>7
        <5> QED BY <2>1, <4>1, <5>5 DEF Owns
      <4>2. CASE g # h
        <5>1. Owned(g)' = Owned(g)
          BY <2>1, <3>1, <4>2 DEF Owned
        <5> QED BY <2>1, <3>1, <3>3, <3>4, <4>2, <5>1 DEF Owns
      <4> QED BY <4>1, <4>2
    <3> QED BY <3>5
  <2> QED BY <2>1, <2>2, <2>3 DEF OwnInv
<1>2. ASSUME NEW h \in Hooks, HookFound(h) PROVE OwnInv'
  BY <1>2 DEF HookFound, OwnInv, Owned, Owns
<1>3. ASSUME NEW h \in Hooks, HookNotFound(h) PROVE OwnInv'
  BY <1>3 DEF HookNotFound, OwnInv, Owned, Owns
<1>4. ASSUME NEW h \in Hooks, HookAllocate(h) PROVE OwnInv'
  BY <1>4 DEF HookAllocate, OwnInv, Owned, Owns
<1>5. ASSUME NEW h \in Hooks, HookRead(h) PROVE OwnInv'
  BY <1>5 DEF HookRead, OwnInv, Owned, Owns
<1>6. ASSUME NEW h \in Hooks, HookWriteBody(h) PROVE OwnInv'
  BY <1>6 DEF HookWriteBody, OwnInv, Owned, Owns
<1>7. ASSUME NEW h \in Hooks, HookWriteJump(h) PROVE OwnInv'
  BY <1>7 DEF HookWriteJump, OwnInv, Owned, Owns
<1>8. ASSUME NEW h \in Hooks, UnhookRestore(h) PROVE OwnInv'
  BY <1>8 DEF UnhookRestore, OwnInv, Owned, Owns
<1>9. ASSUME NEW h \in Hooks, UnhookFree(h) PROVE OwnInv'
  <2> DEFINE r == allocated_addresses[h][idx]
  <2>1. /\ pc = "free" /\ self = h /\ idx \in 1 .. Len(allocated_addresses[h])
        /\ DOMAIN allocated_addresses[h] = 1 .. Len(allocated_addresses[h])
        /\ Len(allocated_addresses[h]) \in Nat /\ released[h] \in Nat
        /\ idx <= released[h] + 1
        /\ UNCHANGED <<status, allocated_addresses>>
    BY <1>9 DEF UnhookFree, TrackInv
  <2>2. CASE Attached /\ r \in live
    <3>1. /\ data' = [data EXCEPT ![r] = None]
          /\ released' =
               [released EXCEPT ![h] = IF idx > @ THEN idx ELSE @]
          /\ stolen' = IF idx <= released[h] THEN stolen \cup {r} ELSE stolen
      BY <1>9, <2>2 DEF UnhookFree
    <3> SUFFICES ASSUME status = "running", NEW g \in Hooks PROVE Owns(g)'
      BY <2>1 DEF OwnInv
    <3>2. Owns(g) /\ Owns(h)
      BY DEF OwnInv
    <3>3. CASE idx <= released[h]
      <4>1. UNCHANGED released
        BY <2>1, <3>1, <3>3
      <4>2. Owned(g)' = Owned(g) /\ stolen' = stolen \cup {r}
        BY <2>1, <3>1, <3>3, <4>1 DEF Owned
      <4>3. \A i \in Owned(g) : allocated_addresses[g][i] \in Regions
        BY DEF Owned
      <4> QED BY <2>1, <3>1, <3>2, <4>2, <4>3 DEF Owns
    <3>4. CASE idx > released[h]
      <4>1. idx \in Owned(h) /\ stolen' = stolen
        BY <2>1, <3>1, <3>4 DEF Owned
      <4>2. Owned(g)' = IF g = h THEN Owned(h) \ {idx} ELSE Owned(g)
        BY <2>1, <3>1, <3>4 DEF Owned
      <4>3. ASSUME NEW i \in Owned(g)', allocated_addresses[g][i] \notin stolen
            PROVE  /\ i \in Owned(g)
                   /\ allocated_addresses[g][i] # r
        BY <3>2, <4>1, <4>2, <4>3 DEF Owns
      <4>4. \A i \in Owned(g)' : allocated_addresses[g][i] \in Regions
        BY <4>2 DEF Owned
      <4>5. Owned(g)' \subseteq Owned(g)
        BY <4>2
      <4> QED BY <2>1, <3>1, <3>2, <4>1, <4>3, <4>4, <4>5 DEF Owns
    <3> QED BY <2>1, <3>3, <3>4
  <2>3. CASE ~(Attached /\ r \in live)
    <3>1. UNCHANGED <<data, released, stolen>>
      BY <1>9, <2>3 DEF UnhookFree
    <3> QED BY <2>1, <3>1 DEF OwnInv, Owns, Owned
  <2> QED BY <2>2, <2>3
<1>10. ASSUME NEW h \in Hooks, UnhookDone(h) PROVE OwnInv'
  BY <1>10 DEF UnhookDone, OwnInv, Owned, Owns
<1>11. ASSUME NEW h \in Hooks, CheckFailed(h) PROVE OwnInv'
  BY <1>11 DEF CheckFailed, OwnInv, Owned, Owns
<1>12. ASSUME NEW h \in Hooks, CheckRead(h) PROVE OwnInv'
  BY <1>12 DEF CheckRead, OwnInv, Owned, Owns
<1>13. ASSUME NEW h \in Hooks, CheckWrite(h) PROVE OwnInv'
  BY <1>13 DEF CheckWrite, OwnInv, Owned, Owns
<1>14. ASSUME NEW s \in Sites, ClientLoads(s) PROVE OwnInv'
  BY <1>14 DEF ClientLoads, OwnInv, Owned, Owns
<1>15. ASSUME NEW s \in Sites, ClientUnloads(s) PROVE OwnInv'
  BY <1>15 DEF ClientUnloads, OwnInv, Owned, Owns
<1>16. ASSUME NEW s \in Sites, ClientEnters(s) PROVE OwnInv'
  BY <1>16 DEF ClientEnters, OwnInv, Owned, Owns
<1>17. ASSUME NEW r \in Regions, ClientAllocates(r) PROVE OwnInv'
  BY <1>17 DEF ClientAllocates, OwnInv, Owned, Owns
<1>18. CASE ClientLeaves
  BY <1>18 DEF ClientLeaves, OwnInv, Owned, Owns
<1>19. CASE ClientExits
  BY <1>19 DEF ClientExits, Exits, OwnInv, Owned, Owns
<1>20. CASE UNCHANGED vars
  BY <1>20 DEF vars, OwnInv, Owned, Owns
<1> QED
  BY <1>1, <1>2, <1>3, <1>4, <1>5, <1>6, <1>7, <1>8, <1>9, <1>10, <1>11,
     <1>12, <1>13, <1>14, <1>15, <1>16, <1>17, <1>18, <1>19, <1>20
  DEF Next, ToolStep, Hook, Unhook, Check, ClientStep

\* What an unhook() is about to free is its object's own, unless it has freed
\* at this position before.
LEMMA FreesOwned ==
  ASSUME TypeOK, TrackInv, OwnInv, NEW h \in Hooks, UnhookFree(h), Attached,
         allocated_addresses[h][idx] \in live,
         allocated_addresses[h][idx] \notin stolen'
  PROVE  data[allocated_addresses[h][idx]] = h
<1>1. /\ idx \in 1 .. Len(allocated_addresses[h]) /\ idx > released[h]
      /\ allocated_addresses[h][idx] \notin stolen
  BY DEF UnhookFree, TrackInv, TypeOK, FieldTypeOK, CallTypeOK, HistoryTypeOK, At
<1>2. idx \in Owned(h)
  BY <1>1 DEF Owned, TypeOK, FieldTypeOK
<1>3. Owns(h)
  BY DEF OwnInv, Attached
<1> QED
  BY <1>1, <1>2, <1>3 DEF Owns

\* A step of the tool releases a region only when the object whose unhook() is
\* running got it from alloc(), unless an address is freed a second time.
THEOREM FreesOnlyOwn == Spec => FreesOwnOnly
<1> DEFINE Own == \A r \in live \ live' :
                    data[r] = self \/ r \in stolen' \/ status' # "running"
<1>1. TypeOK /\ TrackInv /\ OwnInv /\ [Next]_vars => [Own]_vars
  <2> SUFFICES ASSUME TypeOK, TrackInv, OwnInv, Next PROVE Own
    OBVIOUS
  <2>1. CASE ClientStep
    BY <2>1 DEF ClientStep, ClientLoads, ClientUnloads, ClientEnters,
                ClientAllocates, ClientLeaves, ClientExits, ProcessEnds,
                regionVars, Exits
  <2>2. ASSUME NEW h \in Hooks, UnhookFree(h) PROVE Own
    <3>1. CASE Attached /\ allocated_addresses[h][idx] \in live
      <4>1. self = h /\ live' = live \ {allocated_addresses[h][idx]}
        BY <2>2, <3>1 DEF UnhookFree
      <4> QED BY <2>2, <3>1, <4>1, FreesOwned
    <3>2. CASE ~(Attached /\ allocated_addresses[h][idx] \in live)
      <4>1. live' = live
        BY <2>2, <3>2 DEF UnhookFree, regionVars
      <4> QED BY <4>1
    <3> QED BY <3>1, <3>2
  <2>3. ASSUME NEW h \in Hooks, ToolStep(h), ~UnhookFree(h)
        PROVE  live \subseteq live'
    BY <2>3 DEF ToolStep, Alloc, Hook, HookFound, HookNotFound, HookAllocate,
                HookRead, HookWriteBody, HookWriteJump, Unhook, UnhookRestore,
                UnhookDone, Check, CheckFailed, CheckRead, CheckWrite,
                clientVars, regionVars
  <2> QED BY <2>1, <2>2, <2>3 DEF Next
<1>2. FreesOwnOnly <=> [][Own]_vars
  BY DEF FreesOwnOnly
<1> QED
  BY <1>1, <1>2, RegionInit, RegionNext, TrackInit, TrackNext, OwnInit, OwnNext,
     TypeCorrect, PTL DEF Spec

-----------------------------------------------------------------------------
(***************************************************************************)
(* A region that a jump or a thread may lead to: complete, and the         *)
(* bytecode of a hook, which no alloc() ever returned and so no unhook()   *)
(* frees but at a position it has freed before. hook() has one in hand     *)
(* from its allocation on, and has filled it when it comes to write the    *)
(* jump.                                                                   *)
(***************************************************************************)
Ready(r) == r \in filled /\ body[r] # None

ReadyInv ==
  status = "running" =>
    /\ \A s \in Sites : code[s] \in Regions \ stolen => Ready(code[s])
    /\ thread \notin stolen \cup {None} => Ready(thread)
    /\ pc \in {"read", "write_hook", "write_jump"} =>
         /\ hook_address[self] \in Regions
         /\ body[hook_address[self]] = self \/ hook_address[self] \in stolen
    /\ pc = "write_jump" \/ (pc = "write_hook" /\ io = "ok") =>
         hook_address[self] \in filled \cup stolen

LEMMA ReadyInit == Init => ReadyInv
  BY NamesAssumption DEF Init, ReadyInv, Ready

LEMMA ReadyNext ==
  TypeOK /\ CodeInv /\ RegionInv /\ TrackInv /\ OwnInv /\ ReadyInv /\ [Next]_vars
    => ReadyInv'
<1> SUFFICES ASSUME TypeOK, CodeInv, RegionInv, TrackInv, OwnInv, ReadyInv,
                    [Next]_vars
             PROVE  ReadyInv'
  OBVIOUS
<1> USE NamesAssumption
    DEF TypeOK, ClientTypeOK, FieldTypeOK, CallTypeOK, HistoryTypeOK, RegionInv,
        clientVars, regionVars, fieldVars, callVars, historyVars, toolVars,
        HookSteps, Idle, At, Goto, Issued, Return, Fail, WriteCode,
        ProcessEnds, Verdict, Attached
<1>1. ASSUME NEW h \in Hooks, Alloc(h) PROVE ReadyInv'
  BY <1>1 DEF Alloc, ReadyInv, Ready
<1>2. ASSUME NEW h \in Hooks, HookFound(h) PROVE ReadyInv'
  BY <1>2 DEF HookFound, ReadyInv, Ready
<1>3. ASSUME NEW h \in Hooks, HookNotFound(h) PROVE ReadyInv'
  BY <1>3 DEF HookNotFound, ReadyInv, Ready
<1>4. ASSUME NEW h \in Hooks, HookAllocate(h) PROVE ReadyInv'
  BY <1>4 DEF HookAllocate, ReadyInv, Ready
<1>5. ASSUME NEW h \in Hooks, HookRead(h) PROVE ReadyInv'
  BY <1>5 DEF HookRead, ReadyInv, Ready
<1>6. ASSUME NEW h \in Hooks, HookWriteBody(h) PROVE ReadyInv'
  BY <1>6 DEF HookWriteBody, ReadyInv, Ready
<1>7. ASSUME NEW h \in Hooks, HookWriteJump(h) PROVE ReadyInv'
  <2>1. /\ pc = "write_jump" /\ self = h /\ pc' = pc /\ self' = self
        /\ \/ code' = code
           \/ code' = [code EXCEPT ![jump_address[h]] = hook_address[h]]
           \/ code' = [code EXCEPT ![jump_address[h]] = h]
        /\ UNCHANGED <<status, regionVars, thread, handle, fieldVars, stolen>>
    BY <1>7 DEF HookWriteJump
  <2> SUFFICES ASSUME status = "running" PROVE ReadyInv'
    BY <2>1 DEF ReadyInv
  <2>2. hook_address[h] \in stolen \/ Ready(hook_address[h])
    BY <2>1 DEF ReadyInv, Ready
  <2>3. ASSUME NEW s \in Sites, code'[s] \in Regions \ stolen
        PROVE  Ready(code'[s])
    <3>1. code'[s] \in {code[s], hook_address[h]}
      BY <2>1, <2>3
    <3> QED BY <2>2, <2>3, <3>1 DEF ReadyInv
  <2>4. /\ thread \notin stolen \cup {None} => Ready(thread)
        /\ hook_address[self] \in Regions
        /\ body[hook_address[self]] = self \/ hook_address[self] \in stolen
        /\ hook_address[self] \in filled \cup stolen
    BY <2>1 DEF ReadyInv
  <2> QED BY <2>1, <2>3, <2>4 DEF ReadyInv, Ready
<1>8. ASSUME NEW h \in Hooks, UnhookRestore(h) PROVE ReadyInv'
  <2>1. /\ pc' = "restore"
        /\ UNCHANGED <<status, thread, regionVars, hook_address, stolen>>
    BY <1>8 DEF UnhookRestore
  <2>2. \A s \in Sites : code'[s] \in Regions => code'[s] = code[s]
    BY <1>8 DEF UnhookRestore, CodeInv, OriginalIsCode
  <2> QED BY <2>1, <2>2 DEF ReadyInv, Ready
<1>9. ASSUME NEW h \in Hooks, UnhookFree(h) PROVE ReadyInv'
  <2> DEFINE r == allocated_addresses[h][idx]
  <2>1. /\ pc = "free" /\ pc' \in {"free", "idle"} /\ stolen \subseteq stolen'
        /\ UNCHANGED <<status, code, thread>>
    BY <1>9 DEF UnhookFree
  <2>2. CASE Attached /\ r \in live
    <3> SUFFICES ASSUME status = "running" PROVE ReadyInv'
      BY <2>1 DEF ReadyInv
    <3>1. /\ filled' = filled \ {r}
          /\ body' = [body EXCEPT ![r] = None]
      BY <1>9, <2>2 DEF UnhookFree
    <3>2. r \in Regions /\ (r \notin stolen' => body[r] = None)
      BY <1>9, <2>2, FreesOwned DEF RegionInv
    <3>3. \A q \in Regions \ stolen' : Ready(q) => Ready(q)'
      BY <3>1, <3>2 DEF Ready
    <3> QED BY <2>1, <3>3 DEF ReadyInv
  <2>3. CASE ~(Attached /\ r \in live)
    <3>1. UNCHANGED regionVars
      BY <1>9, <2>3 DEF UnhookFree
    <3> QED BY <2>1, <3>1 DEF ReadyInv, Ready
  <2> QED BY <2>2, <2>3
<1>10. ASSUME NEW h \in Hooks, UnhookDone(h) PROVE ReadyInv'
  BY <1>10 DEF UnhookDone, ReadyInv, Ready
<1>11. ASSUME NEW h \in Hooks, CheckFailed(h) PROVE ReadyInv'
  BY <1>11 DEF CheckFailed, ReadyInv, Ready
<1>12. ASSUME NEW h \in Hooks, CheckRead(h) PROVE ReadyInv'
  BY <1>12 DEF CheckRead, ReadyInv, Ready
<1>13. ASSUME NEW h \in Hooks, CheckWrite(h) PROVE ReadyInv'
  BY <1>13 DEF CheckWrite, ReadyInv, Ready
<1>14. ASSUME NEW s \in Sites, ClientLoads(s) PROVE ReadyInv'
  BY <1>14 DEF ClientLoads, ReadyInv, Ready
<1>15. ASSUME NEW s \in Sites, ClientUnloads(s) PROVE ReadyInv'
  BY <1>15 DEF ClientUnloads, ReadyInv, Ready
<1>16. ASSUME NEW s \in Sites, ClientEnters(s) PROVE ReadyInv'
  BY <1>16 DEF ClientEnters, ReadyInv, Ready
<1>17. ASSUME NEW r \in Regions, ClientAllocates(r) PROVE ReadyInv'
  BY <1>17 DEF ClientAllocates, ReadyInv, Ready
<1>18. CASE ClientLeaves
  BY <1>18 DEF ClientLeaves, ReadyInv, Ready
<1>19. CASE ClientExits
  BY <1>19 DEF ClientExits, Exits, ReadyInv
<1>20. CASE UNCHANGED vars
  BY <1>20 DEF vars, ReadyInv, Ready
<1> QED
  BY <1>1, <1>2, <1>3, <1>4, <1>5, <1>6, <1>7, <1>8, <1>9, <1>10, <1>11,
     <1>12, <1>13, <1>14, <1>15, <1>16, <1>17, <1>18, <1>19, <1>20
  DEF Next, ToolStep, Hook, Unhook, Check, ClientStep

\* Everything a jump or a thread is at is a complete hook that nobody frees, or
\* a region freed for the second time.
THEOREM ReadyCorrect == Spec => [](RegionInv /\ ReadyInv)
  BY CodeInit, CodeNext, RegionInit, RegionNext, TrackInit, TrackNext, OwnInit,
     OwnNext, ReadyInit, ReadyNext, TypeCorrect, PTL DEF Spec

\* Every jump in a running client leads to a committed region that holds the
\* complete bytecode of a hook, at every moment of every call, or into a region
\* that an unhook() has freed for the second time.
THEOREM JumpsAreAlwaysReady == Spec => []JumpsAreReady
<1>1. RegionInv /\ ReadyInv /\ TypeOK => JumpsAreReady
  BY NamesAssumption
  DEF RegionInv, ReadyInv, Ready, JumpsAreReady, TypeOK, ClientTypeOK
<1> QED
  BY <1>1, ReadyCorrect, TypeCorrect, PTL

\* A thread of the client that runs a hook's bytecode keeps it through every
\* step but a second free: the only VirtualFreeEx that can take it away is that
\* of an unhook() at a position it has freed before.
THEOREM ThreadIsAlwaysSafe == Spec => []ThreadIsSafe
<1>1. RegionInv /\ ReadyInv => ThreadIsSafe
  BY DEF RegionInv, ReadyInv, Ready, ThreadIsSafe
<1> QED
  BY <1>1, ReadyCorrect, PTL

-----------------------------------------------------------------------------
(***************************************************************************)
(* The two halves of CallsReturn that need no fairness: a step always      *)
(* brings a call nearer to its end, and a call that has not ended always   *)
(* has a step to make. A read or write waits for its check, everything     *)
(* else for its Win32 call.                                                *)
(***************************************************************************)
PendingInv ==
  IF io = "none" THEN pc # "restore"
  ELSE pc \in {"read", "write_hook", "write_jump", "restore"}

LEMMA PendingNext == PendingInv /\ [Next]_vars => PendingInv'
  BY DEF PendingInv, Next, ToolStep, Alloc, Hook, HookFound, HookNotFound,
         HookAllocate, HookRead, HookWriteBody, HookWriteJump, Unhook,
         UnhookRestore, UnhookFree, UnhookDone, Check, CheckFailed, CheckRead,
         CheckWrite, Idle, At, Goto, Issued, Return, Fail, WriteCode, ClientStep,
         ClientLoads, ClientUnloads, ClientEnters, ClientAllocates,
         ClientLeaves, ClientExits, toolVars, callVars, vars

\* No call of hook() or unhook() is ever left without a step to make, whatever
\* its Win32 calls returned.
THEOREM CallsNeverStick ==
  Spec => [](pc # "idle" =>
               \/ io = "none" /\ pc \in {"free"} \cup HookSteps
               \/ io # "none" /\ Verdict # "ok"
               \/ io # "none" /\ pc \in {"read", "write_hook", "write_jump",
                                        "restore"})
<1>1. Init => PendingInv
  BY DEF Init, PendingInv
<1>2. TypeOK /\ PendingInv =>
        (pc # "idle" =>
           \/ io = "none" /\ pc \in {"free"} \cup HookSteps
           \/ io # "none" /\ Verdict # "ok"
           \/ io # "none" /\ pc \in {"read", "write_hook", "write_jump",
                                    "restore"})
  BY DEF TypeOK, CallTypeOK, PendingInv
<1> QED BY <1>1, <1>2, PendingNext, TypeCorrect, PTL DEF Spec

\* Each step of hook() and unhook() brings the call nearer to its end, however
\* many addresses there are to free.
THEOREM CallsAlwaysAdvance == Spec => CallsAdvance
<1>1. ASSUME TypeOK, TrackInv, PendingInv, [Next]_vars
      PROVE  [pc # "idle" => Rank' < Rank \/ UNCHANGED toolVars]_vars
  <2> SUFFICES ASSUME pc # "idle", Next
               PROVE  Rank' < Rank \/ UNCHANGED toolVars
    BY <1>1
  <2> DEFINE n == Len(allocated_addresses[self])
  <2>1. /\ self \in Hooks /\ n \in Nat /\ idx \in Nat
        /\ pc = "free" => idx <= n + 1
    BY <1>1 DEF TypeOK, CallTypeOK, FieldTypeOK, TrackInv
  <2>2. Rank \in Nat /\ Rank > 0
    <3> HIDE DEF n
    <3> QED BY <1>1, <2>1 DEF Rank, n, TypeOK, CallTypeOK, HookSteps
  <2>3. ASSUME pc' = "idle" PROVE Rank' < Rank
    BY <2>2, <2>3 DEF Rank
  <2>4. ASSUME NEW h \in Hooks, HookAllocate(h) PROVE Rank' < Rank
    BY <2>3, <2>4 DEF HookAllocate, At, Goto, Fail, Return, Rank
  <2>5. ASSUME NEW h \in Hooks, HookRead(h) PROVE Rank' < Rank
    BY <2>3, <2>5 DEF HookRead, At, Issued, Fail, Return, Rank
  <2>6. ASSUME NEW h \in Hooks, HookWriteBody(h) PROVE Rank' < Rank
    BY <2>6 DEF HookWriteBody, At, Issued, Rank
  <2>7. ASSUME NEW h \in Hooks, HookWriteJump(h) PROVE Rank' < Rank
    BY <2>7 DEF HookWriteJump, WriteCode, At, Issued, Rank
  <2>8. ASSUME NEW h \in Hooks, UnhookFree(h) PROVE Rank' < Rank
    <3>1. \/ /\ pc = "free" /\ pc' = pc /\ idx' = idx + 1 /\ self' = self
             /\ UNCHANGED allocated_addresses
          \/ pc' = "idle"
      BY <2>8 DEF UnhookFree, At, Fail, Return, fieldVars
    <3>2. CASE pc' = "free"
      <4>1. /\ pc = "free" /\ idx' = idx + 1 /\ self' = self
            /\ allocated_addresses' = allocated_addresses
        BY <3>1, <3>2
      <4>2. Rank = n + 2 - idx
        BY <2>1, <4>1 DEF Rank
      <4>3. Rank' = n' + 2 - idx'
        BY <2>1, <3>2, <4>1 DEF Rank
      <4>4. n' = n
        BY <4>1
      <4> HIDE DEF n
      <4> QED BY <2>1, <4>1, <4>2, <4>3, <4>4
    <3> QED BY <2>3, <3>1, <3>2
  <2>9. ASSUME NEW h \in Hooks, UnhookDone(h) \/ CheckFailed(h)
        PROVE  Rank' < Rank
    <3>1. pc' = "idle"
      BY <2>9 DEF UnhookDone, CheckFailed, Fail, Return
    <3> QED BY <2>3, <3>1
  <2>10. ASSUME NEW h \in Hooks, CheckRead(h) PROVE Rank' < Rank
    BY <2>10 DEF CheckRead, Goto, Rank
  <2>11. ASSUME NEW h \in Hooks, CheckWrite(h) PROVE Rank' < Rank
    <3>1. CASE pc = "write_hook"
      BY <2>11, <3>1 DEF CheckWrite, Goto, Rank
    <3>2. CASE pc' = "idle"
      BY <2>3, <3>2
    <3>3. CASE pc = "restore" /\ pc' = "free"
      <4>1. /\ self = h /\ self' = self /\ idx' = 1
            /\ UNCHANGED allocated_addresses
        BY <2>11, <3>3 DEF CheckWrite, Goto, fieldVars
      <4> QED BY <2>1, <3>3, <4>1 DEF Rank
    <3> QED BY <2>11, <3>1, <3>2, <3>3 DEF CheckWrite, Goto, Return
  <2>12. ASSUME NEW h \in Hooks,
                Alloc(h) \/ HookFound(h) \/ HookNotFound(h) \/ UnhookRestore(h)
         PROVE  FALSE
    BY <2>12 DEF Alloc, HookFound, HookNotFound, UnhookRestore, Idle
  <2>13. CASE ClientStep
    BY <2>13 DEF ClientStep, ClientLoads, ClientUnloads, ClientEnters,
                 ClientAllocates, ClientLeaves, ClientExits
  <2> QED
    BY <2>4, <2>5, <2>6, <2>7, <2>8, <2>9, <2>10, <2>11, <2>12, <2>13
    DEF Next, ToolStep, Hook, Unhook, Check
<1>2. Init => PendingInv
  BY DEF Init, PendingInv
<1> QED
  BY <1>1, <1>2, PendingNext, TypeCorrect, TrackInit, TrackNext, PTL
  DEF Spec, CallsAdvance
=============================================================================
