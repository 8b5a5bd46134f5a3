----------------------- MODULE MemoryHookDetourProofs -----------------------
(***************************************************************************)
(* The code of the client: proofs that the bytes unhook() restores belong  *)
(* where it writes them, that every jump can be taken out, that memory is  *)
(* freed only when its jump is gone, and that the steps of MemoryHook so   *)
(* implement Detour, for any number of hook objects, sites and regions.    *)
(***************************************************************************)
EXTENDS MemoryHookProofs, MemoryHookDetour

(***************************************************************************)
(* jump_original_bytecode and jump_address of an object fit together but   *)
(* in hook(), after the scan has moved the one and before the read renews  *)
(* the other, and at a site where a hook() failed just there.              *)
(***************************************************************************)
PairInv ==
  /\ RestoresOwnCode
  /\ \A h \in Hooks : Mispaired(h) =>
       \/ self = h /\ pc \in {"allocate", "read"}
       \/ jump_address[h] \in exposed
  /\ pc = "read" =>
       buf \in {None, jump_address[self]} \/ jump_address[self] \in exposed

LEMMA PairInit == Init => PairInv
  BY NamesAssumption DEF Init, PairInv, RestoresOwnCode, Mispaired

LEMMA PairNext == TypeOK /\ CodeInv /\ PairInv /\ [Next]_vars => PairInv'
<1> SUFFICES ASSUME TypeOK, CodeInv, PairInv,
                    [Next]_vars
             PROVE  PairInv'
  OBVIOUS
<1> USE NamesAssumption
    DEF TypeOK, ClientTypeOK, FieldTypeOK, CallTypeOK, HistoryTypeOK, clientVars, regionVars,
        fieldVars, callVars, historyVars, toolVars, Bytes, HookSteps, Idle, At,
        Goto, Issued, Return, Fail, WriteCode, ProcessEnds, Attached,
        PairInv, RestoresOwnCode, Mispaired
<1>1. ASSUME NEW h \in Hooks, Alloc(h) PROVE PairInv'
  BY <1>1 DEF Alloc
<1>2. ASSUME NEW h \in Hooks, HookFound(h) PROVE PairInv'
  BY <1>2 DEF HookFound
<1>3. ASSUME NEW h \in Hooks, HookNotFound(h) PROVE PairInv'
  BY <1>3 DEF HookNotFound
<1>4. ASSUME NEW h \in Hooks, HookAllocate(h) PROVE PairInv'
  BY <1>4 DEF HookAllocate
<1>5. ASSUME NEW h \in Hooks, HookRead(h) PROVE PairInv'
  <2> DEFINE s == jump_address[h]
  <2>1. /\ pc = "read" /\ self = h /\ s \in Sites
        /\ UNCHANGED <<code, jump_address, jump_original_bytecode>>
    BY <1>5 DEF HookRead
  <2>2. code[s] \in Sites \cup {None}
    BY <2>1 DEF CodeInv
  <2>3. CASE Fail(h, "error")
    BY <2>1, <2>3
  <2>4. CASE ~Fail(h, "error")
    <3>1. /\ pc' = "read" /\ self' = h /\ buf' \in {code[s], None}
          /\ UNCHANGED exposed
      BY <1>5, <2>4 DEF HookRead
    <3> QED BY <2>1, <2>2, <3>1
  <2> QED BY <2>3, <2>4
<1>6. ASSUME NEW h \in Hooks, HookWriteBody(h) PROVE PairInv'
  BY <1>6 DEF HookWriteBody
<1>7. ASSUME NEW h \in Hooks, HookWriteJump(h) PROVE PairInv'
  <2> DEFINE s == jump_address[h]
  <2>1. /\ pc' = "write_jump"
        /\ UNCHANGED <<jump_address, jump_original_bytecode, exposed>>
        /\ pc = "write_jump"
    BY <1>7 DEF HookWriteJump
  <2>2. \/ code' = code
        \/ code' = [code EXCEPT ![s] = hook_address[h]]
        \/ code' = [code EXCEPT ![s] = h]
    BY <1>7 DEF HookWriteJump
  <2>3. \A t \in Sites : code'[t] \in Sites => code'[t] = code[t]
    BY <2>2
  <2> QED BY <2>1, <2>3
<1>8. ASSUME NEW h \in Hooks, UnhookRestore(h) PROVE PairInv'
  <2> DEFINE s == jump_address[h]
             bytes == jump_original_bytecode[h]
  <2>1. /\ pc = "idle" /\ pc' = "restore"
        /\ UNCHANGED <<jump_address, jump_original_bytecode, exposed>>
    BY <1>8 DEF UnhookRestore
  <2>2. \/ code' = code
        \/ bytes # None /\ code' = [code EXCEPT ![s] = bytes]
        \/ code' = [code EXCEPT ![s] = h]
    BY <1>8 DEF UnhookRestore
  <2>3. bytes # None => bytes = s \/ s \in exposed
    BY <2>1
  <2>4. \A t \in Sites : code'[t] \in Sites =>
          code'[t] = code[t] \/ code'[t] = t \/ t \in exposed
    BY <2>2, <2>3
  <2> QED BY <2>1, <2>4
<1>9. ASSUME NEW h \in Hooks, UnhookFree(h) PROVE PairInv'
  BY <1>9 DEF UnhookFree
<1>10. ASSUME NEW h \in Hooks, UnhookDone(h) PROVE PairInv'
  BY <1>10 DEF UnhookDone
<1>11. ASSUME NEW h \in Hooks, CheckFailed(h) PROVE PairInv'
  BY <1>11 DEF CheckFailed
<1>12. ASSUME NEW h \in Hooks, CheckRead(h) PROVE PairInv'
  BY <1>12 DEF CheckRead
<1>13. ASSUME NEW h \in Hooks, CheckWrite(h) PROVE PairInv'
  BY <1>13 DEF CheckWrite
<1>14. ASSUME NEW s \in Sites, ClientLoads(s) PROVE PairInv'
  BY <1>14 DEF ClientLoads
<1>15. ASSUME NEW s \in Sites, ClientUnloads(s) PROVE PairInv'
  BY <1>15 DEF ClientUnloads
<1>16. ASSUME NEW s \in Sites, ClientEnters(s) PROVE PairInv'
  BY <1>16 DEF ClientEnters
<1>17. ASSUME NEW r \in Regions, ClientAllocates(r) PROVE PairInv'
  BY <1>17 DEF ClientAllocates
<1>18. CASE ClientLeaves
  BY <1>18 DEF ClientLeaves
<1>19. CASE ClientExits
  BY <1>19 DEF ClientExits
<1>20. CASE UNCHANGED vars
  BY <1>20 DEF vars
<1> QED
  BY <1>1, <1>2, <1>3, <1>4, <1>5, <1>6, <1>7, <1>8, <1>9, <1>10, <1>11,
     <1>12, <1>13, <1>14, <1>15, <1>16, <1>17, <1>18, <1>19, <1>20
  DEF Next, ToolStep, Hook, Unhook, Check, ClientStep

\* No site of a client ever holds the code of another site, but a site where a
\* hook() has failed between moving jump_address to it and saving the bytes
\* found there.
THEOREM RestoresItsOwnCode == Spec => []RestoresOwnCode
<1>1. PairInv => RestoresOwnCode
  BY DEF PairInv, RestoresOwnCode
<1> QED
  BY <1>1, CodeInit, CodeNext, PairInit, PairNext, TypeCorrect, PTL DEF Spec

-----------------------------------------------------------------------------
(***************************************************************************)
(* An object has no mark in the client, but those it has moved away from,  *)
(* while it works up to writing a jump, nor after unhook() has written the *)
(* original bytes back.                                                    *)
(***************************************************************************)
Gone(h) ==
  \A s \in Sites : HasMarkOf(h, s) => <<h, s>> \in abandoned \/ code[s] \in stolen

UndoInv ==
  /\ Undoable
  /\ \A h \in Hooks, s \in Sites : <<h, s>> \in abandoned => jump_address[h] # s
  /\ \A h \in Hooks : ~Gone(h) => jump_original_bytecode[h] # None
  /\ pc \in HookSteps /\ ~(pc = "write_jump" /\ io # "none") => Gone(self)
  /\ pc = "read" /\ io = "ok" => buf # None
  /\ pc \in {"write_hook", "write_jump"} => jump_original_bytecode[self] # None
  /\ pc = "free" \/ (pc = "restore" /\ io = "ok") => Gone(self)

LEMMA UndoInit == Init => UndoInv
  BY NamesAssumption DEF Init, UndoInv, Undoable, Gone, HasMarkOf, HasJumpOf, HookSteps

LEMMA UndoNext ==
  TypeOK /\ CodeInv /\ RegionInv /\ ReadyInv /\ PairInv /\ UndoInv /\ [Next]_vars
    => UndoInv'
<1> SUFFICES ASSUME TypeOK, CodeInv, RegionInv, ReadyInv, PairInv, UndoInv,
                    [Next]_vars
             PROVE  UndoInv'
  OBVIOUS
<1> USE NamesAssumption
    DEF TypeOK, ClientTypeOK, FieldTypeOK, CallTypeOK, HistoryTypeOK, clientVars, regionVars,
        fieldVars, callVars, historyVars, toolVars, Bytes, HookSteps, Idle, At,
        Goto, Issued, Return, Fail, WriteCode, ProcessEnds, Attached,
        UndoInv, Undoable, Gone, HasMarkOf, HasJumpOf
<1>1. ASSUME NEW h \in Hooks, Alloc(h) PROVE UndoInv'
  BY <1>1 DEF Alloc
<1>2. ASSUME NEW h \in Hooks, HookFound(h) PROVE UndoInv'
  <2>1. PICK s \in Sites :
          /\ code[s] \in Pattern[h]
          /\ jump_address' = [jump_address EXCEPT ![h] = s]
          /\ abandoned' = (abandoned \ {<<h, s>>})
                            \cup ({h} \X {t \in Sites : HasMarkOf(h, t)})
    BY <1>2 DEF HookFound, Matches
  <2>2. /\ pc' = "allocate" /\ self' = h /\ io' = "none"
        /\ UNCHANGED <<code, body, jump_original_bytecode, stolen, exposed>>
    BY <1>2 DEF HookFound
  <2>3. code[s] \in Sites
    <3>1. Pattern[h] \subseteq Sites
      BY ParameterAssumption
    <3> QED BY <2>1, <3>1
  <2>4. /\ \A g \in Hooks, t \in Sites : HasMarkOf(g, t)' <=> HasMarkOf(g, t)
        /\ \A g \in Hooks : ~HasMarkOf(g, s)
    BY <2>2, <2>3
  <2>5. /\ \A g \in Hooks \ {h}, t \in Sites :
             <<g, t>> \in abandoned' <=> <<g, t>> \in abandoned
        /\ \A t \in Sites : HasMarkOf(h, t) => <<h, t>> \in abandoned'
        /\ \A t \in Sites : <<h, t>> \in abandoned' =>
             t # s /\ (HasMarkOf(h, t) \/ <<h, t>> \in abandoned)
    <3> HIDE DEF HasMarkOf
    <3> QED BY <2>1, <2>4
  <2>6. /\ jump_address'[h] = s
        /\ \A g \in Hooks \ {h} : jump_address'[g] = jump_address[g]
    BY <2>1
  <2>7. /\ Gone(h)'
        /\ \A g \in Hooks \ {h} : Gone(g)' <=> Gone(g)
    <3> HIDE DEF HasMarkOf
    <3> QED BY <2>2, <2>4, <2>5
  <2>8. Undoable'
    <3> SUFFICES ASSUME NEW g \in Hooks, NEW t \in Sites, HasMarkOf(g, t)',
                        <<g, t>> \notin abandoned', code'[t] \notin stolen'
                 PROVE  /\ jump_address'[g] = t
                        /\ jump_original_bytecode'[g] = t \/ t \in exposed'
      OBVIOUS
    <3>1. g # h /\ HasMarkOf(g, t) /\ <<g, t>> \notin abandoned
      <4> HIDE DEF HasMarkOf
      <4> QED BY <2>4, <2>5
    <3>2. jump_address[g] = t /\ (jump_original_bytecode[g] = t \/ t \in exposed)
      BY <2>2, <3>1
    <3> QED BY <2>2, <2>6, <3>1, <3>2
  <2> HIDE DEF Undoable, Gone, HasMarkOf
  <2> QED BY <2>2, <2>5, <2>6, <2>7, <2>8
<1>3. ASSUME NEW h \in Hooks, HookNotFound(h) PROVE UndoInv'
  BY <1>3 DEF HookNotFound
<1>4. ASSUME NEW h \in Hooks, HookAllocate(h) PROVE UndoInv'
  <2>1. /\ pc = "allocate" /\ self = h /\ io = "none"
        /\ UNCHANGED <<status, code, jump_address, jump_original_bytecode>>
    BY <1>4 DEF HookAllocate
  <2>2. CASE Fail(h, "error") /\ UNCHANGED <<live, body, hook_address>>
    BY <2>1, <2>2
  <2>3. ASSUME NEW r \in Regions \ live, Attached, Goto("read", h),
               body' = [body EXCEPT ![r] = h], UNCHANGED historyVars
        PROVE  UndoInv'
    <3>1. \A s \in Sites : code[s] = r => r \in stolen
      BY <2>3 DEF RegionInv, ReadyInv, Ready
    <3>2. \A g \in Hooks, s \in Sites :
            HasMarkOf(g, s)' => HasMarkOf(g, s) \/ code[s] \in stolen
      BY <2>1, <2>3, <3>1
    <3>3. pc' = "read" /\ self' = h /\ io' = "none" /\ UNCHANGED historyVars
      BY <2>3
    <3>4. Undoable' /\ \A g \in Hooks : Gone(g) => Gone(g)'
      <4> HIDE DEF HasMarkOf
      <4> QED BY <2>1, <3>2, <3>3
    <3> HIDE DEF Undoable, Gone, HasMarkOf
    <3> QED BY <2>1, <3>3, <3>4
  <2> QED BY <1>4, <2>2, <2>3 DEF HookAllocate
<1>5. ASSUME NEW h \in Hooks, HookRead(h) PROVE UndoInv'
  BY <1>5 DEF HookRead
<1>6. ASSUME NEW h \in Hooks, HookWriteBody(h) PROVE UndoInv'
  BY <1>6 DEF HookWriteBody
<1>7. ASSUME NEW h \in Hooks, HookWriteJump(h) PROVE UndoInv'
  <2> DEFINE s == jump_address[h]
             r == hook_address[h]
  <2>1. /\ pc = "write_jump" /\ self = h /\ io = "none" /\ s \in Sites
        /\ pc' = "write_jump" /\ self' = h /\ io' # "none"
        /\ UNCHANGED <<body, jump_address, jump_original_bytecode, historyVars>>
    BY <1>7 DEF HookWriteJump
  <2>2. CASE UNCHANGED code
    BY <2>1, <2>2
  <2>3. CASE Attached /\ code' \in {[code EXCEPT ![s] = r], [code EXCEPT ![s] = h]}
    <3>1. r \in Regions /\ (r \in stolen \/ body[r] = h)
      BY <2>1, <2>3 DEF ReadyInv
    <3>2. /\ jump_original_bytecode[h] # None
          /\ jump_original_bytecode[h] = s \/ s \in exposed
      BY <2>1 DEF PairInv, Mispaired
    <3>3. code'[s] \in {r, h} /\ \A t \in Sites \ {s} : code'[t] = code[t]
      BY <2>1, <2>3
    <3>4. ASSUME NEW g \in Hooks, NEW t \in Sites, HasMarkOf(g, t)',
                 code'[t] \notin stolen
          PROVE  (g = h /\ t = s) \/ (HasMarkOf(g, t) /\ code'[t] = code[t])
      <4>1. CASE t = s /\ code'[t] = h
        BY <3>4, <4>1
      <4>2. CASE t = s /\ code'[t] = r
        <5>1. r \notin Hooks /\ body'[r] = h
          BY <2>1, <3>1, <3>4, <4>2
        <5> QED BY <3>4, <4>2, <5>1
      <4>3. CASE t # s
        BY <2>1, <3>3, <3>4, <4>3
      <4> QED BY <3>3, <4>1, <4>2, <4>3
    <3>5. Undoable'
      <4> SUFFICES ASSUME NEW g \in Hooks, NEW t \in Sites, HasMarkOf(g, t)',
                          <<g, t>> \notin abandoned, code'[t] \notin stolen
                   PROVE  /\ jump_address[g] = t
                          /\ jump_original_bytecode[g] = t \/ t \in exposed
        BY <2>1
      <4> HIDE DEF HasMarkOf
      <4>1. CASE g = h /\ t = s
        BY <3>2, <4>1
      <4>2. CASE HasMarkOf(g, t) /\ code'[t] = code[t]
        BY <4>2
      <4> QED BY <3>4, <4>1, <4>2
    <3>6. \A g \in Hooks : ~Gone(g)' => jump_original_bytecode'[g] # None
      <4> HIDE DEF HasMarkOf
      <4> QED BY <2>1, <3>2, <3>4
    <3> HIDE DEF Undoable, Gone, HasMarkOf
    <3> QED BY <2>1, <3>5, <3>6
  <2> QED BY <1>7, <2>2, <2>3 DEF HookWriteJump
<1>8. ASSUME NEW h \in Hooks, UnhookRestore(h) PROVE UndoInv'
  <2> DEFINE s == jump_address[h]
             bytes == jump_original_bytecode[h]
  <2>1. /\ pc' = "restore" /\ self' = h
        /\ UNCHANGED <<body, jump_address, jump_original_bytecode, historyVars>>
    BY <1>8 DEF UnhookRestore
  <2>2. CASE UNCHANGED code /\ (bytes = None \/ io' = "failed")
    BY <2>1, <2>2
  <2>3. CASE /\ bytes # None /\ io' = "ok"
             /\ code' = [code EXCEPT ![s] = bytes]
    <3>1. bytes \notin Regions \cup Hooks
      BY DEF CodeInv, OriginalIsCode
    <3>2. \A g \in Hooks, t \in Sites :
            HasMarkOf(g, t)' => HasMarkOf(g, t) /\ t # s /\ code'[t] = code[t]
      BY <2>1, <2>3, <3>1
    <3>3. Gone(h)' /\ Undoable' /\ \A g \in Hooks : Gone(g) => Gone(g)'
      <4> HIDE DEF HasMarkOf
      <4> QED BY <2>1, <3>2
    <3> HIDE DEF Undoable, Gone, HasMarkOf
    <3> QED BY <2>1, <3>3
  <2>4. CASE /\ bytes # None /\ code[s] # None /\ io' = "failed"
             /\ code' = [code EXCEPT ![s] = h]
    <3>1. s \in Sites /\ (bytes = s \/ s \in exposed)
      <4>1. bytes = s \/ s \in exposed
        BY <1>8, <2>4 DEF PairInv, Mispaired, UnhookRestore
      <4> QED BY <2>4, <4>1
    <3>2. code'[s] = h /\ \A t \in Sites \ {s} : code'[t] = code[t]
      BY <2>4, <3>1
    <3>3. ASSUME NEW g \in Hooks, NEW t \in Sites, HasMarkOf(g, t)'
          PROVE  (g = h /\ t = s) \/ (HasMarkOf(g, t) /\ code'[t] = code[t])
      <4>1. CASE t = s
        BY <3>2, <3>3, <4>1
      <4>2. CASE t # s
        BY <2>1, <3>2, <3>3, <4>2
      <4> QED BY <4>1, <4>2
    <3>4. Undoable' /\ \A g \in Hooks : ~Gone(g)' => jump_original_bytecode[g] # None
      <4> HIDE DEF HasMarkOf
      <4> QED BY <2>1, <2>4, <3>1, <3>3
    <3> HIDE DEF Undoable, Gone, HasMarkOf
    <3> QED BY <2>1, <2>4, <3>4
  <2> QED BY <1>8, <2>2, <2>3, <2>4 DEF UnhookRestore
<1>9. ASSUME NEW h \in Hooks, UnhookFree(h) PROVE UndoInv'
  BY <1>9 DEF UnhookFree
<1>10. ASSUME NEW h \in Hooks, UnhookDone(h) PROVE UndoInv'
  BY <1>10 DEF UnhookDone
<1>11. ASSUME NEW h \in Hooks, CheckFailed(h) PROVE UndoInv'
  BY <1>11 DEF CheckFailed
<1>12. ASSUME NEW h \in Hooks, CheckRead(h) PROVE UndoInv'
  <2>1. /\ pc = "read" /\ self = h /\ io = "ok"
        /\ jump_original_bytecode' = [jump_original_bytecode EXCEPT ![h] = buf]
        /\ pc' = "write_hook" /\ self' = h /\ io' = "none"
        /\ UNCHANGED <<code, body, jump_address, historyVars>>
    BY <1>12 DEF CheckRead, Verdict
  <2>2. buf # None /\ Gone(h)
    BY <2>1
  <2>3. /\ jump_original_bytecode'[h] = buf
        /\ \A g \in Hooks \ {h} :
             jump_original_bytecode'[g] = jump_original_bytecode[g]
    BY <2>1
  <2>4. \A g \in Hooks, t \in Sites : HasMarkOf(g, t)' <=> HasMarkOf(g, t)
    BY <2>1
  <2>5. Undoable' /\ \A g \in Hooks : Gone(g)' <=> Gone(g)
    <3> HIDE DEF HasMarkOf
    <3> QED BY <2>1, <2>2, <2>3, <2>4
  <2> HIDE DEF Undoable, Gone, HasMarkOf
  <2> QED BY <2>1, <2>2, <2>3, <2>5
<1>13. ASSUME NEW h \in Hooks, CheckWrite(h) PROVE UndoInv'
  <2>1. /\ self = h /\ io = "ok"
        /\ UNCHANGED <<code, body, jump_address, jump_original_bytecode,
                       historyVars>>
    BY <1>13 DEF CheckWrite, Verdict
  <2>2. CASE pc = "write_hook" /\ Goto("write_jump", h)
    BY <2>1, <2>2
  <2>3. CASE pc = "write_jump" /\ Return("ok")
    BY <2>1, <2>3
  <2>4. CASE pc = "restore" /\ Goto("free", h)
    BY <2>1, <2>4
  <2> QED BY <1>13, <2>2, <2>3, <2>4 DEF CheckWrite
<1>14. ASSUME NEW s \in Sites, ClientLoads(s) PROVE UndoInv'
  BY <1>14 DEF ClientLoads
<1>15. ASSUME NEW s \in Sites, ClientUnloads(s) PROVE UndoInv'
  BY <1>15 DEF ClientUnloads
<1>16. ASSUME NEW s \in Sites, ClientEnters(s) PROVE UndoInv'
  BY <1>16 DEF ClientEnters
<1>17. ASSUME NEW r \in Regions, ClientAllocates(r) PROVE UndoInv'
  BY <1>17 DEF ClientAllocates
<1>18. CASE ClientLeaves
  BY <1>18 DEF ClientLeaves
<1>19. CASE ClientExits
  BY <1>19 DEF ClientExits
<1>20. CASE UNCHANGED vars
  BY <1>20 DEF vars
<1> QED
  BY <1>1, <1>2, <1>3, <1>4, <1>5, <1>6, <1>7, <1>8, <1>9, <1>10, <1>11,
     <1>12, <1>13, <1>14, <1>15, <1>16, <1>17, <1>18, <1>19, <1>20
  DEF Next, ToolStep, Hook, Unhook, Check, ClientStep

LEMMA UndoCorrect == Spec => []UndoInv
  BY CodeInit, CodeNext, PairInit, PairNext, UndoInit, UndoNext, ReadyCorrect,
     TypeCorrect, PTL DEF Spec

\* Every jump in the client is one its hook object can take out again, but for
\* the two exceptions hook() makes: one it has itself moved away from, and a
\* site where it has failed with the bytes of another site in hand.
THEOREM AlwaysUndoable == Spec => []Undoable
<1>1. UndoInv => Undoable
  BY DEF UndoInv, Undoable
<1> QED BY <1>1, UndoCorrect, PTL

\* unhook() begins to free memory only when no jump of its object is left, nor
\* a part of one, but for those its own hook() has moved away from.
THEOREM FreesOnlyAfterRestore == Spec => []FreesAfterRestore
<1>1. UndoInv => FreesAfterRestore
  BY DEF UndoInv, Gone, FreesAfterRestore
<1> QED BY <1>1, UndoCorrect, PTL

-----------------------------------------------------------------------------
(***************************************************************************)
(* From the match of its pattern to the write of its jump, the site of a   *)
(* hook() holds no jump nor a part of one: only the client moves in        *)
(* between.                                                                *)
(***************************************************************************)
FreshInv ==
  pc \in HookSteps /\ ~(pc = "write_jump" /\ io # "none") =>
    code[jump_address[self]] \notin Regions \cup Hooks

LEMMA FreshInit == Init => FreshInv
  BY DEF Init, FreshInv, HookSteps

LEMMA FreshNext == TypeOK /\ CodeInv /\ FreshInv /\ [Next]_vars => FreshInv'
<1> SUFFICES ASSUME TypeOK, CodeInv, CodeInv', FreshInv, [Next]_vars
             PROVE  FreshInv'
  BY CodeNext
<1> USE NamesAssumption
    DEF TypeOK, ClientTypeOK, FieldTypeOK, CallTypeOK, FreshInv,
        clientVars, regionVars, fieldVars, callVars, toolVars,
        HookSteps, Idle, At, Goto, Issued, Return, Fail, WriteCode,
        ProcessEnds
<1>1. ASSUME NEW h \in Hooks, Alloc(h) PROVE FreshInv'
  BY <1>1 DEF Alloc
<1>2. ASSUME NEW h \in Hooks, HookFound(h) PROVE FreshInv'
  BY <1>2 DEF HookFound, CodeInv
<1>3. ASSUME NEW h \in Hooks, HookNotFound(h) PROVE FreshInv'
  BY <1>3 DEF HookNotFound
<1>4. ASSUME NEW h \in Hooks, HookAllocate(h) PROVE FreshInv'
  BY <1>4 DEF HookAllocate
<1>5. ASSUME NEW h \in Hooks, HookRead(h) PROVE FreshInv'
  BY <1>5 DEF HookRead
<1>6. ASSUME NEW h \in Hooks, HookWriteBody(h) PROVE FreshInv'
  BY <1>6 DEF HookWriteBody
<1>7. ASSUME NEW h \in Hooks, HookWriteJump(h) PROVE FreshInv'
  BY <1>7 DEF HookWriteJump
<1>8. ASSUME NEW h \in Hooks, UnhookRestore(h) PROVE FreshInv'
  BY <1>8 DEF UnhookRestore
<1>9. ASSUME NEW h \in Hooks, UnhookFree(h) PROVE FreshInv'
  BY <1>9 DEF UnhookFree
<1>10. ASSUME NEW h \in Hooks, UnhookDone(h) PROVE FreshInv'
  BY <1>10 DEF UnhookDone
<1>11. ASSUME NEW h \in Hooks, CheckFailed(h) PROVE FreshInv'
  BY <1>11 DEF CheckFailed
<1>12. ASSUME NEW h \in Hooks, CheckRead(h) PROVE FreshInv'
  BY <1>12 DEF CheckRead
<1>13. ASSUME NEW h \in Hooks, CheckWrite(h) PROVE FreshInv'
  BY <1>13 DEF CheckWrite
<1>14. ASSUME NEW s \in Sites, ClientLoads(s) PROVE FreshInv'
  BY <1>14 DEF ClientLoads
<1>15. ASSUME NEW s \in Sites, ClientUnloads(s) PROVE FreshInv'
  BY <1>15 DEF ClientUnloads
<1>16. ASSUME NEW s \in Sites, ClientEnters(s) PROVE FreshInv'
  BY <1>16 DEF ClientEnters
<1>17. ASSUME NEW r \in Regions, ClientAllocates(r) PROVE FreshInv'
  BY <1>17 DEF ClientAllocates
<1>18. CASE ClientLeaves
  BY <1>18 DEF ClientLeaves
<1>19. CASE ClientExits
  BY <1>19 DEF ClientExits
<1>20. CASE UNCHANGED vars
  BY <1>20 DEF vars
<1> QED
  BY <1>1, <1>2, <1>3, <1>4, <1>5, <1>6, <1>7, <1>8, <1>9, <1>10, <1>11,
     <1>12, <1>13, <1>14, <1>15, <1>16, <1>17, <1>18, <1>19, <1>20
  DEF Next, ToolStep, Hook, Unhook, Check, ClientStep

-----------------------------------------------------------------------------
AllInv ==
  /\ TypeOK /\ CodeInv /\ RegionInv /\ TrackInv /\ OwnInv /\ ReadyInv
  /\ PairInv /\ UndoInv /\ FreshInv

LEMMA AllInit == Init => AllInv
<1>1. Init => TypeOK /\ CodeInv /\ RegionInv /\ TrackInv
  BY TypeInit, CodeInit, RegionInit, TrackInit
<1>2. Init => OwnInv /\ ReadyInv /\ PairInv /\ UndoInv /\ FreshInv
  BY OwnInit, ReadyInit, PairInit, UndoInit, FreshInit
<1> QED BY <1>1, <1>2 DEF AllInv

LEMMA AllNext == AllInv /\ [Next]_vars => AllInv'
<1> SUFFICES ASSUME AllInv, [Next]_vars PROVE AllInv'
  OBVIOUS
<1>1. TypeOK' /\ CodeInv' /\ RegionInv' /\ TrackInv'
  BY TypeNext, CodeNext, RegionNext, TrackNext DEF AllInv
<1>2. OwnInv' /\ ReadyInv' /\ PairInv' /\ UndoInv' /\ FreshInv'
  BY OwnNext, ReadyNext, PairNext, UndoNext, FreshNext DEF AllInv
<1> QED BY <1>1, <1>2 DEF AllInv

\* No promise is broken yet.
Kept == stolen = {} /\ exposed = {}

\* Then a site is empty, or has its own code, or the mark of a hook object: the
\* rest of a failed write, or a jump into the complete bytecode of a hook.
LEMMA SiteCases ==
  ASSUME AllInv, Kept, NEW s \in Sites
  PROVE  \/ code[s] = None /\ SiteOf(s) = "absent"
         \/ code[s] = s /\ SiteOf(s) = "own"
         \/ /\ code[s] \in Hooks /\ MarkAt(s) = code[s]
            /\ SiteOf(s) = IF <<MarkAt(s), s>> \in abandoned
                           THEN "lost" ELSE MarkAt(s)
         \/ /\ code[s] \in Regions /\ code[s] \in live \cap filled
            /\ body[code[s]] \in Hooks /\ MarkAt(s) = body[code[s]]
            /\ SiteOf(s) = IF <<MarkAt(s), s>> \in abandoned
                           THEN "lost" ELSE MarkAt(s)
<1> USE NamesAssumption DEF AllInv, TypeOK, ClientTypeOK, Bytes, Kept
<1>1. CASE code[s] = None
  BY <1>1 DEF SiteOf
<1>2. CASE code[s] \in Sites
  <2>1. code[s] = s
    BY <1>2 DEF PairInv, RestoresOwnCode
  <2> QED BY <1>2, <2>1 DEF SiteOf
<1>3. CASE code[s] \in Hooks
  <2>1. MarkAt(s) = code[s] /\ code[s] # None /\ code[s] # s
    BY <1>3 DEF MarkAt
  <2> QED BY <1>3, <2>1 DEF SiteOf
<1>4. CASE code[s] \in Regions
  <2>1. status = "running"
    BY <1>4 DEF RegionInv
  <2>2. code[s] \in live \cap filled /\ body[code[s]] # None
    BY <1>4, <2>1 DEF ReadyInv, Ready, RegionInv
  <2>3. MarkAt(s) = body[code[s]] /\ code[s] # None /\ code[s] # s
    BY <1>4, <2>2 DEF MarkAt
  <2> QED BY <1>4, <2>2, <2>3 DEF SiteOf
<1> QED BY <1>1, <1>2, <1>3, <1>4

\* An object has a detour where it has a mark and has not moved away from it.
LEMMA DetourIsMark ==
  ASSUME AllInv, Kept, NEW h \in Hooks, NEW s \in Sites
  PROVE  SiteOf(s) = h <=> HasMarkOf(h, s) /\ <<h, s>> \notin abandoned
  BY SiteCases, NamesAssumption, DetourAssumption DEF HasMarkOf, HasJumpOf

LEMMA DetourInit == Init => D!Init
<1> SUFFICES ASSUME Init PROVE D!Init
  OBVIOUS
<1>1. ~Lapsed
  BY DEF Init, Lapsed
<1>2. \A s \in Sites : SiteOf(s) \in {"absent", "own"} /\ code[s] \notin Hooks
  BY NamesAssumption DEF Init, SiteOf
<1>3. SiteMap \in [Sites -> {"absent", "own"}] /\ DamagedMap = {}
  BY <1>1, <1>2 DEF SiteMap, DamagedMap
<1>4. TargetMap = [h \in Hooks |-> None]
  BY <1>1 DEF Init, TargetMap, TargetOf
<1>5. OwnedMap = [h \in Hooks |-> {}]
  BY <1>1, NamesAssumption DEF Init, OwnedMap, OwnedBy
<1> QED BY <1>1, <1>3, <1>4, <1>5 DEF D!Init

(***************************************************************************)
(* Steps that Detour does not see, or sees as one change.                  *)
(***************************************************************************)
SamePlaces == \A s \in Sites : SiteOf(s)' = SiteOf(s)

\* Regions in use by a jump may not be touched; all others may.
LEMMA JumpsKept ==
  ASSUME AllInv, Kept, UNCHANGED <<code, abandoned>>,
         \A r \in Regions : r \in live \cap filled /\ body[r] \in Hooks =>
           r \in live' \cap filled' /\ body'[r] = body[r]
  PROVE  SamePlaces
<1> SUFFICES ASSUME NEW s \in Sites PROVE SiteOf(s)' = SiteOf(s)
  BY DEF SamePlaces
<1>1. CASE code[s] = None
  BY <1>1 DEF SiteOf
<1>2. CASE code[s] = s
  BY <1>2 DEF SiteOf
<1>3. CASE code[s] \in Hooks
  BY <1>3 DEF SiteOf, MarkAt
<1>4. CASE code[s] \in Regions /\ code[s] \in live \cap filled
           /\ body[code[s]] \in Hooks
  <2>1. MarkAt(s) = body[code[s]] /\ MarkAt(s)' = MarkAt(s)
    BY <1>4, NamesAssumption DEF MarkAt
  <2> QED BY <2>1 DEF SiteOf
<1> QED BY <1>1, <1>2, <1>3, <1>4, SiteCases

\* One site changes.
LEMMA SiteChanges ==
  ASSUME NEW s \in Sites, NEW bytes, code \in [Sites -> Bytes],
         code' = [code EXCEPT ![s] = bytes], UNCHANGED regionVars,
         UNCHANGED abandoned, Kept, Kept'
  PROVE  /\ SiteMap' = [SiteMap EXCEPT ![s] = SiteOf(s)']
         /\ DamagedMap' = IF bytes \in Hooks THEN DamagedMap \cup {s}
                          ELSE DamagedMap \ {s}
<1>1. \A t \in Sites \ {s} : SiteOf(t)' = SiteOf(t)
  BY DEF SiteOf, MarkAt, regionVars
<1>2. /\ SiteMap = [t \in Sites |-> SiteOf(t)]
      /\ DamagedMap = {t \in Sites : code[t] \in Hooks}
  BY DEF SiteMap, DamagedMap, Lapsed, Kept
<1>3. /\ SiteMap' = [t \in Sites |-> SiteOf(t)']
      /\ DamagedMap' = {t \in Sites : code'[t] \in Hooks}
  BY DEF SiteMap, DamagedMap, Lapsed, Kept
<1>4. code'[s] = bytes /\ \A t \in Sites \ {s} : code'[t] = code[t]
  OBVIOUS
<1> QED BY <1>1, <1>2, <1>3, <1>4

LEMMA DetourNext == AllInv /\ [Next]_vars => [D!Next]_(D!vars)
<1> SUFFICES ASSUME AllInv, [Next]_vars PROVE [D!Next]_(D!vars)
  OBVIOUS
<1>0. AllInv' /\ TypeOK /\ stolen \subseteq stolen' /\ exposed \subseteq exposed'
  <2>1. stolen \subseteq stolen' /\ exposed \subseteq exposed'
    BY DEF Next, vars, historyVars, toolVars, ToolStep, Alloc, Hook, HookFound,
      HookNotFound, HookAllocate, HookRead, HookWriteBody, HookWriteJump, Unhook,
      UnhookRestore, UnhookFree, UnhookDone, Check, CheckFailed, CheckRead,
      CheckWrite, Fail, ClientStep, ClientLoads, ClientUnloads, ClientEnters,
      ClientAllocates, ClientLeaves, ClientExits
  <2> QED BY <2>1, AllNext DEF AllInv
<1>a. CASE Lapsed
  <2>1. Lapsed'
    BY <1>0, <1>a DEF Lapsed
  <2>2. UNCHANGED <<SiteMap, DamagedMap, TargetMap, OwnedMap, Lapsed>>
    BY <1>a, <2>1 DEF SiteMap, DamagedMap, TargetMap, OwnedMap, Lapsed
  <2> QED BY <2>2 DEF D!vars
<1>b. CASE Lapsed' /\ ~Lapsed
  <2>1. /\ SiteMap' = [s \in Sites |-> "absent"] /\ ~Lapsed /\ Lapsed' = TRUE
        /\ DamagedMap' = {}
        /\ TargetMap' = [h \in Hooks |-> None] /\ OwnedMap' = [h \in Hooks |-> {}]
    BY <1>b DEF SiteMap, DamagedMap, TargetMap, OwnedMap, Lapsed
  <2> QED BY <2>1 DEF D!Next, D!Void, D!Nothing
<1>c. CASE ~Lapsed' /\ ~Lapsed
  <2>0. Kept /\ Kept' /\ Lapsed' = Lapsed
    BY <1>c DEF Kept, Lapsed
  <2> USE <1>0, <2>0
  <2> DEFINE Keeps == UNCHANGED <<jump_address, jump_original_bytecode, data,
                                  code, abandoned>>
  <2>m. /\ SiteMap = [s \in Sites |-> SiteOf(s)]
        /\ SiteMap' = [s \in Sites |-> SiteOf(s)']
        /\ DamagedMap = {s \in Sites : code[s] \in Hooks}
        /\ DamagedMap' = {s \in Sites : code'[s] \in Hooks}
        /\ TargetMap = [h \in Hooks |-> TargetOf(h)]
        /\ TargetMap' = [h \in Hooks |-> TargetOf(h)']
        /\ OwnedMap = [h \in Hooks |-> OwnedBy(h)]
        /\ OwnedMap' = [h \in Hooks |-> OwnedBy(h)']
        /\ ~Lapsed /\ Lapsed' = Lapsed
    BY <1>c, <2>0 DEF SiteMap, DamagedMap, TargetMap, OwnedMap
  <2>k. /\ SamePlaces => UNCHANGED SiteMap
        /\ UNCHANGED code => UNCHANGED DamagedMap
        /\ UNCHANGED <<jump_address, jump_original_bytecode>> => UNCHANGED TargetMap
        /\ UNCHANGED data => UNCHANGED OwnedMap
    BY <2>m DEF SamePlaces, TargetOf, OwnedBy
  <2>s. SamePlaces /\ Keeps => UNCHANGED D!vars
    BY <2>k, <2>m DEF D!vars
  <2>j. \A h \in Hooks : D!HasDetour(h) <=>
          \E s \in Sites : HasMarkOf(h, s) /\ <<h, s>> \notin abandoned
    BY <2>m, DetourIsMark DEF D!HasDetour
  <2>g. \A h \in Hooks : Gone(h) => ~D!HasDetour(h)
    <3> SUFFICES ASSUME NEW h \in Hooks, Gone(h),
                        NEW s \in Sites, HasMarkOf(h, s)
                 PROVE  <<h, s>> \in abandoned
      BY <2>j
    <3> QED BY DEF Gone, Kept
  <2>u. UNCHANGED <<code, live, body, filled, abandoned>> => SamePlaces
    BY DEF SamePlaces, SiteOf, MarkAt
  <2> USE DEF regionVars, fieldVars, clientVars, toolVars, callVars, historyVars
  <2>1. ASSUME NEW h \in Hooks, Alloc(h) PROVE [D!Next]_(D!vars)
    <3>1. CASE UNCHANGED <<live, data>>
      BY <2>1, <3>1, <2>s, <2>u DEF Alloc
    <3>2. ASSUME NEW r \in Regions \ live, live' = live \cup {r},
                 data' = [data EXCEPT ![r] = h]
          PROVE  [D!Next]_(D!vars)
      <4>1. UNCHANGED <<code, filled, body, jump_address,
                        jump_original_bytecode, abandoned>>
        BY <2>1 DEF Alloc
      <4>2. UNCHANGED <<SiteMap, DamagedMap, TargetMap>>
        BY <3>2, <4>1, <2>k, JumpsKept
      <4>3. data[r] = None /\ data \in [Regions -> Hooks \cup {None}]
        BY <3>2 DEF AllInv, RegionInv, TypeOK, ClientTypeOK
      <4>4. \A g \in Hooks :
              r \notin OwnedBy(g) /\ OwnedBy(g)' =
                IF g = h THEN OwnedBy(g) \cup {r} ELSE OwnedBy(g)
        BY <3>2, <4>3, NamesAssumption DEF OwnedBy
      <4>5. /\ \A g \in Hooks : r \notin OwnedMap[g]
            /\ OwnedMap' = [OwnedMap EXCEPT ![h] = @ \cup {r}]
        BY <4>4, <2>m
      <4> QED BY <4>2, <4>5, <2>m DEF D!Next, D!Own
    <3> QED BY <2>1, <3>1, <3>2 DEF Alloc
  <2>2. ASSUME NEW h \in Hooks, HookFound(h) PROVE [D!Next]_(D!vars)
    <3>1. PICK s \in Matches(h) :
            /\ jump_address' = [jump_address EXCEPT ![h] = s]
            /\ abandoned' = (abandoned \ {<<h, s>>})
                              \cup ({h} \X {t \in Sites : HasMarkOf(h, t)})
      BY <2>2 DEF HookFound
    <3>2. s \in Sites /\ code[s] \in Sites
      BY <3>1, ParameterAssumption DEF Matches
    <3>3. UNCHANGED <<clientVars, jump_original_bytecode>>
      BY <2>2 DEF HookFound
    <3>4. ASSUME NEW t \in Sites
          PROVE  SiteOf(t)' = IF SiteOf(t) = h THEN "lost" ELSE SiteOf(t)
      <4>1. MarkAt(t)' = MarkAt(t)
        BY <3>3 DEF MarkAt
      <4>2. CASE code[t] = None \/ code[t] = t
        <5>1. SiteOf(t)' = SiteOf(t) /\ SiteOf(t) \in {"absent", "own"}
          BY <3>3, <4>2 DEF SiteOf
        <5> QED BY <5>1, DetourAssumption
      <4>3. CASE MarkAt(t) \in Hooks /\ HasMarkOf(MarkAt(t), t)
        <5>1. t # s /\ code[t] # None /\ code[t] # t
          BY <3>2, <4>3, NamesAssumption DEF HasMarkOf, HasJumpOf
        <5>2. /\ SiteOf(t) = IF <<MarkAt(t), t>> \in abandoned
                             THEN "lost" ELSE MarkAt(t)
              /\ SiteOf(t)' = IF <<MarkAt(t), t>> \in abandoned'
                              THEN "lost" ELSE MarkAt(t)
          BY <3>3, <4>1, <5>1 DEF SiteOf
        <5>3. <<MarkAt(t), t>> \in abandoned' <=>
                <<MarkAt(t), t>> \in abandoned \/ MarkAt(t) = h
          <6> HIDE DEF HasMarkOf
          <6> QED BY <3>1, <4>3, <5>1
        <5> QED BY <4>3, <5>2, <5>3, DetourAssumption
      <4> QED
        BY <4>2, <4>3, SiteCases DEF HasMarkOf, HasJumpOf
    <3>5. SiteMap' = [t \in Sites |-> IF SiteMap[t] = h THEN "lost" ELSE SiteMap[t]]
      BY <3>4, <2>m
    <3>6. UNCHANGED <<DamagedMap, OwnedMap>>
      BY <3>3, <2>k
    <3>7. \A g \in Hooks \ {h} : TargetOf(g)' = TargetOf(g)
      BY <3>1, <3>3 DEF TargetOf
    <3>8. TargetOf(h)' \in Sites \cup {None}
      BY <1>0 DEF TargetOf, AllInv, TypeOK, FieldTypeOK
    <3>9. TargetMap' = [TargetMap EXCEPT ![h] = TargetOf(h)']
      BY <3>7, <2>m
    <3>10. D!Aim(h)
      BY <3>5, <3>6, <3>8, <3>9, <2>m DEF D!Aim
    <3> QED BY <3>10, <2>m DEF D!Next
  <2>3. ASSUME NEW h \in Hooks, HookNotFound(h) PROVE [D!Next]_(D!vars)
    BY <2>3, <2>s, <2>u DEF HookNotFound
  <2>4. ASSUME NEW h \in Hooks, HookAllocate(h) PROVE [D!Next]_(D!vars)
    <3>1. CASE UNCHANGED <<live, body>>
      BY <2>4, <3>1, <2>s, <2>u DEF HookAllocate, Fail
    <3>2. ASSUME NEW r \in Regions \ live, live' = live \cup {r},
                 body' = [body EXCEPT ![r] = h]
          PROVE  [D!Next]_(D!vars)
      <4>1. UNCHANGED filled /\ Keeps
        BY <2>4 DEF HookAllocate, Fail
      <4>2. \A q \in live : body'[q] = body[q]
        BY <3>2 DEF TypeOK, ClientTypeOK
      <4> QED BY <3>2, <4>1, <4>2, <2>s, JumpsKept
    <3> QED BY <2>4, <3>1, <3>2 DEF HookAllocate
  <2>5. ASSUME NEW h \in Hooks, HookRead(h) PROVE [D!Next]_(D!vars)
    BY <2>5, <2>s, <2>u DEF HookRead, Fail
  <2>6. ASSUME NEW h \in Hooks, HookWriteBody(h) PROVE [D!Next]_(D!vars)
    <3>1. UNCHANGED <<live, body>> /\ filled \subseteq filled' /\ Keeps
      BY <2>6 DEF HookWriteBody
    <3> QED BY <3>1, <2>s, JumpsKept
  <2>d. ASSUME NEW h \in Hooks, NEW s \in Sites, jump_address[h] = s,
               jump_original_bytecode[h] = s, code[s] # None,
               code' = [code EXCEPT ![s] = h], UNCHANGED regionVars,
               UNCHANGED <<jump_address, jump_original_bytecode, abandoned>>
        PROVE  [D!Next]_(D!vars)
    <3>1. TargetMap[h] = s /\ s # None
      BY <2>d, <2>m, NamesAssumption DEF TargetOf
    <3>2. SiteOf(s) # "absent"
      BY <2>d, SiteCases, DetourAssumption, NamesAssumption
    <3>3. SiteOf(s)' = h
      <4>1. code'[s] = h /\ <<h, s>> \notin abandoned'
        BY <2>d DEF AllInv, UndoInv, TypeOK, ClientTypeOK
      <4>2. MarkAt(s)' = h /\ h # None /\ h # s
        BY <4>1, NamesAssumption DEF MarkAt, AllInv, TypeOK, ClientTypeOK
      <4> QED BY <4>1, <4>2 DEF SiteOf
    <3>4. /\ SiteMap' = [SiteMap EXCEPT ![s] = h] /\ SiteMap[s] # "absent"
          /\ DamagedMap' = DamagedMap \cup {s}
      BY <2>d, <3>2, <3>3, <2>m, SiteChanges DEF TypeOK, ClientTypeOK
    <3>5. UNCHANGED <<TargetMap, OwnedMap>>
      BY <2>d, <2>k
    <3> QED BY <3>1, <3>4, <3>5, <2>m DEF D!Next, D!Damage
  <2>7. ASSUME NEW h \in Hooks, HookWriteJump(h) PROVE [D!Next]_(D!vars)
    <3>0. PICK s \in Sites : jump_address[h] = s
      BY <2>7 DEF HookWriteJump, At, TypeOK, CallTypeOK, HookSteps
    <3> DEFINE r == hook_address[h]
    <3>1. /\ pc = "write_jump" /\ self = h /\ io = "none"
          /\ pc' = "write_jump" /\ self' = h /\ UNCHANGED regionVars
          /\ UNCHANGED <<jump_address, jump_original_bytecode, abandoned>>
      BY <2>7 DEF HookWriteJump, WriteCode, At, Issued
    <3>2. ~Mispaired(h) /\ jump_original_bytecode[h] # None /\ Gone(h)
      BY <3>1 DEF AllInv, PairInv, UndoInv, HookSteps, Kept
    <3>3. CASE UNCHANGED code
      BY <3>1, <3>3, <2>s, <2>u
    <3>4. CASE Attached /\ code[s] # None /\ code' = [code EXCEPT ![s] = r]
      <4>1. TargetMap[h] = s /\ s # None
        BY <3>0, <3>2, <2>m, NamesAssumption DEF TargetOf, Mispaired
      <4>2. SiteOf(s) = "own"
        BY <3>0, <3>1, <3>4, SiteCases DEF AllInv, FreshInv, HookSteps
      <4>3. r \in Regions /\ body[r] = h /\ r \in live \cap filled
        BY <3>1, <3>4 DEF AllInv, ReadyInv, RegionInv, Attached, Kept
      <4>4. SiteOf(s)' = h
        <5>1. code'[s] = r /\ <<h, s>> \notin abandoned'
          BY <3>0, <3>1, <3>4 DEF AllInv, UndoInv, TypeOK, ClientTypeOK
        <5>2. MarkAt(s)' = h
          BY <3>1, <4>3, <5>1, NamesAssumption DEF MarkAt
        <5>3. code'[s] # None /\ code'[s] # s
          BY <3>1, <4>3, <5>1, NamesAssumption
        <5> QED BY <5>1, <5>2, <5>3 DEF SiteOf
      <4>5. /\ SiteMap' = [SiteMap EXCEPT ![s] = h] /\ SiteMap[s] = "own"
            /\ DamagedMap' = DamagedMap \ {s}
        BY <3>1, <3>4, <4>2, <4>3, <4>4, <2>m, SiteChanges, NamesAssumption
        DEF TypeOK, ClientTypeOK
      <4>6. s \notin DamagedMap
        BY <3>0, <3>1, <2>m DEF AllInv, FreshInv, HookSteps
      <4>7. DamagedMap' = DamagedMap
        BY <4>5, <4>6
      <4>8. UNCHANGED <<TargetMap, OwnedMap>>
        BY <3>1, <2>k
      <4> QED
        BY <3>2, <4>1, <4>5, <4>7, <4>8, <2>m, <2>g DEF D!Next, D!Install
    <3>5. CASE Attached /\ code[s] # None /\ code' = [code EXCEPT ![s] = h]
      BY <3>0, <3>1, <3>2, <3>5, <2>d DEF Mispaired
    <3> QED BY <2>7, <3>0, <3>3, <3>4, <3>5 DEF HookWriteJump, WriteCode
  <2>8. ASSUME NEW h \in Hooks, UnhookRestore(h) PROVE [D!Next]_(D!vars)
    <3> DEFINE s == jump_address[h]
               bytes == jump_original_bytecode[h]
    <3>1. /\ pc = "idle" /\ UNCHANGED regionVars
          /\ UNCHANGED <<jump_address, jump_original_bytecode, abandoned>>
      BY <2>8 DEF UnhookRestore, Idle
    <3>2. CASE UNCHANGED code
      BY <3>1, <3>2, <2>s, <2>u
    <3>3. bytes # None => bytes = s /\ s \in Sites /\ s # None
      BY <3>1, NamesAssumption
      DEF AllInv, PairInv, Mispaired, TypeOK, FieldTypeOK, Kept
    <3>4. CASE bytes # None /\ code[s] # None /\ code' = [code EXCEPT ![s] = bytes]
      <4>1. TargetMap[h] = s
        BY <3>3, <3>4, <2>m DEF TargetOf
      <4>2. SiteOf(s) # "absent"
        BY <3>3, <3>4, SiteCases, DetourAssumption, NamesAssumption
      <4>3. SiteOf(s)' = "own"
        BY <3>1, <3>3, <3>4, NamesAssumption DEF SiteOf, TypeOK, ClientTypeOK
      <4>4. /\ SiteMap' = [SiteMap EXCEPT ![s] = "own"] /\ SiteMap[s] # "absent"
            /\ DamagedMap' = DamagedMap \ {s}
        BY <3>1, <3>3, <3>4, <4>2, <4>3, <2>m, SiteChanges, NamesAssumption
        DEF TypeOK, ClientTypeOK
      <4>5. UNCHANGED <<TargetMap, OwnedMap>>
        BY <3>1, <2>k
      <4> QED BY <3>3, <3>4, <4>1, <4>4, <4>5, <2>m DEF D!Next, D!Restore
    <3>5. CASE bytes # None /\ code[s] # None /\ code' = [code EXCEPT ![s] = h]
      BY <3>1, <3>3, <3>5, <2>d
    <3> QED BY <2>8, <3>2, <3>4, <3>5 DEF UnhookRestore, WriteCode
  <2>9. ASSUME NEW h \in Hooks, UnhookFree(h) PROVE [D!Next]_(D!vars)
    <3> DEFINE r == allocated_addresses[h][idx]
    <3>1. /\ pc = "free" /\ self = h
          /\ UNCHANGED <<code, jump_address, jump_original_bytecode, abandoned>>
      BY <2>9 DEF UnhookFree, At, Fail
    <3>2. CASE UNCHANGED regionVars
      BY <3>1, <3>2, <2>s, <2>u
    <3>3. CASE /\ Attached /\ r \in live
               /\ live' = live \ {r} /\ filled' = filled \ {r}
               /\ body' = [body EXCEPT ![r] = None]
               /\ data' = [data EXCEPT ![r] = None]
      <4>1. data[r] = h /\ body[r] = None /\ r \in Regions
        BY <2>9, <3>3, FreesOwned, NamesAssumption
        DEF AllInv, RegionInv, TypeOK, ClientTypeOK, Kept
      <4>2. SamePlaces
        BY <3>1, <3>3, <4>1, JumpsKept, NamesAssumption DEF TypeOK, ClientTypeOK
      <4>3. UNCHANGED <<SiteMap, DamagedMap, TargetMap>>
        BY <3>1, <4>2, <2>k
      <4>4. \A g \in Hooks :
              OwnedBy(g)' = IF g = h THEN OwnedBy(g) \ {r} ELSE OwnedBy(g)
        BY <3>3, <4>1, NamesAssumption DEF OwnedBy, TypeOK, ClientTypeOK
      <4>5. r \in OwnedMap[h] /\ OwnedMap' = [OwnedMap EXCEPT ![h] = @ \ {r}]
        <5>1. r \in OwnedBy(h)
          BY <4>1 DEF OwnedBy
        <5> HIDE DEF r
        <5> QED BY <5>1, <4>4, <2>m
      <4>6. ~D!HasDetour(h)
        BY <3>1, <2>g DEF AllInv, UndoInv
      <4> QED BY <4>3, <4>5, <4>6, <2>m DEF D!Next, D!Disown
    <3> QED BY <2>9, <3>2, <3>3 DEF UnhookFree
  <2>10. ASSUME NEW h \in Hooks, UnhookDone(h) PROVE [D!Next]_(D!vars)
    BY <2>10, <2>s, <2>u DEF UnhookDone
  <2>11. ASSUME NEW h \in Hooks, CheckFailed(h) PROVE [D!Next]_(D!vars)
    BY <2>11, <2>s, <2>u DEF CheckFailed, Fail
  <2>12. ASSUME NEW h \in Hooks, CheckRead(h) PROVE [D!Next]_(D!vars)
    <3>1. /\ pc = "read" /\ self = h
          /\ UNCHANGED <<clientVars, jump_address, abandoned>>
          /\ jump_original_bytecode' = [jump_original_bytecode EXCEPT ![h] = buf]
      BY <2>12 DEF CheckRead
    <3>2. \A s \in Sites : SiteMap[s] # h
      <4>1. Gone(h)
        BY <3>1 DEF AllInv, UndoInv, HookSteps
      <4> QED BY <4>1, <2>g DEF D!HasDetour
    <3>3. UNCHANGED <<SiteMap, DamagedMap, OwnedMap>>
      BY <3>1, <2>u, <2>k
    <3>4. \A g \in Hooks \ {h} : TargetOf(g)' = TargetOf(g)
      BY <3>1 DEF TargetOf
    <3>5. TargetOf(h)' \in Sites \cup {None}
      BY <1>0 DEF TargetOf, AllInv, TypeOK, FieldTypeOK
    <3>6. TargetMap' = [TargetMap EXCEPT ![h] = TargetOf(h)']
      BY <3>4, <2>m
    <3>7. SiteMap' = [s \in Sites |-> IF SiteMap[s] = h THEN "lost" ELSE SiteMap[s]]
      BY <3>2, <3>3, <2>m
    <3> QED BY <3>3, <3>5, <3>6, <3>7, <2>m DEF D!Next, D!Aim
  <2>13. ASSUME NEW h \in Hooks, CheckWrite(h) PROVE [D!Next]_(D!vars)
    BY <2>13, <2>s, <2>u DEF CheckWrite
  <2>14. ASSUME NEW s \in Sites, ClientLoads(s) PROVE [D!Next]_(D!vars)
    <3>1. /\ code[s] = None /\ code' = [code EXCEPT ![s] = s]
          /\ UNCHANGED regionVars
          /\ UNCHANGED <<jump_address, jump_original_bytecode, abandoned>>
      BY <2>14 DEF ClientLoads
    <3>2. SiteOf(s) = "absent" /\ SiteOf(s)' = "own"
      BY <3>1, NamesAssumption DEF SiteOf, TypeOK, ClientTypeOK
    <3>3. /\ SiteMap' = [SiteMap EXCEPT ![s] = "own"] /\ SiteMap[s] = "absent"
          /\ DamagedMap' = DamagedMap \ {s}
      BY <3>1, <3>2, <2>m, SiteChanges, NamesAssumption DEF TypeOK, ClientTypeOK
    <3>4. UNCHANGED <<DamagedMap, TargetMap, OwnedMap>>
      BY <3>1, <3>3, <2>m, <2>k, NamesAssumption
    <3> QED BY <3>3, <3>4, <2>m DEF D!Next, D!Load
  <2>15. ASSUME NEW s \in Sites, ClientUnloads(s) PROVE [D!Next]_(D!vars)
    <3>1. /\ code' = [code EXCEPT ![s] = None]
          /\ UNCHANGED regionVars
          /\ UNCHANGED <<jump_address, jump_original_bytecode, abandoned>>
      BY <2>15 DEF ClientUnloads
    <3>2. SiteOf(s)' = "absent"
      BY <3>1, NamesAssumption DEF SiteOf, TypeOK, ClientTypeOK
    <3>3. /\ SiteMap' = [SiteMap EXCEPT ![s] = "absent"]
          /\ DamagedMap' = DamagedMap \ {s}
      BY <3>1, <3>2, SiteChanges, NamesAssumption DEF TypeOK, ClientTypeOK
    <3>4. UNCHANGED <<TargetMap, OwnedMap>>
      BY <3>1, <2>k
    <3> QED BY <3>3, <3>4, <2>m DEF D!Next, D!Unload
  <2>e. ASSUME NEW exit, ProcessEnds(exit), UNCHANGED toolVars
        PROVE  [D!Next]_(D!vars)
    <3>1. \A s \in Sites : SiteOf(s)' = "absent" /\ code'[s] \notin Hooks
      BY <2>e, NamesAssumption DEF ProcessEnds, SiteOf
    <3>2. \A h \in Hooks : OwnedBy(h)' = {}
      BY <2>e, NamesAssumption DEF ProcessEnds, OwnedBy
    <3>3. UNCHANGED TargetMap
      BY <2>e, <2>k
    <3> QED BY <3>1, <3>2, <3>3, <2>m DEF D!Next, D!End
  <2>16. ASSUME NEW s \in Sites, ClientEnters(s) PROVE [D!Next]_(D!vars)
    BY <2>16, <2>e, <2>s, <2>u DEF ClientEnters
  <2>17. ASSUME NEW r \in Regions, ClientAllocates(r) PROVE [D!Next]_(D!vars)
    <3>1. UNCHANGED <<filled, body>> /\ live \subseteq live' /\ Keeps
      BY <2>17 DEF ClientAllocates
    <3> QED BY <3>1, <2>s, JumpsKept
  <2>18. CASE ClientLeaves
    BY <2>18, <2>s, <2>u DEF ClientLeaves
  <2>19. CASE ClientExits
    BY <2>19, <2>e DEF ClientExits
  <2>20. CASE UNCHANGED vars
    BY <2>20, <2>s, <2>u DEF vars
  <2> QED
    BY <2>1, <2>2, <2>3, <2>4, <2>5, <2>6, <2>7, <2>8, <2>9, <2>10, <2>11,
       <2>12, <2>13, <2>14, <2>15, <2>16, <2>17, <2>18, <2>19, <2>20
    DEF Next, ToolStep, Hook, Unhook, Check, ClientStep
<1> QED BY <1>0, <1>a, <1>b, <1>c

\* The calls of hook(), unhook() and alloc(), one Win32 call at a time and with
\* the client moving in between, implement detours put in and taken out at one
\* stroke or broken off half-way, until memory is freed for the second time or a
\* failed hook() leaves a site paired with the bytes of another.
THEOREM DetourImplemented == Spec => ImplementsDetour
  BY DetourInit, DetourNext, AllInit, AllNext, PTL
  DEF Spec, ImplementsDetour, D!Spec

=============================================================================
