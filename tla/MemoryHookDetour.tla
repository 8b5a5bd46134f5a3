-------------------------- MODULE MemoryHookDetour --------------------------
(***************************************************************************)
(* The calls of MemoryHook, one Win32 call at a time, implement Detour.    *)
(***************************************************************************)
EXTENDS MemoryHook

\* What is at a site is not mistaken for a hook object.
ASSUME DetourAssumption == Hooks \cap {"absent", "own", "lost", "broken"} = {}

(***************************************************************************)
(* The refinement mapping. A jump is a detour only when it leads to the    *)
(* complete bytecode of a hook object; one that does not is "broken", as   *)
(* is the code of another site, and Detour has no step to such a state. A  *)
(* jump its object has moved away from is lost, as the rest of a failed    *)
(* write is.                                                               *)
(***************************************************************************)
MarkAt(s) ==
  CASE code[s] \in Hooks -> code[s]
    [] code[s] \in live \cap filled -> body[code[s]]
    [] OTHER -> "broken"

SiteOf(s) ==
  CASE code[s] = None -> "absent"
    [] code[s] = s -> "own"
    [] OTHER -> IF <<MarkAt(s), s>> \in abandoned THEN "lost" ELSE MarkAt(s)

\* The site is what unhook() restores once the bytes saved are those of the
\* site they would be written to.
TargetOf(h) ==
  IF jump_original_bytecode[h] = jump_address[h] THEN jump_address[h] ELSE None

OwnedBy(h) == {r \in Regions : data[r] = h}

Lapsed == stolen # {} \/ exposed # {}
SiteMap == [s \in Sites |-> IF Lapsed THEN "absent" ELSE SiteOf(s)]
DamagedMap == {s \in Sites : ~Lapsed /\ code[s] \in Hooks}
TargetMap == [h \in Hooks |-> IF Lapsed THEN None ELSE TargetOf(h)]
OwnedMap == [h \in Hooks |-> IF Lapsed THEN {} ELSE OwnedBy(h)]

D == INSTANCE Detour WITH
  site <- SiteMap, damaged <- DamagedMap, target <- TargetMap,
  owned <- OwnedMap, void <- Lapsed

\* Each step of hook(), unhook(), alloc() and the client is one step of Detour
\* or none: a hook() of six Win32 calls that may fail at each takes effect at
\* the last, an unhook() at its first, whatever happens in between.
ImplementsDetour == D!Spec
=============================================================================
