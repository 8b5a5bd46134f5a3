---------------------------- MODULE MCMemoryHook ----------------------------
(***************************************************************************)
(* Small instances of MemoryHook for TLC. Every pattern matches the code   *)
(* of every site, so hook objects compete for sites.                       *)
(***************************************************************************)
EXTENDS MemoryHookDetour, TLC

AllPatterns == [h \in Hooks |-> Sites]

Symmetry ==
  Permutations(Hooks) \cup Permutations(Sites) \cup Permutations(Regions)
=============================================================================
