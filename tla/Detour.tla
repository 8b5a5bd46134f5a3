------------------------------- MODULE Detour -------------------------------
(***************************************************************************)
(* What the hooks of src/wizwalker-rs/src/memory/hooks.rs promise, without *)
(* the Win32 calls they are made of: a site of the client has its own code *)
(* or a detour that works, put there at one stroke and taken out at one    *)
(* stroke, or is damaged by a write that failed half-way, and memory is    *)
(* taken from a hook object's caller only once the object has neither a    *)
(* detour nor damage in the client. A hook() that finds another site loses *)
(* what its object has in the client.                                      *)
(*                                                                         *)
(* The promise ends (Void) when memory is freed for the second time, or a  *)
(* failed hook() has left a site paired with the bytes of another.         *)
(***************************************************************************)
CONSTANTS
  Hooks,       \* the hook objects
  Sites,       \* addresses of the client's code a hook may patch
  Regions,     \* addresses alloc() may return
  None         \* no site

VARIABLES
  site,        \* site[s]: "absent", "own", the object whose detour or damage
               \* is at s, or "lost" when that object has moved on
  damaged,     \* the sites where the last write failed half-way
  target,      \* target[h]: where h's unhook() puts the client's code back
  owned,       \* owned[h]: what alloc() has given h and unhook() has not freed
  void         \* has the promise ended?

vars == <<site, damaged, target, owned, void>>

Nothing ==
  /\ site = [s \in Sites |-> "absent"]
  /\ damaged = {}
  /\ target = [h \in Hooks |-> None]
  /\ owned = [h \in Hooks |-> {}]

Init ==
  /\ site \in [Sites -> {"absent", "own"}]
  /\ damaged = {}
  /\ target = [h \in Hooks |-> None]
  /\ owned = [h \in Hooks |-> {}]
  /\ void = FALSE

HasDetour(h) == \E s \in Sites : site[s] = h

-----------------------------------------------------------------------------
\* hook() makes up its mind, or fails on the way: what h had in the client is
\* out of its reach.
Aim(h) ==
  /\ \E s \in Sites \cup {None} : target' = [target EXCEPT ![h] = s]
  /\ site' = [s \in Sites |-> IF site[s] = h THEN "lost" ELSE site[s]]
  /\ UNCHANGED <<damaged, owned, void>>

\* hook() takes effect: on the client's own code, and nowhere else.
Install(h) ==
  /\ ~HasDetour(h) /\ target[h] # None /\ site[target[h]] = "own"
  /\ site' = [site EXCEPT ![target[h]] = h]
  /\ UNCHANGED <<damaged, target, owned, void>>

\* unhook() takes effect. Another object's detour at the same site goes too.
Restore(h) ==
  /\ target[h] # None /\ site[target[h]] # "absent"
  /\ site' = [site EXCEPT ![target[h]] = "own"]
  /\ damaged' = damaged \ {target[h]}
  /\ UNCHANGED <<target, owned, void>>

\* Either fails half-way, at the one site its object aims at.
Damage(h) ==
  /\ target[h] # None /\ site[target[h]] # "absent"
  /\ site' = [site EXCEPT ![target[h]] = h]
  /\ damaged' = damaged \cup {target[h]}
  /\ UNCHANGED <<target, owned, void>>

Own(h) ==
  /\ \E r \in Regions : /\ \A g \in Hooks : r \notin owned[g]
                        /\ owned' = [owned EXCEPT ![h] = @ \cup {r}]
  /\ UNCHANGED <<site, damaged, target, void>>

Disown(h) ==
  /\ ~HasDetour(h)
  /\ \E r \in owned[h] : owned' = [owned EXCEPT ![h] = @ \ {r}]
  /\ UNCHANGED <<site, damaged, target, void>>

\* The client loads and unloads the module that holds a site, and ends.
Load(s) ==
  /\ site[s] = "absent"
  /\ site' = [site EXCEPT ![s] = "own"]
  /\ UNCHANGED <<damaged, target, owned, void>>

Unload(s) ==
  /\ site' = [site EXCEPT ![s] = "absent"]
  /\ damaged' = damaged \ {s}
  /\ UNCHANGED <<target, owned, void>>

End ==
  /\ site' = [s \in Sites |-> "absent"]
  /\ damaged' = {}
  /\ owned' = [h \in Hooks |-> {}]
  /\ UNCHANGED <<target, void>>

Void == void' = TRUE /\ Nothing'

Next ==
  /\ ~void
  /\ \/ \E h \in Hooks : \/ Aim(h) \/ Install(h) \/ Restore(h)
                        \/ Damage(h) \/ Own(h) \/ Disown(h)
     \/ \E s \in Sites : Load(s) \/ Unload(s)
     \/ End \/ Void

Spec == Init /\ [][Next]_vars
=============================================================================
