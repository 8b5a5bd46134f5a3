------------------------------- MODULE Search -------------------------------
(***************************************************************************)
(* What a caller of pattern_scan may rely on, whatever regions the client  *)
(* has: an answer holds addresses where the pattern was while the client   *)
(* ran, exactly one unless more were asked for, and comes with the handle  *)
(* as it was; an error may have closed the handle. No answer need be       *)
(* complete, and the pattern need not be there any more.                   *)
(***************************************************************************)
EXTENDS FiniteSets, Naturals

CONSTANT Places  \* addresses

VARIABLES
  running,       \* does the client run?
  there,         \* where the pattern is
  handle,        \* the process handle
  busy,          \* is a search under way?
  many,          \* may the answer be more than one address?
  seen,          \* where the pattern has been seen
  answer         \* what the last search returned

vars == <<running, there, handle, busy, many, seen, answer>>

Init ==
  /\ running = TRUE /\ there \in SUBSET Places
  /\ handle = "open" /\ ~busy /\ many = FALSE
  /\ seen = {} /\ answer = "none"

-----------------------------------------------------------------------------
Ask ==
  /\ ~busy
  /\ busy' = TRUE /\ many' \in BOOLEAN /\ seen' = {} /\ answer' = "none"
  /\ UNCHANGED <<running, there, handle>>

Refuse ==
  /\ ~busy
  /\ answer' = "error"
  /\ UNCHANGED <<running, there, handle, busy, many, seen>>

Look ==
  /\ busy /\ running /\ handle = "open"
  /\ \E places \in SUBSET there : seen' = seen \cup places
  /\ UNCHANGED <<running, there, handle, busy, many, answer>>

Answer ==
  /\ busy
  /\ \E place \in seen : many \/ seen = {place}
  /\ busy' = FALSE /\ answer' = "ok"
  /\ UNCHANGED <<running, there, handle, many, seen>>

Fail ==
  /\ busy
  /\ busy' = FALSE /\ answer' = "error" /\ handle' \in {handle, "closed"}
  /\ UNCHANGED <<running, there, many, seen>>

\* The client moves the pattern about, and ends.
Change ==
  /\ running
  /\ there' \in SUBSET Places
  /\ UNCHANGED <<running, handle, busy, many, seen, answer>>

End ==
  /\ running
  /\ running' = FALSE
  /\ UNCHANGED <<there, handle, busy, many, seen, answer>>

Next == Ask \/ Refuse \/ Look \/ Answer \/ Fail \/ Change \/ End

Spec == Init /\ [][Next]_vars
=============================================================================
