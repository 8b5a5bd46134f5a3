--------------------------- MODULE MCSymbolTable ---------------------------
(***************************************************************************)
(* Small instances of SymbolTable for TLC: two versions of a DLL that name *)
(* themselves alike, and a third that has no readable exports.             *)
(***************************************************************************)
EXTENDS SymbolTable, TLC

CONSTANTS none, own, function

WithExports == Dlls \ {none}
OneName == [d \in Dlls |-> own]
OneFunction == [d \in Dlls |-> IF d = none THEN {} ELSE {function}]

Symmetry == Permutations(Dirs) \cup Permutations(WithExports)
=============================================================================
