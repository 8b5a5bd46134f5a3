SPECIFICATION Spec
CONSTANTS
  Hooks = {h1}
  Sites = {s1, s2}
  Regions = {r1, r2, r3}
  None = None
  Pattern <- AllPatterns
  DEP = TRUE
  MaxTracked = 2
SYMMETRY Symmetry
INVARIANTS Undoable RestoresOwnCode FreesAfterRestore
PROPERTIES UnhookFreesAll ImplementsDetour
