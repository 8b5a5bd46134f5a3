SPECIFICATION Spec
CONSTANTS
  Hooks = {h1, h2}
  Sites = {s1}
  Regions = {r1, r2, r3}
  None = None
  Pattern <- AllPatterns
  DEP = FALSE
  MaxTracked = 1
SYMMETRY Symmetry
INVARIANTS TypeOK OriginalIsCode JumpsAreReady ThreadIsSafe
PROPERTIES FreesOwnOnly ImplementsDetour
