SPECIFICATION Spec
CONSTANTS
  Hooks = {h1}
  Sites = {s1}
  Regions = {r1}
  None = None
  Pattern <- AllPatterns
  DEP = FALSE
  MaxTracked = 0
INVARIANTS NotRunningIsTrue
