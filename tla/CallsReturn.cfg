SPECIFICATION FairSpec
CONSTANTS
  Hooks = {h1}
  Sites = {s1}
  Regions = {r1, r2, r3}
  None = None
  Pattern <- AllPatterns
  DEP = TRUE
  MaxTracked = 2
PROPERTIES CallsReturn CallsAdvance
