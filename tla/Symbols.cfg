SPECIFICATION Spec
CONSTANTS
  Dirs = {system, current}
  SystemDirs = {system, current}
  Modules = {m1}
  Dlls = {v1, v2, none}
  none = none
  own = own
  function = function
  Parsed <- WithExports
  Symbols = {own, function}
  DllName <- OneName
  Exports <- OneFunction
  None = None
SYMMETRY Symmetry
INVARIANTS TypeOK AddressIsRight
PROPERTIES OnlyForcedReads TablesAreKept
