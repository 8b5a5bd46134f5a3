SPECIFICATION Spec
CONSTANTS
  Wads = {w1}
  Paths = {g}
  GamePaths = {g}
  Files = {f1}
  old = old
  new = new
  Names <- NamesRead
  Nested <- NestedRead
  Contents = {old}
  Journal <- Journals
  Broken <- IsBroken
  Length <- Sizes
  Format <- Versions
  Written <- FilesOf
  Data <- DataOf
  None = None
  MaxEntries = 2
PROPERTIES CallOpenIsNews
