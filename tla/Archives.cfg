SPECIFICATION Spec
CONSTANTS
  Wads = {w1, w2}
  Paths = {p, g}
  GamePaths = {g}
  Files = {f1, f2}
  old = old
  new = new
  Names <- NamesRead
  Nested <- NestedRead
  Contents = {old, new}
  Journal <- Journals
  Broken <- IsBroken
  Length <- Sizes
  Format <- Versions
  Written <- FilesOf
  Data <- DataOf
  None = None
  MaxEntries = 2
SYMMETRY Symmetry
INVARIANTS TypeOK FreshEntriesWin FileIsOfPath JournalIsInStep
PROPERTIES NamesAreKept
