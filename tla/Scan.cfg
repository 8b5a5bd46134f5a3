SPECIFICATION FairSpec
CONSTANTS
  Limit = 3
  Protections = {1, 32}
  Span = 1
INVARIANTS TypeOK FindsOnlyInChangedPages StopsAtNoAccess
PROPERTIES ScanAdvances ScanReturns ImplementsSearch
