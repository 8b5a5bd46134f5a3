SPECIFICATION Spec
CONSTANTS
  Limit = 2
  Protections = {2, 4, 32, 64}
  Span = 0
PROPERTIES AllowedAreScanned
