CONSTANTS
  Root = 123
  Addresses = {f1, f2}
  MaxDepth = 3
SPECIFICATION FairSpec
INVARIANTS
  StaysOnPath
PROPERTIES
  HopsCloser
  Arrives
