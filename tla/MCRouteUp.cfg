CONSTANTS
  Root = 123
  Addresses = {f1, f2}
  MaxDepth = 3
SPECIFICATION Spec
INVARIANTS
  UpFollowsPath
