SPECIFICATION PlSpec
CONSTANTS
  Leaf = {1, 2}
  Registered = {1}
  Contracts <- MCContracts
  Delays <- MCDelays
  OnMain <- MCOnMain
  MayKeep = {FALSE}
  MaxSteps = 5
  None = None
  Handwritten = Handwritten
  Unmarked = Unmarked
INVARIANTS
  StubShowsBlackbox
CHECK_DEADLOCK FALSE
