SPECIFICATION GateSpec
CONSTANTS
  Worlds <- AllWorlds
  Edited <- TwoRunWorlds
  Waivers <- MCWaivers
  Modes = {"local", "ci"}
  MaxRuns = 2
  Leaf = {1, 2}
  Registered = {1}
  Contracts <- MCContracts
  Delays <- MCDelays
  OnMain <- MCOnMain
  MayKeep = {FALSE}
  MaxSteps = 4
  None = None
  Handwritten = Handwritten
  Unmarked = Unmarked
INVARIANTS
  TypeOK
  AllJobsPassed
  LeaksAreNotListed
  PassMeansClean
  ListsExcuseOnlyTheirs
  DefectsDoNotMask
  NoPretending
  InheritedInCi
  StubsAreCurrent
  CutShowsStub
  FiguresAreMeasured
  PassIsMeasured
CHECK_DEADLOCK FALSE
