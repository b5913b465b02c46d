SPECIFICATION PcsSpec
CONSTANTS
  FlitsPerCw = 6
  BeatsPerCw = 8
  T = 1
  LfsrLen = 2
  LfsrTap = 0
  Spacing = 8
  NumTags = 2
  Body <- MCBody
  NetTops <- MCTops
  NetSops = {TRUE}
  Blank = Blank
  Junk = Junk
  NoPattern = NoPattern
  Inputs <- MCWords
  CrcTaps <- MCTaps
  BcrcFlits <- MCFlits
  MaxFlits = 3
  FecN = 6
  FecK = 2
  GfSize = 8
  PrimPoly = 11
  Messages <- MCMessages
  Errors <- MCErrors
  LaneN = 32
  Spl = 4
  RtlPairs = 64
INVARIANTS
  NoOverrun
  Faithful
  RefIsModel
  WordIsOfItsBlock
  VerdictIsOfItsBlock
  DecodesWithinDistance
  LanesCarryAll
PROPERTIES
  BecomesIdle
