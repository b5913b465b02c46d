SPECIFICATION FairSpec
CONSTANTS
  FlitsPerCw = 6
  BeatsPerCw = 8
  T = 1
  LfsrLen = 2
  LfsrTap = 0
  Spacing = 15
  NumTags = 3
  Body <- MCBody
  NetTops <- MCZeroTop
  NetSops = {FALSE}
  Blank = Blank
  Junk = Junk
  NoPattern = NoPattern
  NoItem = NoItem
  MaxErrs = 1
INVARIANTS
  LfsrsInStep
PROPERTIES
  ImplementsChannel
  CodewordsComeOut
