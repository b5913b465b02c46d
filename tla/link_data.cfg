SPECIFICATION Spec
CONSTANTS
  FlitsPerCw = 2
  BeatsPerCw = 5
  T = 1
  LfsrLen = 2
  LfsrTap = 0
  Spacing = 5
  NumTags = 1
  Body <- MCBody
  NetTops <- MCTops
  NetSops = {TRUE, FALSE}
  Blank = Blank
  Junk = Junk
  NoPattern = NoPattern
  NoItem = NoItem
  MaxErrs = 0
PROPERTIES
  ImplementsChannel
