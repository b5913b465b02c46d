SPECIFICATION LaneSpec
CONSTANTS
  FlitsPerCw = 6
  BeatsPerCw = 8
  T = 1
  LfsrLen = 2
  LfsrTap = 0
  Body <- MCBody
  Blank = Blank
  Junk = Junk
  NoPattern = NoPattern
  CwSpacing = 8
  LaneGap = 0
  MaxLaneErrs = 1
  NumCws = 2
INVARIANTS
  NoWordDropped
