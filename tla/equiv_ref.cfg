SPECIFICATION Spec
CONSTANTS
  Ins = {"in"}
  NoKey = NoKey
  NoRc = NoRc
  Golds <- MCGolds
  Gates <- MCGates
  MethodSets <- MCMethods
INVARIANTS
  PassMeansEqual
  IndependentFailsStand
  InconclusiveIsReal
PROPERTIES
  SeqDecides
