SPECIFICATION Spec
CONSTANTS
  Ins = {"in"}
  NoKey = NoKey
  NoRc = NoRc
  Golds <- MCReference
  Gates <- MCOutputs
  MethodSets <- MCRegpair
INVARIANTS
  PassMeansEqual
