SPECIFICATION Spec
CONSTANTS
  Ins = {"in"}
  NoKey = NoKey
  NoRc = NoRc
  Golds <- MCMuxed
  Gates <- MCInverts
  MethodSets <- MCRegpair
INVARIANTS
  PassMeansEqual
