SPECIFICATION TpSpec
CONSTANTS
  Tassn = {t1, t2, t3}
  Tpmsn = {m1, m2}
  Wide = Wide
  None = None
  Free = Free
  CompleteTpmsn <- MCAnything
PROPERTIES
  ImplementsContract
