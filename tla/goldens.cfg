SPECIFICATION GoldensSpec
CHECK_DEADLOCK FALSE
CONSTANTS
  Tassn = {t1, t2, t3}
  Tpmsn = {m1, m2}
  Wide = Wide
  None = None
  Free = Free
  CompleteTpmsn <- MCFitting
  Depth = 2
  BusAddr <- MCBusAddr
  Seg <- MCSeg
  Data = {0, 1}
  Zero = 0
  Undef = Undef
  PowerUp <- MCPowerUp
  Payload = {0, 1}
  ZeroPayload = 0
  NoBeat = NoBeat
INVARIANTS
  FlushDrained
  CellsAgree
  NeverFails
  MonitorsAgree
  AccessesAnswered
  QuietIsProduct
PROPERTIES
  ImplementsContract
  ImplementsMemory
  StreamsImplementChannel
