SPECIFICATION MCSpec
CONSTANTS
  Entries = {"genesis", "rotate", "malformed", "data"}
  NoEntry = "none"
  Producers = {"p1", "p2"}
  LogKeyIds = {"k1", "k2"}
  Witnesses = {"self"}
  Self = "self"
  LogIds = {"log"}
  MaxLength = 5
  Says <- MCSays
  Anchor <- MCAnchor
INVARIANT OnlyProducersAbort
CHECK_DEADLOCK FALSE
