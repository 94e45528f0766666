SPECIFICATION MCSpec
CONSTANTS
  Entries = {"genesis", "rotate", "postpone", "witness", "handover", "onward", "epoch",
             "add", "retire", "stale", "staleKey", "forged", "data"}
  NoEntry = "none"
  Producers = {"p1", "p2"}
  LogKeyIds = {"k1", "k2"}
  Witnesses = {"self"}
  Self = "self"
  LogIds = {"log"}
  MaxLength = 5
  Says <- MCSays
  Anchor <- MCAnchor
INVARIANTS
  WalkInv
  EffectiveAuthorized
  EarlierRevisionNeverSkipped
  VersionsChained
  DroppedKeyBridges
CHECK_DEADLOCK FALSE
