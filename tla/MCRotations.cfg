SPECIFICATION MCSpec
CONSTANTS
  Logs = {"log"}
  Keys = {"k1", "k2", "k3"}
  Leaves = {"g", "m", "f", "w", "c", "a"}
  MaxI64 = 2
  GenesisKeys = {"k1", "k3"}
  NoEntry = "none"
  Producers = {"p1"}
  Witnesses = {"self"}
  Self = "self"
  Second = {"m", "f", "w"}
  Third = {"a"}
  Fourth = {}
  MaxTime = 2
  MaxAt = 2
  MaxCosigned = 2
  MaxRefusals = 1
  Offers <- MCRotationOffers
  LogKeys <- MCGovernedLogKeys
  RotationAnchors <- MCGovernedRotationAnchors
  TermsOf <- MCGovernedTerms
  Says <- MCSays
  AnchorOf <- MCAnchorOf
INVARIANTS
  KeysHandedOver
  OneRootPerSize
  RefusalsCiteHeld
  ServedAnchorIsEarliest
  AnchorsOwnHistory
  IssuedSeriesStored
  ResubmissionIdempotent
