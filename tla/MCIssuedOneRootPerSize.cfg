SPECIFICATION MCSpec
CONSTANTS
  Logs = {"log"}
  Keys = {"k1", "k2"}
  Leaves = {"g", "m", "w", "c", "a", "b"}
  MaxI64 = 2
  GenesisKeys = {"k1"}
  Second = {"m"}
  Third = {"a", "b"}
  Fourth = {}
  MaxTime = 1
  MaxAt = 2
  MaxCosigned = 2
  MaxRefusals = 2
  Offers <- MCOffers
  LogKeys <- MCLogKeys
  RotationAnchors <- MCRotationAnchors
  TermsOf <- MCTermsOf
INVARIANTS
  IssuedOneRootPerSize
