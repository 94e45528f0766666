SPECIFICATION MCSpec
CONSTANTS
  Logs = {"x", "y"}
  Keys = {"k1"}
  Leaves = {"g", "m", "w", "c", "a", "b"}
  MaxI64 = 2
  GenesisKeys = {"k1"}
  Second = {"a"}
  Third = {"a", "b"}
  Fourth = {"a", "b"}
  MaxTime = 1
  MaxAt = 1
  MaxCosigned = 3
  MaxRefusals = 2
  Offers <- MCHistoryOffers
  LogKeys <- MCLogKeys
  RotationAnchors <- MCRotationAnchors
  TermsOf <- MCTermsOf
INVARIANTS
  Inv
  HonestNeverRefused
  SeriesAppendOnly
  RefusalsCheckable
  FloorHasEvidence
PROPERTY
  FloorPermanent
  RetryNeverRefused
  KeepsPromise
