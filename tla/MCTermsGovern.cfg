SPECIFICATION MCSpec
CONSTANTS
  Logs = {"log"}
  Keys = {"k1", "k2", "k3"}
  Leaves = {"g", "m", "f", "w", "c", "a"}
  MaxI64 = 2
  GenesisKeys = {"k1", "k3"}
  NoEntry = "none"
  Producers = {"p1"}
  Witnesses = {"self"}
  Self = "self"
  Second = {"a", "c"}
  Third = {}
  Fourth = {}
  MaxTime = 2
  MaxAt = 1
  MaxCosigned = 3
  MaxRefusals = 1
  Offers <- MCOffers
  LogKeys <- MCGovernedLogKeys
  RotationAnchors <- MCGovernedRotationAnchors
  TermsOf <- MCGovernedTerms
  Says <- MCSays
  AnchorOf <- MCAnchorOf
INVARIANT
  TermsGovern
