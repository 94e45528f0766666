SPECIFICATION MCReadSpec
CONSTANTS
  Logs = {"log"}
  Keys = {"k1"}
  Leaves = {"g", "m", "w", "c", "a", "b"}
  MaxI64 = 2
  GenesisKeys = {"k1"}
  Second = {"a", "c"}
  Third = {"a"}
  Fourth = {}
  MaxTime = 2
  MaxAt = 1
  MaxCosigned = 2
  MaxRefusals = 1
  Readers = {"r"}
  Offers <- MCOffers
  LogKeys <- MCLogKeys
  RotationAnchors <- MCRotationAnchors
  TermsOf <- MCTermsOf
INVARIANTS
  ReadInv
  AnswersExisted
  AnswersCoverIssued
  AnswersMoveForward
  StaleExact
