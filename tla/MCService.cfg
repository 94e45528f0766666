SPECIFICATION MCServiceSpec
CONSTANTS
  Logs = {"log"}
  Keys = {"k1", "k2"}
  Leaves = {"g", "m", "w", "c", "a", "b"}
  MaxI64 = 2
  GenesisKeys = {"k1"}
  Second = {"m", "w", "c", "a"}
  Third = {"b"}
  Fourth = {}
  MaxTime = 1
  MaxAt = 2
  MaxCosigned = 3
  MaxRefusals = 3
  Handlers = {h1, h2}
  Nobody = Nobody
  NoOffer = NoOffer
  MaxRequests = 3
  MaxMishaps = 1
  Offers <- MCServiceOffers
  LogKeys <- MCLogKeys
  RotationAnchors <- MCRotationAnchors
  TermsOf <- MCTermsOf
INVARIANTS
  ServiceInv
  AnswersDurable
PROPERTIES
  ImplementsWitness
  RequestsEnd
  DrainCompletes
CHECK_DEADLOCK FALSE
