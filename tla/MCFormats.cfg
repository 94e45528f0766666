SPECIFICATION FormatsSpec
CONSTANTS
  MaxU64 = 1500
  FractionDigits = 2
  SecondsPerMinute = 2
  SecondsPerHour = 4
  SecondsPerDay = 8
  Numerals <- MCNumerals
  Fractions <- MCFractions
  Components <- MCComponents
  Slips <- MCSlips
  MaxSlips = 1
  Epoch = 1
  FirstYear = 0
  LastYear = 3
  DaysIn <- MCDaysIn
  PartsOfDay = 2
  MaxInstant = 36
  Characters <- MCCharacters
  MaxTypos = 1
  Logs = {"log", "log2"}
  Roots = {"r", "s"}
  Times = {"t", "u"}
  Keys = {"k1", "k2", "k3", "w"}
  Manifests = {"g"}
  Garbled = garbled
  Declared <- MCDeclared
  Deployments <- MCDeployments
  Requests <- MCRequests
INVARIANTS
  DurationExact
  TimeTextExact
  AdmissionSound
  NamingNarrowsNothing
CHECK_DEADLOCK FALSE
