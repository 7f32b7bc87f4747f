CONSTANTS
  Calls = {c1, c2}
  Sources = {s1, s2, s3}
  Keys = {k1, k2}
  Versions = {1, 2}
  Window = 2
  PerSource = 2
  Global = 2
  Concurrency = 2
  MaxSources = 2
  Hour = 2
  Capacity = 1
  LoginKept = 3
  DiscoveryTtl = 1
  HttpTimeout = 1
  MaxChanges = 1
  MaxTime = 5
  s1 = s1
  w1 = w1
  w2 = w2
  v1 = v1
  r1 = r1
  h1 = h1
  h2 = h2
  Kids <- MCKids
  NotBefore <- MCNotBefore
  NotAfter <- MCNotAfter
  Rollout <- MCRollout
  Workers <- MCWorkers
  Verifiers = {v1}
  Targets = {r1, NoRelease}
  NoRelease = NoRelease
  Hosts <- MCHosts
  NoKid = 0
  Nothing = Nothing
  MaxGeneration = 2
  LastInstant = 1
  Versioned = TRUE
  Inspector = v1
  MaxRestores = 1
  Writers = {t1}
SYMMETRY Symmetry
SPECIFICATION MCHousekeepingSpec
CHECK_DEADLOCK FALSE
INVARIANTS
  LimitsHold
  PointerIsAccepted
  InspectionIsRight
  SchemaFitsVersion
PROPERTIES
  ProviderIsRecent
  RetainedDataStays
