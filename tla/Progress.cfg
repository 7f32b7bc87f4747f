\* Two generations, each leased up to twice by either of two workers, one claim at a
\* time; two processes, three faults.  No symmetry: liveness is checked with the rest.
CONSTANTS
  Releases = {r1}
  IdempotencyIds = {i1, i2}
  Owners = {o1, o2}
  Workers = {w1, w2}
  OwnerOf <- OneName
  Kids = {k1}
  NoRelease = NoRelease
  NoOwner = NoOwner
  NoKid = NoKid
  NoDocument = NoDocument
  MaxGeneration = 2
  MaxAttempts = 2
  ClaimLimit = 1
  Processes = {p1, p2}
  OidcProcesses = {p2}
  NoProcess = NoProcess
  MaxRequests = 2
  MaxFaults = 3
SPECIFICATION MCProgressSpec
CHECK_DEADLOCK FALSE
INVARIANTS
  ProgressTypeOK
  OutboxConsistent
  NoStrandedRow
  ServerInOrder
PROPERTIES
  OutboxTerminates
  PipelineServes
  ZeroMeansClean
  ServersEndAndServe
