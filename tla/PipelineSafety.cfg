\* Two generations, each leased up to twice by either of two workers, which may
\* restart with another routing key.
SPECIFICATION MCSpec
CONSTANTS
  Releases = {r1}
  IdempotencyIds = {i1, i2}
  Owners = {o1}
  Workers = {w1, w2}
  OwnerOf <- OneName
  Kids = {k1, k2}
  NoRelease = NoRelease
  NoOwner = NoOwner
  NoKid = NoKid
  NoDocument = NoDocument
  MaxGeneration = 2
  MaxAttempts = 2
  ClaimLimit = 1
SYMMETRY Symmetry
CHECK_DEADLOCK FALSE
INVARIANTS
  PipelineInv
PROPERTIES
  PointerLeads
  LiveLeaseIsExclusive
  ImplementsRegister
