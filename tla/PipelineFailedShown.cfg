\* The run that contradicts the documents.
SPECIFICATION MCSpec
CONSTANTS
  Releases = {r1}
  IdempotencyIds = {i1, i2}
  Owners = {o1}
  Workers = {w1}
  OwnerOf <- OneName
  Kids = {k1}
  NoRelease = NoRelease
  NoOwner = NoOwner
  NoKid = NoKid
  NoDocument = NoDocument
  MaxGeneration = 2
  MaxAttempts = 2
  ClaimLimit = 1
SYMMETRY Symmetry
INVARIANTS
  FailedIsNotShown
CHECK_DEADLOCK FALSE
