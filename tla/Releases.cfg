\* One file with two versions, one upload, two workers of one name,
\* two attempts of each job.
SPECIFICATION ReleaseSpec
CONSTANTS
  Workers = {w1, w2}
  Owners = {o1}
  OwnerOf <- OneName
  Paths = {p1}
  Contents = {c1, c2}
  NoOwner = NoOwner
  NoManifest = NoManifest
  Absent = Absent
  NoPath = NoPath
  MaxAttempts = 2
  ListRounds = 2
  MaxUploads = 1
SYMMETRY Symmetry
CHECK_DEADLOCK FALSE
INVARIANTS
  JobsConsistent
  ReleaseInv
PROPERTIES
  LeasesProtect
  DecisionsStand
  ImplementsJobs
