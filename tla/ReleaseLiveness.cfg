\* One worker that fails at any step, two attempts of each job.  No symmetry: the
\* properties are temporal.
SPECIFICATION FairReleaseSpec
CONSTANTS
  Workers = {w1}
  Owners = {o1}
  OwnerOf <- OneName
  Paths = {p1}
  Contents = {c1, c2}
  NoOwner = NoOwner
  NoManifest = NoManifest
  Absent = Absent
  NoPath = NoPath
  MaxAttempts = 2
  ListRounds = 2
  MaxUploads = 1
CHECK_DEADLOCK FALSE
PROPERTIES
  JobsEnd
  ReadyIsReported
