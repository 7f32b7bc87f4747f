\* Two overlapping refreshes, two generations, a bucket that may be restored and a
\* process that may be restarted.  No symmetry: liveness.
SPECIFICATION Spec
CONSTANTS
  Calls = {c1, c2}
  Digests = {d1, d2}
  NoDocument = NoDocument
  NoAnswer = NoAnswer
  MaxGeneration = 2
CHECK_DEADLOCK FALSE
INVARIANTS
  CacheInv
PROPERTIES
  AnswersNeverRegress
  AcknowledgedReachesContent
