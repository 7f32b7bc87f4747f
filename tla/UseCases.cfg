\* Two calls of any two use cases, in each order and interleaving, of which one
\* may be cut off; a call ends and is not made again, so the system stops.
CONSTANTS
  c1 = c1
  c2 = c2
  index = index
  page = page
  Calls <- MCCalls
  Assets <- MCAssets
  None = None
  AppNames = {"a", "b"}
  Urls = {"u", "v", "bad"}
  InvalidUrls = {"bad"}
  Tags = {"t"}
  App = "a"
  Url = "u"
  Tag = "t"
  MaxCuts = 1
SPECIFICATION Spec
SYMMETRY Symmetry
CHECK_DEADLOCK FALSE
INVARIANTS
  StoresAgree
  CallsAnswerTruly
PROPERTIES
  ChangesAreMeant
