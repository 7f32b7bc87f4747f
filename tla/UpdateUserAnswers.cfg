\* Two calls, none cut off: the first that fails so has met no other.
CONSTANTS
  c1 = c1
  c2 = c2
  index = index
  page = page
  Calls <- MCCalls
  Assets <- MCAssets
  None = None
  AppNames = {"a", "b"}
  Urls = {"u", "v", "bad"}
  InvalidUrls = {"bad"}
  Tags = {"t"}
  App = "a"
  Url = "u"
  Tag = "t"
  MaxCuts = 0
SPECIFICATION Spec
SYMMETRY Symmetry
CHECK_DEADLOCK FALSE
INVARIANT UpdateUserAnswers
