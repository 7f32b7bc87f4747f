\* Two browsers with one path between them, a visit more, one deploy in between; a
\* console that goes to other apps three times.
CONSTANTS
  gap = gap
  b1 = b1
  b2 = b2
  Matchers <- MCMatchers
  Bundles <- MCBundles
  Visits <- MCVisits
  Browsers <- MCBrowserSet
  Gap = gap
  Nothing = Nothing
  Elsewhere = Elsewhere
  MaxVisits = 1
  MaxDeploys = 1
  Apps = {a1, a2}
  NoApp = NoApp
  MaxFetches = 3
  MaxMoves = 3
  MaxOperations = 2
SYMMETRY Symmetry
SPECIFICATION MCBrowsersSpec
CHECK_DEADLOCK FALSE
INVARIANTS
  VisitsArrive
  ConsoleInv
