CONSTANTS
    Processes = {p, q}
    Calls = {a, b}
    MaxSessions = 2
    MaxLogins = 2
    MaxClock = 3
    Phases = 3
    Ring <- MCRing
    Primary <- MCPrimary
    Idle <- MCIdle
    Absolute = 2
    LoginLifetime = 1
    Retention = 1
SPECIFICATION Spec
CHECK_DEADLOCK FALSE
SYMMETRY MCSymmetry
INVARIANTS
  SessionsInv
  RolloutCostsNoSession
PROPERTIES
  EndIsFinal
