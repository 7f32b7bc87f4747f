CONSTANTS
    Processes = {"p", "q"}
    Calls = {c, d}
    SessionIds = {"admin", "member"}
    ActorOf <- MCActorOf
    GroupsOf <- MCGroupsOf
    Configuration <- MCConfiguration
    Groups = {"ops", "team"}
    Applications = {"app"}
    Operations = {"APPLICATION_READ", "APPLICATION_CREATE", "PUBLISH"}
    Requests <- MCRequests
    Lifetime = 1
    MaxClock = 2
    MaxVersion = 3
SPECIFICATION Spec
CHECK_DEADLOCK FALSE
SYMMETRY MCSymmetry
INVARIANTS
  DecisionsHold
  NoDeadlock
PROPERTIES
  RepeatsAreAnswered
  ImplementsRegister
