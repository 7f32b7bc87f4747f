--------------------------- MODULE MCAuthorization ---------------------------
EXTENDS Authorization, TLC
\* Two subjects: one administers if the configuration of p is provisioned,
\* the other has what the bindings give its group.
MCActorOf == [s \in {"admin", "member"} |-> s]
MCGroupsOf == [s \in {"admin", "member"} |->
                 IF s = "admin" THEN {"ops"} ELSE {"team"}]
MCConfiguration == [p \in {"p", "q"} |-> IF p = "p" THEN {"ops"} ELSE {"other"}]
Team(role) == [g \in {"team"} |-> role]
MCRequests ==
    {[key |-> "k", expected |-> 1, desired |-> Team("OWNER")],
     [key |-> "k", expected |-> 1, desired |-> Team("PUBLISHER")],
     [key |-> "k", expected |-> 2, desired |-> Team("VIEWER")]}
MCSymmetry == Permutations(Calls)
=============================================================================
