\* Two tasks, one controller, a lead and a child session, under fair scheduling.
SPECIFICATION FairSpec
CONSTANTS
    NoSession = NoSession
    lead = lead
    child = child
    Sessions <- MCSessions
    Callers = {c1, c2}
    Controllers = {k1}
    ChildOf <- MCChildOf
    Causes <- MCCauses
    MaxRequests = 2
INVARIANTS SingleActiveTurn NoLostNotify
PROPERTIES ImplementsGate QueuedResolves DrainCompletes
