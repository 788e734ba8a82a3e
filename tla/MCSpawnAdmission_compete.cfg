SPECIFICATION FairSpec
CONSTANTS
    o1 = o1
    o2 = o2
    o3 = o3
    o4 = o4
    r1 = r1
    a1 = a1
    NoOp = NoOp
    NoActor = NoActor
    Roots = {r1}
    Ops = {o1, o3}
    Actors = {a1}
    RootOf <- MCRootOf
    ActorOf <- MCActorOf
    Units <- MCUnits
    TooDeep <- MCTooDeep
    Budget = 1
    WorkflowRoots = {}
    WorkflowUnits = 1
    MaxEpoch = 2
    MaxRuns = 2
    MaxFaults = 0
INVARIANTS
    SpawnedOnce
    NoUnitLost
    NoUnitGained
PROPERTIES
    RowTerminates
    DebitReturned
CHECK_DEADLOCK FALSE
