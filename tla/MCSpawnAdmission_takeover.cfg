SPECIFICATION Spec
CONSTANTS
    o1 = o1
    o2 = o2
    o3 = o3
    o4 = o4
    r1 = r1
    a1 = a1
    NoOp = NoOp
    NoActor = NoActor
    Roots = {r1}
    Ops = {o3, o4}
    Actors = {a1}
    RootOf <- MCRootOf
    ActorOf <- MCActorOf
    Units <- MCUnits
    TooDeep <- MCTooDeep
    Budget = 1
    WorkflowRoots = {r1}
    WorkflowUnits = 1
    MaxEpoch = 4
    MaxRuns = 2
    MaxFaults = 1
INVARIANTS
    TypeOK
    DebitRecoverable
    NoStrandedRow
PROPERTIES
    StaleNeverAdvances
CHECK_DEADLOCK FALSE
