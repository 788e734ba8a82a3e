SPECIFICATION FairSpec
CONSTANTS
    a1 = a1
    a2 = a2
    root = root
    child = child
    key = key
    c1 = c1
    c2 = c2
    Asks = {a1, a2}
    SessionOf <- MCSession
    KeyOf <- MCKey
    Keys = {key}
    KindOf <- MCKind
    Sessions = {root, child}
    RootOf <- MCRootOf
    Roots = {root}
    Clients = {c1, c2}
    NoAsk = NoAsk
    NoRoot = NoRoot
    Budget = 2
INVARIANTS YoloReleased PendingIsDurable SavedWasHeard
PROPERTY AskReaches
CHECK_DEADLOCK FALSE
