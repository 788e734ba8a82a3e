SPECIFICATION Spec
CONSTANTS
    root = root
    child = child
    Sessions = {root, child}
    Readers = {r1, r2}
    Versions = {v1, v2}
    Tree <- MCTree
    Payloads = {e1, e2}
    NoSession = NoSession
    NoVersion = NoVersion
    Interval = 1
    Capacity = 1
    MaxSeq = 2
    MaxTxRows = 1
SYMMETRY Symmetric
INVARIANTS SnapshotAnchored
PROPERTIES CacheTransparent
CHECK_DEADLOCK FALSE
