SPECIFICATION FairSpec
CONSTANTS
    root = root
    Sessions = {root}
    Parent <- MCParent
    NoSession = NoSession
    Clients = {c1, c2}
    Tasks = {t1, t2}
    NoOne = NoOne
    Turn = Turn
    MaxSeq = 4
    MaxGen = 1
    MaxFaults = 2
PROPERTY ClearedIsKept PromptLands UnusedIsDropped
CHECK_DEADLOCK FALSE
