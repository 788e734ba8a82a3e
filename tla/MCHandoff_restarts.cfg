SPECIFICATION Spec
CONSTANTS
    Roots = {r1}
    Members = {m1}
    NoSession = none
    Limit <- LimitRestarts
INVARIANTS DrivenOnce OpenHasTurn
PROPERTIES StartupDelivers
CHECK_DEADLOCK FALSE
