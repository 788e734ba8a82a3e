SPECIFICATION FairSpec
CONSTANTS
    Roots = {r1}
    Members = {}
    NoSession = none
    Limit <- LimitLive
PROPERTIES HandoffResolves CancelledCloses ResumeDelivered
CHECK_DEADLOCK FALSE
