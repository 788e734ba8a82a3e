SPECIFICATION Spec
CONSTANTS
    Roots = {r1}
    Members = {}
    NoSession = none
    Limit <- LimitFaults
INVARIANTS OneLiveResume CloseHasResume GateReopened
PROPERTIES CallsSurviveHandoff StaleMovedOn
CHECK_DEADLOCK FALSE
