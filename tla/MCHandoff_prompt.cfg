SPECIFICATION Spec
CONSTANTS
    Roots = {r1}
    Members = {}
    NoSession = none
    Limit <- LimitPrompt
PROPERTIES SessionContinues
CHECK_DEADLOCK FALSE
