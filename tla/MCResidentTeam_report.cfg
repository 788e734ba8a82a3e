SPECIFICATION Spec
CONSTANTS
    Main = main
    Members = {m1}
    Scenarios <- MCReport
    MaxReleased = 1
PROPERTIES ReportLossless
CHECK_DEADLOCK FALSE
