SPECIFICATION FairSpec
CONSTANTS
    Main = main
    Members = {m1}
    Scenarios <- MCScenarios
    MaxReleased = 1
INVARIANTS BusyExact NothingSkipped StoppedIsQuiet
PROPERTIES MailHeard ReportExecutes TeamSynthesizes
CHECK_DEADLOCK FALSE
