SPECIFICATION RunnerSpec
CONSTANTS
    Scripts <- MCScripts
    Outcomes <- MCOutcomes
    Suites <- MCSuites
    OptionSets <- MCOptionSets
    MaxCrashes = 1
INVARIANT CleanNeedsPermission
CHECK_DEADLOCK FALSE
