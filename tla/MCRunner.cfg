SPECIFICATION FairRunnerSpec
CONSTANTS
    Scripts <- MCScripts
    Outcomes <- MCOutcomes
    Suites <- MCSuites
    OptionSets <- MCOptionSets
    MaxCrashes = 1
INVARIANTS
    RunnerTypeOK
    VerdictIsWorstPhase
    CleanupRuns
    UniqueIndexes
    AcceptedIsThisRunsFailure
    ReportAddsUp
PROPERTIES
    ImplementsContract
    Termination
\* A process that has exited takes no further step.
CHECK_DEADLOCK FALSE
