SPECIFICATION Spec
CONSTANTS
    Scripts <- MCScripts
    Outcomes <- MCOutcomes
    MaxCrashes = 2
INVARIANTS
    TypeOK
    TraceFollowsPlan
    TroubleStops
    VerdictTellsTrace
