SPECIFICATION FairPlansSpec
CONSTANTS
    root = root
    a = a
    b = b
    x = x
    y = y
    init = init
    Malformed = Malformed
    NoFile = NoFile
    TsFiles <- MCTsFiles
    SqlFiles <- MCSqlFiles
    Trees <- MCTrees
    Triples <- MCTriples
    Filters <- MCFilters
INVARIANTS
    ParentsComeFirst
    CasesAreFirstMentions
    CycleIssueIffCycle
    NothingDroppedSilently
    RerunSelectsIt
    ReportShowsChain
PROPERTIES
    WalkEnds
\* The walk and the report end.
CHECK_DEADLOCK FALSE
