SPECIFICATION Spec
CONSTANTS
    c1 = c1
    c2 = c2
    t1 = t1
    t2 = t2
    cli = cli
    ui = ui
    cliOfRun = cliOfRun
    uiOfRun = uiOfRun
    Altitest = Altitest
    Missing = Missing
    Torn = Torn
    NoRow = NoRow
    Cases <- MCCases
    Texts <- MCTexts
    Clis = {cli, cliOfRun}
    Uis = {ui, uiOfRun}
    Own = {cliOfRun, uiOfRun}
    Actors = {cli, ui, cliOfRun, uiOfRun, Altitest}
    PlanLists <- MCPlanLists
    MaxRuns = 2
    MaxTime = 1
    MaxOpen = 1
SYMMETRY TextSymmetry
VIEW WithoutBackups
INVARIANTS
    AcceptedIsWhatWasJudged
    OnlyARerunShiftsIndexes
\* Every run may be over and every browser closed.
CHECK_DEADLOCK FALSE
