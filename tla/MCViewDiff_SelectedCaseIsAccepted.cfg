SPECIFICATION Spec
CONSTANTS
    c1 = c1
    c2 = c2
    t1 = t1
    t2 = t2
    cli = cli
    ui = ui
    cliOfRun = cliOfRun
    uiOfRun = uiOfRun
    Altitest = Altitest
    Missing = Missing
    Torn = Torn
    NoRow = NoRow
    Cases <- MCCases
    Texts <- MCTexts
    Clis = {}
    Uis = {ui}
    Own = {}
    Actors = {ui, Altitest}
    PlanLists <- MCPlanLists
    MaxRuns = 2
    MaxTime = 1
    MaxOpen = 1
SYMMETRY TextSymmetry
VIEW WithoutBackups
INVARIANT
    SelectedCaseIsAccepted
CHECK_DEADLOCK FALSE
