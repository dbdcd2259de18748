SPECIFICATION BaseSpec
CONSTANTS
    a1 = a1
    a2 = a2
    a3 = a3
    c1 = c1
    t1 = t1
    t2 = t2
    Missing = Missing
    Torn = Torn
    Actors <- MCActors
    Cases <- MCCases
    Texts <- MCTexts
    MaxTime = 2
SYMMETRY Symmetry
INVARIANTS
    NoBaselineLost
