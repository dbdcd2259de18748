SPECIFICATION Spec
CONSTANTS
    k = k
    v = v
    w = w
    NoValue = NoValue
    Keys <- MCKeys
    Values <- MCValues
    BaseEnv <- MCBaseEnv
    Texts <- MCTexts
INVARIANTS
    EnvIsLastWord
    HiddenIsBetweenSkips
    SystemKeepsItsSide
    EveryWrongLineReported
\* The pass over the script ends.
CHECK_DEADLOCK FALSE
