SPECIFICATION FairSpec
CONSTANTS
    r1 = r1
    r2 = r2
    r3 = r3
    r4 = r4
    Nobody = Nobody
    Runs <- MCRuns
    MaxFaults = 2
INVARIANTS
    MutualExclusion
    HolderIsNamed
    RefusalIsJustified
    HolderHeldWithoutFault
PROPERTY NobodyWaits
\* Every run may be over.
CHECK_DEADLOCK FALSE
