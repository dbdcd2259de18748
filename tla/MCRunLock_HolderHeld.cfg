SPECIFICATION Spec
CONSTANTS
    r1 = r1
    r2 = r2
    r3 = r3
    r4 = r4
    Nobody = Nobody
    Runs <- MCRuns
    MaxFaults = 1
SYMMETRY RunSymmetry
INVARIANT HolderHeld
\* Every run may be over.
CHECK_DEADLOCK FALSE
