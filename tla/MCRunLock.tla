----------------------------- MODULE MCRunLock -----------------------------
(* Instance of RunLock: four runs, two of which may be killed or fail.     *)
EXTENDS RunLock, TLC

CONSTANTS r1, r2, r3, r4

MCRuns == {r1, r2, r3, r4}

\* Sound for invariants; the run with the liveness property does without it.
RunSymmetry == Permutations(MCRuns)
=============================================================================
