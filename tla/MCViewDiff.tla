----------------------------- MODULE MCViewDiff -----------------------------
(* Instances of ViewDiff: a suite of two cases and one of the second.      *)
EXTENDS ViewDiff, TLC

CONSTANTS c1, c2, t1, t2, cli, ui, cliOfRun, uiOfRun

MCCases == {c1, c2}

MCTexts == {t1, t2}

At(i, c) == [index |-> i, case |-> c]

MCPlanLists == {<<At(1, c1), At(2, c2)>>, <<At(1, c2)>>}

\* The two texts play the same part.
TextSymmetry == Permutations(MCTexts)

\* Backups and their history play no part for the browsers; they are checked
\* in MCBaseline.
WithoutBackups == <<lst, out, job, viewVars, log>>
=============================================================================
