----------------------------- MODULE MCBaseline -----------------------------
(* Instance of Baseline: three processes, one baseline, three seconds.     *)
EXTENDS Baseline, TLC

CONSTANTS a1, a2, a3, c1, t1, t2

MCActors == {a1, a2, a3}

MCCases == {c1}

MCTexts == {t1, t2}

Symmetry == Permutations(MCActors) \cup Permutations(MCTexts)
=============================================================================
