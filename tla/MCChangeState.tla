---------------------------- MODULE MCChangeState ----------------------------
EXTENDS ChangeState, TLC

CONSTANTS r1, r2, r3, p1

MCRequests == {r1, r2, r3}
MCPlans == {p1}
MCTargets == {"SCREENING", "BLOCKED", "NEEDS_ATTENTION"}
MCClocks == {1, 2}
RequestSymmetry == Permutations(MCRequests)
=============================================================================
