----------------------------- MODULE MCWorkflow -----------------------------
EXTENDS WorkflowCoordinator, TLC

CONSTANTS d1, d2, c1, c2, p1, p2

OneDelivery == {d1}
TwoDeliveries == {d1, d2}
OneCallback == {c1}
TwoCallbacks == {c1, c2}
OnePlanOnly == {p1}
TwoPlans == {p1, p2}
Sequential == [s \in Steps |-> 1..(s - 1)]
Fork == [s \in Steps |-> IF s = 3 THEN {1, 2} ELSE {}]

CancelOrRetry == {"CANCELLED", "SCREENING"}

CallbackSymmetry == Permutations({c1, c2})
=============================================================================
