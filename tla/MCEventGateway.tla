--------------------------- MODULE MCEventGateway ---------------------------
EXTENDS EventGateway, TLC

CONSTANTS r1, r2, r3, e1, e2

MCRequests == {r1, r2, r3}
MCContents == {e1, e2}
GatewaySymmetry == Permutations(MCRequests) \cup Permutations(MCContents)
=============================================================================
