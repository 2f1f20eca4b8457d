-------------------------- MODULE MCNightSchedule --------------------------
EXTENDS NightSchedule, TLC

CONSTANTS r1, r2, r3

ThreeRequests == {r1, r2, r3}
TwoDeadlines == {1, 2}
CancelOnly == {"CANCELLED"}
CancelOrReopen == {"CANCELLED", "OPEN"}

Symmetry == Permutations(ThreeRequests)
=============================================================================
