--------------------------- MODULE MCSignupItems ---------------------------
EXTENDS SignupItems, TLC

CONSTANTS ana, ben, s1, s2

TwoEmails == {ana, ben}
TwoSystems == {s1, s2}
ThreeRequests == 1..3
FourRequests == 1..4

\* Request numbers are ordered, the other constants are interchangeable.
Symmetry == Permutations(TwoEmails) \cup Permutations(TwoSystems)
=============================================================================
