--------------------------- MODULE MCManageSignup ---------------------------
EXTENDS ManageSignup, TLC

CONSTANTS ana, ben, s1

TwoEmails == {ana, ben}
OneSystem == {s1}
ThreeRequests == 1..3

Symmetry == Permutations(Emails)
=============================================================================
