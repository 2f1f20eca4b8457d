--------------------------- MODULE MCGuestSignIn ---------------------------
EXTENDS GuestSignIn, TLC

CONSTANTS ana, ben, c1, c2, t1, t2

TwoEmails == {ana, ben}
TwoCodes == {c1, c2}
TwoTabs == {t1, t2}

Symmetry == Permutations(Emails) \cup Permutations(TwoCodes) \cup Permutations(TwoTabs)
=============================================================================
