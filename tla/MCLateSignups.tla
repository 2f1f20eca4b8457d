--------------------------- MODULE MCLateSignups ---------------------------
EXTENDS MCNightPairings, LateSignups
=============================================================================
