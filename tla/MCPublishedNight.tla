-------------------------- MODULE MCPublishedNight --------------------------
EXTENDS MCNightPairings, PublishedNight

SignedUpPublishedSpec == PublishedInit /\ [][PublishedNext /\ SignupsFirst]_<<vars, disrupted>>
=============================================================================
