-------------------------- MODULE MCPairingsPage --------------------------
EXTENDS PairingsPage, TLC

CONSTANTS one, x, y

OnePage == {one}
TwoPlayers == {x, y}

\* Every generation leaves both of them over.
BothLeft == {{x, y}}
=============================================================================
