-------------------------- MODULE MCNightPairings --------------------------
(***************************************************************************)
(* Small instances of NightPairings for TLC.  The values are in the .cfg   *)
(* files; the sets of handlers and the symmetries they share are here.     *)
(***************************************************************************)
EXTENDS NightReview, TLC

CONSTANTS p1, p2, p3, s1, s2, s3, r1, r2, r3, r4

\* The requests that rewrite pairings, then with what else an organizer's
\* pairings page calls, and with the deadline.
Rerolls == {"generate", "resolve"}
Workflow == Rerolls \cup {"publish", "signup"}
Withdrawals == Workflow \cup {"withdraw"}
WithDeadline == Workflow \cup {"deadline", "withdraw"}
Closing == {"generate", "deadline", "patch", "signup", "amend"}
AllButAmend == AllHandlers \ {"amend"}

NoStatus == {}
CancelOnly == {"CANCELLED"}
Edits == {"OPEN", "CANCELLED", "PAIRED"}

TwoPlayers == {p1, p2}
ThreePlayers == {p1, p2, p3}
TwoSystems == {s1, s2}
ThreeSystems == {s1, s2, s3}
TwoRequests == {r1, r2}
ThreeRequests == {r1, r2, r3}
FourRequests == {r1, r2, r3, r4}

\* Players and requests are interchangeable, and so are systems; no property or
\* action names one.
Symmetry == Permutations(Players) \cup Permutations(Requests)
FullSymmetry == Symmetry \cup Permutations(Systems)

\* Sign-ups come and are written before the first other request.
SignupsFirst ==
    signing \cup signing' # {} => UNCHANGED pc /\ \A r \in Requests : pc[r] = "ready"
=============================================================================
