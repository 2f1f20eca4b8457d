---------------------------- MODULE LateSignups ----------------------------
(***************************************************************************)
(* Who is left out of the pairings of a night.  NightPairings with a       *)
(* history variable, which none of its actions reads: the players of whom  *)
(* the generation that made the stored board could not know.               *)
(***************************************************************************)
EXTENDS NightReview

VARIABLE missed

\* A generation has just listed the sign-ups, or has stopped in the middle of
\* its rewrite.
Lists == \E r \in Requests : pc[r] = "listSignups" /\ pc'[r] = "queryPairings"
Stops == \E r \in Requests : pc[r] \in {"queryPairings", "rewrite"} /\ pc'[r] = "crashed"

LateInit == Init /\ missed = {}

\* missed gains who signs up, and everybody when the rewrite stops.
LateNext ==
    /\ Next
    /\ missed' = IF Lists THEN {} ELSE IF Stops THEN Players ELSE missed \cup (signing \ signing')

LateSpec == LateInit /\ [][LateNext]_<<vars, missed>>

\* As FairSpec: a Lambda carries on what it has begun, unless it stops.
FairLateSpec == LateSpec /\ \A r \in Requests : WF_vars(Continue(r))

-----------------------------------------------------------------------------

\* A sign-up may pass the OPEN check, wait while the night is paired, and then
\* be written.  Nobody else is left out: with no request under way, a confirmed
\* player of a night that is closed or published sits in a stored pairing, or
\* has signed up since the generation looked, or the last rewrite has stopped
\* half way.
OnlyLatecomersUnpaired ==
    (/\ \A r \in Requests : ~InFlight(r)
     /\ status \in {"CLOSED", "PAIRED"}) =>
        \A x \in Confirmed : x \in missed \/ \E p \in pairings : x \in Seated(p)
=============================================================================
