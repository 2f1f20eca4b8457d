--------------------------- MODULE PublishedNight ---------------------------
(***************************************************************************)
(* What a publish leaves behind.  NightPairings with a history variable,   *)
(* which none of its actions reads: whether something has come between the *)
(* players' messages and the stored board that no guard keeps away.        *)
(***************************************************************************)
EXTENDS NightReview

VARIABLE disrupted

\* A publish that has read a CLOSED night, and sends and marks; a request that may
\* still change pairings.
Publishing(r) == seen[r] = "CLOSED" /\ pc[r] \in {"listPairings", "readEmails", "send", "putPaired"}

Redrawing(r) == pc[r] \in {"getNight", "listSignups", "queryPairings", "rewrite",
                           "findSingles", "putMerged", "deleteAbsorbed"}

\* A publish is under way together with another one, or with a change of the board.
Overtaken ==
    \E r, q \in Requests : r # q /\ Publishing(r) /\ (Publishing(q) \/ Redrawing(q))

\* The schedule of a published night fires.
DeadlineRuns == status = "PAIRED" /\ \E r \in Requests : handler[r] = "deadline" /\ Redrawing(r)

\* A PATCH takes a published night back.
TakenBack ==
    /\ status = "PAIRED" /\ status' # "PAIRED"
    /\ \E r \in Requests : pc[r] = "putNight" /\ pc'[r] # "putNight"

PublishedInit == Init /\ disrupted = FALSE

PublishedNext ==
    /\ Next
    /\ disrupted' = (disrupted \/ Overtaken' \/ DeadlineRuns' \/ TakenBack)

PublishedSpec == PublishedInit /\ [][PublishedNext]_<<vars, disrupted>>

-----------------------------------------------------------------------------

\* A publish has stopped, perhaps after sending and before it was recorded.
PublishInterrupted == \E r \in Requests : handler[r] = "publish" /\ pc[r] = "crashed"

DoubleBooked(x) == \E p, q \in pairings : p # q /\ x \in Seated(p) \cap Seated(q)

\* "Pairing generation and publish are guarded against double-notification"
\* (design, Edge cases): no player gets two different pairing messages about one
\* night, whatever generates, resolves, edits and publishes it, unless a publish
\* stopped half way, met another publish or a change of the board, or was undone by
\* the deadline or a PATCH; or the published board has the player in two pairings.
NotifiedOnce ==
    PublishInterrupted \/ disrupted \/
        \A m, n \in mail : (m.to = n.to /\ m.to \in Players) => m = n \/ DoubleBooked(m.to)

\* On a published night every message sent to a player still names the opponent
\* of a stored pairing, so what the organizer sees is what players were told, but
\* for the same disruptions: no retried publish, re-roll or resolve, and no edit of
\* the night, changes what was announced.
PublishedStands ==
    (status = "PAIRED" /\ ~PublishInterrupted /\ ~disrupted) =>
        \A m \in mail : m.to \in Players =>
            \E p \in pairings : p.status = "MATCHED" /\ Seated(p) = {m.to, m.about}
=============================================================================
