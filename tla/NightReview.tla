----------------------------- MODULE NightReview -----------------------------
(***************************************************************************)
(* NightPairings keeps the promise of PairingReview when its handlers do   *)
(* not overlap.  The organizer's view is read off the table and the locals *)
(* of the one request in flight, which solo then names: what a request has *)
(* begun is not shown before it is finished.                               *)
(***************************************************************************)
EXTENDS NightPairings

\* No roster is NoOne, so none is mistaken for one that names nobody.
ASSUME RosterAssumption == \A D \in SUBSET Players : NoOne \notin [D -> Systems]

\* The request that has the night to itself is at one of these calls.
At(calls) == solo \in Requests /\ pc[solo] \in calls

Preparing == At({"queryPairings", "rewrite"})

Roster == IF Preparing THEN confirmed[solo] ELSE NoOne

Board == IF Preparing THEN {}
         ELSE IF At({"deleteAbsorbed"}) THEN pairings \ batch[solo] ELSE pairings

Told == IF At({"putPaired"}) THEN {m \in mail : m.by # solo} ELSE mail

Stopped == {r \in Requests : pc[r] = "crashed"}

Review == INSTANCE PairingReview WITH
    NoRoster      <- NoOne,
    EditStatuses  <- PatchStatuses,
    DeadlineFires <- "deadline" \in Handlers,
    Interruptions <- Crashes,
    stopped       <- Stopped,
    roster        <- Roster,
    board         <- Board,
    mail          <- Told

-----------------------------------------------------------------------------

\* The pairing service does what PairingReview promises: boards appear whole,
\* two singles are merged in one step, publishing and telling are one step, a
\* published board stands, and an interruption leaves nothing worse than
\* Abandon, LeaveOrphan and TellOnly allow.
KeepsPromise == Review!Spec
=============================================================================
