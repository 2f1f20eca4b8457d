--------------------------- MODULE NightPairings ---------------------------
(***************************************************************************)
(* One game night: its status, its sign-ups and its stored pairings, and   *)
(* the handlers that generate, resolve and publish the pairings.           *)
(*                                                                         *)
(* A handler is an async function: between two DynamoDB calls any other    *)
(* handler may run, and there is neither a transaction nor a conditional   *)
(* write anywhere.  So each action below is one call to the table together *)
(* with the code from there to the next await, and what a handler keeps in *)
(* its local variables lives in pc, seen, confirmed, batch and result.     *)
(***************************************************************************)
EXTENDS PairNight

CONSTANTS
    Organizer,      \* the night's createdBy
    NoSignup,       \* no sign-up item is stored for this player
    Handlers,       \* which of AllHandlers are invoked
    PatchStatuses,  \* the statuses a PATCH of the night may ask for
    Overlap,        \* may two handlers of the night be in flight at once?
    Crashes         \* may a handler stop between two calls?

NightHandlers == {"generate", "deadline", "publish", "resolve", "patch"}
SignupHandlers == {"signup", "amend", "withdraw"}
AllHandlers == NightHandlers \cup SignupHandlers
NightStatus == {"DRAFT", "OPEN", "CLOSED", "PAIRED", "COMPLETED", "CANCELLED"}

ASSUME EnvironmentAssumption ==
    /\ Handlers \subseteq AllHandlers
    /\ PatchStatuses \subseteq NightStatus
    /\ Overlap \in BOOLEAN
    /\ Crashes \in BOOLEAN

VARIABLES
    status,     \* night.status in the table
    armed,      \* the night's one-shot EventBridge schedule exists
    signups,    \* the sign-up item of each player
    signing,    \* players whose sign-up request has passed its OPEN check
    pairings,   \* the pairing items of the night
    mail,       \* messages the email sender accepted
    handler,    \* which handler a request invoked
    pc,         \* the call a request makes next
    seen,       \* night.status as the request read it
    confirmed,  \* the CONFIRMED sign-ups as the request read them
    batch,      \* pairings the request read and still works on
    result,     \* pairings the request still has to put
    solo        \* the request that has been alone since it began, if any

table == <<status, armed, signups, signing, pairings, mail>>
local == <<handler, pc, seen, confirmed, batch, result, solo>>
vars  == <<table, local>>

Signup == [system : Systems, status : {"CONFIRMED", "CANCELLED"}]

ASSUME NoSignupAssumption == NoSignup \notin Signup

ASSUME OrganizerAssumption == Organizer \notin Players

Message == [by : Requests, to : Players \cup {Organizer}, about : Players \cup {NoOne}]

Finished == {"done", "rejected", "crashed"}

Stage == {"ready", "getNight", "listSignups", "queryPairings", "rewrite",
          "notifyOrganizer", "listPairings", "readEmails", "send", "putPaired",
          "findSingles", "putMerged", "deleteAbsorbed", "putNight",
          "deleteSchedule", "moveSchedule", "createSchedule"} \cup Finished

InFlight(r) == pc[r] \notin {"ready"} \cup Finished

Confirmed == {p \in Players : signups[p] # NoSignup /\ signups[p].status = "CONFIRMED"}

NoRoster == [p \in {} |-> NoOne]

Init ==
    /\ status = "OPEN"
    /\ armed \in BOOLEAN            \* creating the schedule is best-effort
    /\ signups = [p \in Players |-> NoSignup]
    /\ signing = {}
    /\ pairings = {}
    /\ mail = {}
    /\ handler = [r \in Requests |-> "none"]
    /\ pc = [r \in Requests |-> "ready"]
    /\ seen = [r \in Requests |-> "none"]
    /\ confirmed = [r \in Requests |-> NoRoster]
    /\ batch = [r \in Requests |-> {}]
    /\ result = [r \in Requests |-> {}]
    /\ solo = NoOne

-----------------------------------------------------------------------------
(* Steps every handler shares. *)

\* A request arrives, reads the night and goes on to `next`.
Begin(r, h, next) ==
    /\ pc[r] = "ready"
    /\ h \in Handlers
    /\ Overlap \/ \A q \in Requests : ~InFlight(q)
    /\ handler' = [handler EXCEPT ![r] = h]
    /\ pc' = [pc EXCEPT ![r] = next]
    /\ seen' = IF next = "rejected" THEN seen ELSE [seen EXCEPT ![r] = status]
    /\ solo' = IF \E q \in Requests : InFlight(q) THEN NoOne ELSE r
    /\ UNCHANGED <<status, signups, signing, pairings, mail, confirmed, batch, result>>

Goto(r, next) == pc' = [pc EXCEPT ![r] = next]

\* The handler returns; its local variables are gone.
Return(r, how) ==
    /\ pc' = [pc EXCEPT ![r] = how]
    /\ seen' = [seen EXCEPT ![r] = "none"]
    /\ confirmed' = [confirmed EXCEPT ![r] = NoRoster]
    /\ batch' = [batch EXCEPT ![r] = {}]
    /\ result' = [result EXCEPT ![r] = {}]

\* putPairing: whole-item put under the pairing's key.
Put(p) == pairings' = {q \in pairings : Key(q) # Key(p)} \cup {p}

\* deletePairing, by key.
Delete(p) == pairings' = {q \in pairings : Key(q) # Key(p)}

\* The Lambda times out, is killed, or a DynamoDB call throws.  The pairing a
\* resolve did not get round to deleting is kept for the properties; no later
\* step reads it.
Crash(r) ==
    /\ Crashes
    /\ InFlight(r)
    /\ pc' = [pc EXCEPT ![r] = "crashed"]
    /\ seen' = [seen EXCEPT ![r] = "none"]
    /\ confirmed' = [confirmed EXCEPT ![r] = NoRoster]
    /\ batch' = IF pc[r] = "deleteAbsorbed" THEN batch ELSE [batch EXCEPT ![r] = {}]
    /\ result' = [result EXCEPT ![r] = {}]
    /\ UNCHANGED <<table, handler, solo>>

-----------------------------------------------------------------------------
(* Generating pairings: the organizer's route and the deadline's. *)

\* Mutant: the route forgets that a published night is not regenerated.
GenerateUnguarded(r) ==
    /\ Begin(r, "generate", "getNight")
    /\ UNCHANGED armed

\* POST .../pairings/generate: the route's own read of the night and its guard.
Generate(r) ==
    /\ Begin(r, "generate", IF status = "PAIRED" THEN "rejected" ELSE "getNight")
    /\ UNCHANGED armed

\* runDeadlinePairing, invoked by the schedule, which goes away after it has
\* run; a delivery may be repeated, so it may also still be there.
RunDeadlinePairing(r) ==
    /\ armed
    /\ Begin(r, "deadline", "listSignups")
    /\ armed' \in BOOLEAN

\* generatePairings reads the night again.
GetNight(r) ==
    /\ pc[r] = "getNight"
    /\ seen' = [seen EXCEPT ![r] = status]
    /\ Goto(r, "listSignups")
    /\ UNCHANGED <<table, handler, confirmed, batch, result, solo>>

\* ... lists the CONFIRMED sign-ups and pairs them.
PairConfirmed(r) ==
    /\ pc[r] = "listSignups"
    /\ LET systemOf == [p \in Confirmed |-> signups[p].system]
       IN  /\ confirmed' = [confirmed EXCEPT ![r] = systemOf]
           /\ \E plan \in PairNight(r, systemOf) : result' = [result EXCEPT ![r] = plan]
    /\ Goto(r, "queryPairings")
    /\ UNCHANGED <<table, handler, seen, batch, solo>>

\* Mutant: the organizer's matched pairings are left in place.
QueryUnresolved(r) ==
    /\ pc[r] = "queryPairings"
    /\ batch' = [batch EXCEPT ![r] = {p \in pairings : p.status = "NEEDS_RESOLUTION"}]
    /\ Goto(r, "rewrite")
    /\ UNCHANGED <<table, handler, seen, confirmed, result, solo>>

\* Mutant: only matched pairings are cleared.
QueryMatched(r) ==
    /\ pc[r] = "queryPairings"
    /\ batch' = [batch EXCEPT ![r] = {p \in pairings : p.status = "MATCHED"}]
    /\ Goto(r, "rewrite")
    /\ UNCHANGED <<table, handler, seen, confirmed, result, solo>>

\* deletePairingsByNight queries what is stored ...
QueryPairings(r) ==
    /\ pc[r] = "queryPairings"
    /\ batch' = [batch EXCEPT ![r] = pairings]
    /\ Goto(r, "rewrite")
    /\ UNCHANGED <<table, handler, seen, confirmed, result, solo>>

\* ... and deletes it one item at a time.
DeleteNext(r) ==
    /\ pc[r] = "rewrite"
    /\ \E p \in batch[r] :
          /\ Delete(p)
          /\ batch' = [batch EXCEPT ![r] = @ \ {p}]
    /\ UNCHANGED <<status, armed, signups, signing, mail, handler, pc, seen, confirmed,
                   result, solo>>

\* Then the new pairings are put one at a time, the matched ones first.
PutNext(r) ==
    /\ pc[r] = "rewrite"
    /\ batch[r] = {}
    /\ \E p \in result[r] :
          /\ p.status = "NEEDS_RESOLUTION" => \A q \in result[r] : q.status # "MATCHED"
          /\ Put(p)
          /\ result' = [result EXCEPT ![r] = @ \ {p}]
    /\ UNCHANGED <<status, armed, signups, signing, mail, handler, pc, seen, confirmed,
                   batch, solo>>

\* Mutant: sign-ups are closed only if the night was OPEN.
CloseIfOpen(r) ==
    /\ pc[r] = "rewrite"
    /\ batch[r] = {}
    /\ result[r] = {}
    /\ status' = IF seen[r] = "OPEN" THEN "CLOSED" ELSE status
    /\ Return(r, "done")
    /\ UNCHANGED <<armed, signups, signing, pairings, mail, handler, solo>>

\* Generating closes sign-ups, unless they were closed when the night was read.
CloseSignups(r) ==
    /\ pc[r] = "rewrite"
    /\ batch[r] = {}
    /\ result[r] = {}
    /\ status' = IF seen[r] # "CLOSED" THEN "CLOSED" ELSE status
    /\ IF handler[r] = "deadline"
       THEN /\ Goto(r, "notifyOrganizer")
            /\ UNCHANGED <<seen, confirmed, batch, result>>
       ELSE Return(r, "done")
    /\ UNCHANGED <<armed, signups, signing, pairings, mail, handler, solo>>

\* notifyOrganizerPairingsReady: best effort.
NotifyOrganizer(r) ==
    /\ pc[r] = "notifyOrganizer"
    /\ \E sent \in SUBSET {[by |-> r, to |-> Organizer, about |-> NoOne]} :
          mail' = mail \cup sent
    /\ Return(r, "done")
    /\ UNCHANGED <<status, armed, signups, signing, pairings, handler, solo>>

-----------------------------------------------------------------------------
(* Publishing. *)

\* POST .../pairings/publish: the route's read only checks that the night
\* exists, publishPairings then reads it again.
Publish(r) ==
    /\ Begin(r, "publish", "listPairings")
    /\ UNCHANGED armed

\* Mutant: a published night is published again.
ListUnguarded(r) ==
    /\ pc[r] = "listPairings"
    /\ \/ /\ seen[r] \notin {"PAIRED", "CLOSED"}
          /\ Return(r, "rejected")
       \/ /\ seen[r] \in {"PAIRED", "CLOSED"}
          /\ batch' = [batch EXCEPT ![r] = pairings]
          /\ Goto(r, "readEmails")
          /\ UNCHANGED <<seen, confirmed, result>>
    /\ UNCHANGED <<table, handler, solo>>

\* The pairings are listed first; a PAIRED night returns them and sends nothing.
ListPairings(r) ==
    /\ pc[r] = "listPairings"
    /\ \/ /\ seen[r] = "PAIRED"
          /\ Return(r, "done")
       \/ /\ seen[r] \notin {"PAIRED", "CLOSED"}
          /\ Return(r, "rejected")
       \/ /\ seen[r] = "CLOSED"
          /\ batch' = [batch EXCEPT ![r] = pairings]
          /\ Goto(r, "readEmails")
          /\ UNCHANGED <<seen, confirmed, result>>
    /\ UNCHANGED <<table, handler, solo>>

\* emailBySignupId: only players whose sign-up is CONFIRMED have an address.
ReadEmails(r) ==
    /\ pc[r] = "readEmails"
    /\ confirmed' = [confirmed EXCEPT ![r] = [p \in Confirmed |-> signups[p].system]]
    /\ Goto(r, "send")
    /\ UNCHANGED <<table, handler, seen, batch, result, solo>>

\* Mutant: the second notice repeats the player's own name.
NoticesMixedUp(r) ==
    UNION {{[by |-> r, to |-> p.first, about |-> p.second],
            [by |-> r, to |-> p.second, about |-> p.second]} :
                p \in {q \in batch[r] : q.status = "MATCHED" /\ q.second # NoOne}}

\* Each player of a MATCHED pairing of two is told about the other one.
Notices(r) ==
    UNION {{[by |-> r, to |-> p.first, about |-> p.second],
            [by |-> r, to |-> p.second, about |-> p.first]} :
                p \in {q \in batch[r] : q.status = "MATCHED" /\ q.second # NoOne}}

\* All sends run concurrently and a failed one is logged and forgotten.
SendNotices(r) ==
    /\ pc[r] = "send"
    /\ \E sent \in SUBSET {m \in Notices(r) : m.to \in DOMAIN confirmed[r]} :
          mail' = mail \cup sent
    /\ Goto(r, "putPaired")
    /\ UNCHANGED <<status, armed, signups, signing, pairings, handler, seen, confirmed,
                   batch, result, solo>>

PutPaired(r) ==
    /\ pc[r] = "putPaired"
    /\ status' = "PAIRED"
    /\ Return(r, "done")
    /\ UNCHANGED <<armed, signups, signing, pairings, mail, handler, solo>>

-----------------------------------------------------------------------------
(* Resolving two odd players into one pairing. *)

\* PATCH .../pairings/:pairingId and its guard on the published night.
Resolve(r) ==
    /\ Begin(r, "resolve", IF status = "PAIRED" THEN "rejected" ELSE "findSingles")
    /\ UNCHANGED armed

\* Mutant: a single may be merged with itself.
FindAnySingles(r) ==
    /\ pc[r] = "findSingles"
    /\ \E target, absorbed \in {q \in pairings : q.status = "NEEDS_RESOLUTION"} :
            /\ batch' = [batch EXCEPT ![r] = {absorbed}]
            /\ result' = [result EXCEPT ![r] =
                    {[target EXCEPT !.second = absorbed.first, !.status = "MATCHED"]}]
            /\ Goto(r, "putMerged")
            /\ UNCHANGED <<seen, confirmed>>
    /\ UNCHANGED <<table, handler, solo>>

\* The organizer names a pairing and an opponent.  Both must be unresolved in
\* the listing; anything else is refused.
FindSingles(r) ==
    /\ pc[r] = "findSingles"
    /\ \/ \E target, absorbed \in {q \in pairings : q.status = "NEEDS_RESOLUTION"} :
            /\ Key(target) # Key(absorbed)
            /\ batch' = [batch EXCEPT ![r] = {absorbed}]
            /\ result' = [result EXCEPT ![r] =
                    {[target EXCEPT !.second = absorbed.first, !.status = "MATCHED"]}]
            /\ Goto(r, "putMerged")
            /\ UNCHANGED <<seen, confirmed>>
       \/ Return(r, "rejected")
    /\ UNCHANGED <<table, handler, solo>>

PutMerged(r) ==
    /\ pc[r] = "putMerged"
    /\ \E merged \in result[r] : Put(merged)
    /\ result' = [result EXCEPT ![r] = {}]
    /\ Goto(r, "deleteAbsorbed")
    /\ UNCHANGED <<status, armed, signups, signing, mail, handler, seen, confirmed, batch, solo>>

DeleteAbsorbed(r) ==
    /\ pc[r] = "deleteAbsorbed"
    /\ \E absorbed \in batch[r] : Delete(absorbed)
    /\ Return(r, "done")
    /\ UNCHANGED <<status, armed, signups, signing, mail, handler, solo>>

-----------------------------------------------------------------------------
(* Editing the night. *)

\* PATCH /clubs/:slug/nights/:nightId reads the night ...
PatchNight(r) ==
    /\ Begin(r, "patch", "putNight")
    /\ UNCHANGED armed

\* Mutant: what was read is not spread into what is written.
PutInput(r) ==
    /\ pc[r] = "putNight"
    /\ \E new \in {"none"} \cup PatchStatuses : status' = new
    /\ Return(r, "done")
    /\ UNCHANGED <<armed, signups, signing, pairings, mail, handler, solo>>

\* ... and writes {...night, ...input}: the status it read, or a new one.  The
\* schedule is touched if the night is now CANCELLED, or if the input moves the
\* deadline of an OPEN night.
PutNight(r) ==
    /\ pc[r] = "putNight"
    /\ \E new \in {seen[r]} \cup PatchStatuses :
          /\ status' = new
          /\ \/ new = "CANCELLED" /\ Goto(r, "deleteSchedule") /\ UNCHANGED seen
             \/ new = "OPEN" /\ Goto(r, "moveSchedule") /\ UNCHANGED seen
             \/ new # "CANCELLED" /\ Goto(r, "done") /\ seen' = [seen EXCEPT ![r] = "none"]
    /\ UNCHANGED <<armed, signups, signing, pairings, mail, handler, confirmed, batch, result,
                   solo>>

\* Scheduler calls are best effort: a failure is logged and the request succeeds.
DeleteSchedule(r) ==
    /\ pc[r] = "deleteSchedule"
    /\ armed' \in {armed, FALSE}
    /\ Return(r, "done")
    /\ UNCHANGED <<status, signups, signing, pairings, mail, handler, solo>>

\* A moved deadline deletes the schedule, then creates it anew.
MoveSchedule(r) ==
    /\ pc[r] = "moveSchedule"
    /\ \/ armed' = FALSE /\ Goto(r, "createSchedule") /\ UNCHANGED <<seen, confirmed, batch, result>>
       \/ armed' = armed /\ Return(r, "done")
    /\ UNCHANGED <<status, signups, signing, pairings, mail, handler, solo>>

CreateSchedule(r) ==
    /\ pc[r] = "createSchedule"
    /\ armed' \in {armed, TRUE}
    /\ Return(r, "done")
    /\ UNCHANGED <<status, signups, signing, pairings, mail, handler, solo>>

-----------------------------------------------------------------------------
(* Players.  A player waits for one response before sending the next       *)
(* request about the same sign-up.                                         *)

\* POST .../signups: only an OPEN night takes sign-ups ...
CheckOpen(p) ==
    /\ "signup" \in Handlers
    /\ p \notin signing
    /\ status = "OPEN"
    /\ signing' = signing \cup {p}
    /\ UNCHANGED <<status, armed, signups, pairings, mail, local>>

\* ... and upsertSignup writes the item, whatever the night has become since.
UpsertSignup(p) ==
    /\ p \in signing
    /\ signing' = signing \ {p}
    /\ \E s \in Systems :
          signups' = [signups EXCEPT ![p] = [system |-> s, status |-> "CONFIRMED"]]
    /\ UNCHANGED <<status, armed, pairings, mail, local>>

\* PATCH .../signups/:signupId, refused for a cancelled sign-up.
ChangeSystem(p) ==
    /\ "amend" \in Handlers
    /\ p \notin signing
    /\ p \in Confirmed
    /\ \E s \in Systems : signups' = [signups EXCEPT ![p].system = s]
    /\ UNCHANGED <<status, armed, signing, pairings, mail, local>>

\* Mutant: withdrawing removes the item.
HardWithdraw(p) ==
    /\ "withdraw" \in Handlers
    /\ p \notin signing
    /\ signups[p] # NoSignup
    /\ signups' = [signups EXCEPT ![p] = NoSignup]
    /\ UNCHANGED <<status, armed, signing, pairings, mail, local>>

\* DELETE .../signups/:signupId is a soft cancel.
Withdraw(p) ==
    /\ "withdraw" \in Handlers
    /\ p \notin signing
    /\ signups[p] # NoSignup
    /\ signups' = [signups EXCEPT ![p].status = "CANCELLED"]
    /\ UNCHANGED <<status, armed, signing, pairings, mail, local>>

-----------------------------------------------------------------------------

Arrive(r) == Generate(r) \/ RunDeadlinePairing(r) \/ Publish(r) \/ Resolve(r) \/ PatchNight(r)

Continue(r) ==
    \/ GetNight(r) \/ PairConfirmed(r) \/ QueryPairings(r) \/ DeleteNext(r) \/ PutNext(r)
    \/ CloseSignups(r) \/ NotifyOrganizer(r)
    \/ ListPairings(r) \/ ReadEmails(r) \/ SendNotices(r) \/ PutPaired(r)
    \/ FindSingles(r) \/ PutMerged(r) \/ DeleteAbsorbed(r)
    \/ PutNight(r) \/ DeleteSchedule(r) \/ MoveSchedule(r) \/ CreateSchedule(r)

Player(p) == CheckOpen(p) \/ UpsertSignup(p) \/ ChangeSystem(p) \/ Withdraw(p)

Next ==
    \/ \E r \in Requests : Arrive(r) \/ Continue(r) \/ Crash(r)
    \/ \E p \in Players : Player(p)

Spec == Init /\ [][Next]_vars

\* A request that has begun is carried on by its Lambda; nobody has to begin one.
FairSpec == Spec /\ \A r \in Requests : WF_vars(Continue(r))

-----------------------------------------------------------------------------
(* Properties. *)

\* Every variable keeps to the shape the schemas of packages/shared give it, and
\* a PATCH writes back a status it has read.
TypeOK ==
    /\ status \in NightStatus
    /\ armed \in BOOLEAN
    /\ signups \in [Players -> Signup \cup {NoSignup}]
    /\ signing \subseteq Players
    /\ pairings \subseteq Pairing
    /\ mail \subseteq Message
    /\ handler \in [Requests -> NightHandlers \cup {"none"}]
    /\ pc \in [Requests -> Stage]
    /\ seen \in [Requests -> NightStatus \cup {"none"}]
    /\ confirmed \in [Requests -> UNION {[D -> Systems] : D \in SUBSET Players}]
    /\ batch \in [Requests -> SUBSET Pairing]
    /\ result \in [Requests -> SUBSET Pairing]
    /\ solo \in Requests \cup {NoOne}
    /\ \A r \in Requests : pc[r] = "putNight" => seen[r] # "none"

\* A stored pairing and a delivered message only name players who have a
\* sign-up item, whatever overlaps and whatever crashes: withdrawing is a soft
\* cancel, so the organizer can always be shown who was paired.
PlayersExist ==
    /\ \A p \in pairings : \A x \in Seated(p) : signups[x] # NoSignup
    /\ \A m \in mail : m.to \in Players => signups[m.to] # NoSignup

\* "callers can re-generate to recover" (pairing-service.ts, generatePairings):
\* when a generation that had the night to itself has written its last pairing,
\* the stored pairings are a good pairing of the players it found confirmed,
\* whatever crashed or overlapping handlers had left behind before it.
RegenerateRecovers ==
    \A r \in Requests :
        (solo = r /\ pc[r] = "rewrite" /\ batch[r] = {} /\ result[r] = {})
            => WellPaired(pairings, r, confirmed[r])

\* When a publish that had the night to itself is about to mark it PAIRED, each
\* of its messages went to a player it found confirmed and names the opponent
\* of a stored MATCHED pairing.
TruthfulMail ==
    \A r \in Requests :
        (solo = r /\ pc[r] = "putPaired")
            => \A m \in {n \in mail : n.by = r} :
                  /\ m.to \in DOMAIN confirmed[r]
                  /\ \E p \in pairings : p.status = "MATCHED" /\ Seated(p) = {m.to, m.about}

\* "Two NEEDS_RESOLUTION singles are always from different systems (each system
\* leaves at most one odd player)" (pairing-service.ts, resolvePairing).
OneOddPerSystem ==
    \A p, q \in pairings :
        (p.status = "NEEDS_RESOLUTION" /\ q.status = "NEEDS_RESOLUTION" /\ p.system = q.system)
            => p = q

\* The player of a pairing that a resolve has merged but not, or never, deleted.
Orphaned(x) ==
    \E r \in Requests : pc[r] \in {"deleteAbsorbed", "crashed"} /\ \E a \in batch[r] : a.first = x

\* Nobody is booked against two opponents, or against themselves, except a
\* player whose single an interrupted resolve left behind: the one inconsistency
\* the comment in resolvePairing accepts is the only one there is as long as
\* requests do not overlap.
OnlyOrphansDoubleBooked ==
    /\ \A p \in pairings : p.first # p.second
    /\ \A p, q \in pairings : \A x \in Seated(p) \cap Seated(q) : p = q \/ Orphaned(x)

\* "Pairing generation and publish are guarded against double-notification"
\* (design, Edge cases), taken at its word: no player gets two pairing messages.
OneNotice == \A m, n \in mail : (m.to = n.to /\ m.to \in Players) => m = n

\* "Generate and resolve remain blocked (409) once PAIRED": no generation takes
\* a published night back to review.
PublishedStaysPublished ==
    [][status = "PAIRED" => status' = "PAIRED"]_vars

\* A generation that has read the night ends with sign-ups closed, also if the
\* night was cancelled, unless it is interrupted.
GenerationCloses ==
    \A r \in Requests : pc[r] = "listSignups" ~> (status = "CLOSED" \/ pc[r] = "crashed")
=============================================================================
