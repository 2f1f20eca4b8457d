---------------------------- MODULE SignupItems ----------------------------
(***************************************************************************)
(* The sign-up items of one night, as the table keeps them: one item per   *)
(* signupId, and an index by email (GSI3) through which an earlier sign-up *)
(* of the same email is found.  The index holds copies of the items, which *)
(* follow the table in their own time; what is read through it is a copy.  *)
(* NightPairings takes for granted that a player has at most one item;     *)
(* here is what that rests on.                                             *)
(*                                                                         *)
(* A request is its own number.  The ULID it gives a new item is named by  *)
(* that number too, so requests may start in another order than the one of *)
(* their ids: Lambdas do not share a clock.                                *)
(***************************************************************************)
EXTENDS Integers

CONSTANTS
    Emails,
    Systems,
    Organizer,  \* an organizer of the club, who may manage every sign-up
    NoItem,     \* nothing is stored under this signupId
    Requests    \* numbers, 0 not among them

ASSUME ItemsAssumption ==
    /\ Requests \subseteq Nat \ {0}
    /\ Organizer \notin Emails

VARIABLES
    items,      \* the item stored under each signupId
    index,      \* GSI3's copy of each item
    op,         \* what a request asks for
    caller,     \* who sends it
    target,     \* the signupId it writes
    body,       \* the item it writes, as far as it is known
    pc,         \* its next call
    disturbed   \* have two requests overlapped, or has one been misled by the index?

\* disturbed is for the properties; no guard reads it.
vars == <<items, index, op, caller, target, body, pc, disturbed>>

Item == [email : Emails, system : Systems, status : {"CONFIRMED", "CANCELLED"}]

ASSUME NoItemAssumption == NoItem \notin Item

Stored == {i \in Requests : items[i] # NoItem}

InFlight(r) == pc[r] \in {"find", "put"}

Init ==
    /\ items = [i \in Requests |-> NoItem]
    /\ index = [i \in Requests |-> NoItem]
    /\ op = [r \in Requests |-> "none"]
    /\ caller = [r \in Requests |-> Organizer]
    /\ target = [r \in Requests |-> r]
    /\ body = [r \in Requests |-> NoItem]
    /\ pc = [r \in Requests |-> "ready"]
    /\ disturbed = FALSE

Begin(r, what, who, id, item, next) ==
    /\ pc[r] = "ready"
    /\ op' = [op EXCEPT ![r] = what]
    /\ caller' = [caller EXCEPT ![r] = who]
    /\ target' = [target EXCEPT ![r] = id]
    /\ body' = [body EXCEPT ![r] = item]
    /\ pc' = [pc EXCEPT ![r] = next]
    /\ disturbed' = (disturbed \/ \E q \in Requests : InFlight(q))
    /\ UNCHANGED <<items, index>>

-----------------------------------------------------------------------------

\* POST .../signups, from anyone: upsertSignup first looks the email up ...
Submit(r, e, s) ==
    Begin(r, "submit", e, r, [email |-> e, system |-> s, status |-> "CONFIRMED"], "find")

\* Mutant: an earlier sign-up of the email is not looked up.
IgnoreExisting(copy, e, new) == new

\* Mutant: the lookup finds the night's first sign-up, whoever made it.
FindAnyone(copy, e, new) ==
    LET found == {i \in Requests : copy[i] # NoItem}
    IN  IF found = {} THEN new ELSE CHOOSE i \in found : \A j \in found : i <= j

\* findSignupByEmail, Limit 1: the first item of that email in signupId order,
\* else the ULID made for a new one.  The code looks in the index.
FindByEmail(copy, e, new) ==
    LET found == {i \in Requests : copy[i] # NoItem /\ copy[i].email = e}
    IN  IF found = {} THEN new ELSE CHOOSE i \in found : \A j \in found : i <= j

\* ... and takes nothing but the signupId from what it finds there.
FindExisting(r) ==
    /\ pc[r] = "find"
    /\ target' = [target EXCEPT ![r] = FindByEmail(index, caller[r], r)]
    /\ pc' = [pc EXCEPT ![r] = "put"]
    /\ disturbed' = (disturbed \/ FindByEmail(index, caller[r], r) # FindByEmail(items, caller[r], r))
    /\ UNCHANGED <<items, index, op, caller, body>>

\* Mutant: anyone who is signed in may manage a sign-up.
AnyoneMay(who, item) == TRUE

\* requireSignupAccess: the guest the sign-up belongs to, or an organizer.
MayManage(who, item) == who = item.email \/ who = Organizer

\* Mutant: a change is written as a confirmed sign-up, whatever was loaded.
AmendCancelled(r, who, i, s) ==
    /\ items[i] # NoItem
    /\ MayManage(who, items[i])
    /\ Begin(r, "amend", who, i, [items[i] EXCEPT !.system = s, !.status = "CONFIRMED"], "put")

\* PATCH .../signups/:signupId: loaded, checked, and then written from what was
\* loaded.
Amend(r, who, i, s) ==
    /\ items[i] # NoItem
    /\ MayManage(who, items[i])
    /\ items[i].status # "CANCELLED"
    /\ Begin(r, "amend", who, i, [items[i] EXCEPT !.system = s], "put")

\* Mutant: withdrawing removes the item.
HardWithdraw(r, who, i) ==
    /\ items[i] # NoItem
    /\ MayManage(who, items[i])
    /\ Begin(r, "withdraw", who, i, NoItem, "put")

\* DELETE .../signups/:signupId: a soft cancel of what was loaded.
Withdraw(r, who, i) ==
    /\ items[i] # NoItem
    /\ MayManage(who, items[i])
    /\ Begin(r, "withdraw", who, i, [items[i] EXCEPT !.status = "CANCELLED"], "put")

\* Mutant: a repeated submission keeps the status of the item it replaces.
PutKeepingStatus(r) ==
    /\ pc[r] = "put"
    /\ items' = [items EXCEPT ![target[r]] =
                    IF @ = NoItem \/ op[r] # "submit" THEN body[r]
                    ELSE [email |-> body[r].email, system |-> body[r].system, status |-> @.status]]
    /\ pc' = [pc EXCEPT ![r] = "done"]
    /\ UNCHANGED <<index, op, caller, target, body, disturbed>>

\* putSignup: an unconditional put of the whole item.
PutSignup(r) ==
    /\ pc[r] = "put"
    /\ items' = [items EXCEPT ![target[r]] = body[r]]
    /\ pc' = [pc EXCEPT ![r] = "done"]
    /\ UNCHANGED <<index, op, caller, target, body, disturbed>>

\* The index catches up with the table, for one item.  A version it would only
\* take over once the next one is written is skipped: a reader may still meet it,
\* if the index has taken it over before that.
CatchUp(i) ==
    /\ index[i] # items[i]
    /\ index' = [index EXCEPT ![i] = items[i]]
    /\ UNCHANGED <<items, op, caller, target, body, pc, disturbed>>

Next ==
    \/ \E r \in Requests, e \in Emails, s \in Systems : Submit(r, e, s)
    \/ \E r, i \in Requests, who \in Emails \cup {Organizer}, s \in Systems : Amend(r, who, i, s)
    \/ \E r, i \in Requests, who \in Emails \cup {Organizer} : Withdraw(r, who, i)
    \/ \E r \in Requests : FindExisting(r) \/ PutSignup(r) \/ CatchUp(r)

Spec == Init /\ [][Next]_vars

-----------------------------------------------------------------------------
(* Properties. *)

\* Items, their copies and requests keep their shape, and the index shows stored
\* items only.
TypeOK ==
    /\ items \in [Requests -> Item \cup {NoItem}]
    /\ index \in [Requests -> Item \cup {NoItem}]
    /\ \A i \in Requests : index[i] # NoItem => i \in Stored
    /\ op \in [Requests -> {"none", "submit", "amend", "withdraw"}]
    /\ caller \in [Requests -> Emails \cup {Organizer}]
    /\ target \in [Requests -> Requests]
    /\ body \in [Requests -> Item \cup {NoItem}]
    /\ pc \in [Requests -> {"ready", "find", "put", "done"}]
    /\ \A r \in Requests : pc[r] = "put" => body[r] # NoItem
    /\ disturbed \in BOOLEAN

\* "one signup per email per night" (signups.ts, upsertSignup; design, Edge
\* cases): no two items of the night carry the same email.
OnePerEmail ==
    \A i, j \in Stored : items[i].email = items[j].email => i = j

\* It holds as long as requests do not overlap and find the index up to date.
OnePerEmailInTurn == disturbed \/ OnePerEmail

\* A sign-up is cancelled only because its own player or an organizer has
\* withdrawn it, however requests overlap and however far the index is behind.
CancelledOnRequest ==
    \A i \in Stored : items[i].status = "CANCELLED" =>
        \E r \in Requests : /\ pc[r] = "done"
                            /\ op[r] = "withdraw"
                            /\ target[r] = i
                            /\ caller[r] \in {items[i].email, Organizer}

\* Every write leaves an item with the player it was first made for.
PlayerKeepsItem ==
    [][\A i \in Stored : items'[i] # NoItem /\ items'[i].email = items[i].email]_vars

\* "creating again with the same email reactivates the record" and "Cannot
\* update a cancelled signup": only a new submission confirms a withdrawn player,
\* as long as requests do not overlap.
OnlySubmittingRevives ==
    [][\A i \in Stored :
          (items[i].status = "CANCELLED" /\ items'[i].status = "CONFIRMED") =>
              \/ disturbed
              \/ \E r \in Requests : op[r] = "submit" /\ pc[r] = "put" /\ pc'[r] = "done"]_vars

\* What a player has just submitted is what a lookup of their email finds in the
\* table, and so in the index once that has caught up; until then the index has
\* nothing of theirs or an older version of this very sign-up, as long as requests
\* do not overlap.
SubmissionShows ==
    [][\A r \in Requests :
          (op[r] = "submit" /\ pc[r] = "put" /\ pc'[r] = "done" /\ ~disturbed) =>
              /\ FindByEmail(items', caller[r], 0) = target[r]
              /\ items'[target[r]] = body[r]
              /\ FindByEmail(index', caller[r], 0) \in {0, target[r]}]_vars
=============================================================================
