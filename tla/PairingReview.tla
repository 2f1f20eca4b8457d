---------------------------- MODULE PairingReview ----------------------------
(***************************************************************************)
(* What the pairing service promises an organizer, without the calls it    *)
(* makes to keep it: a board appears whole, is resolved two odd players at *)
(* a time, is published once together with its messages, and is then left  *)
(* alone.  A generation, a resolve and a publish are one step each, except *)
(* that a board takes time to prepare: meanwhile nothing is promised of    *)
(* it, and it counts as empty.                                             *)
(*                                                                         *)
(* What an interruption may leave is part of the promise.  NightReview     *)
(* shows that NightPairings keeps it when handlers do not overlap.         *)
(***************************************************************************)
EXTENDS PairNight

CONSTANTS
    Organizer,
    NoSignup,
    NoRoster,       \* no board is being prepared
    EditStatuses,   \* the statuses an organizer may ask for
    DeadlineFires,  \* may a schedule prepare a board for a published night?
    Interruptions   \* may a handler stop half way?

VARIABLES
    status,     \* of the night
    signups,    \* the sign-up item of each player
    board,      \* the pairings an organizer is shown
    roster,     \* the players a board is being prepared for, and their systems
    mail,       \* messages sent
    stopped     \* the requests that were interrupted

vars == <<status, signups, board, roster, mail, stopped>>

Confirmed == {p \in Players : signups[p] # NoSignup /\ signups[p].status = "CONFIRMED"}

Init ==
    /\ status = "OPEN"
    /\ signups = [p \in Players |-> NoSignup]
    /\ board = {}
    /\ roster = NoRoster
    /\ mail = {}
    /\ stopped = {}

\* A handler stops half way.  It is known to have stopped: nothing below that is
\* the work of an interruption can come from a handler that has finished.
Interrupted ==
    /\ Interruptions
    /\ \E r \in Requests \ stopped : stopped' = stopped \cup {r}

\* Whatever the board was, one is prepared anew for the players confirmed now.
Prepare ==
    /\ status = "PAIRED" => DeadlineFires
    /\ roster = NoRoster
    /\ roster' = [p \in Confirmed |-> signups[p].system]
    /\ board' = {}
    /\ UNCHANGED <<status, signups, mail, stopped>>

\* It appears whole, for exactly the players it was prepared for, and sign-ups
\* close with it.
Complete ==
    /\ roster # NoRoster
    /\ \E r \in Requests : WellPaired(board', r, roster)
    /\ status' = "CLOSED"
    /\ roster' = NoRoster
    /\ UNCHANGED <<signups, mail, stopped>>

\* An interrupted generation may leave any part of a board, old or new, but
\* neither closes the night nor tells anyone.
Abandon ==
    /\ Interrupted
    /\ roster # NoRoster
    /\ board' \subseteq Pairing
    /\ roster' = NoRoster
    /\ UNCHANGED <<status, signups, mail>>

\* Two odd players become one pairing, both singles going at the same time.
Resolve ==
    /\ status # "PAIRED"
    /\ roster = NoRoster
    /\ \E target, absorbed \in {q \in board : q.status = "NEEDS_RESOLUTION"} :
          /\ target # absorbed
          /\ board' = (board \ {target, absorbed}) \cup
                 {[target EXCEPT !.second = absorbed.first, !.status = "MATCHED"]}
    /\ UNCHANGED <<status, signups, roster, mail, stopped>>

\* An interrupted resolve leaves the single of a player it has just matched.
LeaveOrphan ==
    /\ Interrupted
    /\ \E p \in board, a \in board' \cap Pairing :
          /\ p.status = "MATCHED" /\ a.status = "NEEDS_RESOLUTION"
          /\ a.first = p.second
          /\ board' = board \cup {a}
    /\ UNCHANGED <<status, signups, roster, mail>>

\* What a publish may tell: to players with a sign-up, the opponent the board
\* gives them.
Truthful(sent) ==
    \A m \in sent : /\ m.to \in Players
                    /\ signups[m.to] # NoSignup
                    /\ \E p \in board : /\ p.status = "MATCHED"
                                        /\ Seated(p) = {m.to, m.about}

\* The board is published and its players are told, in one step.
Publish ==
    /\ status = "CLOSED"
    /\ roster = NoRoster
    /\ status' = "PAIRED"
    /\ mail \subseteq mail' /\ Truthful(mail' \ mail)
    /\ UNCHANGED <<signups, board, roster, stopped>>

\* An interrupted publish has told players of a board that can still change.
TellOnly ==
    /\ Interrupted
    /\ status = "CLOSED"
    /\ mail \subseteq mail' /\ Truthful(mail' \ mail)
    /\ UNCHANGED <<status, signups, board, roster>>

\* Any other request that stops has done nothing, or has done all it was to do.
Stop ==
    /\ Interrupted
    /\ UNCHANGED <<status, signups, board, roster, mail>>

\* The organizer hears that a board is ready, which implies that sign-ups have
\* been closed.
TellOrganizer ==
    /\ status = "CLOSED"
    /\ \E r \in Requests : mail' = mail \cup {[by |-> r, to |-> Organizer, about |-> NoOne]}
    /\ UNCHANGED <<status, signups, board, roster, stopped>>

\* The organizer edits the night while no board is being prepared.
Edit ==
    /\ roster = NoRoster
    /\ status' \in EditStatuses
    /\ UNCHANGED <<signups, board, roster, mail, stopped>>

\* A player's sign-up may change at any time, and is never removed.
PlayerWrites ==
    /\ \E p \in Players, s \in Systems, how \in {"CONFIRMED", "CANCELLED"} :
          signups' = [signups EXCEPT ![p] = [system |-> s, status |-> how]]
    /\ UNCHANGED <<status, board, roster, mail, stopped>>

Next ==
    \/ Prepare \/ Complete \/ Abandon
    \/ Resolve \/ LeaveOrphan
    \/ Publish \/ TellOnly \/ TellOrganizer \/ Stop
    \/ Edit \/ PlayerWrites

Spec == Init /\ [][Next]_vars
=============================================================================
