---------------------------- MODULE PairingsPage ----------------------------
(***************************************************************************)
(* The organizer's pairings page in front of the API.  A page shows what   *)
(* its query cache holds: a copy of the night's status and of the board,   *)
(* as old as the last answer it received.  Its buttons send mutations, and *)
(* what a successful mutation invalidates is fetched again.                *)
(*                                                                         *)
(* Of a handler only the calls are kept that another request of the page   *)
(* can notice (NightPairings has them all), and of the board what the page *)
(* tells apart: a row for each odd one out, with its player, and one that  *)
(* stands for the pairs a generation has made by itself.  A pairingId is   *)
(* the generation and the player it was made for.                          *)
(***************************************************************************)
EXTENDS Integers, FiniteSets

CONSTANTS
    Pages,      \* open pages, of one organizer or several
    Players,    \* players who may be odd ones out
    OddSets,    \* those a generation may leave over together
    None,       \* no data yet; as a player: the pairs made by a generation
    MaxGen,     \* bound: how often pairings are generated
    MaxResolves \* bound: how many resolves a page has under way at once

ASSUME PageAssumption ==
    /\ MaxGen \in Nat
    /\ MaxResolves \in Nat
    /\ None \notin Players
    /\ OddSets \subseteq SUBSET Players

VARIABLES
    status,     \* night.status on the server
    board,      \* the pairings on the server
    gens,       \* how many generations have been drawn
    loggedIn,   \* is an organizer signed in on a page?
    night,      \* each page's cached night.status
    rows,       \* each page's cached board
    fetching,   \* the answer each page's two queries wait for
    call,       \* the generate and the publish mutation of each page
    seen,       \* night.status as a running generatePairings has read it
    resolves,   \* the resolve mutations of each page
    chosen,     \* what the selects of the OddRows hold, and since which generation
    lost        \* pages that have lost a response, or not fetched again after one

server == <<status, board, gens>>
cache  == <<night, rows, fetching>>

\* lost is for the properties; no guard reads it.
vars   == <<server, loggedIn, cache, call, seen, resolves, chosen, lost>>

Status == {"OPEN", "CLOSED", "PAIRED"}

Row == [gen : 1..MaxGen, player : Players, odd : BOOLEAN]
       \cup [gen : 1..MaxGen, player : {None}, odd : {FALSE}]

Query == {"night", "pairings"}
Mutation == {"generate", "publish"}

Idle == [state |-> "idle", data |-> None]
Asked == [state |-> "asked", data |-> None]

\* How far a mutation has come.  One that is refused or has failed shows an error,
\* and nothing else: it is idle again.
Stage == {"idle", "asked", "checked", "read", "cleared", "filled", "ok"}

Choice == [gen : 1..MaxGen, player : Players, opponent : Players, since : 1..MaxGen]

\* absorbed is the generation of the opponent's row, once that is found.  Two clicks
\* on one row with the same choice count as one while they are equally far.
Resolve == [gen : 1..MaxGen, player : Players, opponent : Players, since : 1..MaxGen,
            absorbed : 0..MaxGen, stage : {"asked", "checked", "found", "merged", "ok"}]

Init ==
    /\ status = "OPEN"
    /\ board = {}
    /\ gens = 0
    /\ loggedIn \in [Pages -> BOOLEAN]
    /\ night = [p \in Pages |-> None]
    /\ rows = [p \in Pages |-> None]
    /\ fetching = [p \in Pages |-> [q \in Query |-> Asked]]
    /\ call = [p \in Pages |-> [c \in Mutation |-> "idle"]]
    /\ seen = [p \in Pages |-> None]
    /\ resolves = [p \in Pages |-> {}]
    /\ chosen = [p \in Pages |-> {}]
    /\ lost = {}

-----------------------------------------------------------------------------
(* Queries.  A fetch is Idle, Asked of the server, or answered with data   *)
(* that is on its way to the page.                                         *)

HasData(p, q) == IF q = "night" THEN night[p] # None ELSE rows[p] # None

\* A query's first fetch is under way.
Loading(p, q) == ~HasData(p, q) /\ fetching[p][q] # Idle

\* invalidateQueries: a fetch under way is cancelled and a new one started, but a
\* query that is loading goes on with the fetch it has.
Invalidate(p, queries) ==
    /\ fetching' = [fetching EXCEPT ![p] =
            [q \in Query |-> IF q \in queries /\ ~Loading(p, q) THEN Asked ELSE @[q]]]
    /\ lost' = IF \E q \in queries : Loading(p, q) THEN lost \cup {p} ELSE lost

\* The window regains focus, or the page is shown again.
Refetch(p) ==
    /\ \E q \in Query : /\ fetching[p][q] = Idle
                        /\ fetching' = [fetching EXCEPT ![p][q] = Asked]
    /\ UNCHANGED <<server, loggedIn, night, rows, call, seen, resolves, chosen, lost>>

\* GET .../nights/:nightId, which anyone may read, or GET .../pairings.
Answer(p, q) ==
    /\ fetching[p][q] = Asked
    /\ q = "pairings" => loggedIn[p]
    /\ fetching' = [fetching EXCEPT ![p][q] =
            [state |-> "answered", data |-> IF q = "night" THEN status ELSE board]]
    /\ UNCHANGED <<server, loggedIn, night, rows, call, seen, resolves, chosen, lost>>

\* Mutant: the page keeps the choices, not its rows.
KeepAll(p, shownNight, shownRows) == chosen[p]

\* Mutant: rows are told apart by their player.
KeepByPlayer(p, shownNight, shownRows) ==
    IF shownNight # "CLOSED" \/ shownRows = None THEN {}
    ELSE UNION {{[c EXCEPT !.gen = r.gen] : c \in {d \in chosen[p] : d.player = r.player}} :
                   r \in {q \in shownRows : q.odd}}

\* An OddRow keeps its choice while the page keeps showing the row: React tells
\* rows apart by pairingId.
KeepShown(p, shownNight, shownRows) ==
    IF shownNight # "CLOSED" \/ shownRows = None THEN {}
    ELSE {c \in chosen[p] : [gen |-> c.gen, player |-> c.player, odd |-> TRUE] \in shownRows}

ReceiveNight(p) ==
    /\ fetching[p]["night"].state = "answered"
    /\ LET new == fetching[p]["night"].data
       IN  /\ night' = [night EXCEPT ![p] = new]
           /\ chosen' = [chosen EXCEPT ![p] = KeepShown(p, new, rows[p])]
    /\ fetching' = [fetching EXCEPT ![p]["night"] = Idle]
    /\ UNCHANGED <<server, loggedIn, rows, call, seen, resolves, lost>>

ReceiveRows(p) ==
    /\ fetching[p]["pairings"].state = "answered"
    /\ LET new == fetching[p]["pairings"].data
       IN  /\ rows' = [rows EXCEPT ![p] = new]
           /\ chosen' = [chosen EXCEPT ![p] = KeepShown(p, night[p], new)]
    /\ fetching' = [fetching EXCEPT ![p]["pairings"] = Idle]
    /\ UNCHANGED <<server, loggedIn, night, call, seen, resolves, lost>>

\* A query gives up after its retries; the page goes on showing what it has.
FetchFails(p) ==
    /\ \E q \in Query : /\ fetching[p][q] # Idle
                        /\ fetching' = [fetching EXCEPT ![p][q] = Idle]
    /\ lost' = lost \cup {p}
    /\ UNCHANGED <<server, loggedIn, night, rows, call, seen, resolves, chosen>>

-----------------------------------------------------------------------------
(* Signing in and out.  Queries and calls under way go on, the rows of the *)
(* board are gone, and nothing is fetched because somebody has signed in.  *)

LogIn(p) ==
    /\ ~loggedIn[p]
    /\ loggedIn' = [loggedIn EXCEPT ![p] = TRUE]
    /\ UNCHANGED <<server, cache, call, seen, resolves, chosen, lost>>

LogOut(p) ==
    /\ loggedIn[p]
    /\ loggedIn' = [loggedIn EXCEPT ![p] = FALSE]
    /\ chosen' = [chosen EXCEPT ![p] = {}]
    /\ UNCHANGED <<server, cache, call, seen, resolves, lost>>

-----------------------------------------------------------------------------
(* Generate and publish. *)

\* The call goes from one stage to the next.
Advance(p, c, from, to) ==
    /\ call[p][c] = from
    /\ call' = [call EXCEPT ![p][c] = to]
    /\ UNCHANGED <<loggedIn, cache, resolves, chosen>>

\* "Generate pairings" on an OPEN night, "Re-roll pairings" on a CLOSED one.
ClickGenerate(p) ==
    /\ gens < MaxGen
    /\ loggedIn[p] /\ night[p] \in {"OPEN", "CLOSED"}
    /\ Advance(p, "generate", "idle", "asked")
    /\ UNCHANGED <<server, seen, lost>>

ClickPublish(p) ==
    /\ loggedIn[p] /\ night[p] = "CLOSED"
    /\ Advance(p, "publish", "idle", "asked")
    /\ UNCHANGED <<server, seen, lost>>

\* The route's guard: a published night is not regenerated.
CheckGenerate(p) ==
    /\ Advance(p, "generate", "asked", IF status = "PAIRED" THEN "idle" ELSE "checked")
    /\ UNCHANGED <<server, seen, lost>>

\* generatePairings reads the night again ...
ReadNight(p) ==
    /\ Advance(p, "generate", "checked", "read")
    /\ seen' = [seen EXCEPT ![p] = status]
    /\ UNCHANGED <<server, lost>>

\* ... deletes the pairings that are there ...
ClearBoard(p) ==
    /\ Advance(p, "generate", "read", "cleared")
    /\ board' = {}
    /\ UNCHANGED <<status, gens, seen, lost>>

\* ... puts those it has drawn ...
FillBoard(p) ==
    /\ gens < MaxGen
    /\ Advance(p, "generate", "cleared", IF seen[p] = "CLOSED" THEN "ok" ELSE "filled")
    /\ gens' = gens + 1
    /\ \E odd \in OddSets :
          board' = board \cup {[gen |-> gens', player |-> x, odd |-> TRUE] : x \in odd}
                         \cup {[gen |-> gens', player |-> None, odd |-> FALSE]}
    /\ seen' = [seen EXCEPT ![p] = None]
    /\ UNCHANGED <<status, lost>>

\* ... and closes the night, unless it was closed when it was read.
CloseNight(p) ==
    /\ Advance(p, "generate", "filled", "ok")
    /\ status' = "CLOSED"
    /\ UNCHANGED <<board, gens, seen, lost>>

\* publishPairings reads the night: one that is PAIRED is returned as it is ...
ReadForPublish(p) ==
    /\ Advance(p, "publish", "asked", CASE status = "PAIRED" -> "ok"
                                        [] status = "CLOSED" -> "checked"
                                        [] status = "OPEN" -> "idle")
    /\ UNCHANGED <<server, seen, lost>>

\* ... and one that is CLOSED becomes PAIRED once the emails have been sent.
MarkPublished(p) ==
    /\ Advance(p, "publish", "checked", "ok")
    /\ status' = "PAIRED"
    /\ UNCHANGED <<board, gens, seen, lost>>

\* A handler stops between two of its calls, or its response gets lost: an error to
\* the page, whatever has been done by then.
CallFails(p, c) ==
    /\ call[p][c] # "idle"
    /\ Advance(p, c, call[p][c], "idle")
    /\ seen' = IF c = "generate" THEN [seen EXCEPT ![p] = None] ELSE seen
    /\ lost' = IF call[p][c] \in {"cleared", "filled", "ok"} THEN lost \cup {p} ELSE lost
    /\ UNCHANGED server

\* Mutant: only the board is fetched again.
InvalidatesRows(c) == {"pairings"}

\* onSuccess of both mutations.
Invalidates(c) == {"pairings", "night"}

\* The response arrives.
Settle(p, c) ==
    /\ call[p][c] = "ok"
    /\ call' = [call EXCEPT ![p][c] = "idle"]
    /\ Invalidate(p, Invalidates(c))
    /\ UNCHANGED <<server, loggedIn, night, rows, seen, resolves, chosen>>

-----------------------------------------------------------------------------
(* Resolving odd ones out. *)

OddRows(p) == IF rows[p] = None THEN {} ELSE {r \in rows[p] : r.odd}

\* The organizer picks an opponent among the other unresolved players shown.
Choose(p) ==
    /\ loggedIn[p] /\ night[p] = "CLOSED"
    /\ \E r, other \in OddRows(p) :
          /\ r # other
          /\ chosen' = [chosen EXCEPT ![p] =
                {c \in @ : ~(c.gen = r.gen /\ c.player = r.player)} \cup
                {[gen |-> r.gen, player |-> r.player, opponent |-> other.player, since |-> r.gen]}]
    /\ UNCHANGED <<server, loggedIn, cache, call, seen, resolves, lost>>

\* The row's button asks for a choice, and for nothing else: neither a pending
\* resolve nor an opponent who is no longer listed disables it.
ClickResolve(p) ==
    /\ loggedIn[p] /\ night[p] = "CLOSED"
    /\ Cardinality(resolves[p]) < MaxResolves
    /\ \E r, other \in OddRows(p), c \in chosen[p] :
          /\ r # other
          /\ c.gen = r.gen /\ c.player = r.player
          /\ resolves' = [resolves EXCEPT ![p] = @ \cup
                {[gen |-> c.gen, player |-> c.player, opponent |-> c.opponent,
                  since |-> c.since, absorbed |-> 0, stage |-> "asked"]}]
    /\ UNCHANGED <<server, loggedIn, cache, call, seen, chosen, lost>>

\* The handler of a resolve goes on, with new, or ends.
Proceed(p, m, new) ==
    /\ resolves' = [resolves EXCEPT ![p] = (@ \ {m}) \cup new]
    /\ UNCHANGED <<status, gens, loggedIn, cache, call, seen, chosen>>

\* The route's guard.
CheckResolve(p, m) ==
    /\ m.stage = "asked"
    /\ Proceed(p, m, IF status = "PAIRED" THEN {} ELSE {[m EXCEPT !.stage = "checked"]})
    /\ UNCHANGED <<board, lost>>

\* resolvePairing lists the pairings: its own must be there and unresolved, and so
\* must another one, of the opponent.
FindRows(p, m) ==
    /\ m.stage = "checked"
    /\ LET others == {r \in board : /\ r.odd /\ r.player = m.opponent
                                    /\ ~(r.gen = m.gen /\ r.player = m.player)}
       IN  IF [gen |-> m.gen, player |-> m.player, odd |-> TRUE] \in board /\ others # {}
           THEN \E r \in others : Proceed(p, m, {[m EXCEPT !.absorbed = r.gen, !.stage = "found"]})
           ELSE Proceed(p, m, {})
    /\ UNCHANGED <<board, lost>>

\* What is stored under a pairingId.
Under(gen, player) == {r \in board : r.gen = gen /\ r.player = player}

\* It puts the merged pairing ...
PutMerged(p, m) ==
    /\ m.stage = "found"
    /\ board' = (board \ Under(m.gen, m.player))
                    \cup {[gen |-> m.gen, player |-> m.player, odd |-> FALSE]}
    /\ Proceed(p, m, {[m EXCEPT !.stage = "merged"]})
    /\ UNCHANGED lost

\* ... and deletes the one it has absorbed.
DeleteAbsorbed(p, m) ==
    /\ m.stage = "merged"
    /\ board' = board \ Under(m.absorbed, m.opponent)
    /\ Proceed(p, m, {[m EXCEPT !.stage = "ok"]})
    /\ UNCHANGED lost

ResolveFails(p, m) ==
    /\ Proceed(p, m, {})
    /\ lost' = IF m.stage \in {"merged", "ok"} THEN lost \cup {p} ELSE lost
    /\ UNCHANGED board

\* onSuccess fetches the board again, not the night.
SettleResolve(p, m) ==
    /\ m.stage = "ok"
    /\ resolves' = [resolves EXCEPT ![p] = @ \ {m}]
    /\ Invalidate(p, {"pairings"})
    /\ UNCHANGED <<server, loggedIn, night, rows, call, seen, chosen>>

-----------------------------------------------------------------------------

Serve(p) ==
    \/ \E q \in Query : Answer(p, q)
    \/ CheckGenerate(p) \/ ReadNight(p) \/ ClearBoard(p) \/ FillBoard(p) \/ CloseNight(p)
    \/ ReadForPublish(p) \/ MarkPublished(p)
    \/ \E m \in resolves[p] :
          CheckResolve(p, m) \/ FindRows(p, m) \/ PutMerged(p, m) \/ DeleteAbsorbed(p, m)

Receive(p) ==
    \/ ReceiveNight(p) \/ ReceiveRows(p)
    \/ \E c \in Mutation : Settle(p, c)
    \/ \E m \in resolves[p] : SettleResolve(p, m)

Fail(p) ==
    \/ FetchFails(p)
    \/ \E c \in Mutation : CallFails(p, c)
    \/ \E m \in resolves[p] : ResolveFails(p, m)

Organizer(p) ==
    LogIn(p) \/ LogOut(p) \/ Refetch(p) \/ ClickGenerate(p) \/ ClickPublish(p) \/ Choose(p) \/ ClickResolve(p)

Next == \E p \in Pages : Serve(p) \/ Receive(p) \/ Organizer(p) \/ Fail(p)

Spec == Init /\ [][Next]_vars

\* The night is fetched when it is asked for, and the response to a publish is
\* handled; nobody has to click anything, and nothing is claimed of other calls.
\* Fairness of the query is strong because each confirmed publish starts it anew:
\* an organizer does not go on clicking faster than it is answered.
FairSpec ==
    /\ Spec
    /\ \A p \in Pages : /\ SF_vars(Answer(p, "night")) /\ SF_vars(ReceiveNight(p))
                        /\ WF_vars(Settle(p, "publish"))

-----------------------------------------------------------------------------
(* Properties. *)

\* Caches hold what the server may once have answered, and a choice is one that a
\* row on the screen holds.
TypeOK ==
    /\ status \in Status
    /\ board \subseteq Row
    /\ gens \in 0..MaxGen
    /\ loggedIn \in [Pages -> BOOLEAN]
    /\ night \in [Pages -> Status \cup {None}]
    /\ \A p \in Pages : rows[p] = None \/ rows[p] \subseteq Row
    /\ \A p \in Pages, q \in Query :
          \/ fetching[p][q] \in {Idle, Asked}
          \/ /\ fetching[p][q].state = "answered"
             /\ \/ q = "night" /\ fetching[p][q].data \in Status
                \/ q = "pairings" /\ fetching[p][q].data \subseteq Row
    /\ call \in [Pages -> [Mutation -> Stage]]
    /\ seen \in [Pages -> Status \cup {None}]
    /\ resolves \in [Pages -> SUBSET Resolve]
    /\ chosen \in [Pages -> SUBSET Choice]
    /\ \A p \in Pages : \A c \in chosen[p] :
          /\ loggedIn[p] /\ night[p] = "CLOSED"
          /\ [gen |-> c.gen, player |-> c.player, odd |-> TRUE] \in OddRows(p)
    /\ lost \subseteq Pages

Settled(p) ==
    /\ \A q \in Query : fetching[p][q] = Idle
    /\ \A c \in Mutation : call[p][c] = "idle"
    /\ resolves[p] = {}

\* As long as one page does all the work, has loaded both queries before, and
\* every response arrives, a page with nothing under way shows the server's night
\* and the server's board, however its requests have overlapped.
SettledPageIsCurrent ==
    \A p \in Pages : Settled(p) => (night[p] = status /\ rows[p] = board) \/ p \in lost

\* A resolve names two players the organizer picked on one and the same board:
\* a choice never outlives the generation it was made on.
ResolvesAsPicked ==
    \A p \in Pages : \A m \in resolves[p] : m.since = m.gen

\* A page whose publish was confirmed comes to show the night as published,
\* unless it loses a response or a re-roll of its own that the publish overtook
\* has closed the night again.
PublishShows ==
    \A p \in Pages : call[p]["publish"] = "ok" ~>
        (night[p] = "PAIRED" \/ status # "PAIRED" \/ p \in lost)
=============================================================================
