------------------------ MODULE PairingsPage_proofs ------------------------
(***************************************************************************)
(* Theorems about PairingsPage, for any number of players, generations and *)
(* resolves, and, where no hypothesis says otherwise, of open pages.       *)
(***************************************************************************)
EXTENDS PairingsPage, TLAPS

\* What moves the generate and the publish mutation on, but for their responses.
CallStep(p) ==
    \/ ClickGenerate(p) \/ ClickPublish(p)
    \/ CheckGenerate(p) \/ ReadNight(p) \/ ClearBoard(p) \/ FillBoard(p) \/ CloseNight(p)
    \/ ReadForPublish(p) \/ MarkPublished(p)
    \/ \E c \in Mutation : CallFails(p, c)

\* What moves a resolve on, but for its response.
ResolveStep(p, m) ==
    \/ CheckResolve(p, m) \/ FindRows(p, m) \/ PutMerged(p, m) \/ DeleteAbsorbed(p, m)
    \/ ResolveFails(p, m)

PageStep(p) ==
    \/ \E q \in Query : Answer(p, q)
    \/ CallStep(p)
    \/ \E m \in resolves[p] : ResolveStep(p, m)
    \/ ReceiveNight(p) \/ ReceiveRows(p)
    \/ \E c \in Mutation : Settle(p, c)
    \/ \E m \in resolves[p] : SettleResolve(p, m)
    \/ LogIn(p) \/ LogOut(p) \/ Refetch(p) \/ FetchFails(p)
    \/ Choose(p) \/ ClickResolve(p)

LEMMA NextCases ==
    ASSUME Next
    PROVE  \E p \in Pages : PageStep(p)
BY DEF Next, Serve, Receive, Organizer, Fail, PageStep, CallStep, ResolveStep

-----------------------------------------------------------------------------
(* Every page shows what the server once answered. *)

\* What the server may answer to a query, and what a fetch may hold.
AnswerTo(q) == IF q = "night" THEN Status ELSE SUBSET Row

Held(q) == {Idle, Asked} \cup [state : {"answered"}, data : AnswerTo(q)]

Fetches ==
    /\ fetching = [p \in Pages |-> [q \in Query |-> fetching[p][q]]]
    /\ \A p \in Pages, q \in Query : fetching[p][q] \in Held(q)

\* A choice is held by a row on the screen, and of that row's generation.
OnRow(p, c) ==
    /\ loggedIn[p] /\ night[p] = "CLOSED"
    /\ [gen |-> c.gen, player |-> c.player, odd |-> TRUE] \in OddRows(p)
    /\ c.since = c.gen

ChosenOnRows == \A p \in Pages : \A c \in chosen[p] : OnRow(p, c)

\* Everything else has its type.
Shapes ==
    /\ status \in Status /\ board \subseteq Row /\ gens \in 0..MaxGen
    /\ loggedIn \in [Pages -> BOOLEAN]
    /\ night \in [Pages -> Status \cup {None}]
    /\ rows \in [Pages -> (SUBSET Row) \cup {None}]
    /\ call \in [Pages -> [Mutation -> Stage]]
    /\ seen \in [Pages -> Status \cup {None}]
    /\ resolves \in [Pages -> SUBSET Resolve]
    /\ chosen \in [Pages -> SUBSET Choice]
    /\ lost \subseteq Pages

PageInv == Shapes /\ Fetches /\ ChosenOnRows /\ ResolvesAsPicked

\* As long as one page does all the work: what it shows, and what it is about to
\* receive, is the server's, unless a handler that has changed something is still
\* running, or its success is about to arrive.
Confirmed(p) == \E c \in Mutation : call[p][c] = "ok"

Redrawing(p) == call[p]["generate"] \in {"cleared", "filled"}

Resolved(p) == \E m \in resolves[p] : m.stage \in {"merged", "ok"}

NightCurrent(p) ==
    \/ p \in lost \/ Confirmed(p)
    \/ /\ fetching[p]["night"] = Idle => night[p] = status
       /\ fetching[p]["night"].state = "answered" => fetching[p]["night"].data = status

RowsCurrent(p) ==
    \/ p \in lost \/ Confirmed(p) \/ Redrawing(p) \/ Resolved(p)
    \/ /\ fetching[p]["pairings"] = Idle => rows[p] = board
       /\ fetching[p]["pairings"].state = "answered" => fetching[p]["pairings"].data = board

Current == \A p \in Pages : NightCurrent(p) /\ RowsCurrent(p)

-----------------------------------------------------------------------------
(* What a step does to the fetches. *)

LEMMA PagesAreTyped == PageInv => TypeOK
<1> SUFFICES ASSUME PageInv PROVE TypeOK
  OBVIOUS
<1> USE DEF PageInv
<1>1. ASSUME NEW p \in Pages, NEW q \in Query
      PROVE  \/ fetching[p][q] \in {Idle, Asked}
             \/ /\ fetching[p][q].state = "answered"
                /\ \/ q = "night" /\ fetching[p][q].data \in Status
                   \/ q = "pairings" /\ fetching[p][q].data \subseteq Row
  BY DEF Fetches, Held, AnswerTo, Query
<1>2. ASSUME NEW p \in Pages
      PROVE  rows[p] = None \/ rows[p] \subseteq Row
  BY DEF Shapes
<1>3. ASSUME NEW p \in Pages, NEW c \in chosen[p]
      PROVE  /\ loggedIn[p] /\ night[p] = "CLOSED"
             /\ [gen |-> c.gen, player |-> c.player, odd |-> TRUE] \in OddRows(p)
  BY DEF ChosenOnRows, OnRow
<1>4. /\ status \in Status /\ board \subseteq Row /\ gens \in 0..MaxGen
      /\ loggedIn \in [Pages -> BOOLEAN]
      /\ night \in [Pages -> Status \cup {None}]
      /\ call \in [Pages -> [Mutation -> Stage]]
      /\ seen \in [Pages -> Status \cup {None}]
      /\ resolves \in [Pages -> SUBSET Resolve]
      /\ chosen \in [Pages -> SUBSET Choice]
      /\ lost \subseteq Pages
  BY DEF Shapes
<1> QED
  BY <1>1, <1>2, <1>3, <1>4 DEF TypeOK

LEMMA AnswerHeld ==
    ASSUME Fetches, NEW p \in Pages, NEW q \in Query, fetching[p][q].state = "answered"
    PROVE  fetching[p][q].data \in AnswerTo(q)
BY DEF Fetches, Held, Idle, Asked

\* A mutation goes on.
LEMMA CallMoves ==
    ASSUME Shapes, NEW p \in Pages, NEW c \in Mutation,
           NEW v \in Stage, call' = [call EXCEPT ![p][c] = v]
    PROVE  /\ call' \in [Pages -> [Mutation -> Stage]]
           /\ call'[p][c] = v
           /\ \A o \in Pages, d \in Mutation : (o # p \/ d # c) => call'[o][d] = call[o][d]
BY DEF Shapes

\* A row keeps a choice of its own, or none.
LEMMA KeptChoices ==
    ASSUME NEW p, NEW shownNight, NEW shownRows
    PROVE  \A c \in KeepShown(p, shownNight, shownRows) :
              /\ c \in chosen[p]
              /\ shownNight = "CLOSED" /\ shownRows # None
              /\ [gen |-> c.gen, player |-> c.player, odd |-> TRUE] \in shownRows
BY DEF KeepShown

\* One fetch starts, is answered, arrives or gives up.
Moves(p, q, f) == fetching' = [fetching EXCEPT ![p][q] = f]

LEMMA FetchMoves ==
    ASSUME Fetches, NEW p \in Pages, NEW q \in Query, NEW f \in Held(q), Moves(p, q, f)
    PROVE  /\ Fetches'
           /\ fetching'[p][q] = f
           /\ \A o \in Pages, r \in Query : (o # p \/ r # q) => fetching'[o][r] = fetching[o][r]
BY DEF Fetches, Moves

\* Invalidated queries are fetched again, unless the page has nothing of them yet.
LEMMA InvalidateAsks ==
    ASSUME Fetches, NEW p \in Pages, NEW queries, Invalidate(p, queries)
    PROVE  /\ Fetches'
           /\ \A o \in Pages, q \in Query :
                 fetching'[o][q] # fetching[o][q] => o = p /\ fetching'[o][q] = Asked
           /\ \A q \in queries \cap Query : p \in lost' \/ fetching'[p][q] = Asked
           /\ lost' \in {lost, lost \cup {p}}
<1> DEFINE new == [q \in Query |-> IF q \in queries /\ ~Loading(p, q) THEN Asked
                                   ELSE fetching[p][q]]
<1>1. fetching' = [fetching EXCEPT ![p] = new]
  BY DEF Invalidate, Fetches
<1>2. \A q \in Query : new[q] \in {Asked, fetching[p][q]}
  OBVIOUS
<1>3. \A q \in Query : new[q] \in Held(q)
  BY <1>2 DEF Fetches, Held
<1>4. new = [q \in Query |-> new[q]]
  OBVIOUS
<1>5. \A q \in queries \cap Query : ~Loading(p, q) => new[q] = Asked
  OBVIOUS
<1> HIDE DEF new
<1>6. \A o \in Pages : fetching'[o] = IF o = p THEN new ELSE fetching[o]
  BY <1>1 DEF Fetches
<1>7. Fetches'
  BY <1>1, <1>3, <1>4, <1>6 DEF Fetches
<1>8. /\ lost' \in {lost, lost \cup {p}}
      /\ \A q \in queries \cap Query : p \in lost' \/ ~Loading(p, q)
  BY DEF Invalidate
<1> QED
  BY <1>2, <1>5, <1>6, <1>7, <1>8

-----------------------------------------------------------------------------
(* PageInv is inductive. *)

LEMMA PageInit == Init => PageInv
<1> SUFFICES ASSUME Init PROVE PageInv
  OBVIOUS
<1>1. fetching = [p \in Pages |-> [q \in Query |-> Asked]]
  BY DEF Init
<1>2. Fetches
  BY <1>1 DEF Fetches, Held
<1>3. Shapes
  BY <1>1, PageAssumption DEF Init, Shapes, Status, Stage
<1>4. ChosenOnRows /\ ResolvesAsPicked
  BY DEF Init, ChosenOnRows, ResolvesAsPicked
<1> QED
  BY <1>2, <1>3, <1>4 DEF PageInv

\* Choices stay on their rows as long as the page shows the same.
LEMMA ChosenStay ==
    ASSUME ChosenOnRows, UNCHANGED <<loggedIn, night, rows, chosen>>
    PROVE  ChosenOnRows'
BY DEF ChosenOnRows, OnRow, OddRows

LEMMA AnswerKeeps ==
    ASSUME PageInv, NEW p \in Pages, NEW q \in Query, Answer(p, q)
    PROVE  PageInv'
<1> USE DEF PageInv
<1> DEFINE f == [state |-> "answered", data |-> IF q = "night" THEN status ELSE board]
<1>1. Moves(p, q, f)
  BY DEF Answer, Moves
<1>2. f \in Held(q)
  BY DEF Held, AnswerTo, Shapes
<1> HIDE DEF f
<1>3. Fetches'
  BY <1>1, <1>2, FetchMoves
<1>4. Shapes'
  BY <1>3 DEF Answer, Shapes, server
<1>5. ChosenOnRows' /\ ResolvesAsPicked'
  BY ChosenStay DEF Answer, ResolvesAsPicked
<1> QED
  BY <1>3, <1>4, <1>5

LEMMA RefetchKeeps ==
    ASSUME PageInv, NEW p \in Pages, Refetch(p) \/ FetchFails(p)
    PROVE  PageInv'
<1> USE DEF PageInv
<1>1. PICK q \in Query, f \in {Idle, Asked} : Moves(p, q, f)
  BY DEF Refetch, FetchFails, Moves
<1>2. f \in Held(q)
  BY DEF Held
<1>3. Fetches'
  BY <1>1, <1>2, FetchMoves
<1>4. Shapes'
  BY <1>3 DEF Refetch, FetchFails, Shapes, server
<1>5. ChosenOnRows' /\ ResolvesAsPicked'
  BY ChosenStay DEF Refetch, FetchFails, ResolvesAsPicked
<1> QED
  BY <1>3, <1>4, <1>5

LEMMA ReceiveNightKeeps ==
    ASSUME PageInv, NEW p \in Pages, ReceiveNight(p)
    PROVE  PageInv'
<1> USE DEF PageInv
<1> DEFINE new == fetching[p]["night"].data
           kept == KeepShown(p, new, rows[p])
<1>1. /\ night' = [night EXCEPT ![p] = new]
      /\ chosen' = [chosen EXCEPT ![p] = kept]
      /\ Moves(p, "night", Idle)
      /\ UNCHANGED <<server, loggedIn, rows, call, seen, resolves, lost>>
  BY DEF ReceiveNight, Moves
<1>2. "night" \in Query /\ Idle \in Held("night")
  BY DEF Query, Held
<1>3. new \in Status
  BY <1>2, AnswerHeld DEF ReceiveNight, AnswerTo
<1>4. \A c \in kept : c \in chosen[p] /\ new = "CLOSED"
  BY DEF KeepShown
<1>5. Fetches'
  BY <1>1, <1>2, FetchMoves
<1> HIDE DEF new, kept
<1>6. kept \subseteq Choice
  BY <1>4 DEF Shapes
<1>7. Shapes'
  BY <1>1, <1>3, <1>5, <1>6 DEF Shapes, server
<1>8. ChosenOnRows'
  <2> SUFFICES ASSUME NEW o \in Pages, NEW c \in chosen'[o] PROVE OnRow(o, c)'
    BY DEF ChosenOnRows
  <2>1. c \in chosen[o] /\ (o = p => night'[o] = "CLOSED") /\ (o # p => night'[o] = night[o])
    BY <1>1, <1>4 DEF Shapes
  <2>2. OnRow(o, c)
    BY <2>1 DEF ChosenOnRows
  <2> QED
    BY <1>1, <2>1, <2>2 DEF OnRow, OddRows
<1>9. ResolvesAsPicked'
  BY <1>1 DEF ResolvesAsPicked
<1> QED
  BY <1>5, <1>7, <1>8, <1>9

LEMMA ReceiveRowsKeeps ==
    ASSUME PageInv, NEW p \in Pages, ReceiveRows(p)
    PROVE  PageInv'
<1> USE DEF PageInv
<1> DEFINE new == fetching[p]["pairings"].data
           kept == KeepShown(p, night[p], new)
<1>1. /\ rows' = [rows EXCEPT ![p] = new]
      /\ chosen' = [chosen EXCEPT ![p] = kept]
      /\ Moves(p, "pairings", Idle)
      /\ UNCHANGED <<server, loggedIn, night, call, seen, resolves, lost>>
  BY DEF ReceiveRows, Moves
<1>2. "pairings" \in Query /\ Idle \in Held("pairings")
  BY DEF Query, Held
<1>3. new \subseteq Row
  BY <1>2, AnswerHeld DEF ReceiveRows, AnswerTo
<1>4. \A c \in kept : /\ c \in chosen[p] /\ new # None
                      /\ [gen |-> c.gen, player |-> c.player, odd |-> TRUE] \in new
  BY KeptChoices
<1>5. Fetches'
  BY <1>1, <1>2, FetchMoves
<1> HIDE DEF new, kept
<1>6. kept \subseteq Choice
  BY <1>4 DEF Shapes
<1>7. Shapes'
  BY <1>1, <1>3, <1>5, <1>6 DEF Shapes, server
<1>8. ChosenOnRows'
  <2> SUFFICES ASSUME NEW o \in Pages, NEW c \in chosen'[o] PROVE OnRow(o, c)'
    BY DEF ChosenOnRows
  <2>1. CASE o = p
    <3>1. chosen'[o] = kept /\ rows'[o] = new
      BY <1>1, <2>1 DEF Shapes
    <3>2. OnRow(o, c)
      BY <1>4, <2>1, <3>1 DEF ChosenOnRows
    <3>3. [gen |-> c.gen, player |-> c.player, odd |-> TRUE] \in OddRows(o)'
      BY <1>4, <3>1 DEF OddRows
    <3> QED
      BY <1>1, <3>2, <3>3 DEF OnRow
  <2>2. CASE o # p
    <3>1. c \in chosen[o] /\ rows'[o] = rows[o]
      BY <1>1, <2>2 DEF Shapes
    <3>2. OnRow(o, c)
      BY <3>1 DEF ChosenOnRows
    <3> QED
      BY <1>1, <3>1, <3>2 DEF OnRow, OddRows
  <2> QED
    BY <2>1, <2>2
<1>9. ResolvesAsPicked'
  BY <1>1 DEF ResolvesAsPicked
<1> QED
  BY <1>5, <1>7, <1>8, <1>9

LEMMA SessionKeeps ==
    ASSUME PageInv, NEW p \in Pages, LogIn(p) \/ LogOut(p)
    PROVE  PageInv'
<1> USE DEF PageInv, cache, server
<1>1. UNCHANGED <<status, board, gens, night, rows, fetching, call, seen, resolves, lost>>
  BY DEF LogIn, LogOut
<1>2. Fetches' /\ ResolvesAsPicked'
  BY <1>1 DEF Fetches, ResolvesAsPicked
<1>3. /\ loggedIn' \in [Pages -> BOOLEAN]
      /\ chosen' \in [Pages -> SUBSET Choice]
  BY DEF LogIn, LogOut, Shapes
<1>4. Shapes'
  BY <1>1, <1>3 DEF Shapes
<1>5. ChosenOnRows'
  <2> SUFFICES ASSUME NEW o \in Pages, NEW c \in chosen'[o] PROVE OnRow(o, c)'
    BY DEF ChosenOnRows
  <2>1. c \in chosen[o] /\ (loggedIn[o] => loggedIn'[o])
    BY DEF LogIn, LogOut, Shapes
  <2>2. OnRow(o, c)
    BY <2>1 DEF ChosenOnRows
  <2> QED
    BY <1>1, <2>1, <2>2 DEF OnRow, OddRows
<1> QED
  BY <1>2, <1>4, <1>5

LEMMA ChooseKeeps ==
    ASSUME PageInv, NEW p \in Pages, Choose(p)
    PROVE  PageInv'
<1> USE DEF PageInv, cache, server
<1>1. PICK r \in OddRows(p), other \in OddRows(p) :
          chosen' = [chosen EXCEPT ![p] =
              {c \in @ : ~(c.gen = r.gen /\ c.player = r.player)} \cup
              {[gen |-> r.gen, player |-> r.player, opponent |-> other.player, since |-> r.gen]}]
  BY DEF Choose
<1> DEFINE n == [gen |-> r.gen, player |-> r.player, opponent |-> other.player, since |-> r.gen]
<1>2. r \in Row /\ other \in Row /\ r.odd /\ other.odd
  BY DEF OddRows, Shapes
<1>3. n \in Choice /\ n.since = n.gen
  BY <1>2 DEF Row, Choice
<1>4. r = [gen |-> n.gen, player |-> n.player, odd |-> TRUE]
  BY <1>2 DEF Row
<1>5. \A o \in Pages : \A c \in chosen'[o] : c \in chosen[o] \/ (o = p /\ c = n)
  BY <1>1 DEF Shapes
<1> HIDE DEF n
<1>6. chosen' \in [Pages -> SUBSET Choice]
  <2>1. chosen' = [o \in Pages |-> chosen'[o]]
    BY <1>1 DEF Shapes
  <2>2. \A o \in Pages : chosen'[o] \subseteq Choice
    BY <1>3, <1>5 DEF Shapes
  <2> QED
    BY <2>1, <2>2
<1>7. UNCHANGED <<status, board, gens, loggedIn, night, rows, fetching, call, seen, resolves, lost>>
  BY DEF Choose
<1>8. Fetches' /\ ResolvesAsPicked'
  BY <1>7 DEF Fetches, ResolvesAsPicked
<1>9. Shapes'
  BY <1>6, <1>7 DEF Shapes
<1>10. OnRow(p, n)
  BY <1>3, <1>4 DEF OnRow, Choose
<1>11. ChosenOnRows'
  <2> SUFFICES ASSUME NEW o \in Pages, NEW c \in chosen'[o] PROVE OnRow(o, c)'
    BY DEF ChosenOnRows
  <2>1. OnRow(o, c)
    BY <1>5, <1>10 DEF ChosenOnRows
  <2> QED
    BY <1>7, <2>1 DEF OnRow, OddRows
<1> QED
  BY <1>8, <1>9, <1>11

\* The resolve a click sends names the generation the choice was made on.
LEMMA ClickResolveKeeps ==
    ASSUME PageInv, NEW p \in Pages, ClickResolve(p)
    PROVE  PageInv'
<1> USE DEF PageInv, cache, server
<1>1. PICK c \in chosen[p] :
          resolves' = [resolves EXCEPT ![p] = @ \cup
              {[gen |-> c.gen, player |-> c.player, opponent |-> c.opponent,
                since |-> c.since, absorbed |-> 0, stage |-> "asked"]}]
  BY DEF ClickResolve
<1>2. c \in Choice /\ c.since = c.gen
  BY DEF Shapes, ChosenOnRows, OnRow
<1> DEFINE m == [gen |-> c.gen, player |-> c.player, opponent |-> c.opponent,
                 since |-> c.since, absorbed |-> 0, stage |-> "asked"]
<1>3. m \in Resolve /\ m.since = m.gen
  BY <1>2, PageAssumption DEF Resolve, Choice
<1>4. resolves' = [resolves EXCEPT ![p] = @ \cup {m}]
  BY <1>1
<1> HIDE DEF m
<1>5. UNCHANGED <<status, board, gens, loggedIn, night, rows, fetching, call, seen, chosen, lost>>
  BY DEF ClickResolve
<1>6. Fetches' /\ ChosenOnRows'
  BY <1>5, ChosenStay DEF Fetches
<1>7. Shapes'
  BY <1>3, <1>4, <1>5 DEF Shapes
<1>8. ResolvesAsPicked'
  BY <1>3, <1>4 DEF ResolvesAsPicked, Shapes
<1> QED
  BY <1>6, <1>7, <1>8

\* A step of a generate or a publish, seen from the page: the call goes on.
LEMMA CallStepShape ==
    ASSUME Shapes, NEW p \in Pages, CallStep(p)
    PROVE  /\ UNCHANGED <<loggedIn, cache, resolves, chosen>>
           /\ \E c \in Mutation, v \in Stage : call' = [call EXCEPT ![p][c] = v]
<1>1. "generate" \in Mutation /\ "publish" \in Mutation
  BY DEF Mutation
<1>2. PICK c \in Mutation, from, to \in Stage : Advance(p, c, from, to)
  <2>1. CASE ClickGenerate(p) \/ ClickPublish(p) \/ CheckGenerate(p) \/ ReadNight(p)
    BY <1>1, <2>1 DEF ClickGenerate, ClickPublish, CheckGenerate, ReadNight, Stage
  <2>2. CASE ClearBoard(p) \/ FillBoard(p) \/ CloseNight(p) \/ MarkPublished(p)
    BY <1>1, <2>2 DEF ClearBoard, FillBoard, CloseNight, MarkPublished, Stage
  <2>3. CASE \E c \in Mutation : CallFails(p, c)
    BY <2>3 DEF CallFails, Stage, Shapes
  <2>4. CASE ReadForPublish(p)
    <3>1. Advance(p, "publish", "asked", CASE status = "PAIRED" -> "ok"
                                           [] status = "CLOSED" -> "checked"
                                           [] status = "OPEN" -> "idle")
      BY <2>4 DEF ReadForPublish
    <3> QED
      BY <1>1, <3>1 DEF Stage, Shapes, Status
  <2> QED
    BY <2>1, <2>2, <2>3, <2>4 DEF CallStep
<1> QED
  BY <1>2 DEF Advance

\* What it does to the server.
LEMMA CallStepServer ==
    ASSUME Shapes, NEW p \in Pages, CallStep(p)
    PROVE  /\ status' \in Status /\ board' \subseteq Row /\ gens' \in 0..MaxGen
           /\ seen' \in [Pages -> Status \cup {None}]
           /\ lost' \subseteq Pages /\ lost \subseteq lost'
<1> USE DEF Shapes
<1>1. CASE FillBoard(p)
  <2>1. gens < MaxGen /\ gens' = gens + 1 /\ gens' \in 1..MaxGen
    BY <1>1, PageAssumption DEF FillBoard
  <2>2. PICK odd \in OddSets :
            board' = board \cup {[gen |-> gens', player |-> x, odd |-> TRUE] : x \in odd}
                           \cup {[gen |-> gens', player |-> None, odd |-> FALSE]}
    BY <1>1 DEF FillBoard
  <2>3. \A x \in odd : [gen |-> gens', player |-> x, odd |-> TRUE] \in Row
    BY <2>1, PageAssumption DEF Row
  <2>4. [gen |-> gens', player |-> None, odd |-> FALSE] \in Row
    BY <2>1 DEF Row
  <2>5. board' \subseteq Row
    BY <2>2, <2>3, <2>4
  <2> QED
    BY <1>1, <2>1, <2>5 DEF FillBoard
<1>2. CASE ~FillBoard(p)
  <2> USE <1>2 DEF CallStep, ClickGenerate, ClickPublish, CheckGenerate, ReadNight, ClearBoard,
          CloseNight, ReadForPublish, MarkPublished, CallFails, server
  <2>1. UNCHANGED gens /\ board' \in {board, {}} /\ status' \in {status, "CLOSED", "PAIRED"}
    OBVIOUS
  <2>2. seen' \in {seen, [seen EXCEPT ![p] = status], [seen EXCEPT ![p] = None]}
    OBVIOUS
  <2>3. lost' \in {lost, lost \cup {p}}
    OBVIOUS
  <2>4. seen' \in [Pages -> Status \cup {None}]
    BY <2>2
  <2> QED
    BY <2>1, <2>3, <2>4 DEF Status
<1> QED
  BY <1>1, <1>2

LEMMA CallStepKeeps ==
    ASSUME PageInv, NEW p \in Pages, CallStep(p)
    PROVE  PageInv'
<1> USE DEF PageInv
<1>1. /\ UNCHANGED <<loggedIn, night, rows, fetching, resolves, chosen>>
      /\ \E c \in Mutation, v \in Stage : call' = [call EXCEPT ![p][c] = v]
  BY CallStepShape DEF cache
<1>2. call' \in [Pages -> [Mutation -> Stage]]
  BY <1>1, CallMoves
<1>3. Fetches' /\ ResolvesAsPicked' /\ ChosenOnRows'
  BY <1>1, ChosenStay DEF Fetches, ResolvesAsPicked
<1>4. Shapes'
  BY <1>1, <1>2, CallStepServer DEF Shapes
<1> QED
  BY <1>3, <1>4

\* A step of a resolve, seen from the page: it goes on, with the same choice, or ends.
LEMMA ResolveStepShape ==
    ASSUME Shapes, NEW p \in Pages, NEW m \in resolves[p], ResolveStep(p, m)
    PROVE  \E new \in SUBSET Resolve :
              Proceed(p, m, new) /\ \A n \in new : n.gen = m.gen /\ n.since = m.since
<1>1. m \in Resolve
  BY DEF Shapes
<1>2. ASSUME NEW n \in Resolve, n.gen = m.gen, n.since = m.since, Proceed(p, m, {n})
      PROVE  \E new \in SUBSET Resolve :
                Proceed(p, m, new) /\ \A k \in new : k.gen = m.gen /\ k.since = m.since
  <2>1. {n} \in SUBSET Resolve /\ \A k \in {n} : k.gen = m.gen /\ k.since = m.since
    BY <1>2
  <2> QED
    BY <1>2, <2>1
<1>3. \A r \in board : r.gen \in 0..MaxGen
  <2>1. \A r \in Row : r.gen \in 1..MaxGen
    BY DEF Row
  <2> QED
    BY <2>1, PageAssumption DEF Shapes
<1>4. ASSUME NEW s \in {"checked", "merged", "ok"}, Proceed(p, m, {[m EXCEPT !.stage = s]})
      PROVE  \E new \in SUBSET Resolve :
                Proceed(p, m, new) /\ \A n \in new : n.gen = m.gen /\ n.since = m.since
  <2> DEFINE n == [m EXCEPT !.stage = s]
  <2>1. n \in Resolve /\ n.gen = m.gen /\ n.since = m.since
    BY <1>1 DEF Resolve
  <2>2. Proceed(p, m, {n})
    BY <1>4
  <2> HIDE DEF n
  <2> QED
    BY <1>2, <2>1, <2>2
<1>5. ASSUME NEW r \in board, Proceed(p, m, {[m EXCEPT !.absorbed = r.gen, !.stage = "found"]})
      PROVE  \E new \in SUBSET Resolve :
                Proceed(p, m, new) /\ \A n \in new : n.gen = m.gen /\ n.since = m.since
  <2> DEFINE n == [m EXCEPT !.absorbed = r.gen, !.stage = "found"]
  <2>1. n \in Resolve /\ n.gen = m.gen /\ n.since = m.since
    BY <1>1, <1>3 DEF Resolve
  <2>2. Proceed(p, m, {n})
    BY <1>5
  <2> HIDE DEF n
  <2> QED
    BY <1>2, <2>1, <2>2
<1>6. CASE Proceed(p, m, {})
  BY <1>6
<1>7. CASE FindRows(p, m)
  BY <1>5, <1>6, <1>7 DEF FindRows
<1>8. CASE ~FindRows(p, m)
  BY <1>4, <1>6, <1>8 DEF ResolveStep, CheckResolve, PutMerged, DeleteAbsorbed, ResolveFails
<1> QED
  BY <1>7, <1>8

\* What it does to the board, and whether its response is lost.
LEMMA ResolveStepServer ==
    ASSUME Shapes, NEW p \in Pages, NEW m \in resolves[p], ResolveStep(p, m)
    PROVE  board' \subseteq Row /\ lost' \subseteq Pages /\ lost \subseteq lost'
<1>1. CASE PutMerged(p, m)
  <2>1. m \in Resolve
    BY DEF Shapes
  <2>2. [gen |-> m.gen, player |-> m.player, odd |-> FALSE] \in Row
    BY <2>1 DEF Resolve, Row
  <2> QED
    BY <1>1, <2>2 DEF PutMerged, Shapes
<1>2. CASE ~PutMerged(p, m)
  BY <1>2 DEF ResolveStep, CheckResolve, FindRows, DeleteAbsorbed, ResolveFails, Shapes
<1> QED
  BY <1>1, <1>2

LEMMA ResolveStepKeeps ==
    ASSUME PageInv, NEW p \in Pages, NEW m \in resolves[p], ResolveStep(p, m)
    PROVE  PageInv'
<1> USE DEF PageInv
<1>1. PICK new \in SUBSET Resolve :
          Proceed(p, m, new) /\ \A n \in new : n.gen = m.gen /\ n.since = m.since
  BY ResolveStepShape
<1>2. /\ resolves' = [resolves EXCEPT ![p] = (@ \ {m}) \cup new]
      /\ UNCHANGED <<status, gens, loggedIn, night, rows, fetching, call, seen, chosen>>
  BY <1>1 DEF Proceed, cache
<1>3. Fetches' /\ ChosenOnRows'
  BY <1>2, ChosenStay DEF Fetches
<1>4. resolves' \in [Pages -> SUBSET Resolve]
  BY <1>2 DEF Shapes
<1>5. Shapes'
  BY <1>2, <1>4, ResolveStepServer DEF Shapes
<1>6. ResolvesAsPicked'
  <2>1. \A n \in new : n.since = n.gen
    BY <1>1 DEF ResolvesAsPicked
  <2> QED
    BY <1>2, <2>1 DEF ResolvesAsPicked, Shapes
<1> QED
  BY <1>3, <1>5, <1>6

LEMMA SettleKeeps ==
    ASSUME PageInv, NEW p \in Pages, NEW c \in Mutation, Settle(p, c)
    PROVE  PageInv'
<1> USE DEF PageInv, server
<1>1. Fetches' /\ lost' \in {lost, lost \cup {p}}
  BY InvalidateAsks DEF Settle
<1>2. call' \in [Pages -> [Mutation -> Stage]]
  BY CallMoves DEF Settle, Stage
<1>3. UNCHANGED <<status, board, gens, loggedIn, night, rows, seen, resolves, chosen>>
  BY DEF Settle
<1>4. Shapes'
  BY <1>1, <1>2, <1>3 DEF Shapes
<1>5. ChosenOnRows' /\ ResolvesAsPicked'
  BY <1>3, ChosenStay DEF ResolvesAsPicked
<1> QED
  BY <1>1, <1>4, <1>5

LEMMA SettleResolveKeeps ==
    ASSUME PageInv, NEW p \in Pages, NEW m \in resolves[p], SettleResolve(p, m)
    PROVE  PageInv'
<1> USE DEF PageInv, server
<1>1. Fetches' /\ lost' \in {lost, lost \cup {p}}
  BY InvalidateAsks DEF SettleResolve
<1>2. /\ \A o \in Pages : resolves'[o] \subseteq resolves[o]
      /\ resolves' \in [Pages -> SUBSET Resolve]
  BY DEF SettleResolve, Shapes
<1>3. UNCHANGED <<status, board, gens, loggedIn, night, rows, call, seen, chosen>>
  BY DEF SettleResolve
<1>4. Shapes'
  BY <1>1, <1>2, <1>3 DEF Shapes
<1>5. ChosenOnRows' /\ ResolvesAsPicked'
  BY <1>2, <1>3, ChosenStay DEF ResolvesAsPicked
<1> QED
  BY <1>1, <1>4, <1>5

LEMMA PageNext == PageInv /\ [Next]_vars => PageInv'
<1> SUFFICES ASSUME PageInv, [Next]_vars PROVE PageInv'
  OBVIOUS
<1>1. CASE UNCHANGED vars
  BY <1>1 DEF vars, server, cache, PageInv, Shapes, Fetches, ChosenOnRows, OnRow, OddRows,
     ResolvesAsPicked
<1>2. CASE Next
  BY <1>2, NextCases, AnswerKeeps, RefetchKeeps, ReceiveNightKeeps, ReceiveRowsKeeps,
     SessionKeeps, ChooseKeeps, ClickResolveKeeps, CallStepKeeps, ResolveStepKeeps,
     SettleKeeps, SettleResolveKeeps DEF PageStep
<1> QED
  BY <1>1, <1>2

LEMMA PageAlways == Spec => []PageInv
BY PageInit, PageNext, PTL DEF Spec

\* Caches hold what the server may once have answered, and a choice is one that a
\* row on the screen holds (TypeOK), on any number of pages.
THEOREM PageTypeCorrect == Spec => []TypeOK
BY PagesAreTyped, PageAlways, PTL

\* A resolve names two players the organizer picked on one board: the select of an
\* OddRow never outlives the generation it was chosen on (React keys rows by
\* pairingId).
THEOREM ResolvesNameOneBoard == Spec => []ResolvesAsPicked
<1>1. PageInv => ResolvesAsPicked
  BY DEF PageInv
<1> QED
  BY <1>1, PageAlways, PTL

-----------------------------------------------------------------------------
(* One page does all the work: it is current, or about to fetch. *)

LEMMA NightStays ==
    ASSUME NEW p \in Pages, NightCurrent(p), lost \subseteq lost', Confirmed(p) => Confirmed(p)',
           status' = status, night'[p] = night[p],
           fetching'[p]["night"] \in {fetching[p]["night"], Asked}
    PROVE  NightCurrent(p)'
<1>1. Asked # Idle /\ Asked.state # "answered"
  BY DEF Asked, Idle
<1> QED
  BY <1>1 DEF NightCurrent

LEMMA RowsStay ==
    ASSUME NEW p \in Pages, RowsCurrent(p), lost \subseteq lost', Confirmed(p) => Confirmed(p)',
           Redrawing(p) => Redrawing(p)', Resolved(p) => Resolved(p)',
           board' = board, rows'[p] = rows[p],
           fetching'[p]["pairings"] \in {fetching[p]["pairings"], Asked}
    PROVE  RowsCurrent(p)'
<1>1. Asked # Idle /\ Asked.state # "answered"
  BY DEF Asked, Idle
<1> QED
  BY <1>1 DEF RowsCurrent

LEMMA FetchCurrent ==
    ASSUME PageInv, NEW p \in Pages, NightCurrent(p), RowsCurrent(p),
           \/ \E q \in Query : Answer(p, q)
           \/ Refetch(p) \/ FetchFails(p)
    PROVE  NightCurrent(p)' /\ RowsCurrent(p)'
<1> USE DEF PageInv
<1>1. ASSUME NEW q \in Query, Answer(p, q) PROVE NightCurrent(p)' /\ RowsCurrent(p)'
  <2> DEFINE f == [state |-> "answered", data |-> IF q = "night" THEN status ELSE board]
  <2>1. f \in Held(q) /\ f # Idle /\ f.data = IF q = "night" THEN status ELSE board
    BY DEF Held, AnswerTo, Shapes, Idle
  <2>2. Moves(p, q, f)
    BY <1>1 DEF Answer, Moves
  <2> HIDE DEF f
  <2>3. /\ fetching'[p][q] = f
        /\ \A r \in Query : r # q => fetching'[p][r] = fetching[p][r]
    <3>1. /\ Fetches'
          /\ fetching'[p][q] = f
          /\ \A o \in Pages, r \in Query : (o # p \/ r # q) => fetching'[o][r] = fetching[o][r]
      BY <2>1, <2>2, FetchMoves
    <3> QED
      BY <3>1
  <2>4. NightCurrent(p)'
    BY <1>1, <2>1, <2>3 DEF Answer, NightCurrent, Confirmed, Query, server
  <2>5. RowsCurrent(p)'
    BY <1>1, <2>1, <2>3 DEF Answer, RowsCurrent, Confirmed, Redrawing, Resolved, Query, server
  <2> QED
    BY <2>4, <2>5
<1>2. CASE Refetch(p)
  <2>1. PICK q \in Query : Moves(p, q, Asked)
    BY <1>2 DEF Refetch, Moves
  <2>2. \A r \in Query : fetching'[p][r] \in {fetching[p][r], Asked}
    BY <2>1, FetchMoves DEF Held
  <2>3. /\ UNCHANGED <<status, board, night, rows, lost>>
        /\ Confirmed(p) => Confirmed(p)'
        /\ Redrawing(p) => Redrawing(p)'
        /\ Resolved(p) => Resolved(p)'
    BY <1>2 DEF Refetch, Confirmed, Redrawing, Resolved, server
  <2> QED
    BY <2>2, <2>3, NightStays, RowsStay DEF Query
<1>3. CASE FetchFails(p)
  BY <1>3 DEF FetchFails, NightCurrent, RowsCurrent
<1> QED
  BY <1>1, <1>2, <1>3

LEMMA ReceiveCurrent ==
    ASSUME PageInv, NEW p \in Pages, NightCurrent(p), RowsCurrent(p),
           ReceiveNight(p) \/ ReceiveRows(p)
    PROVE  NightCurrent(p)' /\ RowsCurrent(p)'
<1> USE DEF PageInv
<1>1. PICK q \in Query :
          /\ fetching[p][q].state = "answered"
          /\ Moves(p, q, Idle)
          /\ IF q = "night" THEN ReceiveNight(p) ELSE ReceiveRows(p)
  BY DEF ReceiveNight, ReceiveRows, Query, Moves
<1>2. /\ fetching'[p][q] = Idle /\ Idle.state # "answered"
      /\ \A r \in Query : r # q => fetching'[p][r] = fetching[p][r]
  <2>1. Idle \in Held(q) /\ Idle.state # "answered"
    BY DEF Held, Idle
  <2>2. /\ Fetches'
        /\ fetching'[p][q] = Idle
        /\ \A o \in Pages, r \in Query : (o # p \/ r # q) => fetching'[o][r] = fetching[o][r]
    BY <1>1, <2>1, FetchMoves
  <2> QED
    BY <2>1, <2>2
<1>3. /\ UNCHANGED <<status, board, call, resolves, lost>>
      /\ q = "night" => night'[p] = fetching[p]["night"].data /\ UNCHANGED rows
      /\ q # "night" => rows'[p] = fetching[p]["pairings"].data /\ UNCHANGED night
  BY <1>1 DEF ReceiveNight, ReceiveRows, Shapes, server
<1>4. NightCurrent(p)'
  BY <1>1, <1>2, <1>3 DEF NightCurrent, Confirmed, Query
<1>5. RowsCurrent(p)'
  BY <1>1, <1>2, <1>3 DEF RowsCurrent, Confirmed, Redrawing, Resolved, Query
<1> QED
  BY <1>4, <1>5

LEMMA SessionCurrent ==
    ASSUME PageInv, NEW p \in Pages, NightCurrent(p), RowsCurrent(p),
           LogIn(p) \/ LogOut(p) \/ Choose(p) \/ ClickResolve(p)
    PROVE  NightCurrent(p)' /\ RowsCurrent(p)'
<1>1. UNCHANGED <<status, board, night, rows, fetching, lost, call>>
  BY DEF LogIn, LogOut, Choose, ClickResolve, server, cache
<1>2. Resolved(p) => Resolved(p)'
  BY DEF Resolved, LogIn, LogOut, Choose, ClickResolve, PageInv, Shapes
<1>3. (Confirmed(p) => Confirmed(p)') /\ (Redrawing(p) => Redrawing(p)')
  BY <1>1 DEF Confirmed, Redrawing
<1> QED
  BY <1>1, <1>2, <1>3, NightStays, RowsStay

\* What a handler changes it goes on to confirm, or its response is lost.
LEMMA CallCurrent ==
    ASSUME PageInv, NEW p \in Pages, NightCurrent(p), RowsCurrent(p), CallStep(p)
    PROVE  NightCurrent(p)' /\ RowsCurrent(p)'
<1> USE DEF PageInv
<1>1. /\ UNCHANGED <<night, rows, fetching, resolves>>
      /\ lost \subseteq lost'
      /\ Resolved(p) => Resolved(p)'
  BY CallStepShape, CallStepServer DEF cache, Resolved
<1>2. "generate" \in Mutation /\ "publish" \in Mutation
  BY DEF Mutation
<1> DEFINE Safe == p \in lost' \/ Confirmed(p)' 
           Same == /\ Confirmed(p) => Confirmed(p)'
                   /\ Redrawing(p) => Redrawing(p)'
<1>3. \A c \in Mutation, from, to \in Stage : Advance(p, c, from, to) =>
          /\ call[p][c] = from /\ call'[p][c] = to
          /\ \A d \in Mutation : d # c => call'[p][d] = call[p][d]
  BY DEF Advance, Shapes
<1>4. \A c \in Mutation, from, to \in Stage :
          Advance(p, c, from, to) /\ from \notin {"cleared", "filled", "ok"} => Same
  BY <1>2, <1>3 DEF Confirmed, Redrawing
<1>5. ASSUME Safe PROVE NightCurrent(p)' /\ RowsCurrent(p)'
  BY <1>5 DEF NightCurrent, RowsCurrent
<1>6. ASSUME Same, UNCHANGED <<status, board>> PROVE NightCurrent(p)' /\ RowsCurrent(p)'
  BY <1>1, <1>6, NightStays, RowsStay
<1>7. \A c \in Mutation, from \in Stage : Advance(p, c, from, "ok") => Safe
  BY <1>3 DEF Confirmed, Stage
<1> HIDE DEF Safe, Same
<1>8. CASE ClickGenerate(p) \/ ClickPublish(p) \/ CheckGenerate(p) \/ ReadNight(p)
  <2>1. \E c \in Mutation, from, to \in Stage :
            Advance(p, c, from, to) /\ from \notin {"cleared", "filled", "ok"}
    BY <1>2, <1>8 DEF ClickGenerate, ClickPublish, CheckGenerate, ReadNight, Stage
  <2>2. UNCHANGED <<status, board>>
    BY <1>8 DEF ClickGenerate, ClickPublish, CheckGenerate, ReadNight, server
  <2> QED
    BY <1>4, <1>6, <2>1, <2>2
<1>9. CASE ReadForPublish(p)
  <2>1. Advance(p, "publish", "asked", CASE status = "PAIRED" -> "ok"
                                         [] status = "CLOSED" -> "checked"
                                         [] status = "OPEN" -> "idle")
    BY <1>9 DEF ReadForPublish
  <2>2. Same
    BY <1>2, <1>4, <2>1 DEF Stage, Shapes, Status
  <2> QED
    BY <1>6, <1>9, <2>2 DEF ReadForPublish, server
<1>10. CASE ClearBoard(p)
  <2>1. Advance(p, "generate", "read", "cleared") /\ status' = status
    BY <1>10 DEF ClearBoard
  <2>2. Redrawing(p)'
    BY <1>2, <1>3, <2>1 DEF Redrawing, Stage
  <2>3. Confirmed(p) => Confirmed(p)'
    BY <1>2, <1>3, <2>1 DEF Confirmed, Stage
  <2>4. NightCurrent(p)'
    BY <1>1, <2>1, <2>3, NightStays
  <2> QED
    BY <2>2, <2>4 DEF RowsCurrent
<1>11. CASE FillBoard(p)
  <2>1. CASE seen[p] = "CLOSED"
    BY <1>2, <1>5, <1>7, <1>11, <2>1 DEF FillBoard, Stage
  <2>2. CASE seen[p] # "CLOSED"
    <3>1. Advance(p, "generate", "cleared", "filled") /\ status' = status
      BY <1>11, <2>2 DEF FillBoard
    <3>2. Redrawing(p)'
      BY <1>2, <1>3, <3>1 DEF Redrawing, Stage
    <3>3. Confirmed(p) => Confirmed(p)'
      BY <1>2, <1>3, <3>1 DEF Confirmed, Stage
    <3>4. NightCurrent(p)'
      BY <1>1, <3>1, <3>3, NightStays
    <3> QED
      BY <3>2, <3>4 DEF RowsCurrent
  <2> QED
    BY <2>1, <2>2
<1>12. CASE CloseNight(p) \/ MarkPublished(p)
  BY <1>2, <1>5, <1>7, <1>12 DEF CloseNight, MarkPublished, Stage
<1>13. CASE \E c \in Mutation : CallFails(p, c)
  <2>1. PICK c \in Mutation : CallFails(p, c)
    BY <1>13
  <2>2. CASE call[p][c] \in {"cleared", "filled", "ok"}
    <3>1. Safe
      BY <2>1, <2>2 DEF CallFails, Safe
    <3> QED
      BY <1>5, <3>1
  <2>3. CASE call[p][c] \notin {"cleared", "filled", "ok"}
    <3>1. /\ Advance(p, c, call[p][c], "idle")
          /\ call[p][c] \in Stage /\ "idle" \in Stage
          /\ UNCHANGED <<status, board>>
      BY <2>1 DEF CallFails, Shapes, Stage, server
    <3> QED
      BY <1>4, <1>6, <2>3, <3>1
  <2> QED
    BY <2>2, <2>3
<1> QED
  BY <1>8, <1>9, <1>10, <1>11, <1>12, <1>13 DEF CallStep

\* The same of a resolve, which does not change the night.
LEMMA ResolveCurrent ==
    ASSUME PageInv, NEW p \in Pages, NightCurrent(p), RowsCurrent(p),
           NEW m \in resolves[p], ResolveStep(p, m)
    PROVE  NightCurrent(p)' /\ RowsCurrent(p)'
<1> USE DEF PageInv
<1>1. /\ UNCHANGED <<status, night, rows, fetching, call>>
      /\ lost \subseteq lost'
  BY ResolveStepShape, ResolveStepServer DEF Proceed, cache
<1>2. (Confirmed(p) => Confirmed(p)') /\ (Redrawing(p) => Redrawing(p)')
  BY <1>1 DEF Confirmed, Redrawing
<1>3. NightCurrent(p)'
  BY <1>1, <1>2, NightStays
<1>4. \A new : Proceed(p, m, new) => resolves'[p] = (resolves[p] \ {m}) \cup new
  BY DEF Proceed, Shapes
<1>5. \A s : [m EXCEPT !.stage = s].stage = s
  BY DEF Shapes, Resolve
<1>6. CASE PutMerged(p, m) \/ DeleteAbsorbed(p, m)
  <2>1. PICK s \in {"merged", "ok"} : Proceed(p, m, {[m EXCEPT !.stage = s]})
    BY <1>6 DEF PutMerged, DeleteAbsorbed
  <2>2. Resolved(p)'
    BY <1>4, <1>5, <2>1 DEF Resolved
  <2> QED
    BY <1>3, <2>2 DEF RowsCurrent
<1>7. CASE CheckResolve(p, m) \/ FindRows(p, m) \/ ResolveFails(p, m)
  <2>1. CASE m.stage \in {"merged", "ok"}
    <3>1. p \in lost'
      BY <1>7, <2>1 DEF CheckResolve, FindRows, ResolveFails
    <3> QED
      BY <1>3, <3>1 DEF RowsCurrent
  <2>2. CASE m.stage \notin {"merged", "ok"}
    <3>1. \E new : Proceed(p, m, new) /\ board' = board
      BY <1>7 DEF CheckResolve, FindRows, ResolveFails
    <3>2. Resolved(p) => Resolved(p)'
      BY <1>4, <2>2, <3>1 DEF Resolved
    <3> QED
      BY <1>1, <1>2, <1>3, <3>1, <3>2, RowsStay
  <2> QED
    BY <2>1, <2>2
<1> QED
  BY <1>6, <1>7 DEF ResolveStep

\* A success that has arrived is followed by a fetch.
LEMMA SettleCurrent ==
    ASSUME PageInv, NEW p \in Pages, NightCurrent(p), RowsCurrent(p),
           \/ \E c \in Mutation : Settle(p, c)
           \/ \E m \in resolves[p] : SettleResolve(p, m)
    PROVE  NightCurrent(p)' /\ RowsCurrent(p)'
<1> USE DEF PageInv
<1>1. Asked # Idle /\ Asked.state # "answered"
  BY DEF Asked, Idle
<1>2. ASSUME NEW c \in Mutation, Settle(p, c) PROVE NightCurrent(p)' /\ RowsCurrent(p)'
  <2>1. Invalidate(p, {"pairings", "night"})
    BY <1>2 DEF Settle, Invalidates
  <2>2. \A q \in {"pairings", "night"} \cap Query : p \in lost' \/ fetching'[p][q] = Asked
    BY <2>1, InvalidateAsks
  <2> QED
    BY <1>1, <2>2 DEF NightCurrent, RowsCurrent, Query
<1>3. ASSUME NEW m \in resolves[p], SettleResolve(p, m) PROVE NightCurrent(p)' /\ RowsCurrent(p)'
  <2>1. /\ Invalidate(p, {"pairings"})
        /\ UNCHANGED <<status, night, call>>
    BY <1>3 DEF SettleResolve, server
  <2>2. /\ \A q \in Query : fetching'[p][q] \in {fetching[p][q], Asked}
        /\ p \in lost' \/ fetching'[p]["pairings"] = Asked
        /\ lost \subseteq lost'
    BY <2>1, InvalidateAsks DEF Query
  <2>3. Confirmed(p) => Confirmed(p)'
    BY <2>1 DEF Confirmed
  <2>4. NightCurrent(p)'
    BY <2>1, <2>2, <2>3, NightStays DEF Query
  <2> QED
    BY <1>1, <2>2, <2>4 DEF RowsCurrent
<1> QED
  BY <1>2, <1>3

\* While a single page does all the work, a page with nothing under way shows the
\* server's night and the server's board, unless a response was lost: however its
\* requests have overlapped on the server, what one changed its onSuccess fetches
\* again.
THEOREM LonePageIsCurrent ==
    ASSUME \A o, p \in Pages : o = p
    PROVE  Spec => []SettledPageIsCurrent
<1>1. Init => Current
  <2> SUFFICES ASSUME Init, NEW p \in Pages PROVE NightCurrent(p) /\ RowsCurrent(p)
    BY DEF Current
  <2>1. \A q \in Query : fetching[p][q] = Asked /\ Asked # Idle /\ Asked.state # "answered"
    BY DEF Init, Asked, Idle
  <2> QED
    BY <2>1 DEF NightCurrent, RowsCurrent, Query
<1>2. PageInv /\ Current /\ [Next]_vars => Current'
  <2> SUFFICES ASSUME PageInv, Current, [Next]_vars, NEW p \in Pages
               PROVE  NightCurrent(p)' /\ RowsCurrent(p)'
    BY DEF Current
  <2>1. NightCurrent(p) /\ RowsCurrent(p)
    BY DEF Current
  <2>2. CASE UNCHANGED vars
    BY <2>1, <2>2 DEF vars, server, cache, NightCurrent, RowsCurrent, Confirmed,
       Redrawing, Resolved
  <2>3. CASE Next
    <3>1. \E o \in Pages : o = p /\ PageStep(o)
      BY <2>3, NextCases
    <3> QED
      BY <2>1, <3>1, FetchCurrent, ReceiveCurrent, SessionCurrent, CallCurrent, ResolveCurrent,
         SettleCurrent DEF PageStep
  <2> QED
    BY <2>2, <2>3
<1>3. Current => SettledPageIsCurrent
  <2> SUFFICES ASSUME Current, NEW p \in Pages, Settled(p), p \notin lost
               PROVE  night[p] = status /\ rows[p] = board
    BY DEF SettledPageIsCurrent
  <2>1. ~ Confirmed(p) /\ ~ Redrawing(p) /\ ~ Resolved(p)
    BY DEF Settled, Confirmed, Redrawing, Resolved, Mutation
  <2> QED
    BY <2>1 DEF Current, NightCurrent, RowsCurrent, Settled, Query
<1> QED
  BY <1>1, <1>2, <1>3, PageAlways, PTL DEF Spec
=============================================================================
