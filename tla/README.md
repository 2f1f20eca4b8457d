# club-night: specifications, checks and proofs

Club-night lets a club's organizers announce game nights. Players sign up for a night
under their email address, naming one game system. At the sign-up deadline, or when the
organizer says so, the confirmed players are paired at random within their systems.
Odd ones out are resolved by hand, and publishing the pairings emails every player their
opponent. The back end is a set of stateless Lambda handlers (`packages/api`) over one DynamoDB
table, EventBridge Scheduler and SES. The front end is a React page (`packages/frontend`).

No handler uses a transaction or a conditional write. Every handler is a sequence of
awaited calls, and between two of them another handler may run, or this one may stop. What
can go wrong in this system goes wrong there, and the specifications are built around it:
**an action is one awaited call together with the code from there to the next one.**

Source paths below are relative to `packages/`.

## 1. The parts of the system

| Part | State it keeps | Operations | Right when |
|---|---|---|---|
| Pairing algorithm, `api/src/domain/pairing.ts` | none | `pairNight`, `fisherYatesShuffle` | every confirmed player sits in exactly one pairing, of their system; at most one single per system |
| Pairing service, routes, repository | `PAIRING#` items, `night.status` | generate, deadline run, resolve, publish | one good board per night; what players are told agrees with it; an interrupted generation can be repeated |
| Night lifecycle, `routes/organizer-nights.ts`, `repositories/nights.ts` | `NIGHT#` item | create, PATCH | OPEN → CLOSED → PAIRED, or CANCELLED; nothing is reopened unasked |
| Sign-ups, `routes/signups.ts`, `routes/signup-management.ts`, `repositories/signups.ts` | `SIGNUP#` items and index GSI3 | submit (upsert), amend, withdraw, my-signup | one item per email; the item stays its player's; sign-up only while OPEN |
| Deadline scheduling, `scheduling/`, `scheduled-handler.ts` | one-shot EventBridge schedule per night | create, delete, fire | an OPEN night is closed and paired at its deadline |
| Guest codes and sessions, `auth/guest-*.ts`, `repositories/auth-codes.ts`, `routes/guest.ts` | one `AUTHCODE#` item per email, with a TTL | request code, verify code | a session is issued only for a good code; a code is used once |
| Authorization, `auth/authorize.ts` | none | `requireOrganizer`, `requireSignupAccess` | a guest manages their own sign-up only |
| Email, `email/` | none (SES) | `send` | best effort for pairings, required for codes |
| Organizer's pairings page, `PairingsPage.tsx` | query cache, mutations, `chosen` of each OddRow | generate, resolve, publish, fetch | shows what the server holds; acts on what it shows |
| Guest sign-in form, `GuestCodeForm.tsx` | form step, email, code | send code, verify | as for guest codes |
| Guest's sign-up page, `ManageSignupPage.tsx` | query cache of `my-signup`, sign-in form, two mutations | sign in, save, withdraw | shows the guest's own sign-up as it is stored |
| Token store and organizer sign-in, `token.ts`, `LoginForm.tsx`, `OrganizerPage.tsx` | one token in `localStorage`, for guests and organizers alike | sign in, sign out | each page acts for whoever it shows |
| Other pages, API client, HTTP and table plumbing, clubs and memberships, infrastructure | little or none | | |

**How they interact.** Pages call routes over HTTP. Routes read the night (`requireNight`), check
the caller and the status, and call repositories or the pairing service. The only memory handlers
share is the table. Creating and patching a night call EventBridge, which much later
invokes `scheduled-handler.ts` once, or more than once. The pairing service calls the email
sender. The page learns of a change only by fetching again.

**What is hard.**

* Two requests about one night overlap: read-then-write of the night, delete-then-write of the
  pairings, check-then-put of a sign-up, check-then-delete of a code.
* A handler stops half way: between the deletes and puts of a generation, between the put and
  the delete of a resolve, between sending emails and recording that they were sent.
* A schedule fires for a night that has since been paired, published or cancelled.
* Index GSI3 is eventually consistent; DynamoDB's own TTL deletion comes late.
* A response is lost, a fetch arrives after the mutation it should have shown, a page acts on a
  board that is gone.
* Tabs of one browser share a token, and a page's cache outlives the guest whose answer it holds.

`PROJECT.json` lists these as hazards, each with its line and the properties meant to catch it.

## 2. Modules

| Module | Models | About |
|---|---|---|
| `PairNight` | `domain/pairing.ts`, the mapping to items in `pairing-service.ts` | every possible outcome of pairing a set of players |
| `NightPairings` | `pairing-service.ts`, `routes/pairings.ts`, PATCH of nights, sign-up routes, deadline handler | the core: one night, its sign-ups, board, messages and all handlers |
| `PairingReview` | what those promise together | the abstract specification: a board appears whole, is resolved, published with its messages, left alone |
| `NightReview` | | the refinement mapping from `NightPairings` to `PairingReview` |
| `LateSignups` | | `NightPairings` with a history variable: of whom could the last generation not know |
| `PublishedNight` | | `NightPairings` with a history variable: has something come between the players' messages and the stored board |
| `NightSchedule` | `organizer-nights.ts`, `eventbridge-scheduler.ts` | the deadline and the schedule that is to fire then |
| `SignupItems` | `repositories/signups.ts`, `signups.ts`, `signup-management.ts`, `requireSignupAccess` | items and index behind "one sign-up per player" |
| `GuestSignIn` | `guest-code-service.ts`, `auth-codes.ts`, `GuestCodeForm.tsx` | codes, expiry, sessions |
| `PairingsPage` | `PairingsPage.tsx`, `useClub.ts` | query cache, mutations, clicks, signing in and out, in front of the API |
| `ManageSignup` | `ManageSignupPage.tsx`, `GuestCodeForm.tsx`, `LoginForm.tsx`, `token.ts`, `principal.ts`, `GET .../my-signup` | the guest's page in front of `SignupItems`, and the shared token |
| `MC...` | | small instances for TLC |
| `..._proofs` | | theorems. Those about the night are in three: `NightPairings_proofs` and `PublishedNight_proofs` (under any overlap) and `SerialNight_proofs` (handlers do not overlap: the board, the refinement, and who is left out) |

`NightPairings` extends `PairNight`. The other modules each take up one assumption of
`NightPairings` and open it up: `SignupItems` the "one item per player" behind `signups`,
`NightSchedule` the "a schedule exists" behind `armed`, `PairingsPage` where its requests come
from. `NightReview`, `LateSignups` and `PublishedNight` extend it. `ManageSignup` is composed with `SignupItems`: it
holds an instance of it as its server, and its actions take steps of that instance.

### 2.1 PairNight

A pairing item is a record `[by, first, second, system, status]`. The ULID of a pairing is
replaced by `Key(p) = <<by, system, first>>`: the generation that made it, its system and its first player. It is
unique just as the ULID is, and a resolve keeps it just as the code does (`{...target,
players}`). `PairNight(r, systemOf)` is the **set** of plans the code can produce. The random
source of `fisherYatesShuffle` is nondeterminism over all permutations of each group, and
`PairUp` is the loop over a shuffled group that leaves the last player of an odd group single.
`PairNight` contains no recursion, so that it can be proved about.

### 2.2 NightPairings

`status, armed, signups, signing, pairings, mail` are what the outside world keeps. The other
variables are handlers' locals: `pc` (the next awaited call), `seen` (the status the request
read), `confirmed` (the sign-ups it read), `batch` (pairings it read), `result` (pairings it has
yet to put). `solo` is a history variable: the request that has had the night to itself since it
began. No guard reads it.

| Actions | Code |
|---|---|
| `Generate`, `GetNight`, `PairConfirmed`, `QueryPairings`, `DeleteNext`*, `PutNext`*, `CloseSignups` | `POST .../generate`, `generatePairings`, `deletePairingsByNight` |
| `RunDeadlinePairing`, then as above, `NotifyOrganizer` | `runDeadlinePairing`. `armed'` is either value: delivery is at least once |
| `Publish`, `ListPairings`, `ReadEmails`, `SendNotices`, `PutPaired` | `publishPairings`. Sends run under `Promise.all`, each failing on its own, so any subset may go out |
| `Resolve`, `FindSingles`, `PutMerged`, `DeleteAbsorbed` | `resolvePairing` |
| `PatchNight`, `PutNight`, `DeleteSchedule`, `MoveSchedule`, `CreateSchedule` | `PATCH .../nights/:nightId` |
| `CheckOpen`, `UpsertSignup`, `ChangeSystem`, `Withdraw` | the sign-up routes |
| `Crash` | a Lambda that times out or a DynamoDB call that throws, at any await |

Abstractions: the deletes of one generation come in any order. The puts come matched pairings
first, as in the code, in any order among these. A query whose result takes several pages is one
read. Reads are of the latest write (the code asks for eventually consistent ones): a stale read
widens the window between a read and the write that rests on it, which overlap already opens. "Not found" answers change nothing and are left out. A player does not
send two requests about the same sign-up at once here; `SignupItems` allows that.

**What it promises.** `PairingReview` says the same without the calls. A generation is two steps:
`Prepare`, after which no board is shown, and `Complete`, with which a well-paired board of exactly
the players found confirmed appears and sign-ups close. A resolve merges two odd players in one
step, and a publish changes the status and tells players in one step. What the code
cannot help is part of the promise, as actions that only an interruption allows: `Abandon` (any part
of a board, but the night is not closed and nobody is told), `LeaveOrphan` (the single of a player
who has been matched) and `TellOnly` (messages, but no PAIRED). `stopped` counts the interruptions
one by one, so that a handler that finishes cannot pass for an interrupted one. `NightReview` reads
the abstract state off the table and the locals of the one request in flight: while it rewrites, the
board is empty and its `confirmed` is the `roster`; while a resolve has an absorbed single left to
delete, that single does not count; messages count from the moment PAIRED is written or the publish has
stopped. `KeepsPromise` is the refinement. It needs handlers not to overlap; with overlap two
generations mix their boards, and no mapping can hide that.

**What a publish leaves behind.** `PublishedNight` has what is claimed of messages and the published
board under any overlap. Its history variable `disrupted` is set by four things, which no guard of the
code keeps away: a publish that has read CLOSED meets another one, or a request that may still change
pairings (`Overtaken`); the deadline run of a published night (`DeadlineRuns`); a PATCH that takes a published night
back (`TakenBack`). Until then, and unless a publish stopped half way, `NotifiedOnce` and
`PublishedStands` hold: overlapping generations and resolves, retries, requests of outdated pages,
withdrawals, crashes and deadline runs before the publish are all allowed. Each exception is a departure of
section 4.

### 2.3 NightSchedule

The night's status and deadline, and the time its schedule fires at. `CreateNight` puts the
night and then creates the schedule. `PatchNight` reads and `PutNight` writes `{...night,
...input}`, then cancels or replaces the schedule as lines 63-77 of `organizer-nights.ts` say. Creating a schedule while
one of that name exists fails, and the failure is logged and forgotten. `Fire` is
EventBridge: once the time has come, or at once if it has passed (an assumption about the
service, which matters for deadlines set in the past only), and the schedule is then gone (`ActionAfterCompletion: DELETE`). A generation is a single step here, and it closes
the night whatever its status.

### 2.4 SignupItems

`items` by signupId, and `index`, GSI3's own copy of each item. The index projects whole items
and is eventually consistent: `CatchUp` brings one copy up to date at a time, and until then a reader
meets an old one, or none. A submission looks the email up in the index and then puts; `my-signup`
answers with the copy. An amendment or withdrawal loads the item from the table and then puts it
back whole. The request's number stands for the ULID it would give a new item.

### 2.5 GuestSignIn

The form and the two routes behind it, a stored code per email, and the history variables
`drawn` and `sessions`. `Fail` is a call that throws or a Lambda that stops. To the
browser that is the same as a failed request. A lost response to a successful
verification is the choice of `token'` in `DeleteUsed`. Each tab is a browser of its own.

### 2.6 PairingsPage

A page holds the two cached queries, the fetches under way with
the answers on their way back, its generate and publish mutations, its resolves (the
button of an OddRow is not disabled while one is pending) and the choices in the selects. Behind each
mutation is the handler it has started, in the calls another request of the page can notice:

| Actions | Code |
|---|---|
| `CheckGenerate`, `ReadNight`, `ClearBoard`, `FillBoard`, `CloseNight` | the guard at `routes/pairings.ts:19`, then `generatePairings`, which does not look at the status again before it writes CLOSED |
| `ReadForPublish`, `MarkPublished` | `publishPairings`: reading the night, and writing PAIRED |
| `CheckResolve`, `FindRows`, `PutMerged`, `DeleteAbsorbed` | the guard at `routes/pairings.ts:46`, then `resolvePairing` |
| `Settle`, `SettleResolve` | `onSuccess`, which invalidates |
| `CallFails`, `ResolveFails` | a refusal, a handler that stops between two calls, a lost response |

So a re-roll and a publish of one page do overlap, and the re-roll may replace the published board and
close the night again. Deletes and puts of one generation are one step each: `NightPairings` has them one by one, and what the page is claimed
to show does not depend on how many there are. Of a board the page tells apart the
odd players and one row for the pairs. One page that may lose responses
and fetches stands for several organizers: a page whose publish was carried out but never
confirmed is in the state of a page that never clicked, next to one that did.

`LogIn` and `LogOut` are the page's login gate. The queries are mounted in front of it: they go on
while the login form is shown, and the board, which the server gives to organizers only, is
not fetched again because somebody has signed in. `invalidateQueries` leaves alone a fetch whose query has no
data yet (`Loading`), so that a generation confirmed during the page's first fetch may leave the old
board on it.

### 2.7 ManageSignup

`items ... disturbed` are those of `SignupItems`, whose actions `Elsewhere` and `BeginCall` take. `MySignup` answers with
the index's copy, which may be from before the page's own last change (`Outdated`). `token`
is the browser's `localStorage`; `shown`, `error` and `fetch` are the `my-signup` query, which
outlives the page and is not keyed by guest; `authed`, `step`, `withdrawn` are the page's
own state; `calls` its mutations, which outlive it too (`here` tells the ones of this visit). A call
takes the token that is stored when it is sent and the sign-up that is cached, and has no effect of
its own: it lets a request of `SignupItems` begin (or is refused), and settles once that request is done.

| Actions | Code |
|---|---|
| `Mount`: `ComeBack`, `Reload` | `useState(() => getToken() !== null)`, the query's `enabled`, with or without the cache |
| `Focus`, `ServeQuery`, `Receive`, `FetchFails` | `useMySignup`, `GET .../my-signup`. An error keeps the data, a fetch without data forgets the error |
| `RequestCode`, `SignIn` | `GuestCodeForm`, `onAuthed` |
| `Click`, `BeginCall`, `RefuseCall`, `Settle`, `LoseResponse` | the two mutations; the fields hold whatever the guest has picked |
| `Expire`, `GuestSignsIn`, `OrganizerSignsIn`, `SignOut` | a session past its 30 days, and what other tabs do to the token |

`Organizer` stands for every token `my-signup` refuses: an organizer's, or an expired one. The latter
could not change a sign-up either, which is among what `RefuseCall` allows. What is wrong with a
fetch other than 401 and 404 is one error. Requests begin in the order of their numbers here, and who
sends a change from elsewhere makes no difference once it is let through; `SignupItems` has both.

## 3. Runs

| Run | Instance | Shows |
|---|---|---|
| `overlap` | 2 players, 2 systems, 3 requests of every kind, PATCH to OPEN, CANCELLED and PAIRED, withdrawals; sign-ups before the first request; overlap and crashes | `TypeOK`, `PlayersExist`, `TruthfulMail`, `RegenerateRecovers`, `NotifiedOnce`, `PublishedStands` |
| `serial` | 3 players, 3 systems, 4 requests: generate, resolve, publish, withdraw, with sign-ups before the first of them; crashes, no overlap | `KeepsPromise`, `OneOddPerSystem`, `OnlyOrphansDoubleBooked`, `NotifiedOnce`, `RegenerateRecovers` |
| `closing` | 2 players, 2 systems, 2 requests: generate, deadline run, cancel; sign-ups and their changes at any time; crashes, no overlap, fairness | `GenerationCloses`, also for a cancelled night; `OnlyLatecomersUnpaired`; `KeepsPromise` with deadlines and cancellation |
| `schedule` | 3 requests, 2 deadlines, clock to 3, fairness | `TypeOK`, `ScheduleFollowsDeadline`, `CancelledIsUnscheduled`, `OnlyAskedReopens`, `DeadlineCloses` |
| `items` | 2 emails, 2 systems, 4 requests | `TypeOK`, `CancelledOnRequest`, `OnePerEmailInTurn`, `PlayerKeepsItem`, `OnlySubmittingRevives`, `SubmissionShows` |
| `codes` | 2 emails, 2 tabs, 2 codes drawn of 2 values, a code lives 2 of 3 ticks | `TypeOK`, `SessionEarned`, `SingleUse`, `LatestCodeStands` |
| `page` | 1 page, 2 players, both of them odd, 2 generations, 1 resolve at once, fairness | `TypeOK`, `ResolvesAsPicked`, `SettledPageIsCurrent`, `PublishShows` |
| `manage` | 2 emails, 1 system, 3 requests, 1 pending mutation | `TypeOK`, `SettledShowsOwn`, `WithdrawnIsCancelled`, `CodeStepStands` |

**Conditions.** Overlap, failures and lost responses are part of every model. Some properties
cannot survive all of them, because the code has nothing that would make it so. These name
what they except, by a history variable no guard reads, and each exception is needed: without it
TLC finds a counterexample.

| Property | Excepts |
|---|---|
| `RegenerateRecovers`, `TruthfulMail` | requests that did not have the night to themselves (`solo`) |
| `OneOddPerSystem`, `OnlyOrphansDoubleBooked`, `KeepsPromise` | overlapping requests (the constant `Overlap`; the theorems assume its negation) |
| `NotifiedOnce`, `PublishedStands` | a publish that was interrupted (`PublishInterrupted`), overlapped by another one or by a change of the board, or undone by the deadline or a PATCH (`disrupted`); `NotifiedOnce` also players whom the board has in two pairings (`DoubleBooked`) |
| `OnePerEmailInTurn`, `OnlySubmittingRevives`, `SubmissionShows` | overlapping requests, and lookups in an outdated index (`disturbed`) |
| `ScheduleFollowsDeadline`, `CancelledIsUnscheduled`, `OnlyAskedReopens`, `DeadlineCloses` | anything overlapping a request, and failed scheduler calls (`disturbed`) |
| `SingleUse`, `LatestCodeStands` | emails about which requests have overlapped (`crossed`) |
| `OnlyLatecomersUnpaired` | players who signed up after the generation had listed sign-ups, and a rewrite that stopped half way (`missed`); overlapping requests |
| `GenerationCloses` | a generation that crashes |
| `SettledShowsOwn` | sign-ups and tokens changed elsewhere since the last fetch began, lost responses, and a fetch answered from an index that lagged, as it may right after the page's own change (`stale`) |
| `WithdrawnIsCancelled` | overlapping requests, and a new submission of the same player |
| `CodeStepStands` | a page without a cached sign-up, and a query that runs out of retries |
| `SettledPageIsCurrent`, `PublishShows` | pages that have lost a response, had a fetch fail, or were still loading when one arrived (`lost`), and a second page: nothing tells a page of another's changes; `PublishShows` also a night that a re-roll of the page itself has closed again |

**Why the bounds are enough.** Two requests are enough for every two-way race, and each race
listed under hazards is two-way; `overlap` has a third, which comes to what the two have left: a generation
that must recover from it, or a publish of it. `serial` has four: a generation, a resolve that is
interrupted, another one that merges what it left behind, and a publish; or two that leave their leavings and a third that
must recover from them. Three systems and three players give a pair beside a single, an odd group
alone, and up to three singles to resolve. In both runs all sign-ups are written before the first other request
(`SignupsFirst`), which keeps them small; withdrawals come at any time, later sign-ups and changes of system are part of `closing`, and of the theorems. Two deadlines and three requests allow create, move and
cancel, with a clock that passes both. The statuses asked for in `schedule` are the ones the organizer's
page asks for (`CANCELLED`). Four sign-up requests allow submit, withdraw, submit
again and amend. Two codes and a time-to-live of two ticks allow a code to be replaced, to
expire between being read and being deleted, and to be guessed wrongly. In `manage`, three requests
allow a sign-up, its withdrawal, and one more by the same or another guest, at the same time or
later; two guests are what a shared cache takes. A page's own save and withdrawal are not pending at
once there (`MaxCalls = 1`), but either meets the same changes sent from elsewhere; one system is
enough, since nothing depends on which one it is. The bounds on pending resolves and on
generations in `page` allow a resolve that is late by a generation, and one that overlaps a re-roll or a publish; that two resolves
of one page overlap is part of `overlap`, and of the theorems about the page. Players and requests are
interchangeable, so their permutations are declared as symmetry, except in runs that check
liveness. In `SignupItems` requests are numbers, whose order matters, and only emails and systems
are permuted.

**Deadlock.** Requests are used once, so a behaviour of `NightPairings`, `NightSchedule` or
`SignupItems` may end with all of them done; these runs say `CHECK_DEADLOCK FALSE`.
`GuestSignIn`, `PairingsPage` and `ManageSignup` never end, and TLC checks them for deadlock.

**Fairness.** Nobody has to send a request, click or sign up.
* `closing`: `WF` of `Continue(r)`. A request that has begun is carried on by its Lambda, unless it
  crashes, which it may at any call.
* `schedule`: `WF` of the clock, of EventBridge firing a due schedule, of the Lambda it
  invokes and of the requests that have begun.
* `page`: `WF` of handling the response to a publish, and `SF` of answering and receiving the night
  query, since every confirmed mutation cancels a fetch under way and starts it anew. It says that an
  organizer does not go on re-rolling and publishing faster than one fetch is answered. Nothing is
  assumed of the other calls.

## 4. Where the code departs from what its documents say

Each of the first four has a run that TLC finds violated, and a finding in `PROJECT.json`.

| Run | What happens |
|---|---|
| `deadline_after_publish` | the schedule fires after a manual publish: the published board is replaced and the night is CLOSED again |
| `overlapping_publish` | two publishes overlap and every player is emailed twice (`OneNotice`) |
| `concurrent_submissions` | two submissions of one email create two sign-ups |
| `reopened_night` | a night set back to OPEN without a new deadline has no schedule; nothing closes it |

The same counterexamples appear where a condition of section 3 is dropped:
* two overlapping generations leave two singles of one system (`OneOddPerSystem` with `Overlap`);
* a re-roll that passed its guard before a publish wrote PAIRED replaces the board the players have been told of and
  closes the night again, so that it can be published anew; one page can do this, since its Re-roll and Publish buttons are
  each disabled by their own mutation only (`NotifiedOnce` and `PublishedStands` without `Overtaken`);
* two resolves that cross, x into y's pairing and y into x's, each delete the pairing the other has put, and both players are on no
  pairing until the next re-roll; the Resolve buttons are not disabled while one is pending;
* right after a submission, a change or a withdrawal, my-signup may answer with the index's old copy; the settled page then shows
  the old system, and saving sends it again (`SettledShowsOwn` without `Outdated`);
* an amendment that overlaps a withdrawal confirms the player again (`OnlySubmittingRevives`);
* an edit of a night that overlaps a generation puts the night back to OPEN (`OnlyAskedReopens`);
* of two overlapping reschedules, or of one that overlaps the night's creation, the schedule
  survives that belongs to a deadline the night no longer has (`ScheduleFollowsDeadline`);
* without a cached sign-up, a fetch takes the code form away: the organizer's token a guest's page
  opened with is refused, the guest asks for a code, the window regains focus and the page shows
  "Loading…" in place of the form (`CodeStepStands` without `shown # None`);
* a page that has withdrawn one guest's sign-up goes on saying "Your signup has been withdrawn." to the
  next guest who signs in on it, whose own sign-up is confirmed: `withdrawMutation.isSuccess` is
  reset only by opening the page anew;
* a generation confirmed while the page is still loading leaves the old board on it, and so does signing in
  after the board's retries are over (`SettledPageIsCurrent` without `lost`).

A sign-up that passes the OPEN check and is written after the night was paired is part of
`NightPairings` too (`CheckOpen`, `UpsertSignup`): the player is confirmed and nobody pairs them.
`OnlyLatecomersUnpaired` shows that nobody else is left out. The comment at `OrganizerPage.tsx:13`
expects organizers' calls with a guest token to be refused with 403; `requireOrganizer` answers 401.

The code's own comments accept some of what the models show: that a generation is not atomic
(`RegenerateRecovers` shows that repeating it does help), that an interrupted resolve leaves an
orphan (`OnlyOrphansDoubleBooked` shows that nothing else does), and that scheduling is best effort.
One consequence they do not mention: "a retry hits the already-matched guard" is true of the pairing that was merged, but
the orphan itself is still `NEEDS_RESOLUTION`, and a resolve with a third single is let through. Its player then sits in two matched
pairings, and one publish sends them two opponents (`NotifiedOnce` without `DoubleBooked`).

## 5. Proofs

TLAPS checks these for every set of players, systems, requests, guests and pages, of any size. The
hypotheses are the ones in the second column.

| Theorem | Statement |
|---|---|
| `PairNightWellPaired` | every plan of `PairNight` is `WellPaired` |
| `TypeCorrect` | `Spec => []TypeOK` of `NightPairings` |
| `GenerationRecovers` | `Spec => []RegenerateRecovers` |
| `PublishTellsTheTruth` | `Spec => []TruthfulMail` |
| `PairedPlayersExist` | `Spec => []PlayersExist` |
| `OddOnesDiffer` | `~Overlap`, `Spec => []OneOddPerSystem` |
| `DoubleBookingsExplained` | `~Overlap`, `Spec => []OnlyOrphansDoubleBooked` |
| `PublishedBoardStands` | `PublishedSpec => []PublishedStands` |
| `PlayersNotifiedOnce` | `PublishedSpec => []NotifiedOnce` |
| `PromiseIsKept` | `~Overlap`, `Spec => KeepsPromise`: `NightPairings` implements `PairingReview` |
| `OnlyLatecomersLeftOut` | `~Overlap`, no PATCH to CLOSED or PAIRED, `LateSpec => []OnlyLatecomersUnpaired` |
| `ItemsTypeCorrect` | `Spec => []TypeOK` of `SignupItems` |
| `CancelledByOwnHand` | `Spec => []CancelledOnRequest` |
| `ItemsStayTheirPlayers` | `Spec => PlayerKeepsItem` |
| `OneSignupPerEmailInTurn` | `Spec => []OnePerEmailInTurn` |
| `OnlyASubmissionRevives` | `Spec => OnlySubmittingRevives` |
| `SubmissionIsShown` | `Spec => SubmissionShows` |
| `WithdrawalsStand` | `Spec => []WithdrawalsHold`: a withdrawal that is done has cancelled its item for good, but for a new submission or an overlap |
| `SignInTypeCorrect` | `Spec => []TypeOK` of `GuestSignIn` |
| `SessionsAreEarned` | `Spec => []SessionEarned` |
| `CodesWorkOnce` | `Spec => []SingleUse` |
| `LatestCodeWorks` | `Spec => []LatestCodeStands` |
| `ScheduleTypeCorrect` | `Spec => []TypeOK` of `NightSchedule` |
| `CancelledNightUnscheduled` | `Spec => []CancelledIsUnscheduled` |
| `ReopeningIsAskedFor` | `Spec => OnlyAskedReopens` |
| `ScheduleIsKept` | `"OPEN" \notin PatchStatuses`, `Spec => []ScheduleFollowsDeadline` |
| `PageTypeCorrect` | `Spec => []TypeOK` of `PairingsPage` |
| `ResolvesNameOneBoard` | `Spec => []ResolvesAsPicked` |
| `LonePageIsCurrent` | one page, `Spec => []SettledPageIsCurrent` |
| `PageUsesTheStore` | `Spec => Store!Spec`: `ManageSignup` implements `SignupItems` |
| `ManageTypeCorrect` | `Spec => []TypeOK` of `ManageSignup` |
| `SettledPageShowsOwn` | `Spec => []SettledShowsOwn` |
| `WithdrawnStaysCancelled` | `Spec => []WithdrawnIsCancelled` |
| `CodeFormStays` | `Spec => CodeStepStands` |

Every invariant and action property of the passing runs is stated by one of them.

**Assumptions** are the ones the modules name, and TLC evaluates each of them. `NoOne`, `Organizer` and `NoSignup` are told
apart from players and sign-ups, `Players` is finite, `Handlers` and `PatchStatuses` are sets of the names the code
has. `RosterAssumption`: a list of sign-ups is not `NoOne`, which the refinement uses for "no generation under way". In
`SignupItems`, `Requests` are positive numbers (0 stands for "no sign-up" in `FindByEmail`), `Organizer` is no email and `NoItem` no
item; neither requests nor emails need be finite in number. `ManageSignup` assumes the same of its instance of `SignupItems` (so that the theorems
about it apply, `StoreAssumptions`), that `NoToken` is no token and that `None` is no sign-up. In `GuestSignIn` a code lives for at least one tick and `NoEmail` and
`NoCode` are no email and no code; the number of emails, tabs and codes is any. In `NightSchedule` deadlines lie within `MaxTime` and
a PATCH asks for statuses of a night.

**Hypotheses.** `~Overlap` is needed where it is assumed: two generations that overlap leave two singles of a system. `OnlyLatecomersLeftOut` has no PATCH
to CLOSED or PAIRED, because such a PATCH closes a night nobody has paired; the organizer's page sends neither. `LonePageIsCurrent` is
about one page since nothing tells a page of what another has done.

**The algorithm.** `PairUp` of a sequence without repetitions seats each of its members once
(`PairUpCovers`, `PairUpDisjoint`) and leaves at most one single (`PairUpOneSingle`). A shuffle
of a group is such a sequence, and groups of different systems have no player in common.

**Recovery.** `RegenerateRecovers` speaks of the last moment of a generation only and is not
inductive. `RecoveryInv` follows it through the rewrite. `SoloAlone`: while `solo = r`, no other
request is in flight. `KeysUnique`: no two stored items have one key, so that a delete by key
removes the item that was read. `PlanReady`: between computing and writing, `result` is a good plan
for `confirmed`. `Rewriting`: for a solo request every stored pairing is in `batch` while it deletes,
and afterwards what is stored together with what is still to be put is the plan. At the last step
`result` is empty, and what is stored is the plan.

**Messages.** `MailInv` follows a publish in the same way: nothing is sent before `send`
(`NothingSent`), what was sent are its notices (`NoticesSent`), and for a solo request what it read is
what is stored (`PublishView`). `NamesKnown` carries `PlayersExist` through `confirmed`, `batch`
and `result`: whoever is named there has a sign-up item, and items are never removed.

**One at a time.** `SerialInv` adds to `RecoveryInv` that the one request in flight is `solo`
(`Serial`), that two stored singles differ in system and player (`SinglesApart`), that the
singles a resolve is about to merge are still stored (`MergeReady`, `DeleteReady`), and which
double bookings a resolve in flight accounts for (`Doubles`).

**The promise.** `PromiseInv` adds to this what a request has read and still rests on: the status it has seen is the status
there is, and its route's guard still holds (`ReadsStand`); and while a resolve has its absorbed single to delete, that single
and the pairing it went into are both stored (`OrphanStored`). On it the refinement is proved call by call. A generation's query of the pairings, its
deletes and its puts are stutters between `Prepare`, when the sign-ups have been listed, and `Complete`, when the night is closed: the board
is hidden meanwhile, and at the end it is well-paired by `RecoveryInv`. A merged pairing's put is `Review`'s resolve, since its delete
is anticipated by the mapping, and the delete a stutter. Sending is a stutter and writing PAIRED the publish. A crash maps to the interruption that its place in
the code calls for.

**Published nights.** `PublishedInv` assumes nothing of overlap, schedules, PATCHes or crashes. A publish that goes on after
listing has read CLOSED (`PublishRead`). Until `disrupted`, what it has listed is what is stored (`BoardRead`), since whoever
changes the board would overtake it (`BoardSteps`). And `OneAnnouncement`: unless a publish was interrupted, players have no messages; or those of
one publish, each of which a stored pairing bears out (`OneSender`), and this publish is about to write PAIRED (`Announcing`),
or the night is PAIRED and nothing is under way that could change the board or tell players anew (`Announced`). `Announced` is inductive because a generation and a
resolve that begin meet their guards, a new publish reads PAIRED, a deadline run and a PATCH are what sets `disrupted`, and whatever was under
way before would have overtaken the publish. `NotifiedOnce` follows: two different messages of one publish
to one player are two pairings with that player in them.

**Latecomers.** A generation under way has listed every confirmed player it could know of (`ListedOrMissed`), and once none is under
way the board of a closed night seats them (`SeatedOrMissed`). A resolve keeps everybody seated, since the absorbed player
sits in the merged pairing by then.

**Sign-up items.** What a write does depends on what its request loaded earlier, so `ItemsInv` follows a
request from its start: the index has copies of a player's own items (`CopiesOfItems`); a request that has not written yet has not made its own item (`Fresh`), a submission in flight
carries its sender's item (`Finding`), and what is about to be put has the email of the item it replaces, and a
cancelled status only for a withdrawal by someone who may (`Writing`). This holds under any overlap because two
requests never make the same new item. The lookup is a `CHOOSE` of the smallest number; that there is
one is `SmallestMember`, from the well-foundedness of `<`. `InTurn` adds, until the first overlap or
outdated lookup, that one request at most is in flight (`Alone`), and that the item it will replace is the only
one of its email (`Placed`). `RevivalInv` adds what a write does in turn: a submission is of its sender's, a
withdrawal cancels (`Bodies`), and what is about to be amended has not been withdrawn since it was read (`AmendsConfirmed`).
`WithdrawalInv` remembers a withdrawal after it is done: what it was about is still stored (`TargetsStored`), under the
number of the submission that made it (`Made`), and only a later submission can have confirmed it (`WithdrawalsHold`).

**Codes.** `SignInInv`: codes are numbered as they are drawn (`Numbered`), a request was sent from a
form that was filled in (`Filled`), and a record about to be used matched what was typed and had not
expired (`Accepted`): that is all `SessionEarned` needs, under any overlap. `CodesInv` speaks of emails that are not in
`crossed`: two requests in flight are not about the same one (`Exclusive`), so what a request is about to
delete is what it has read, or gone (`AtHand`), and a used code is neither stored nor accepted anywhere
(`Spent`). `SingleUse` and `LatestCodeStands` follow, each needing the others to be inductive.

**Schedule.** `Orderly`: until something overlaps a request or the scheduler fails, a request is alone, holds the night
as the table has it, and its next call fits that night's status. `Cancelled` and `Followed` are the two
invariants with the request in between allowed for. `ScheduleIsKept` needs that no PATCH opens a night;
`reopened_night` shows that it fails otherwise.

**The organizer's page.** `PageInv` is about any number of pages. A fetch holds nothing or an answer the server gave (`Fetches`),
and a choice is held by a row on show, of that row's generation (`ChosenOnRows`), since a new board brings new rows: so a resolve names two players of
one board. For a lone page, `Current` says what keeps it up to date while handlers are under way: the answer on its way, or
without one what is shown, is the server's, unless a response of the page has been lost, or a success that will invalidate the query is on its way (`Confirmed`,
`Resolved`), or a generation has changed the board and will end in one (`Redrawing`). This holds however the handlers
overlap, because each of them writes last and is confirmed, or is lost, after that.

**The guest's page.** `ManageSignup` is composed with `SignupItems`, and so is its proof. `PageUsesTheStore`: every step is a step
of the store or leaves it alone, so `ItemsInv` and `WithdrawalInv` hold behind the page without being proved again. `PageInv` adds the page: the
form has a step exactly when it is shown (`FormStep`), a mutation that was let through is the request that carries it out, and what the page has
called withdrawn was withdrawn by a request that is done (`Linked`), whence `WithdrawnIsCancelled` by `WithdrawalsStand`; the answer about to
arrive, or without a fetch the sign-up on show, is the stored one of the guest signed in (`UpToDate`), but for the page's own changes whose response
is on its way, and for an answer read from an index that lagged.

**Only model-checked:** the liveness properties `GenerationCloses`, `DeadlineCloses` and `PublishShows`, since
fairness and `ENABLED` are beyond the prover; and that the code violates what section 4 lists, which is TLC's to show.

## 6. Not modelled

* Clubs and memberships: the API only reads them, and `requireOrganizer` is a precondition of the
  organizers' actions.
* The signature of session tokens, Cognito, SES, and EventBridge beyond what section 2 says.
* Titles, event dates, offered systems, names, notes, and the wording of messages.
* The sign-up and create-night forms, the organizer's list of nights and the routing of pages: each form
  sends one request while no other of its own is pending and keeps nothing afterwards. What Cognito asks for
  before it accepts a sign-in is one step with it.
* Configuration, routing, validation, the seed script and the CDK stack (but for the Lambda timeout
  behind `Crash`).

## 7. Plan

Done: the core (`PairNight`, `NightPairings`), its abstract specification and the refinement; `SignupItems`, `GuestSignIn`,
`NightSchedule`, `PairingsPage` and `ManageSignup`; and proofs of all their invariants and action properties.

Next, in this order:

1. The abstract specification's own promises as theorems of `PairingReview` (a complete board seats exactly its roster; a published
   board changes no more), carried to `NightPairings` by `PromiseIsKept`.
2. What a page shows after a publish that its own re-roll overtakes: for how long it may call a night published that is
   CLOSED again.
3. Two pages of one organizer: what a page shows when the other one has done nothing.
