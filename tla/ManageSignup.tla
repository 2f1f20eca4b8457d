---------------------------- MODULE ManageSignup ----------------------------
(***************************************************************************)
(* The page on which guests manage their sign-up, in front of SignupItems. *)
(* It shows a cached copy of the sign-up of whoever's token the browser    *)
(* holds.  The token is shared with the browser's other tabs, where other  *)
(* guests and organizers sign in and out; the cache outlives the page and  *)
(* does not know whose answer it holds.                                    *)
(*                                                                         *)
(* A code is requested and verified in one step each (GuestSignIn has the  *)
(* steps inside), and the page's other query, the night, is taken as       *)
(* loaded.                                                                 *)
(***************************************************************************)
EXTENDS Integers, FiniteSets

CONSTANTS Emails, Systems, NoItem, Requests,
    Organizer,  \* also as a token: an organizer's, or one that has expired
    NoToken,    \* nothing stored
    None,       \* no data
    MaxCalls    \* bound: how many mutations are pending at once

VARIABLES items, index, op, caller, target, body, pc, disturbed

Store == INSTANCE SignupItems

store == <<items, index, op, caller, target, body, pc, disturbed>>

ASSUME ManageAssumption ==
    /\ NoToken \notin Emails \cup {Organizer}
    /\ Organizer \notin Emails
    /\ NoItem \notin Store!Item
    /\ Requests \subseteq Nat \ {0}
    /\ MaxCalls \in Nat

VARIABLES
    token,      \* whose token localStorage holds
    authed,     \* was there one when the page was mounted, or has a guest signed in since?
    shown,      \* query data: a sign-up, with its signupId
    error,      \* query error
    fetch,      \* the fetch under way
    step,       \* of the sign-in form, "none" while it is not shown
    calls,      \* the pending mutations, of this page and of those left before
    withdrawn,  \* the sign-up it has withdrawn
    stale       \* has something the page shows changed elsewhere since its last fetch began,
                \* or was that fetch answered from an index that lagged?

\* stale is for the properties; no guard reads it.
query == <<shown, error, fetch>>
page  == <<authed, step, calls, withdrawn>>
vars  == <<store, token, query, page, stale>>

Shown == [id : Requests, item : Store!Item]

ASSUME NoneAssumption == None \notin Shown

Answer == [error : {"none"}, data : Shown] \cup [error : {"401", "404"}, data : {None}]

Idle  == [state |-> "idle", answer |-> None]
Asked == [state |-> "asked", answer |-> None]

\* A mutation under way: what it asks for, of which sign-up, with whose token; is
\* it of the page that is shown; and the request that carries it out, 0 until the
\* server has let it begin.
Call == [what : {"save", "withdraw"}, id : Requests,
         who : Emails \cup {Organizer, NoToken}, system : Systems,
         here : BOOLEAN, req : Requests \cup {0}]

Init ==
    /\ Store!Init
    /\ token = NoToken
    /\ authed = FALSE
    /\ shown = None
    /\ error = "none"
    /\ fetch = Idle
    /\ step = "email"
    /\ calls = {}
    /\ withdrawn = 0
    /\ stale = FALSE

-----------------------------------------------------------------------------
(* What the page shows. *)

AsksSignIn == ~authed \/ error = "401"

View ==
    CASE AsksSignIn -> "sign in"
      [] ~AsksSignIn /\ shown = None /\ fetch # Idle -> "loading"
      [] ~AsksSignIn /\ error = "404" -> "not found"
      [] ~AsksSignIn /\ shown = None /\ fetch = Idle /\ error # "404" -> "failed"
      [] OTHER -> IF withdrawn # 0 \/ shown.item.status = "CANCELLED" THEN "withdrawn" ELSE "form"

\* Mutant: what to show is decided before the change is in.
RerenderEarly == step' = IF ~AsksSignIn THEN "none" ELSE IF step = "none" THEN "email" ELSE step

\* The sign-in form is a component of its own: it starts afresh each time it is
\* shown, and what was typed is gone when it is not.
Rerender == step' = IF ~AsksSignIn' THEN "none" ELSE IF step = "none" THEN "email" ELSE step

-----------------------------------------------------------------------------
(* The query. *)

\* Mutant: starting a fetch forgets the last error, whatever is cached.
ForgetError ==
    /\ fetch' = Asked
    /\ error' = "none"
    /\ stale' = FALSE

\* A fetch begins.  Without data the query is pending again, its error gone.
StartFetch ==
    /\ fetch' = Asked
    /\ error' = IF shown = None THEN "none" ELSE error
    /\ stale' = FALSE

\* Mutant: a fetch under way is good enough.
InvalidateIdle ==
    IF fetch = Idle /\ authed THEN StartFetch ELSE UNCHANGED <<fetch, error, stale>>

\* invalidateQueries: a fetch under way is restarted only if there is data, and
\* a query that is not enabled is not fetched.
Invalidate ==
    IF authed /\ (fetch = Idle \/ shown # None) THEN StartFetch ELSE UNCHANGED <<fetch, error, stale>>

\* The window regains focus.
Focus ==
    /\ authed
    /\ fetch = Idle
    /\ StartFetch
    /\ UNCHANGED <<store, token, shown, authed, calls, withdrawn>>
    /\ Rerender

\* resolvePrincipal: a valid guest session names the guest; a token of Cognito, or
\* an invalid one, does not.
IsGuest(t) == t \in Emails

\* GET .../my-signup with the token stored now: it answers with the copy it finds
\* in the index.
MySignup ==
    IF ~IsGuest(token) THEN [error |-> "401", data |-> None]
    ELSE LET i == Store!FindByEmail(index, token, 0)
         IN  IF i = 0 THEN [error |-> "404", data |-> None]
             ELSE [error |-> "none", data |-> [id |-> i, item |-> index[i]]]

\* An answer older than the table at once needs another fetch.
Outdated(answer) == answer.data # None /\ answer.data.item # items[answer.data.id]

ServeQuery ==
    /\ fetch = Asked
    /\ fetch' = [state |-> "answered", answer |-> MySignup]
    /\ stale' = (stale \/ Outdated(MySignup))
    /\ UNCHANGED <<store, token, shown, error, page>>

\* An error leaves the data that is cached.
Receive ==
    /\ fetch.state = "answered"
    /\ fetch' = Idle
    /\ error' = fetch.answer.error
    /\ shown' = IF error' = "none" THEN fetch.answer.data ELSE shown
    /\ UNCHANGED <<store, token, authed, calls, withdrawn, stale>>
    /\ Rerender

\* The query is out of retries.
FetchFails ==
    /\ fetch # Idle
    /\ fetch' = Idle
    /\ error' = "other"
    /\ stale' = TRUE
    /\ UNCHANGED <<store, token, shown, authed, calls, withdrawn>>
    /\ Rerender

-----------------------------------------------------------------------------
(* Signing in. *)

RequestCode ==
    /\ step = "email"
    /\ step' = "code"
    /\ UNCHANGED <<store, token, query, authed, calls, withdrawn, stale>>

\* The code is good: the session is stored, and onAuthed enables the query, which
\* starts it, and invalidates it.
SignIn(e) ==
    /\ step = "code"
    /\ token' = e
    /\ authed' = TRUE
    /\ IF fetch = Idle THEN StartFetch ELSE Invalidate
    /\ UNCHANGED <<store, shown, calls, withdrawn>>
    /\ Rerender

-----------------------------------------------------------------------------
(* The two mutations. *)

\* Sent with what the guest has put into the form and the token stored now, about
\* the sign-up that is cached.  Each button is disabled by its own mutation only.
Click(what, s) ==
    /\ View = "form"
    /\ Cardinality(calls) < MaxCalls
    /\ \A c \in calls : c.here => c.what # what
    /\ calls' = calls \cup {[what |-> what, id |-> shown.id, who |-> token,
                             system |-> s, here |-> TRUE, req |-> 0]}
    /\ UNCHANGED <<store, token, query, authed, step, withdrawn, stale>>

\* The requests to come are begun in the order of their numbers.
Free == {r \in Requests : pc[r] = "ready" /\ \A q \in Requests : q < r => pc[q] # "ready"}

\* The server begins to carry out a call.
BeginCall(c, r) ==
    /\ c.req = 0
    /\ \/ c.what = "save" /\ Store!Amend(r, c.who, c.id, c.system)
       \/ c.what = "withdraw" /\ Store!Withdraw(r, c.who, c.id)
    /\ calls' = (calls \ {c}) \cup {[c EXCEPT !.req = r]}
    /\ UNCHANGED <<token, query, authed, step, withdrawn, stale>>

\* It is refused, or fails before it has changed anything: the page shows an
\* error, and nothing is fetched.
RefuseCall(c) ==
    /\ c.req = 0
    /\ calls' = calls \ {c}
    /\ UNCHANGED <<store, token, query, authed, step, withdrawn, stale>>

Done(c) == c.req # 0 /\ pc[c.req] = "done"

\* onSuccess of both mutations, also after the page was left.  From then on the
\* page's own withdrawal isSuccess.
Settle(c) ==
    /\ Done(c)
    /\ calls' = calls \ {c}
    /\ withdrawn' = IF c.here /\ c.what = "withdraw" THEN c.id ELSE withdrawn
    /\ Invalidate
    /\ UNCHANGED <<store, token, shown, authed>>
    /\ Rerender

\* A response gets lost: an error to the page.
LoseResponse(c) ==
    /\ Done(c)
    /\ calls' = calls \ {c}
    /\ stale' = TRUE
    /\ UNCHANGED <<store, token, query, authed, step, withdrawn>>

-----------------------------------------------------------------------------
(* What happens around the page. *)

\* The session runs out.
Expire ==
    /\ token \in Emails
    /\ token' = Organizer
    /\ UNCHANGED <<store, query, page, stale>>

\* In another tab, or on another page in between, the token is replaced: there is
\* one for guests and organizers alike.
ReplaceToken(new) ==
    /\ token # new
    /\ token' = new
    /\ stale' = TRUE
    /\ UNCHANGED <<store, query, page>>

GuestSignsIn == \E e \in Emails : ReplaceToken(e)

\* LoginForm: once Cognito has accepted the password, or the new one it asked for.
OrganizerSignsIn == ReplaceToken(Organizer)

\* The button is offered to whoever opens an organizer's page with a token, a
\* guest's too.
SignOut == token # NoToken /\ ReplaceToken(NoToken)

\* The page is mounted with what the browser then holds.
Mount(data, err, running) ==
    /\ authed' = (token # NoToken)
    /\ shown' = data
    /\ IF authed' /\ running = Idle
       THEN fetch' = Asked /\ error' = (IF data = None THEN "none" ELSE err) /\ stale' = FALSE
       ELSE fetch' = running /\ error' = err /\ UNCHANGED stale
    /\ step' = IF AsksSignIn' THEN "email" ELSE "none"
    /\ withdrawn' = 0
    /\ UNCHANGED <<store, token>>

\* Leaving the page and coming back keeps the cache and the calls under way.
ComeBack ==
    /\ Mount(shown, error, fetch)
    /\ calls' = {[c EXCEPT !.here = FALSE] : c \in calls}

\* Loading it again keeps nothing but the token; what the page has sent before is
\* then among Elsewhere.
Reload ==
    /\ Mount(None, "none", Idle)
    /\ calls' = {}

\* Requests are carried on, and other clients send theirs.  Who has sent a change
\* matters no further once it is let through: Organizer stands for all.
Elsewhere ==
    /\ \/ \E r \in Requests : Store!FindExisting(r) \/ Store!PutSignup(r) \/ Store!CatchUp(r)
       \/ \E r \in Free, s \in Systems :
             \/ \E e \in Emails : Store!Submit(r, e, s)
             \/ \E i \in Requests : Store!Amend(r, Organizer, i, s) \/ Store!Withdraw(r, Organizer, i)
    /\ stale' = (stale \/ \E r \in Requests \ {c.req : c \in calls} : pc[r] = "put" /\ pc'[r] = "done")
    /\ UNCHANGED <<token, query, page>>

-----------------------------------------------------------------------------

Server == ServeQuery \/ Elsewhere \/ \E c \in calls, r \in Free : BeginCall(c, r)

Guest ==
    \/ Focus \/ RequestCode \/ ComeBack \/ Reload
    \/ \E e \in Emails : SignIn(e)
    \/ \E what \in {"save", "withdraw"}, s \in Systems : Click(what, s)

Network ==
    \/ Receive \/ FetchFails
    \/ \E c \in calls : RefuseCall(c) \/ Settle(c) \/ LoseResponse(c)

OtherTab == GuestSignsIn \/ OrganizerSignsIn \/ SignOut

Next == Server \/ Guest \/ Network \/ Expire \/ OtherTab

Spec == Init /\ [][Next]_vars

-----------------------------------------------------------------------------
(* Properties. *)

\* The page's state keeps its shape, and the sign-in form is shown when and only
\* when the page asks for it.
TypeOK ==
    /\ Store!TypeOK
    /\ token \in Emails \cup {Organizer, NoToken}
    /\ authed \in BOOLEAN
    /\ shown \in Shown \cup {None}
    /\ error \in {"none", "401", "404", "other"}
    /\ fetch \in {Idle, Asked} \/ (fetch.state = "answered" /\ fetch.answer \in Answer)
    /\ step \in {"none", "email", "code"}
    /\ (step = "none") = ~AsksSignIn
    /\ calls \subseteq Call
    /\ withdrawn \in Requests \cup {0}
    /\ stale \in BOOLEAN

\* A page with nothing under way shows the sign-up of the guest who is signed in
\* and shows it as it is stored, unless it was changed elsewhere, or the token
\* was, since the page last began to fetch, or the index had not caught up when
\* that fetch was answered (right after the page's own change, too): coming back
\* to the page later is enough.
SettledShowsOwn ==
    (View \in {"form", "withdrawn"} /\ fetch = Idle /\ calls = {} /\ error = "none" /\ ~stale) =>
        /\ shown.item = items[shown.id]
        /\ token \in Emails => shown.item.email = token

\* A submission has confirmed this sign-up again.
Resubmitted(i) == \E r \in Requests : r # i /\ op[r] = "submit" /\ target[r] = i /\ pc[r] = "done"

\* Once a page has said that a sign-up is withdrawn it stays withdrawn, whatever
\* else this page or another client has sent, unless requests overlap (a change
\* of system that was loaded before is then written over the withdrawal) or the
\* player signs up again.
WithdrawnIsCancelled ==
    withdrawn # 0 => \/ items[withdrawn].status = "CANCELLED"
                     \/ disturbed
                     \/ Resubmitted(withdrawn)

\* A guest who has been sent a code can enter it: as long as a sign-up is cached
\* and the query can be answered, the code form outlasts the fetches that begin
\* meanwhile.  (Without a cached sign-up each such fetch takes it away.)
CodeStepStands ==
    [][(step = "code" /\ step' # "code" /\ shown # None) =>
          \/ \E e \in Emails : SignIn(e)
          \/ ComeBack \/ Reload
          \/ Receive /\ error' # "401"
          \/ FetchFails]_vars
=============================================================================
