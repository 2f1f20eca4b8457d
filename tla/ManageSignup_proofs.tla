------------------------ MODULE ManageSignup_proofs ------------------------
(***************************************************************************)
(* Theorems about ManageSignup, for any number of guests, sign-ups,        *)
(* requests and pending mutations.  What the store underneath does is      *)
(* taken from the theorems about SignupItems.                              *)
(***************************************************************************)
EXTENDS ManageSignup, TLAPS

Items == INSTANCE SignupItems_proofs

-----------------------------------------------------------------------------
(* The page's requests are among those SignupItems allows. *)

LEMMA StoreAssumptions == Items!ItemsAssumption /\ Items!NoItemAssumption
<1>1. Items!ItemsAssumption
  BY ManageAssumption
<1>2. Items!NoItemAssumption
  BY ManageAssumption DEF Items!Item, Store!Item
<1> QED
  BY <1>1, <1>2

LEMMA SameItem == Store!Item = Items!Item
BY DEF Store!Item, Items!Item

LEMMA SameFind ==
    ASSUME NEW copy, NEW e, NEW new
    PROVE  Store!FindByEmail(copy, e, new) = Items!FindByEmail(copy, e, new)
BY DEF Store!FindByEmail, Items!FindByEmail

LEMMA SameAmend ==
    ASSUME NEW r, NEW who, NEW i, NEW s, Store!Amend(r, who, i, s)
    PROVE  Items!Amend(r, who, i, s)
BY DEF Store!Amend, Items!Amend, Store!MayManage, Items!MayManage, Store!Begin, Items!Begin,
       Store!InFlight, Items!InFlight

LEMMA SameWithdraw ==
    ASSUME NEW r, NEW who, NEW i, Store!Withdraw(r, who, i)
    PROVE  Items!Withdraw(r, who, i)
BY DEF Store!Withdraw, Items!Withdraw, Store!MayManage, Items!MayManage, Store!Begin, Items!Begin,
       Store!InFlight, Items!InFlight

LEMMA SameSubmit ==
    ASSUME NEW r, NEW e, NEW s, Store!Submit(r, e, s)
    PROVE  Items!Submit(r, e, s)
BY DEF Store!Submit, Items!Submit, Store!Begin, Items!Begin, Store!InFlight, Items!InFlight

LEMMA SameRest ==
    ASSUME NEW r
    PROVE  /\ Store!FindExisting(r) => Items!FindExisting(r)
           /\ Store!PutSignup(r) => Items!PutSignup(r)
           /\ Store!CatchUp(r) => Items!CatchUp(r)
BY DEF Store!FindExisting, Items!FindExisting, Store!FindByEmail, Items!FindByEmail,
       Store!PutSignup, Items!PutSignup, Store!CatchUp, Items!CatchUp, Store!Stored, Items!Stored

LEMMA SameNext == Store!Next <=> Items!Next
BY DEF Store!Next, Items!Next, Store!Amend, Items!Amend, Store!Withdraw, Items!Withdraw,
       Store!MayManage, Items!MayManage, Store!Begin, Items!Begin, Store!InFlight, Items!InFlight,
       Store!Submit, Items!Submit, Store!FindExisting, Items!FindExisting, Store!FindByEmail,
       Items!FindByEmail, Store!PutSignup, Items!PutSignup, Store!CatchUp, Items!CatchUp,
       Store!Stored, Items!Stored

LEMMA SameTypes == Items!TypeOK => Store!TypeOK
BY DEF Store!TypeOK, Items!TypeOK, Store!Item, Items!Item, Store!Stored, Items!Stored

LEMMA SameInit == Init => Items!Init
BY DEF Init, Store!Init, Items!Init

-----------------------------------------------------------------------------
(* The invariant. *)

\* A fetch of the page's query holds an answer, or none yet.
Held == {Idle, Asked} \cup [state : {"answered"}, answer : Answer]

PageTypes ==
    /\ token \in Emails \cup {Organizer, NoToken}
    /\ authed \in BOOLEAN
    /\ shown \in Shown \cup {None}
    /\ error \in {"none", "401", "404", "other"}
    /\ fetch \in Held
    /\ calls \subseteq Call
    /\ withdrawn \in Requests \cup {0}
    /\ stale \in BOOLEAN

\* The sign-in form has a step when and only when it is shown.
FormStep ==
    /\ step \in {"none", "email", "code"}
    /\ step = "none" <=> ~AsksSignIn

\* A mutation that was let through is the request that carries it out.
Carried(c) ==
    c.req # 0 =>
        /\ op[c.req] = IF c.what = "withdraw" THEN "withdraw" ELSE "amend"
        /\ target[c.req] = c.id
        /\ pc[c.req] \in {"put", "done"}

Withdrawal(i) == \E r \in Requests : op[r] = "withdraw" /\ pc[r] = "done" /\ target[r] = i

\* The page's mutations are requests of the store, and so was what it calls
\* withdrawn.
Linked ==
    /\ \A c \in calls : Carried(c)
    /\ withdrawn # 0 => Withdrawal(withdrawn)

\* A change of this page's own whose response is on its way.
Pending == \E c \in calls : Done(c)

\* A sign-up as the page has it is the one that is stored, but for such changes ...
AsStored(s) == s.item = items[s.id] \/ Pending

\* ... and the one of the guest who is signed in.
Own(s) == token \in Emails => s.item.email = token

Found == fetch.state = "answered" /\ fetch.answer.error = "none"

\* The answer that is about to arrive, and without a fetch the sign-up on show, is
\* up to date while nothing has changed elsewhere.
UpToDate ==
    /\ Found /\ ~stale =>
          authed /\ token # NoToken /\ AsStored(fetch.answer.data) /\ Own(fetch.answer.data)
    /\ fetch = Idle /\ error = "none" /\ shown # None /\ ~stale =>
          Own(shown) /\ (authed => AsStored(shown))

\* A fetch without data has no error yet; a page that takes nobody for signed in
\* has not seen a token stored; and a mutation was sent from a form.
Signed ==
    /\ fetch # Idle /\ shown = None => error = "none"
    /\ ~authed /\ token # NoToken => stale
    /\ calls # {} => shown # None

PageInv == PageTypes /\ FormStep /\ Linked /\ UpToDate /\ Signed

\* The fetch that begins, or is given up, has nothing for the page yet.
LEMMA NothingFound ==
    /\ Idle \in Held /\ Asked \in Held /\ Idle # Asked
    /\ Idle.state # "answered" /\ Asked.state # "answered"
BY DEF Held, Idle, Asked

LEMMA FoundShown ==
    ASSUME PageTypes, fetch.state = "answered"
    PROVE  /\ fetch.answer.error \in {"none", "401", "404"}
           /\ fetch.answer.error = "none" => fetch.answer.data \in Shown
BY NothingFound DEF PageTypes, Held, Answer

\* The form is on the screen only with a sign-up in it, of a guest taken for
\* signed in.
LEMMA FormShows ==
    ASSUME View \in {"form", "withdrawn"}
    PROVE  ~AsksSignIn /\ shown # None
BY DEF View

LEMMA RerenderStep ==
    ASSUME FormStep, Rerender
    PROVE  FormStep'
BY DEF FormStep, Rerender

-----------------------------------------------------------------------------
(* The store's side of a step. *)

LEMMA ManagedBySomeone ==
    ASSUME Items!TypeOK, NEW i \in Requests, items[i] # NoItem, NEW who,
           Store!MayManage(who, items[i])
    PROVE  who \in Emails \cup {Organizer}
BY DEF Items!TypeOK, Items!Item, Store!MayManage

LEMMA BeginSteps ==
    ASSUME Items!TypeOK, calls \subseteq Call, NEW c \in calls, NEW r \in Free, BeginCall(c, r)
    PROVE  Items!Next
<1>1. c.id \in Requests /\ c.system \in Systems /\ r \in Requests
  BY DEF Call, Free
<1>2. CASE Store!Amend(r, c.who, c.id, c.system)
  <2>1. c.who \in Emails \cup {Organizer}
    BY <1>1, <1>2, ManagedBySomeone DEF Store!Amend
  <2> QED
    BY <1>1, <1>2, <2>1, SameAmend DEF Items!Next
<1>3. CASE Store!Withdraw(r, c.who, c.id)
  <2>1. c.who \in Emails \cup {Organizer}
    BY <1>1, <1>3, ManagedBySomeone DEF Store!Withdraw
  <2> QED
    BY <1>1, <1>3, <2>1, SameWithdraw DEF Items!Next
<1> QED
  BY <1>2, <1>3 DEF BeginCall

LEMMA ElsewhereSteps ==
    ASSUME Elsewhere
    PROVE  Items!Next
<1>1. Free \subseteq Requests
  BY DEF Free
<1> QED
  BY <1>1, SameSubmit, SameAmend, SameWithdraw, SameRest DEF Elsewhere, Items!Next

\* The disjuncts of Next, one by one.
LEMMA NextCases ==
    ASSUME Next
    PROVE  \/ Elsewhere
           \/ \E c \in calls, r \in Free : BeginCall(c, r)
           \/ ServeQuery \/ Focus \/ RequestCode \/ ComeBack \/ Reload
           \/ \E e \in Emails : SignIn(e)
           \/ \E what \in {"save", "withdraw"}, s \in Systems : Click(what, s)
           \/ Receive \/ FetchFails
           \/ \E c \in calls : RefuseCall(c) \/ Settle(c) \/ LoseResponse(c)
           \/ Expire
           \/ \E new \in Emails \cup {Organizer, NoToken} : ReplaceToken(new)
BY DEF Next, Server, Guest, Network, OtherTab, GuestSignsIn, OrganizerSignsIn, SignOut

LEMMA StoreSteps ==
    ASSUME Items!TypeOK, calls \subseteq Call, [Next]_vars
    PROVE  [Items!Next]_Items!vars
<1>1. CASE UNCHANGED store
  BY <1>1 DEF store, Items!vars
<1>2. CASE Elsewhere
  BY <1>2, ElsewhereSteps
<1>3. ASSUME NEW c \in calls, NEW r \in Free, BeginCall(c, r) PROVE Items!Next
  BY <1>3, BeginSteps
<1>4. \/ UNCHANGED store
      \/ Elsewhere
      \/ \E c \in calls, r \in Free : BeginCall(c, r)
  BY NextCases DEF vars, ServeQuery, Focus, RequestCode, ComeBack, Reload, Mount, SignIn, Click,
     Receive, FetchFails, RefuseCall, Settle, LoseResponse, Expire, ReplaceToken
<1> QED
  BY <1>1, <1>2, <1>3, <1>4

\* What the page has under way, or has withdrawn, goes on in the store.
LEMMA LinksGoOn ==
    ASSUME Items!ItemsInv, PageInv, [Next]_vars
    PROVE  /\ \A c \in calls : Carried(c)'
           /\ \A c \in calls : Done(c) => Done(c)'
           /\ \A i : Withdrawal(i) => Withdrawal(i)'
<1>1. [Items!Next]_Items!vars
  BY StoreSteps DEF PageInv, PageTypes, Items!ItemsInv
<1>2. \A r \in Requests : pc[r] \in {"put", "done"} =>
          pc'[r] \in {pc[r], "done"} /\ op'[r] = op[r] /\ target'[r] = target[r]
  BY <1>1, StoreAssumptions, Items!TargetStays
<1>3. \A c \in calls : c.req # 0 => c.req \in Requests
  BY DEF PageInv, PageTypes, Call
<1>4. \A c \in calls : Carried(c)'
  BY <1>2, <1>3 DEF PageInv, Linked, Carried
<1>5. \A c \in calls : Done(c) => Done(c)'
  BY <1>2, <1>3 DEF Done
<1>6. \A i : Withdrawal(i) => Withdrawal(i)'
  BY <1>2 DEF Withdrawal
<1> QED
  BY <1>4, <1>5, <1>6

-----------------------------------------------------------------------------
(* PageInv is inductive. *)

\* A fetch that begins will show the page what is stored then.
LEMMA StartKeeps ==
    ASSUME PageInv, StartFetch, UNCHANGED shown
    PROVE  /\ fetch' \in Held
           /\ error' \in {"none", "401", "404", "other"}
           /\ stale' \in BOOLEAN
           /\ UpToDate'
           /\ fetch' # Idle /\ shown' = None => error' = "none"
BY NothingFound DEF PageInv, PageTypes, StartFetch, UpToDate, Found

LEMMA FocusKeeps ==
    ASSUME PageInv, [Next]_vars, Items!ItemsInv, Focus
    PROVE  PageInv'
<1> USE DEF PageInv
<1>1. StartFetch /\ authed /\ UNCHANGED <<store, token, shown, authed, calls, withdrawn>>
  BY DEF Focus
<1>2. /\ fetch' \in Held
      /\ error' \in {"none", "401", "404", "other"}
      /\ stale' \in BOOLEAN
      /\ UpToDate'
      /\ fetch' # Idle /\ shown' = None => error' = "none"
  BY <1>1, StartKeeps
<1>3. PageTypes' /\ Signed'
  BY <1>1, <1>2 DEF PageTypes, Signed
<1>4. Linked'
  BY <1>1, LinksGoOn DEF Linked
<1>5. FormStep'
  BY RerenderStep DEF Focus
<1> QED
  BY <1>2, <1>3, <1>4, <1>5

\* my-signup answers with the index's copy of the sign-up of the guest whose token
\* is stored.
LEMMA MySignupAnswers ==
    ASSUME Items!ItemsInv
    PROVE  /\ MySignup \in Answer
           /\ MySignup.error = "none" =>
                 /\ token \in Emails
                 /\ MySignup.data \in Shown
                 /\ MySignup.data.item.email = token
<1> DEFINE i == Store!FindByEmail(index, token, 0)
<1>1. i # 0 => i \in Requests /\ index[i] \in Store!Item /\ index[i].email = token
  <2>1. \A j \in Requests : index[j] # NoItem => index[j] \in Items!Item
    BY DEF Items!ItemsInv, Items!TypeOK
  <2>2. LET found == {j \in Requests : index[j] # NoItem /\ index[j].email = token}
        IN  IF found = {} THEN Items!FindByEmail(index, token, 0) = 0
            ELSE Items!FindByEmail(index, token, 0) \in found
    BY StoreAssumptions, Items!FindsOwn
  <2>3. i = Items!FindByEmail(index, token, 0)
    BY SameFind
  <2> QED
    BY <2>1, <2>2, <2>3, SameItem
<1> HIDE DEF i
<1>2. CASE token \in Emails /\ i # 0
  <2>1. MySignup = [error |-> "none", data |-> [id |-> i, item |-> index[i]]]
    BY <1>2 DEF MySignup, IsGuest, i
  <2> QED
    BY <1>1, <1>2, <2>1 DEF Answer, Shown
<1>3. CASE ~(token \in Emails /\ i # 0)
  <2>1. MySignup \in [error : {"401", "404"}, data : {None}]
    BY <1>3 DEF MySignup, IsGuest, i
  <2> QED
    BY <2>1 DEF Answer
<1> QED
  BY <1>2, <1>3

LEMMA ServeQueryKeeps ==
    ASSUME PageInv, [Next]_vars, Items!ItemsInv, ServeQuery
    PROVE  PageInv'
<1> USE DEF PageInv
<1> DEFINE a == MySignup
<1>1. /\ fetch = Asked /\ fetch' = [state |-> "answered", answer |-> a]
      /\ stale' = (stale \/ Outdated(a))
      /\ UNCHANGED <<store, token, shown, error, authed, step, calls, withdrawn>>
  BY DEF ServeQuery, page
<1>2. /\ a \in Answer
      /\ a.error = "none" =>
            /\ token \in Emails
            /\ a.data \in Shown
            /\ a.data.item.email = token
  BY MySignupAnswers
<1> HIDE DEF a
<1>3. fetch' \in Held /\ fetch' # Idle /\ fetch'.answer = a
  BY <1>1, <1>2 DEF Held, Idle
<1>4. PageTypes' /\ Signed' /\ FormStep'
  BY <1>1, <1>3, NothingFound DEF PageTypes, Signed, FormStep, AsksSignIn, Outdated
<1>5. Linked'
  BY <1>1, LinksGoOn DEF Linked
<1>6. UpToDate'
  <2> SUFFICES ASSUME a.error = "none", ~stale'
               PROVE  /\ authed /\ token # NoToken
                      /\ AsStored(fetch.answer.data)' /\ Own(fetch.answer.data)'
    BY <1>1, <1>3 DEF UpToDate, Found
  <2>1. token # NoToken
    BY <1>2, ManageAssumption
  <2>2. a.data.item = items[a.data.id]
    BY <1>1, <1>2, NoneAssumption DEF Outdated
  <2>3. AsStored(fetch.answer.data)' /\ Own(fetch.answer.data)'
    BY <1>1, <1>2, <1>3, <2>2 DEF AsStored, Own, store
  <2>4. ~stale
    BY <1>1
  <2>5. authed
    BY <2>1, <2>4 DEF Signed
  <2> QED
    BY <2>1, <2>3, <2>5
<1> QED
  BY <1>4, <1>5, <1>6

LEMMA ReceiveKeeps ==
    ASSUME PageInv, [Next]_vars, Items!ItemsInv, Receive
    PROVE  PageInv'
<1> USE DEF PageInv
<1>1. /\ fetch.state = "answered" /\ fetch' = Idle
      /\ error' = fetch.answer.error
      /\ shown' = IF error' = "none" THEN fetch.answer.data ELSE shown
      /\ UNCHANGED <<store, token, authed, calls, withdrawn, stale>>
  BY DEF Receive
<1>2. /\ fetch.answer.error \in {"none", "401", "404"}
      /\ fetch.answer.error = "none" => fetch.answer.data \in Shown
  BY <1>1, FoundShown
<1>3. PageTypes'
  BY <1>1, <1>2, NothingFound DEF PageTypes
<1>4. Signed'
  BY <1>1, <1>2, NoneAssumption DEF Signed
<1>5. Linked'
  BY <1>1, LinksGoOn DEF Linked
<1>6. UpToDate'
  <2> SUFFICES ASSUME error' = "none", ~stale
               PROVE  Own(shown)' /\ AsStored(shown)'
    BY <1>1, NothingFound DEF UpToDate, Found
  <2>1. shown' = fetch.answer.data /\ AsStored(fetch.answer.data) /\ Own(fetch.answer.data)
    BY <1>1 DEF UpToDate, Found
  <2>2. Pending => Pending'
    BY <1>1, LinksGoOn DEF Pending
  <2> QED
    BY <1>1, <2>1, <2>2 DEF AsStored, Own, store
<1>7. FormStep'
  BY RerenderStep DEF Receive
<1> QED
  BY <1>3, <1>4, <1>5, <1>6, <1>7

LEMMA FetchFailsKeeps ==
    ASSUME PageInv, [Next]_vars, Items!ItemsInv, FetchFails
    PROVE  PageInv'
<1> USE DEF PageInv
<1>1. /\ fetch' = Idle /\ error' = "other" /\ stale' = TRUE
      /\ UNCHANGED <<store, token, shown, authed, calls, withdrawn>>
  BY DEF FetchFails
<1>2. PageTypes' /\ Signed' /\ UpToDate'
  BY <1>1, NothingFound DEF PageTypes, Signed, UpToDate
<1>3. Linked'
  BY <1>1, LinksGoOn DEF Linked
<1>4. FormStep'
  BY RerenderStep DEF FetchFails
<1> QED
  BY <1>2, <1>3, <1>4

LEMMA RequestCodeKeeps ==
    ASSUME PageInv, [Next]_vars, Items!ItemsInv, RequestCode
    PROVE  PageInv'
<1> USE DEF PageInv, RequestCode, query
<1>1. PageTypes' /\ Signed' /\ FormStep'
  BY DEF PageTypes, Signed, FormStep, AsksSignIn
<1>2. Linked'
  BY LinksGoOn DEF Linked
<1>3. UpToDate'
  BY DEF UpToDate, Found, AsStored, Own, Pending, Done, store
<1> QED
  BY <1>1, <1>2, <1>3

\* Whoever signs in is taken for the owner of nothing that was asked for before.
LEMMA SignInKeeps ==
    ASSUME PageInv, [Next]_vars, Items!ItemsInv, NEW e \in Emails, SignIn(e)
    PROVE  PageInv'
<1> USE DEF PageInv
<1>1. /\ step = "code" /\ token' = e /\ authed' = TRUE
      /\ UNCHANGED <<store, shown, calls, withdrawn>>
  BY DEF SignIn
<1>2. Linked' /\ FormStep'
  BY <1>1, LinksGoOn, RerenderStep DEF Linked, SignIn
<1>3. CASE StartFetch
  <2>1. /\ fetch' \in Held
        /\ error' \in {"none", "401", "404", "other"}
        /\ stale' \in BOOLEAN
        /\ UpToDate'
        /\ fetch' # Idle /\ shown' = None => error' = "none"
    BY <1>1, <1>3, StartKeeps
  <2>2. PageTypes' /\ Signed'
    BY <1>1, <2>1 DEF PageTypes, Signed
  <2> QED
    BY <1>2, <2>1, <2>2
<1>4. CASE fetch # Idle /\ UNCHANGED <<fetch, error, stale>> /\ (~authed \/ shown = None)
  <2>1. PageTypes' /\ Signed'
    BY <1>1, <1>4 DEF PageTypes, Signed
  <2>2. ~authed \/ error = "401"
    BY <1>1 DEF FormStep, AsksSignIn
  <2>3. Found => stale
    BY <1>4, <2>2 DEF UpToDate, Signed
  <2>4. UpToDate'
    BY <1>4, <2>3 DEF UpToDate, Found
  <2> QED
    BY <1>2, <2>1, <2>4
<1> QED
  BY <1>3, <1>4 DEF SignIn, Invalidate

LEMMA ClickKeeps ==
    ASSUME PageInv, [Next]_vars, Items!ItemsInv,
           NEW what \in {"save", "withdraw"}, NEW s \in Systems, Click(what, s)
    PROVE  PageInv'
<1> USE DEF PageInv
<1> DEFINE c == [what |-> what, id |-> shown.id, who |-> token,
                 system |-> s, here |-> TRUE, req |-> 0]
<1>1. /\ calls' = calls \cup {c}
      /\ UNCHANGED <<store, token, shown, error, fetch, authed, step, withdrawn, stale>>
  BY DEF Click, query
<1>2. shown # None
  BY FormShows DEF Click
<1>3. c \in Call /\ c.req = 0
  BY <1>2 DEF Call, PageTypes, Shown
<1> HIDE DEF c
<1>4. PageTypes' /\ Signed' /\ FormStep'
  BY <1>1, <1>2, <1>3 DEF PageTypes, Signed, FormStep, AsksSignIn
<1>5. Linked'
  BY <1>1, <1>3, LinksGoOn DEF Linked, Carried
<1>6. Pending => Pending'
  BY <1>1, LinksGoOn DEF Pending
<1>7. UpToDate'
  BY <1>1, <1>6 DEF UpToDate, Found, AsStored, Own, store
<1> QED
  BY <1>4, <1>5, <1>7

\* A mutation that is let through has not changed anything yet.
LEMMA BeginCallKeeps ==
    ASSUME PageInv, [Next]_vars, Items!ItemsInv, NEW c \in calls, NEW r \in Free, BeginCall(c, r)
    PROVE  PageInv'
<1> USE DEF PageInv
<1> DEFINE d == [c EXCEPT !.req = r]
<1>1. /\ c.req = 0 /\ calls' = (calls \ {c}) \cup {d}
      /\ UNCHANGED <<token, shown, error, fetch, authed, step, withdrawn, stale>>
  BY DEF BeginCall, query
<1>2. /\ d \in Call /\ d.req = r /\ d.what = c.what /\ d.id = c.id /\ r \in Requests
      /\ c.what \in {"save", "withdraw"} /\ c.id \in Requests
  BY DEF PageTypes, Call, Free
<1>3. /\ op'[r] = IF c.what = "withdraw" THEN "withdraw" ELSE "amend"
      /\ target'[r] = c.id /\ pc'[r] = "put" /\ items' = items
  BY <1>2 DEF BeginCall, Store!Amend, Store!Withdraw, Store!Begin, Items!ItemsInv, Items!TypeOK
<1> HIDE DEF d
<1>4. PageTypes' /\ Signed' /\ FormStep'
  BY <1>1, <1>2 DEF PageTypes, Signed, FormStep, AsksSignIn
<1>5. Carried(d)'
  BY <1>2, <1>3 DEF Carried
<1>6. Linked'
  BY <1>1, <1>5, LinksGoOn DEF Linked
<1>7. Pending => Pending'
  <2> SUFFICES ASSUME NEW b \in calls, Done(b) PROVE Pending'
    BY DEF Pending
  <2>1. b # c /\ Done(b)'
    BY <1>1, LinksGoOn DEF Done
  <2> QED
    BY <1>1, <2>1 DEF Pending
<1>8. UpToDate'
  BY <1>1, <1>3, <1>7 DEF UpToDate, Found, AsStored, Own
<1> QED
  BY <1>4, <1>6, <1>8

LEMMA RefuseCallKeeps ==
    ASSUME PageInv, [Next]_vars, Items!ItemsInv, NEW c \in calls, RefuseCall(c)
    PROVE  PageInv'
<1> USE DEF PageInv
<1>1. /\ c.req = 0 /\ calls' = calls \ {c}
      /\ UNCHANGED <<store, token, shown, error, fetch, authed, step, withdrawn, stale>>
  BY DEF RefuseCall, query
<1>2. PageTypes' /\ Signed' /\ FormStep'
  BY <1>1 DEF PageTypes, Signed, FormStep, AsksSignIn
<1>3. Linked'
  BY <1>1, LinksGoOn DEF Linked
<1>4. Pending => Pending'
  <2> SUFFICES ASSUME NEW b \in calls, Done(b) PROVE Pending'
    BY DEF Pending
  <2>1. b # c /\ Done(b)'
    BY <1>1, LinksGoOn DEF Done
  <2> QED
    BY <1>1, <2>1 DEF Pending
<1>5. UpToDate'
  BY <1>1, <1>4 DEF UpToDate, Found, AsStored, Own, store
<1> QED
  BY <1>2, <1>3, <1>5

\* The response to a mutation has the sign-up fetched again, unless the page has
\* no use for it.
LEMMA SettleKeeps ==
    ASSUME PageInv, [Next]_vars, Items!ItemsInv, NEW c \in calls, Settle(c)
    PROVE  PageInv'
<1> USE DEF PageInv
<1>1. /\ Done(c) /\ calls' = calls \ {c} /\ Invalidate
      /\ withdrawn' = IF c.here /\ c.what = "withdraw" THEN c.id ELSE withdrawn
      /\ UNCHANGED <<store, token, shown, authed>>
  BY DEF Settle
<1>2. shown # None /\ c \in Call
  BY DEF Signed, PageTypes
<1>3. Linked'
  <2>1. c.what = "withdraw" => Withdrawal(c.id)
    BY <1>1, <1>2 DEF Linked, Carried, Done, Withdrawal, Call
  <2>2. withdrawn' # 0 => Withdrawal(withdrawn')
    BY <1>1, <2>1 DEF Linked
  <2>3. \A i : Withdrawal(i) => Withdrawal(i)'
    BY LinksGoOn
  <2>4. (withdrawn # 0 => Withdrawal(withdrawn))'
    BY <2>2, <2>3
  <2> QED
    BY <1>1, <2>4, LinksGoOn DEF Linked
<1>4. withdrawn' \in Requests \cup {0}
  BY <1>1, <1>2 DEF PageTypes, Call
<1>5. FormStep'
  BY RerenderStep DEF Settle
<1>6. CASE StartFetch
  <2>1. /\ fetch' \in Held
        /\ error' \in {"none", "401", "404", "other"}
        /\ stale' \in BOOLEAN
        /\ UpToDate'
        /\ fetch' # Idle /\ shown' = None => error' = "none"
    BY <1>1, <1>6, StartKeeps
  <2>2. PageTypes' /\ Signed'
    BY <1>1, <1>4, <2>1, <1>6 DEF PageTypes, Signed, StartFetch, Invalidate
  <2> QED
    BY <1>3, <1>5, <2>1, <2>2
<1>7. CASE ~authed /\ UNCHANGED <<fetch, error, stale>>
  <2>1. PageTypes' /\ Signed'
    BY <1>1, <1>4, <1>7 DEF PageTypes, Signed
  <2>2. UpToDate'
    BY <1>1, <1>7 DEF UpToDate, Found, Own
  <2> QED
    BY <1>3, <1>5, <2>1, <2>2
<1> QED
  BY <1>1, <1>2, <1>6, <1>7 DEF Invalidate

LEMMA LoseResponseKeeps ==
    ASSUME PageInv, [Next]_vars, Items!ItemsInv, NEW c \in calls, LoseResponse(c)
    PROVE  PageInv'
<1> USE DEF PageInv
<1>1. /\ calls' = calls \ {c} /\ stale' = TRUE
      /\ UNCHANGED <<store, token, shown, error, fetch, authed, step, withdrawn>>
  BY DEF LoseResponse, query
<1>2. PageTypes' /\ Signed' /\ FormStep' /\ UpToDate'
  BY <1>1 DEF PageTypes, Signed, FormStep, AsksSignIn, UpToDate
<1>3. Linked'
  BY <1>1, LinksGoOn DEF Linked
<1> QED
  BY <1>2, <1>3

LEMMA TokenKeeps ==
    ASSUME PageInv, [Next]_vars, Items!ItemsInv,
           Expire \/ \E new \in Emails \cup {Organizer, NoToken} : ReplaceToken(new)
    PROVE  PageInv'
<1> USE DEF PageInv, query, page
<1>1. UNCHANGED <<store, shown, error, fetch, authed, step, calls, withdrawn>>
  BY DEF Expire, ReplaceToken
<1>2. Linked' /\ FormStep'
  BY <1>1, LinksGoOn DEF Linked, FormStep, AsksSignIn
<1>3. CASE Expire
  <2>1. token \in Emails /\ token' = Organizer /\ UNCHANGED stale
    BY <1>3 DEF Expire
  <2>2. token # NoToken /\ token' # NoToken /\ token' \notin Emails
    BY <2>1, ManageAssumption
  <2>3. PageTypes' /\ Signed'
    BY <1>1, <2>1, <2>2 DEF PageTypes, Signed
  <2>4. Pending => Pending'
    BY <1>1, LinksGoOn DEF Pending
  <2>5. UpToDate'
    BY <1>1, <2>1, <2>2, <2>4 DEF UpToDate, Found, AsStored, Own, store
  <2> QED
    BY <1>2, <2>3, <2>5
<1>4. CASE \E new \in Emails \cup {Organizer, NoToken} : ReplaceToken(new)
  <2>1. token' \in Emails \cup {Organizer, NoToken} /\ stale' = TRUE
    BY <1>4 DEF ReplaceToken
  <2>2. PageTypes' /\ Signed' /\ UpToDate'
    BY <1>1, <2>1 DEF PageTypes, Signed, UpToDate
  <2> QED
    BY <1>2, <2>2
<1> QED
  BY <1>3, <1>4

\* A page that is mounted knows the browser's token.
LEMMA MountStarts ==
    ASSUME PageInv, [Next]_vars, Items!ItemsInv,
           NEW data \in Shown \cup {None}, NEW err \in {"none", "401", "404", "other"},
           NEW running \in Held, Mount(data, err, running),
           running # Idle /\ data = None => err = "none"
    PROVE  /\ calls' \subseteq Call => PageTypes'
           /\ FormStep'
           /\ shown' = data /\ withdrawn' = 0 /\ UNCHANGED <<store, token>>
           /\ fetch' # Idle /\ shown' = None => error' = "none"
           /\ ~(~authed' /\ token' # NoToken)
           /\ \/ fetch' = Asked
              \/ fetch' = running /\ error' = err /\ UNCHANGED stale
<1> USE DEF PageInv, Mount
<1>1. /\ authed' = (token # NoToken) /\ shown' = data /\ withdrawn' = 0
      /\ UNCHANGED <<store, token>>
  OBVIOUS
<1>2. \/ fetch' = Asked /\ error' = (IF data = None THEN "none" ELSE err) /\ stale' = FALSE
      \/ fetch' = running /\ error' = err /\ UNCHANGED stale
  OBVIOUS
<1>3. calls' \subseteq Call => PageTypes'
  BY <1>1, <1>2, NothingFound DEF PageTypes
<1>4. FormStep'
  BY DEF FormStep
<1> QED
  BY <1>1, <1>2, <1>3, <1>4

LEMMA ComeBackKeeps ==
    ASSUME PageInv, [Next]_vars, Items!ItemsInv, ComeBack
    PROVE  PageInv'
<1> USE DEF PageInv
<1>1. Mount(shown, error, fetch) /\ calls' = {[c EXCEPT !.here = FALSE] : c \in calls}
  BY DEF ComeBack
<1>2. /\ shown \in Shown \cup {None} /\ error \in {"none", "401", "404", "other"}
      /\ fetch \in Held /\ (fetch # Idle /\ shown = None => error = "none")
  BY DEF PageTypes, Signed
<1>3. /\ calls' \subseteq Call => PageTypes'
      /\ FormStep'
      /\ shown' = shown /\ withdrawn' = 0 /\ UNCHANGED <<store, token>>
      /\ fetch' # Idle /\ shown' = None => error' = "none"
      /\ ~(~authed' /\ token' # NoToken)
      /\ \/ fetch' = Asked
         \/ fetch' = fetch /\ error' = error /\ UNCHANGED stale
  BY <1>1, <1>2, MountStarts
<1>4. \A c \in calls : [c EXCEPT !.here = FALSE] \in
          {d \in Call : d.what = c.what /\ d.id = c.id /\ d.req = c.req}
  BY DEF PageTypes, Call
<1>5. PageTypes' /\ Signed'
  BY <1>1, <1>3, <1>4 DEF Signed
<1>6. Linked'
  <2> SUFFICES ASSUME NEW d \in calls' PROVE Carried(d)'
    BY <1>3 DEF Linked
  <2>1. PICK c \in calls : d.what = c.what /\ d.id = c.id /\ d.req = c.req
    BY <1>1, <1>4
  <2> QED
    BY <2>1, LinksGoOn DEF Carried
<1>7. Pending => Pending'
  <2> SUFFICES ASSUME NEW c \in calls, Done(c) PROVE Pending'
    BY DEF Pending
  <2>1. [c EXCEPT !.here = FALSE] \in calls' /\ [c EXCEPT !.here = FALSE].req = c.req
    BY <1>1, <1>4
  <2> QED
    BY <1>3, <2>1 DEF Pending, Done, store
<1>8. UpToDate'
  <2>1. CASE fetch' = Asked
    BY <2>1, NothingFound DEF UpToDate, Found
  <2>2. CASE fetch' = fetch /\ error' = error /\ UNCHANGED stale
    <3>1. (Found /\ ~stale => AsStored(fetch.answer.data) /\ Own(fetch.answer.data))'
      BY <1>3, <1>7, <2>2 DEF UpToDate, Found, AsStored, Own, store
    <3>2. (Found /\ ~stale => authed /\ token # NoToken)'
      BY <1>3, <2>2 DEF UpToDate, Found
    <3>3. fetch' = Idle => ~authed'
      BY <1>1, <2>2, NothingFound DEF Mount
    <3>4. (fetch = Idle /\ error = "none" /\ shown # None /\ ~stale => Own(shown))'
      BY <1>3, <2>2 DEF UpToDate, Own
    <3> QED
      BY <3>1, <3>2, <3>3, <3>4 DEF UpToDate
  <2> QED
    BY <1>3, <2>1, <2>2
<1> QED
  BY <1>3, <1>5, <1>6, <1>8

LEMMA ReloadKeeps ==
    ASSUME PageInv, [Next]_vars, Items!ItemsInv, Reload
    PROVE  PageInv'
<1>1. Mount(None, "none", Idle) /\ calls' = {}
  BY DEF Reload
<1>2. /\ calls' \subseteq Call => PageTypes'
      /\ FormStep'
      /\ shown' = None /\ withdrawn' = 0 /\ UNCHANGED <<store, token>>
      /\ fetch' # Idle /\ shown' = None => error' = "none"
      /\ ~(~authed' /\ token' # NoToken)
      /\ \/ fetch' = Asked
         \/ fetch' = Idle /\ error' = "none" /\ UNCHANGED stale
  BY <1>1, NothingFound, MountStarts
<1>3. PageTypes' /\ Signed' /\ Linked'
  BY <1>1, <1>2 DEF Signed, Linked
<1>4. UpToDate'
  BY <1>2, NothingFound DEF UpToDate, Found
<1> QED
  BY <1>2, <1>3, <1>4 DEF PageInv

\* What changes in the store behind the page's back is stale; what the page has
\* changed itself is pending.
LEMMA ElsewhereKeeps ==
    ASSUME PageInv, [Next]_vars, Items!ItemsInv, Elsewhere
    PROVE  PageInv'
<1> USE DEF PageInv
<1>1. /\ UNCHANGED <<token, shown, error, fetch, authed, step, calls, withdrawn>>
      /\ stale' = (stale \/ \E r \in Requests \ {c.req : c \in calls} : pc[r] = "put" /\ pc'[r] = "done")
  BY DEF Elsewhere, query, page
<1>2. PageTypes' /\ Signed' /\ FormStep'
  BY <1>1 DEF PageTypes, Signed, FormStep, AsksSignIn
<1>3. Linked'
  BY <1>1, LinksGoOn DEF Linked
<1>4. Pending => Pending'
  BY <1>1, LinksGoOn DEF Pending
<1>5. items' = items \/ Pending' \/ stale'
  <2>1. [Items!Next]_Items!vars
    BY ElsewhereSteps
  <2>2. CASE \E r \in Requests : Items!PutSignup(r)
    <3>1. PICK r \in Requests : pc[r] = "put" /\ pc'[r] = "done"
      BY <2>2 DEF Items!PutSignup, Items!ItemsInv, Items!TypeOK
    <3>2. CASE \E c \in calls : c.req = r
      <4>1. r # 0
        BY ManageAssumption
      <4> QED
        BY <1>1, <3>1, <3>2, <4>1 DEF Pending, Done
    <3>3. CASE ~\E c \in calls : c.req = r
      <4>1. r \in Requests \ {c.req : c \in calls}
        BY <3>3
      <4> QED
        BY <1>1, <3>1, <4>1
    <3> QED
      BY <3>2, <3>3
  <2> QED
    BY <2>1, <2>2, StoreAssumptions, Items!OnlyPutsWrite
<1>6. UpToDate'
  <2>1. ~stale' => ~stale /\ (items' = items \/ Pending')
    BY <1>1, <1>5
  <2> QED
    BY <1>1, <1>4, <2>1 DEF UpToDate, Found, AsStored, Own
<1> QED
  BY <1>2, <1>3, <1>6

LEMMA PageNext == Items!ItemsInv /\ PageInv /\ [Next]_vars => PageInv'
<1> SUFFICES ASSUME Items!ItemsInv, PageInv, [Next]_vars PROVE PageInv'
  OBVIOUS
<1>1. CASE UNCHANGED vars
  BY <1>1 DEF vars, store, query, page, PageInv, PageTypes, FormStep, AsksSignIn, Linked, Carried,
     Withdrawal, UpToDate, Found, AsStored, Own, Pending, Done, Signed
<1>2. CASE Next
  BY <1>2, NextCases, FocusKeeps, ServeQueryKeeps, ReceiveKeeps, FetchFailsKeeps, RequestCodeKeeps,
     SignInKeeps, ClickKeeps, BeginCallKeeps, RefuseCallKeeps, SettleKeeps, LoseResponseKeeps,
     TokenKeeps, ComeBackKeeps, ReloadKeeps, ElsewhereKeeps
<1> QED
  BY <1>1, <1>2

ManageInv == Items!ItemsInv /\ PageInv

LEMMA ManageAlways == Spec => []ManageInv
<1>1. Init => ManageInv
  <2> SUFFICES ASSUME Init PROVE ManageInv
    OBVIOUS
  <2>1. Items!ItemsInv
    BY SameInit, StoreAssumptions, Items!ItemsInit
  <2>2. /\ token = NoToken /\ authed = FALSE /\ shown = None /\ error = "none" /\ fetch = Idle
        /\ step = "email" /\ calls = {} /\ withdrawn = 0 /\ stale = FALSE
    BY DEF Init
  <2>3. PageTypes /\ FormStep
    BY <2>2, NothingFound DEF PageTypes, FormStep, AsksSignIn
  <2>4. Linked /\ UpToDate /\ Signed
    BY <2>2, NothingFound DEF Linked, UpToDate, Found, Signed
  <2> QED
    BY <2>1, <2>3, <2>4 DEF ManageInv, PageInv
<1>2. ManageInv /\ [Next]_vars => ManageInv'
  <2> SUFFICES ASSUME ManageInv, [Next]_vars PROVE ManageInv'
    OBVIOUS
  <2>1. [Items!Next]_Items!vars
    BY StoreSteps DEF ManageInv, PageInv, PageTypes, Items!ItemsInv
  <2>2. Items!ItemsInv'
    BY <2>1, StoreAssumptions, Items!ItemsNext DEF ManageInv
  <2> QED
    BY <2>2, PageNext DEF ManageInv
<1> QED
  BY <1>1, <1>2, PTL DEF Spec

\* The page asks the store for nothing but what SignupItems lets its clients do:
\* no call is carried out with a missing token, or for somebody who may not.
THEOREM PageUsesTheStore == Spec => Store!Spec
<1>1. Init => Store!Init
  BY DEF Init
<1>2. ManageInv /\ [Next]_vars => [Store!Next]_Store!vars
  <2> SUFFICES ASSUME ManageInv, [Next]_vars PROVE [Store!Next]_Store!vars
    OBVIOUS
  <2>1. [Items!Next]_Items!vars
    BY StoreSteps DEF ManageInv, PageInv, PageTypes, Items!ItemsInv
  <2> QED
    BY <2>1, SameNext DEF Items!vars, Store!vars
<1> QED
  BY <1>1, <1>2, ManageAlways, PTL DEF Spec, Store!Spec

\* The page's state keeps its shape, and the sign-in form is shown when and only
\* when the page asks for it (TypeOK).
THEOREM ManageTypeCorrect == Spec => []TypeOK
<1>1. ManageInv => TypeOK
  <2> SUFFICES ASSUME ManageInv PROVE TypeOK
    OBVIOUS
  <2>1. Store!TypeOK
    BY SameTypes DEF ManageInv, Items!ItemsInv
  <2>2. fetch \in {Idle, Asked} \/ (fetch.state = "answered" /\ fetch.answer \in Answer)
    BY DEF ManageInv, PageInv, PageTypes, Held
  <2>3. (step = "none") = ~AsksSignIn
    BY DEF ManageInv, PageInv, FormStep, AsksSignIn
  <2> QED
    BY <2>1, <2>2, <2>3 DEF ManageInv, PageInv, PageTypes, FormStep, TypeOK
<1> QED
  BY <1>1, ManageAlways, PTL

\* A ManageSignupPage with nothing under way shows the stored sign-up, and that of
\* the guest who is signed in, unless something was changed elsewhere since it last
\* began to fetch, or the index lagged when it was answered: neither a token that is
\* replaced nor an answer that arrives late makes it show another guest's.
THEOREM SettledPageShowsOwn == Spec => []SettledShowsOwn
<1>1. ManageInv => SettledShowsOwn
  <2> SUFFICES ASSUME ManageInv, View \in {"form", "withdrawn"}, fetch = Idle, calls = {},
                      error = "none", ~stale
               PROVE  /\ shown.item = items[shown.id]
                      /\ token \in Emails => shown.item.email = token
    BY DEF SettledShowsOwn
  <2>1. authed /\ shown # None
    BY FormShows DEF AsksSignIn
  <2>2. ~Pending
    BY DEF Pending
  <2> QED
    BY <2>1, <2>2 DEF ManageInv, PageInv, UpToDate, AsStored, Own
<1> QED
  BY <1>1, ManageAlways, PTL

\* Once a page has said that a sign-up is withdrawn it stays withdrawn, whatever
\* else this page or another client has sent, unless requests overlap or the player
\* signs up again.
THEOREM WithdrawnStaysCancelled == Spec => []WithdrawnIsCancelled
<1>1. ManageInv /\ Items!WithdrawalsHold => WithdrawnIsCancelled
  BY DEF ManageInv, PageInv, Linked, Withdrawal, Items!WithdrawalsHold, Items!WithdrawalHolds,
     Items!Resubmitted, Resubmitted, WithdrawnIsCancelled
<1>2. Init => Items!Init
  BY SameInit
<1>3. ManageInv /\ [Next]_vars => [Items!Next]_Items!vars
  BY StoreSteps DEF ManageInv, PageInv, PageTypes, Items!ItemsInv
<1>4. Items!Spec => []Items!WithdrawalsHold
  BY StoreAssumptions, Items!WithdrawalsStand
<1> QED
  BY <1>1, <1>2, <1>3, <1>4, ManageAlways, PTL DEF Spec, Items!Spec

\* While a sign-up is cached, only signing in, leaving the page, or an answer other
\* than 401 takes the form away in which a guest enters the code they were sent.
THEOREM CodeFormStays == Spec => CodeStepStands
<1>1. ManageInv /\ [Next]_vars =>
          [(step = "code" /\ step' # "code" /\ shown # None) =>
              \/ \E e \in Emails : SignIn(e)
              \/ ComeBack \/ Reload
              \/ Receive /\ error' # "401"
              \/ FetchFails]_vars
  <2> SUFFICES ASSUME ManageInv, Next, step = "code", step' # "code", shown # None
               PROVE  \/ \E e \in Emails : SignIn(e)
                      \/ ComeBack \/ Reload
                      \/ Receive /\ error' # "401"
                      \/ FetchFails
    OBVIOUS
  <2>1. ~authed \/ error = "401"
    BY DEF ManageInv, PageInv, FormStep, AsksSignIn
  <2>2. StartFetch => error' = error
    BY DEF StartFetch
  <2>3. ~Focus
    BY <2>1, <2>2 DEF Focus, Rerender, AsksSignIn
  <2>4. ~\E c \in calls : Settle(c)
    BY <2>1, <2>2 DEF Settle, Invalidate, Rerender, AsksSignIn
  <2>5. ~(Receive /\ error' = "401")
    BY DEF Receive, Rerender, AsksSignIn
  <2>6. \/ \E e \in Emails : SignIn(e)
        \/ ComeBack \/ Reload \/ Receive \/ FetchFails \/ Focus
        \/ \E c \in calls : Settle(c)
        \/ step' = step
        \/ RequestCode
    BY NextCases DEF Elsewhere, BeginCall, ServeQuery, Click, RefuseCall, LoseResponse, Expire,
       ReplaceToken, page
  <2>7. ~RequestCode
    BY DEF RequestCode
  <2> QED
    BY <2>3, <2>4, <2>5, <2>6, <2>7
<1> QED
  BY <1>1, ManageAlways, PTL DEF Spec, CodeStepStands
=============================================================================
