------------------------- MODULE SignupItems_proofs -------------------------
(***************************************************************************)
(* Theorems about SignupItems, for any number of emails, systems and       *)
(* requests, however these overlap and however far the index is behind.    *)
(***************************************************************************)
EXTENDS SignupItems, WellFoundedInduction, TLAPS

\* The disjuncts of Next, one by one.
LEMMA NextCases ==
    ASSUME Next
    PROVE  \/ \E r \in Requests, e \in Emails, s \in Systems : Submit(r, e, s)
           \/ \E r, i \in Requests, who \in Emails \cup {Organizer}, s \in Systems : Amend(r, who, i, s)
           \/ \E r, i \in Requests, who \in Emails \cup {Organizer} : Withdraw(r, who, i)
           \/ \E r \in Requests : FindExisting(r)
           \/ \E r \in Requests : PutSignup(r)
           \/ \E r \in Requests : CatchUp(r)
BY DEF Next

-----------------------------------------------------------------------------
(* Looking an email up. *)

LEMMA SmallestMember ==
    ASSUME NEW S \in SUBSET Nat, S # {}
    PROVE  \E i \in S : \A j \in S : i <= j
<1> DEFINE R == OpToRel(<, Nat)
<1>1. \A i, j \in Nat : <<j, i>> \in R <=> j < i
  BY DEF OpToRel
<1>2. IsWellFoundedOn(R, Nat)
  BY NatLessThanWellFounded
<1> HIDE DEF R
<1>3. PICK i \in S : \A j \in S : ~ (<<j, i>> \in R)
  BY <1>2, WFMin
<1>4. \A j \in S : ~ (j < i)
  BY <1>1, <1>3
<1>5. \A j \in S : i <= j
  BY <1>4
<1> QED
  BY <1>5

\* What the lookup returns is an item of that email, or the id it was given if
\* there is none.
LEMMA FindsOwn ==
    ASSUME NEW copy, NEW e, NEW new
    PROVE  LET found == {i \in Requests : copy[i] # NoItem /\ copy[i].email = e}
           IN  IF found = {} THEN FindByEmail(copy, e, new) = new
                             ELSE FindByEmail(copy, e, new) \in found
<1> DEFINE found == {i \in Requests : copy[i] # NoItem /\ copy[i].email = e}
<1>1. CASE found = {}
  BY <1>1 DEF FindByEmail
<1>2. CASE found # {}
  <2>1. found \in SUBSET Nat
    BY ItemsAssumption
  <2>2. \E i \in found : \A j \in found : i <= j
    <3> HIDE DEF found
    <3> QED
      BY <1>2, <2>1, SmallestMember
  <2>3. FindByEmail(copy, e, new) = CHOOSE i \in found : \A j \in found : i <= j
    BY <1>2 DEF FindByEmail
  <2>4. FindByEmail(copy, e, new) \in found
    <3> HIDE DEF found
    <3> QED
      BY <2>2, <2>3
  <2> QED
    BY <1>2, <2>4
<1> QED
  BY <1>1, <1>2

-----------------------------------------------------------------------------
(* The inductive invariant. *)

\* A copy in the index is of the same player as the item in the table.
CopiesOfItems == \A i \in Requests : index[i] # NoItem => index[i].email = items[i].email

\* A request that has not written yet has not stored the item its id would name.
Fresh == \A r \in Requests : pc[r] \in {"ready", "find"} => items[r] = NoItem

\* A submission carries the item of the player who sent it.
Finding ==
    \A r \in Requests : pc[r] = "find" =>
        /\ op[r] = "submit"
        /\ target[r] = r
        /\ body[r] \in Item
        /\ body[r].status = "CONFIRMED"
        /\ caller[r] = body[r].email

\* What a request is about to write is an item of the same player as the one it
\* replaces; it makes a new one under its own id only; and it cancels one only
\* if its sender may.
WritesOwn(r) ==
    /\ body[r] \in Item
    /\ items[target[r]] = NoItem => target[r] = r
    /\ items[target[r]] # NoItem => items[target[r]].email = body[r].email
    /\ body[r].status = "CANCELLED" => op[r] = "withdraw" /\ caller[r] \in {body[r].email, Organizer}

Writing == \A r \in Requests : pc[r] = "put" => WritesOwn(r)

ItemsInv == TypeOK /\ CopiesOfItems /\ Fresh /\ Finding /\ Writing /\ CancelledOnRequest

LEMMA ItemsInit == Init => ItemsInv
<1> SUFFICES ASSUME Init PROVE ItemsInv
  OBVIOUS
<1> USE DEF Init
<1>1. TypeOK
  BY DEF TypeOK, Stored
<1>2. CopiesOfItems /\ Fresh /\ Finding /\ Writing
  BY DEF CopiesOfItems, Fresh, Finding, Writing
<1>3. CancelledOnRequest
  BY DEF CancelledOnRequest, Stored
<1> QED
  BY <1>1, <1>2, <1>3 DEF ItemsInv

\* A request that begins leaves the items alone, and disturbs no other request.
LEMMA BeginKeeps ==
    ASSUME ItemsInv, NEW r \in Requests, NEW what \in {"submit", "amend", "withdraw"},
           NEW who \in Emails \cup {Organizer}, NEW id \in Requests, NEW item \in Item,
           NEW next \in {"find", "put"}, Begin(r, what, who, id, item, next),
           next = "find" => /\ what = "submit" /\ id = r
                            /\ item.status = "CONFIRMED" /\ who = item.email,
           next = "put" => /\ items[id] # NoItem
                           /\ item.email = items[id].email
                           /\ item.status = "CANCELLED" =>
                                 what = "withdraw" /\ who \in {item.email, Organizer}
    PROVE  ItemsInv'
<1> USE DEF ItemsInv, Begin
<1>1. TypeOK'
  BY NoItemAssumption DEF TypeOK, Stored, InFlight
<1>2. CopiesOfItems' /\ Fresh'
  BY DEF CopiesOfItems, Fresh, TypeOK
<1>3. Finding'
  BY DEF Finding, TypeOK
<1>4. Writing'
  BY DEF Writing, WritesOwn, TypeOK
<1>5. CancelledOnRequest'
  <2> SUFFICES ASSUME NEW i \in Requests, items[i] # NoItem, items[i].status = "CANCELLED"
               PROVE  \E q \in Requests : /\ pc'[q] = "done"
                                          /\ op'[q] = "withdraw"
                                          /\ target'[q] = i
                                          /\ caller'[q] \in {items[i].email, Organizer}
    BY DEF CancelledOnRequest, Stored
  <2>1. PICK q \in Requests : /\ pc[q] = "done"
                              /\ op[q] = "withdraw"
                              /\ target[q] = i
                              /\ caller[q] \in {items[i].email, Organizer}
    BY DEF CancelledOnRequest, Stored
  <2>2. q # r
    BY <2>1
  <2> QED
    BY <2>1, <2>2 DEF TypeOK
<1> QED
  BY <1>1, <1>2, <1>3, <1>4, <1>5

LEMMA FindKeeps ==
    ASSUME ItemsInv, NEW r \in Requests, FindExisting(r)
    PROVE  ItemsInv'
<1> USE DEF ItemsInv, FindExisting
<1> DEFINE t == FindByEmail(index, caller[r], r)
<1>1. /\ t \in Requests
      /\ t # r => items[t] # NoItem /\ items[t].email = caller[r]
  <2>1. \A i \in Requests : index[i] # NoItem => items[i] # NoItem /\ index[i].email = items[i].email
    BY DEF TypeOK, CopiesOfItems, Stored
  <2>2. t = r \/ (t \in Requests /\ index[t] # NoItem /\ index[t].email = caller[r])
    BY FindsOwn
  <2> QED
    BY <2>1, <2>2
<1> HIDE DEF t
<1>2. target' = [target EXCEPT ![r] = t]
  BY DEF t
<1>3. TypeOK'
  BY <1>1, <1>2, NoItemAssumption DEF TypeOK, Stored, Finding
<1>4. CopiesOfItems' /\ Fresh'
  BY DEF CopiesOfItems, Fresh, TypeOK
<1>5. Finding'
  BY <1>2 DEF Finding, TypeOK
<1>6. Writing'
  <2>1. items[r] = NoItem
    BY DEF Fresh
  <2>2. WritesOwn(r)'
    BY <1>1, <1>2, <2>1 DEF WritesOwn, Finding, TypeOK
  <2> QED
    BY <1>2, <2>2 DEF Writing, WritesOwn, TypeOK
<1>7. CancelledOnRequest'
  <2> SUFFICES ASSUME NEW i \in Requests, items[i] # NoItem, items[i].status = "CANCELLED"
               PROVE  \E q \in Requests : /\ pc'[q] = "done"
                                          /\ op[q] = "withdraw"
                                          /\ target'[q] = i
                                          /\ caller[q] \in {items[i].email, Organizer}
    BY DEF CancelledOnRequest, Stored
  <2>1. PICK q \in Requests : /\ pc[q] = "done"
                              /\ op[q] = "withdraw"
                              /\ target[q] = i
                              /\ caller[q] \in {items[i].email, Organizer}
    BY DEF CancelledOnRequest, Stored
  <2>2. q # r
    BY <2>1
  <2> QED
    BY <1>2, <2>1, <2>2 DEF TypeOK
<1> QED
  BY <1>3, <1>4, <1>5, <1>6, <1>7

\* A write leaves every stored item with its player.
LEMMA PutKeepsPlayers ==
    ASSUME ItemsInv, NEW r \in Requests, PutSignup(r)
    PROVE  /\ items' = [items EXCEPT ![target[r]] = body[r]]
           /\ target[r] \in Requests /\ body[r] \in Item /\ body[r] # NoItem
           /\ \A i \in Stored : items'[i] # NoItem /\ items'[i].email = items[i].email
BY NoItemAssumption DEF ItemsInv, PutSignup, Writing, WritesOwn, TypeOK, Stored

LEMMA PutKeeps ==
    ASSUME ItemsInv, NEW r \in Requests, PutSignup(r)
    PROVE  ItemsInv'
<1> USE DEF ItemsInv
<1>1. /\ items' = [items EXCEPT ![target[r]] = body[r]]
      /\ target[r] \in Requests /\ body[r] \in Item /\ body[r] # NoItem
      /\ \A i \in Stored : items'[i] # NoItem /\ items'[i].email = items[i].email
  BY PutKeepsPlayers
<1>2. WritesOwn(r)
  BY DEF PutSignup, Writing
<1>3. TypeOK'
  BY <1>1 DEF PutSignup, TypeOK, Stored
<1>4. CopiesOfItems' /\ Fresh'
  <2>1. CopiesOfItems'
    <3> SUFFICES ASSUME NEW i \in Requests, index[i] # NoItem PROVE index[i].email = items'[i].email
      BY DEF CopiesOfItems, PutSignup
    <3>1. i \in Stored /\ index[i].email = items[i].email
      BY DEF TypeOK, CopiesOfItems
    <3> QED
      BY <1>1, <3>1
  <2>2. Fresh'
    BY <1>1, <1>2 DEF PutSignup, Fresh, WritesOwn, TypeOK
  <2> QED
    BY <2>1, <2>2
<1>5. Finding'
  BY DEF PutSignup, Finding, TypeOK
<1>6. Writing'
  <2> SUFFICES ASSUME NEW q \in Requests, pc'[q] = "put" PROVE WritesOwn(q)'
    BY DEF Writing
  <2>1. q # r /\ WritesOwn(q)
    BY DEF PutSignup, Writing, TypeOK
  <2>2. /\ op' = op /\ caller' = caller /\ target' = target /\ body' = body
        /\ target[q] \in Requests
    BY DEF PutSignup, TypeOK
  <2>3. CASE items[target[q]] = NoItem
    <3>1. target[q] = q
      BY <2>1, <2>3 DEF WritesOwn
    <3>2. target[r] # q
      BY <1>2, <2>1, <2>3, <3>1 DEF WritesOwn
    <3> QED
      BY <1>1, <2>1, <2>2, <3>1, <3>2 DEF WritesOwn, TypeOK
  <2>4. CASE items[target[q]] # NoItem
    <3>1. target[q] \in Stored
      BY <2>2, <2>4 DEF Stored
    <3> QED
      BY <1>1, <2>1, <2>2, <2>4, <3>1 DEF WritesOwn
  <2> QED
    BY <2>3, <2>4
<1>7. CancelledOnRequest'
  <2> SUFFICES ASSUME NEW i \in Requests, items'[i] # NoItem, items'[i].status = "CANCELLED"
               PROVE  \E q \in Requests : /\ pc'[q] = "done"
                                          /\ op[q] = "withdraw"
                                          /\ target[q] = i
                                          /\ caller[q] \in {items'[i].email, Organizer}
    BY DEF CancelledOnRequest, Stored, PutSignup
  <2>1. CASE i = target[r]
    <3>1. items'[i] = body[r]
      BY <1>1, <2>1 DEF TypeOK
    <3>2. pc'[r] = "done"
      BY DEF PutSignup, TypeOK
    <3> QED
      BY <1>2, <2>1, <3>1, <3>2 DEF WritesOwn
  <2>2. CASE i # target[r]
    <3>1. items'[i] = items[i]
      BY <1>1, <2>2 DEF TypeOK
    <3>2. PICK q \in Requests : /\ pc[q] = "done"
                                /\ op[q] = "withdraw"
                                /\ target[q] = i
                                /\ caller[q] \in {items[i].email, Organizer}
      BY <3>1 DEF CancelledOnRequest, Stored
    <3>3. pc'[q] = "done"
      BY <3>2 DEF PutSignup, TypeOK
    <3> QED
      BY <3>1, <3>2, <3>3
  <2> QED
    BY <2>1, <2>2
<1> QED
  BY <1>3, <1>4, <1>5, <1>6, <1>7

LEMMA ItemsNext == ItemsInv /\ [Next]_vars => ItemsInv'
<1> SUFFICES ASSUME ItemsInv, [Next]_vars PROVE ItemsInv'
  OBVIOUS
<1>1. ASSUME NEW r \in Requests, NEW e \in Emails, NEW s \in Systems, Submit(r, e, s)
      PROVE  ItemsInv'
  <2> DEFINE item == [email |-> e, system |-> s, status |-> "CONFIRMED"]
  <2>1. item \in Item /\ item.status = "CONFIRMED" /\ item.email = e
    BY DEF Item
  <2>2. Begin(r, "submit", e, r, item, "find")
    BY <1>1 DEF Submit
  <2> HIDE DEF item
  <2> QED
    BY <2>1, <2>2, BeginKeeps
<1>2. ASSUME NEW r \in Requests, NEW i \in Requests, NEW who \in Emails \cup {Organizer},
             NEW s \in Systems, Amend(r, who, i, s)
      PROVE  ItemsInv'
  <2> DEFINE item == [items[i] EXCEPT !.system = s]
  <2>1. items[i] \in Item /\ items[i] # NoItem
    BY <1>2 DEF Amend, ItemsInv, TypeOK
  <2>2. item \in Item /\ item.status # "CANCELLED" /\ item.email = items[i].email
    BY <1>2, <2>1 DEF Amend, Item
  <2>3. Begin(r, "amend", who, i, item, "put")
    BY <1>2 DEF Amend
  <2> HIDE DEF item
  <2> QED
    BY <2>1, <2>2, <2>3, BeginKeeps
<1>3. ASSUME NEW r \in Requests, NEW i \in Requests, NEW who \in Emails \cup {Organizer},
             Withdraw(r, who, i)
      PROVE  ItemsInv'
  <2> DEFINE item == [items[i] EXCEPT !.status = "CANCELLED"]
  <2>1. items[i] \in Item /\ items[i] # NoItem
    BY <1>3 DEF Withdraw, ItemsInv, TypeOK
  <2>2. item \in Item /\ item.email = items[i].email /\ who \in {item.email, Organizer}
    BY <1>3, <2>1 DEF Withdraw, MayManage, Item
  <2>3. Begin(r, "withdraw", who, i, item, "put")
    BY <1>3 DEF Withdraw
  <2> HIDE DEF item
  <2> QED
    BY <2>1, <2>2, <2>3, BeginKeeps
<1>4. ASSUME NEW i \in Requests, CatchUp(i) PROVE ItemsInv'
  <2> USE <1>4 DEF CatchUp, ItemsInv
  <2>1. TypeOK' /\ CopiesOfItems'
    BY DEF TypeOK, CopiesOfItems, Stored
  <2>2. Fresh' /\ Finding' /\ Writing'
    BY DEF Fresh, Finding, Writing, WritesOwn
  <2>3. CancelledOnRequest'
    BY DEF CancelledOnRequest, Stored
  <2> QED
    BY <2>1, <2>2, <2>3
<1>5. CASE UNCHANGED vars
  <2> USE <1>5 DEF vars, ItemsInv
  <2>1. TypeOK' /\ CopiesOfItems'
    BY DEF TypeOK, CopiesOfItems, Stored
  <2>2. Fresh' /\ Finding' /\ Writing'
    BY DEF Fresh, Finding, Writing, WritesOwn
  <2>3. CancelledOnRequest'
    BY DEF CancelledOnRequest, Stored
  <2> QED
    BY <2>1, <2>2, <2>3
<1> QED
  BY <1>1, <1>2, <1>3, <1>4, <1>5, FindKeeps, PutKeeps, NextCases

THEOREM ItemsInvariant == Spec => []ItemsInv
<1> QED
  BY ItemsInit, ItemsNext, PTL DEF Spec

\* Items, index and requests keep their types (TypeOK), under any overlap.
THEOREM ItemsTypeCorrect == Spec => []TypeOK
<1>1. ItemsInv => TypeOK
  BY DEF ItemsInv
<1> QED
  BY <1>1, ItemsInvariant, PTL

\* A sign-up is cancelled only because its player or an organizer has withdrawn
\* it (requireSignupAccess and the soft cancel of the DELETE route).
THEOREM CancelledByOwnHand == Spec => []CancelledOnRequest
<1>1. ItemsInv => CancelledOnRequest
  BY DEF ItemsInv
<1> QED
  BY <1>1, ItemsInvariant, PTL

\* No write of upsertSignup, PATCH or DELETE takes a stored sign-up from the
\* player it was made for, or removes it.
THEOREM ItemsStayTheirPlayers == Spec => PlayerKeepsItem
<1>1. ItemsInv /\ [Next]_vars =>
          [\A i \in Stored : items'[i] # NoItem /\ items'[i].email = items[i].email]_vars
  <2> SUFFICES ASSUME ItemsInv, [Next]_vars, ~ UNCHANGED vars,
                      NEW i \in Stored
               PROVE  items'[i] # NoItem /\ items'[i].email = items[i].email
    OBVIOUS
  <2>1. CASE \E r \in Requests : PutSignup(r)
    BY <2>1, PutKeepsPlayers
  <2>2. CASE items' = items
    BY <2>2 DEF Stored
  <2>3. items' = items \/ \E r \in Requests : PutSignup(r)
    BY NextCases DEF Submit, Amend, Withdraw, Begin, FindExisting, CatchUp
  <2> QED
    BY <2>1, <2>2, <2>3
<1> QED
  BY <1>1, ItemsInvariant, PTL DEF Spec, PlayerKeepsItem
-----------------------------------------------------------------------------
(* One sign-up per email, in turn. *)

\* While requests take turns and the index misleads none, at most one of them is
\* in flight ...
Alone == \A q, r \in Requests : InFlight(q) /\ InFlight(r) => q = r

\* ... and the item it is about to write replaces the only one of its email.
Placed ==
    \A r \in Requests : pc[r] = "put" =>
        \A i \in Stored : items[i].email = body[r].email => i = target[r]

InTurn == disturbed \/ (Alone /\ Placed /\ OnePerEmail)

\* A request that begins while none is in flight.
LEMMA BeginInTurn ==
    ASSUME ItemsInv, InTurn, NEW r \in Requests, NEW what, NEW who, NEW id \in Requests,
           NEW item, NEW next \in {"find", "put"}, Begin(r, what, who, id, item, next),
           next = "put" => items[id] # NoItem /\ item.email = items[id].email
    PROVE  InTurn'
<1> SUFFICES ASSUME ~ disturbed' PROVE (Alone /\ Placed /\ OnePerEmail)'
  BY DEF InTurn
<1> USE DEF Begin, ItemsInv
<1>1. ~ disturbed /\ \A q \in Requests : ~ InFlight(q)
  OBVIOUS
<1>2. OnePerEmail
  BY <1>1 DEF InTurn
<1>3. Alone'
  BY <1>1 DEF Alone, InFlight, TypeOK
<1>4. Placed'
  <2> SUFFICES ASSUME NEW q \in Requests, pc'[q] = "put", NEW i \in Stored,
                      items[i].email = body'[q].email
               PROVE  i = target'[q]
    BY DEF Placed, Stored
  <2>1. q = r /\ next = "put"
    BY <1>1 DEF InFlight, TypeOK
  <2>2. body'[q] = item /\ target'[q] = id
    BY <2>1 DEF TypeOK
  <2>3. id \in Stored /\ items[i].email = items[id].email
    BY <2>1, <2>2 DEF Stored
  <2> QED
    BY <1>2, <2>2, <2>3 DEF OnePerEmail
<1>5. OnePerEmail'
  BY <1>2 DEF OnePerEmail, Stored
<1> QED
  BY <1>3, <1>4, <1>5

\* A lookup whose answer is the one the table would give.
LEMMA FindInTurn ==
    ASSUME ItemsInv, InTurn, NEW r \in Requests, FindExisting(r)
    PROVE  InTurn'
<1> SUFFICES ASSUME ~ disturbed' PROVE (Alone /\ Placed /\ OnePerEmail)'
  BY DEF InTurn
<1> USE DEF FindExisting, ItemsInv
<1> DEFINE found == {i \in Requests : items[i] # NoItem /\ items[i].email = caller[r]}
           t == FindByEmail(index, caller[r], r)
<1>1. t = FindByEmail(items, caller[r], r) /\ Alone /\ OnePerEmail
  BY DEF InTurn
<1>2. found # {} => t \in found
  BY <1>1, FindsOwn
<1>3. target'[r] = t /\ body'[r].email = caller[r]
  BY DEF TypeOK, Finding
<1> HIDE DEF t
<1>4. Alone'
  BY <1>1 DEF Alone, InFlight, TypeOK
<1>5. Placed'
  <2> SUFFICES ASSUME NEW q \in Requests, pc'[q] = "put", NEW i \in Stored,
                      items[i].email = body'[q].email
               PROVE  i = target'[q]
    BY DEF Placed, Stored
  <2>1. InFlight(r) /\ (q # r => InFlight(q))
    BY DEF InFlight, TypeOK
  <2>2. q = r
    BY <1>1, <2>1 DEF Alone
  <2>3. i \in found
    BY <1>3, <2>2 DEF Stored
  <2>4. t \in found
    BY <1>2, <2>3
  <2>5. i = t
    BY <1>1, <2>3, <2>4 DEF OnePerEmail, Stored
  <2> QED
    BY <1>3, <2>2, <2>5
<1>6. OnePerEmail'
  BY <1>1 DEF OnePerEmail, Stored
<1> QED
  BY <1>4, <1>5, <1>6

\* The write of the only request in flight.
LEMMA PutInTurn ==
    ASSUME ItemsInv, InTurn, NEW r \in Requests, PutSignup(r)
    PROVE  InTurn'
<1> SUFFICES ASSUME ~ disturbed' PROVE (Alone /\ Placed /\ OnePerEmail)'
  BY DEF InTurn
<1> USE DEF ItemsInv
<1>1. Alone /\ Placed /\ OnePerEmail
  BY DEF InTurn, PutSignup
<1>2. /\ items' = [items EXCEPT ![target[r]] = body[r]]
      /\ target[r] \in Requests
  BY PutKeepsPlayers
<1>3. \A q \in Requests : ~ InFlight(q)'
  BY <1>1 DEF PutSignup, Alone, InFlight, TypeOK
<1>4. Alone' /\ Placed'
  BY <1>3 DEF Alone, Placed, InFlight
<1>5. OnePerEmail'
  <2> SUFFICES ASSUME NEW i \in Stored', NEW j \in Stored', items'[i].email = items'[j].email
               PROVE  i = j
    BY DEF OnePerEmail
  <2>1. pc[r] = "put"
    BY DEF PutSignup
  <2>2. items'[target[r]] = body[r]
    BY <1>2 DEF TypeOK
  <2>3. \A k \in Stored' : k # target[r] => k \in Stored /\ items'[k] = items[k]
    BY <1>2 DEF Stored, TypeOK
  <2>4. \A k \in Stored : items[k].email = body[r].email => k = target[r]
    BY <1>1, <2>1 DEF Placed
  <2> QED
    BY <1>1, <2>2, <2>3, <2>4 DEF OnePerEmail
<1> QED
  BY <1>4, <1>5

LEMMA InTurnNext == ItemsInv /\ InTurn /\ [Next]_vars => InTurn'
<1> SUFFICES ASSUME ItemsInv, InTurn, [Next]_vars PROVE InTurn'
  OBVIOUS
<1>1. ASSUME NEW r \in Requests, NEW e \in Emails, NEW s \in Systems, Submit(r, e, s)
      PROVE  InTurn'
  BY <1>1, BeginInTurn DEF Submit
<1>2. ASSUME NEW r \in Requests, NEW i \in Requests, NEW who \in Emails \cup {Organizer},
             NEW s \in Systems, Amend(r, who, i, s)
      PROVE  InTurn'
  <2> DEFINE item == [items[i] EXCEPT !.system = s]
  <2>1. items[i] \in Item /\ items[i] # NoItem
    BY <1>2 DEF Amend, ItemsInv, TypeOK
  <2>2. item.email = items[i].email
    BY <2>1 DEF Item
  <2>3. Begin(r, "amend", who, i, item, "put")
    BY <1>2 DEF Amend
  <2> HIDE DEF item
  <2> QED
    BY <2>1, <2>2, <2>3, BeginInTurn
<1>3. ASSUME NEW r \in Requests, NEW i \in Requests, NEW who \in Emails \cup {Organizer},
             Withdraw(r, who, i)
      PROVE  InTurn'
  <2> DEFINE item == [items[i] EXCEPT !.status = "CANCELLED"]
  <2>1. items[i] \in Item /\ items[i] # NoItem
    BY <1>3 DEF Withdraw, ItemsInv, TypeOK
  <2>2. item.email = items[i].email
    BY <2>1 DEF Item
  <2>3. Begin(r, "withdraw", who, i, item, "put")
    BY <1>3 DEF Withdraw
  <2> HIDE DEF item
  <2> QED
    BY <2>1, <2>2, <2>3, BeginInTurn
<1>4. ASSUME NEW i \in Requests, CatchUp(i) PROVE InTurn'
  BY <1>4 DEF CatchUp, InTurn, Alone, Placed, OnePerEmail, InFlight, Stored
<1>5. CASE UNCHANGED vars
  BY <1>5 DEF vars, InTurn, Alone, Placed, OnePerEmail, InFlight, Stored
<1> QED
  BY <1>1, <1>2, <1>3, <1>4, <1>5, FindInTurn, PutInTurn, NextCases

\* While requests do not overlap and are not misled by the index, upsertSignup
\* keeps one sign-up per email and night (design, Edge cases).
THEOREM OneSignupPerEmailInTurn == Spec => []OnePerEmailInTurn
<1>1. Init => InTurn
  BY DEF Init, InTurn, Alone, Placed, OnePerEmail, InFlight, Stored
<1>2. InTurn => OnePerEmailInTurn
  BY DEF InTurn, OnePerEmailInTurn
<1> QED
  BY <1>1, <1>2, InTurnNext, ItemsInvariant, PTL DEF Spec
-----------------------------------------------------------------------------
(* What a write in turn replaces, and what a submission shows. *)

\* A write is of one of the three operations: a submission is its sender's, and a
\* withdrawal cancels ...
Bodies ==
    \A r \in Requests : pc[r] = "put" =>
        /\ op[r] \in {"submit", "amend", "withdraw"}
        /\ op[r] = "submit" => caller[r] = body[r].email
        /\ op[r] = "withdraw" => body[r].status = "CANCELLED"

\* ... and what is about to be amended has not been withdrawn since it was read.
AmendsConfirmed ==
    disturbed \/ \A r \in Requests :
        pc[r] = "put" /\ op[r] = "amend" => items[target[r]].status = "CONFIRMED"

RevivalInv == ItemsInv /\ InTurn /\ Bodies /\ AmendsConfirmed

LEMMA PutClears ==
    ASSUME ItemsInv, InTurn, ~ disturbed, NEW r \in Requests, PutSignup(r)
    PROVE  \A q \in Requests : pc'[q] # "put"
BY DEF InTurn, Alone, InFlight, PutSignup, ItemsInv, TypeOK

LEMMA RevivalNext == RevivalInv /\ [Next]_vars => RevivalInv'
<1> SUFFICES ASSUME RevivalInv, [Next]_vars PROVE RevivalInv'
  OBVIOUS
<1>1. ItemsInv /\ InTurn /\ Bodies /\ AmendsConfirmed
  BY DEF RevivalInv
<1>2. ItemsInv' /\ InTurn'
  BY <1>1, ItemsNext, InTurnNext
<1>3. TypeOK /\ (disturbed \/ Alone)
  BY <1>1 DEF ItemsInv, InTurn
<1>4. ASSUME NEW r \in Requests, NEW e \in Emails, NEW s \in Systems, Submit(r, e, s)
      PROVE  Bodies' /\ AmendsConfirmed'
  BY <1>1, <1>3, <1>4 DEF Submit, Begin, Bodies, AmendsConfirmed, TypeOK
<1>5. ASSUME NEW r \in Requests, NEW i \in Requests, NEW who \in Emails \cup {Organizer},
             NEW s \in Systems, Amend(r, who, i, s)
      PROVE  Bodies' /\ AmendsConfirmed'
  <2>1. items[i].status = "CONFIRMED"
    BY <1>3, <1>5 DEF Amend, TypeOK, Item
  <2>2. Bodies'
    BY <1>1, <1>3, <1>5 DEF Amend, Begin, Bodies, TypeOK
  <2>3. AmendsConfirmed'
    <3> SUFFICES ASSUME ~ disturbed', NEW q \in Requests, pc'[q] = "put"
                 PROVE  items'[target'[q]].status = "CONFIRMED"
      BY DEF AmendsConfirmed
    <3>1. q = r
      BY <1>3, <1>5 DEF Amend, Begin, InFlight, TypeOK
    <3> QED
      BY <1>3, <1>5, <2>1, <3>1 DEF Amend, Begin, TypeOK
  <2> QED
    BY <2>2, <2>3
<1>6. ASSUME NEW r \in Requests, NEW i \in Requests, NEW who \in Emails \cup {Organizer},
             Withdraw(r, who, i)
      PROVE  Bodies' /\ AmendsConfirmed'
  <2> DEFINE item == [items[i] EXCEPT !.status = "CANCELLED"]
  <2>1. item.status = "CANCELLED"
    BY <1>3, <1>6 DEF Withdraw, TypeOK, Item
  <2>2. Begin(r, "withdraw", who, i, item, "put")
    BY <1>6 DEF Withdraw
  <2> HIDE DEF item
  <2> QED
    BY <1>1, <1>3, <2>1, <2>2 DEF Begin, Bodies, AmendsConfirmed, TypeOK
<1>7. ASSUME NEW r \in Requests, FindExisting(r)
      PROVE  Bodies' /\ AmendsConfirmed'
  <2>1. op[r] = "submit" /\ caller[r] = body[r].email
    BY <1>1, <1>7 DEF ItemsInv, Finding, FindExisting
  <2>2. Bodies'
    BY <1>1, <1>3, <1>7, <2>1 DEF FindExisting, Bodies, TypeOK
  <2>3. AmendsConfirmed'
    <3> DEFINE t == FindByEmail(index, caller[r], r)
    <3>1. target' = [target EXCEPT ![r] = t]
      BY <1>7 DEF FindExisting
    <3> HIDE DEF t
    <3> QED
      BY <1>1, <1>3, <1>7, <2>1, <3>1 DEF FindExisting, AmendsConfirmed, TypeOK
  <2> QED
    BY <2>2, <2>3
<1>8. ASSUME NEW r \in Requests, PutSignup(r)
      PROVE  Bodies' /\ AmendsConfirmed'
  <2>1. Bodies'
    BY <1>1, <1>3, <1>8 DEF PutSignup, Bodies, TypeOK
  <2>2. AmendsConfirmed'
    BY <1>1, <1>8, PutClears DEF PutSignup, AmendsConfirmed
  <2> QED
    BY <2>1, <2>2
<1>9. ASSUME NEW i \in Requests, CatchUp(i)
      PROVE  Bodies' /\ AmendsConfirmed'
  BY <1>1, <1>9 DEF CatchUp, Bodies, AmendsConfirmed
<1>10. ASSUME UNCHANGED vars
       PROVE  Bodies' /\ AmendsConfirmed'
  BY <1>1, <1>10 DEF vars, Bodies, AmendsConfirmed
<1> QED
  BY <1>2, <1>4, <1>5, <1>6, <1>7, <1>8, <1>9, <1>10, NextCases DEF RevivalInv

LEMMA RevivalAlways == Spec => []RevivalInv
<1>1. Init => RevivalInv
  <2> SUFFICES ASSUME Init PROVE RevivalInv
    OBVIOUS
  <2>1. InTurn
    BY DEF Init, InTurn, Alone, Placed, OnePerEmail, InFlight, Stored
  <2>2. Bodies /\ AmendsConfirmed
    BY DEF Init, Bodies, AmendsConfirmed
  <2> QED
    BY <2>1, <2>2, ItemsInit DEF RevivalInv
<1> QED
  BY <1>1, RevivalNext, PTL DEF Spec

\* "Cannot update a cancelled signup": while requests do not overlap, what turns a
\* withdrawn sign-up into a confirmed one is the put of a new submission.
THEOREM OnlyASubmissionRevives == Spec => OnlySubmittingRevives
<1> DEFINE Revived(i) == items[i].status = "CANCELLED" /\ items'[i].status = "CONFIRMED"
<1>1. RevivalInv /\ [Next]_vars =>
          [\A i \in Stored : Revived(i) =>
              \/ disturbed
              \/ \E r \in Requests : op[r] = "submit" /\ pc[r] = "put" /\ pc'[r] = "done"]_vars
  <2> SUFFICES ASSUME RevivalInv, [Next]_vars, ~ UNCHANGED vars, ~ disturbed,
                      NEW i \in Stored, Revived(i)
               PROVE  \E r \in Requests : op[r] = "submit" /\ pc[r] = "put" /\ pc'[r] = "done"
    OBVIOUS
  <2> USE DEF RevivalInv
  <2>1. PICK r \in Requests : PutSignup(r)
    BY NextCases DEF Submit, Amend, Withdraw, Begin, FindExisting, CatchUp
  <2>2. /\ items' = [items EXCEPT ![target[r]] = body[r]]
        /\ target[r] \in Requests
    BY <2>1, PutKeepsPlayers
  <2>3. i \in Requests /\ i = target[r] /\ items'[i] = body[r]
    BY <2>2 DEF Stored, ItemsInv, TypeOK
  <2>4. pc[r] = "put" /\ pc'[r] = "done"
    BY <2>1 DEF PutSignup, ItemsInv, TypeOK
  <2>5. op[r] # "amend"
    BY <2>3, <2>4 DEF AmendsConfirmed
  <2>6. op[r] # "withdraw"
    BY <2>3, <2>4 DEF Bodies
  <2> QED
    BY <2>4, <2>5, <2>6 DEF Bodies
<1> QED
  BY <1>1, RevivalAlways, PTL DEF Spec, OnlySubmittingRevives

\* While requests do not overlap, a submission's own put is the only item of its
\* email, in the table and, if there is one, in the index.
LEMMA PutIsFound ==
    ASSUME RevivalInv, ~ disturbed, NEW r \in Requests, PutSignup(r), op[r] = "submit"
    PROVE  /\ FindByEmail(items', caller[r], 0) = target[r]
           /\ items'[target[r]] = body[r]
           /\ FindByEmail(index', caller[r], 0) \in {0, target[r]}
<1> USE DEF RevivalInv
<1> DEFINE t == target[r]
           e == caller[r]
<1>1. /\ items' = [items EXCEPT ![t] = body[r]]
      /\ t \in Requests /\ body[r] # NoItem
  BY PutKeepsPlayers
<1>2. items'[t] = body[r] /\ e = body[r].email
  BY <1>1 DEF PutSignup, Bodies, ItemsInv, TypeOK
<1>3. TypeOK' /\ CopiesOfItems' /\ OnePerEmail'
  BY ItemsNext, InTurnNext DEF Next, PutSignup, ItemsInv, InTurn
<1>4. \A i \in Requests : items'[i] # NoItem /\ items'[i].email = e => i = t
  BY <1>1, <1>2, <1>3 DEF OnePerEmail, Stored
<1>5. \A i \in Requests : index'[i] # NoItem /\ index'[i].email = e => i = t
  BY <1>3, <1>4 DEF TypeOK, CopiesOfItems, Stored
<1> HIDE DEF t, e
<1>6. FindByEmail(items', e, 0) = t
  <2> DEFINE found == {i \in Requests : items'[i] # NoItem /\ items'[i].email = e}
  <2>1. t \in found
    BY <1>1, <1>2
  <2>2. FindByEmail(items', e, 0) \in found
    BY <2>1, FindsOwn
  <2> QED
    BY <1>4, <2>2
<1>7. FindByEmail(index', e, 0) \in {0, t}
  BY <1>5, FindsOwn
<1> QED
  BY <1>2, <1>6, <1>7 DEF t, e

\* What a player has submitted is what a lookup of their email finds in the table,
\* and in the index once that has caught up, as long as requests do not overlap.
THEOREM SubmissionIsShown == Spec => SubmissionShows
<1>1. RevivalInv /\ [Next]_vars =>
          [\A r \in Requests :
              (op[r] = "submit" /\ pc[r] = "put" /\ pc'[r] = "done" /\ ~disturbed) =>
                  /\ FindByEmail(items', caller[r], 0) = target[r]
                  /\ items'[target[r]] = body[r]
                  /\ FindByEmail(index', caller[r], 0) \in {0, target[r]}]_vars
  <2> SUFFICES ASSUME RevivalInv, [Next]_vars, ~ UNCHANGED vars, NEW r \in Requests,
                      op[r] = "submit", pc[r] = "put", pc'[r] = "done", ~ disturbed
               PROVE  /\ FindByEmail(items', caller[r], 0) = target[r]
                      /\ items'[target[r]] = body[r]
                      /\ FindByEmail(index', caller[r], 0) \in {0, target[r]}
    OBVIOUS
  <2>1. PutSignup(r)
    BY NextCases DEF Submit, Amend, Withdraw, Begin, FindExisting, PutSignup, CatchUp,
                     RevivalInv, ItemsInv, TypeOK
  <2> QED
    BY <2>1, PutIsFound
<1> QED
  BY <1>1, RevivalAlways, PTL DEF Spec, SubmissionShows
-----------------------------------------------------------------------------
(* What a withdrawal leaves behind. *)

\* The item a request's id names is there once its own submission has put it.
Made == \A i \in Stored : op[i] = "submit" /\ pc[i] = "done" /\ target[i] = i

\* A submission has confirmed this sign-up again.
Resubmitted(i) == \E r \in Requests : r # i /\ op[r] = "submit" /\ target[r] = i /\ pc[r] = "done"

WithdrawalHolds(i) == items[i].status = "CANCELLED" \/ disturbed \/ Resubmitted(i)

WithdrawalsHold ==
    \A r \in Requests : op[r] = "withdraw" /\ pc[r] = "done" => WithdrawalHolds(target[r])

\* What is amended or withdrawn is there, and so is what was written.
TargetsStored ==
    \A r \in Requests :
        (pc[r] = "put" /\ op[r] # "submit") \/ pc[r] = "done" => items[target[r]] # NoItem

WithdrawalInv == RevivalInv /\ Made /\ TargetsStored /\ WithdrawalsHold

\* A request that has its target keeps it, and goes nowhere but to its end.
LEMMA TargetStays ==
    ASSUME ItemsInv, [Next]_vars, NEW r \in Requests, pc[r] \in {"put", "done"}
    PROVE  pc'[r] \in {pc[r], "done"} /\ op'[r] = op[r] /\ target'[r] = target[r]
<1> USE DEF ItemsInv, TypeOK
<1>1. ASSUME NEW q \in Requests, NEW what, NEW who, NEW id, NEW item, NEW next,
             Begin(q, what, who, id, item, next)
      PROVE  pc'[r] \in {pc[r], "done"} /\ op'[r] = op[r] /\ target'[r] = target[r]
  BY <1>1 DEF Begin
<1>2. ASSUME NEW q \in Requests, FindExisting(q)
      PROVE  pc'[r] \in {pc[r], "done"} /\ op'[r] = op[r] /\ target'[r] = target[r]
  BY <1>2 DEF FindExisting
<1>3. ASSUME NEW q \in Requests, PutSignup(q)
      PROVE  pc'[r] \in {pc[r], "done"} /\ op'[r] = op[r] /\ target'[r] = target[r]
  BY <1>3 DEF PutSignup
<1>4. CASE UNCHANGED vars
  BY <1>4 DEF vars
<1>5. ASSUME NEW q \in Requests, CatchUp(q)
      PROVE  pc'[r] \in {pc[r], "done"} /\ op'[r] = op[r] /\ target'[r] = target[r]
  BY <1>5 DEF CatchUp
<1> QED
  BY <1>1, <1>2, <1>3, <1>4, <1>5, NextCases DEF Submit, Amend, Withdraw

\* A request that is done stays as it is.
LEMMA DoneStays ==
    ASSUME ItemsInv, [Next]_vars, NEW r \in Requests, pc[r] = "done"
    PROVE  pc'[r] = "done" /\ op'[r] = op[r] /\ target'[r] = target[r]
BY TargetStays

\* Every step leaves the items alone and ends no request, or is a put.
LEMMA OnlyPutsWrite ==
    ASSUME ItemsInv, [Next]_vars
    PROVE  \/ \E r \in Requests : PutSignup(r)
           \/ items' = items /\ \A r \in Requests : pc'[r] = "done" => pc[r] = "done"
<1>1. ASSUME NEW q \in Requests, NEW what, NEW who, NEW id, NEW item, NEW next \in {"find", "put"},
             Begin(q, what, who, id, item, next)
      PROVE  items' = items /\ \A r \in Requests : pc'[r] = "done" => pc[r] = "done"
  BY <1>1 DEF Begin, ItemsInv, TypeOK
<1>2. ASSUME NEW q \in Requests, FindExisting(q)
      PROVE  items' = items /\ \A r \in Requests : pc'[r] = "done" => pc[r] = "done"
  BY <1>2 DEF FindExisting, ItemsInv, TypeOK
<1>3. ASSUME NEW q \in Requests, CatchUp(q)
      PROVE  items' = items /\ \A r \in Requests : pc'[r] = "done" => pc[r] = "done"
  BY <1>3 DEF CatchUp
<1>4. CASE UNCHANGED vars
  BY <1>4 DEF vars
<1> QED
  BY <1>1, <1>2, <1>3, <1>4, NextCases DEF Submit, Amend, Withdraw

\* Requests that are about to write were so before, or begin to amend or withdraw
\* what is stored, or are submissions.
LEMMA ToBeWritten ==
    ASSUME ItemsInv, [Next]_vars, NEW r \in Requests, pc'[r] = "put", op'[r] # "submit"
    PROVE  \/ pc[r] = "put" /\ op[r] = op'[r] /\ target[r] = target'[r]
           \/ items[target'[r]] # NoItem
<1> USE DEF ItemsInv, TypeOK
<1>1. ASSUME NEW q \in Requests, NEW what, NEW who, NEW id, NEW item, NEW next,
             Begin(q, what, who, id, item, next), q # r
      PROVE  pc[r] = "put" /\ op[r] = op'[r] /\ target[r] = target'[r]
  BY <1>1 DEF Begin
<1>2. ASSUME NEW e, NEW s, Submit(r, e, s) PROVE FALSE
  BY <1>2 DEF Submit, Begin
<1>3. ASSUME NEW i, NEW who, NEW s, Amend(r, who, i, s) \/ Withdraw(r, who, i)
      PROVE  items[target'[r]] # NoItem
  BY <1>3 DEF Amend, Withdraw, Begin
<1>4. ASSUME NEW q \in Requests, FindExisting(q)
      PROVE  pc[r] = "put" /\ op[r] = op'[r] /\ target[r] = target'[r]
  <2>1. op[q] = "submit"
    BY <1>4 DEF FindExisting, Finding
  <2> QED
    BY <1>4, <2>1 DEF FindExisting
<1>5. ASSUME NEW q \in Requests, PutSignup(q) \/ CatchUp(q) \/ UNCHANGED vars
      PROVE  pc[r] = "put" /\ op[r] = op'[r] /\ target[r] = target'[r]
  BY <1>5 DEF PutSignup, CatchUp, vars
<1> DEFINE Goal == \/ pc[r] = "put" /\ op[r] = op'[r] /\ target[r] = target'[r]
                   \/ items[target'[r]] # NoItem
<1>6. ASSUME NEW q \in Requests, NEW e \in Emails, NEW s \in Systems, Submit(q, e, s)
      PROVE  Goal
  <2>1. q # r
    BY <1>2, <1>6
  <2>2. Begin(q, "submit", e, q, [email |-> e, system |-> s, status |-> "CONFIRMED"], "find")
    BY <1>6 DEF Submit
  <2> QED
    BY <1>1, <2>1, <2>2
<1>7. ASSUME NEW q \in Requests, NEW i \in Requests, NEW who \in Emails \cup {Organizer},
             NEW s \in Systems, Amend(q, who, i, s)
      PROVE  Goal
  <2>1. CASE q = r
    BY <1>3, <1>7, <2>1
  <2>2. CASE q # r
    <3>1. Begin(q, "amend", who, i, [items[i] EXCEPT !.system = s], "put")
      BY <1>7 DEF Amend
    <3> QED
      BY <1>1, <2>2, <3>1
  <2> QED
    BY <2>1, <2>2
<1>8. ASSUME NEW q \in Requests, NEW i \in Requests, NEW who \in Emails \cup {Organizer},
             Withdraw(q, who, i)
      PROVE  Goal
  <2>1. CASE q = r
    BY <1>3, <1>8, <2>1
  <2>2. CASE q # r
    <3>1. Begin(q, "withdraw", who, i, [items[i] EXCEPT !.status = "CANCELLED"], "put")
      BY <1>8 DEF Withdraw
    <3> QED
      BY <1>1, <2>2, <3>1
  <2> QED
    BY <2>1, <2>2
<1> QED
  BY <1>4, <1>5, <1>6, <1>7, <1>8, NextCases

\* A put that is not a second submission leaves a withdrawal standing, in turn.
LEMMA PutLeavesWithdrawn ==
    ASSUME WithdrawalInv, NEW q \in Requests, PutSignup(q), [Next]_vars,
           NEW r \in Requests, op[r] = "withdraw", pc[r] = "done"
    PROVE  WithdrawalHolds(target[r])'
<1> USE DEF WithdrawalInv, RevivalInv
<1> DEFINE i == target[r]
<1>1. /\ items' = [items EXCEPT ![target[q]] = body[q]]
      /\ target[q] \in Requests
  BY PutKeepsPlayers
<1>2. /\ i \in Stored /\ WithdrawalHolds(i)
      /\ target'[r] = i /\ disturbed' = disturbed
  BY DEF TargetsStored, WithdrawalsHold, Stored, PutSignup, ItemsInv, TypeOK
<1>3. CASE disturbed
  BY <1>2, <1>3 DEF WithdrawalHolds
<1>4. CASE Resubmitted(i)
  <2>1. Resubmitted(i)'
    BY <1>2, <1>4, DoneStays DEF Resubmitted
  <2> QED
    BY <1>2, <2>1 DEF WithdrawalHolds
<1>5. CASE items[i].status = "CANCELLED" /\ ~ disturbed
  <2>1. CASE i # target[q]
    BY <1>1, <1>2, <1>5, <2>1 DEF WithdrawalHolds, ItemsInv, TypeOK
  <2>2. CASE i = target[q]
    <3>1. items'[i] = body[q] /\ pc[q] = "put" /\ pc'[q] = "done" /\ op'[q] = op[q]
      BY <1>1, <2>2 DEF PutSignup, ItemsInv, TypeOK
    <3>2. op[q] # "amend"
      BY <1>5, <2>2, <3>1 DEF AmendsConfirmed
    <3>3. CASE op[q] = "submit"
      <4>1. q # i
        BY <1>2, <3>1 DEF Made
      <4>2. Resubmitted(i)'
        BY <2>2, <3>1, <3>3, <4>1 DEF Resubmitted, PutSignup
      <4> QED
        BY <1>2, <4>2 DEF WithdrawalHolds
    <3>4. CASE op[q] = "withdraw"
      BY <1>2, <3>1, <3>4 DEF Bodies, WithdrawalHolds
    <3> QED
      BY <3>1, <3>2, <3>3, <3>4 DEF Bodies
  <2> QED
    BY <2>1, <2>2
<1> QED
  BY <1>2, <1>3, <1>4, <1>5 DEF WithdrawalHolds

LEMMA WithdrawalNext == WithdrawalInv /\ [Next]_vars => WithdrawalInv'
<1> SUFFICES ASSUME WithdrawalInv, [Next]_vars PROVE WithdrawalInv'
  OBVIOUS
<1> USE DEF WithdrawalInv
<1>1. RevivalInv' /\ ItemsInv
  BY RevivalNext DEF RevivalInv
<1>2. CASE items' = items /\ \A r \in Requests : pc'[r] = "done" => pc[r] = "done"
  <2>1. Made'
    BY <1>1, <1>2, DoneStays DEF Made, Stored
  <2>2. TargetsStored'
    BY <1>1, <1>2, DoneStays, ToBeWritten DEF TargetsStored
  <2>3. WithdrawalsHold'
    <3> SUFFICES ASSUME NEW r \in Requests, op'[r] = "withdraw", pc'[r] = "done"
                 PROVE  WithdrawalHolds(target[r])'
      BY DEF WithdrawalsHold
    <3>1. pc[r] = "done" /\ op[r] = "withdraw" /\ target'[r] = target[r]
      BY <1>1, <1>2, DoneStays
    <3>2. WithdrawalHolds(target[r])
      BY <3>1 DEF WithdrawalsHold
    <3>3. disturbed => disturbed'
      BY NextCases DEF Submit, Amend, Withdraw, Begin, FindExisting, PutSignup, CatchUp, vars
    <3>4. Resubmitted(target[r]) => Resubmitted(target[r])'
      BY <1>1, <3>1, DoneStays DEF Resubmitted
    <3> QED
      BY <1>2, <3>1, <3>2, <3>3, <3>4 DEF WithdrawalHolds
  <2> QED
    BY <1>1, <2>1, <2>2, <2>3
<1>3. ASSUME NEW q \in Requests, PutSignup(q) PROVE WithdrawalInv'
  <2>1. /\ items' = [items EXCEPT ![target[q]] = body[q]]
        /\ target[q] \in Requests /\ body[q] # NoItem
        /\ \A i \in Stored : items'[i] # NoItem
    BY <1>1, <1>3, PutKeepsPlayers
  <2>2. /\ pc[q] = "put" /\ pc' = [pc EXCEPT ![q] = "done"]
        /\ op' = op /\ target' = target
    BY <1>3 DEF PutSignup
  <2>3. WritesOwn(q)
    BY <1>1, <2>2 DEF ItemsInv, Writing
  <2>4. Made'
    <3> SUFFICES ASSUME NEW i \in Stored'
                 PROVE  op[i] = "submit" /\ pc'[i] = "done" /\ target[i] = i
      BY <2>2 DEF Made
    <3>1. CASE i \in Stored
      BY <1>1, <2>2, <3>1 DEF Made, Stored, ItemsInv, TypeOK
    <3>2. CASE i \notin Stored
      <4>1. i = target[q] /\ items[i] = NoItem
        BY <1>1, <2>1, <3>2 DEF Stored, ItemsInv, TypeOK
      <4>2. i = q
        BY <2>3, <4>1 DEF WritesOwn
      <4> QED
        BY <1>1, <2>2, <4>1, <4>2 DEF TargetsStored, ItemsInv, TypeOK
    <3> QED
      BY <3>1, <3>2
  <2>5. TargetsStored'
    <3> SUFFICES ASSUME NEW r \in Requests, (pc'[r] = "put" /\ op[r] # "submit") \/ pc'[r] = "done"
                 PROVE  items'[target[r]] # NoItem
      BY <2>2 DEF TargetsStored
    <3>1. CASE r = q
      BY <1>1, <2>1, <3>1 DEF ItemsInv, TypeOK
    <3>2. CASE r # q
      <4>1. target[r] \in Stored
        BY <1>1, <2>2, <3>2 DEF TargetsStored, Stored, ItemsInv, TypeOK
      <4> QED
        BY <2>1, <4>1
    <3> QED
      BY <3>1, <3>2
  <2>6. WithdrawalsHold'
    <3> SUFFICES ASSUME NEW r \in Requests, op[r] = "withdraw", pc'[r] = "done"
                 PROVE  WithdrawalHolds(target[r])'
      BY <2>2 DEF WithdrawalsHold
    <3>1. CASE r = q
      <4>1. items'[target[r]] = body[q] /\ body[q].status = "CANCELLED"
        BY <1>1, <2>1, <2>2, <3>1 DEF RevivalInv, Bodies, ItemsInv, TypeOK
      <4> QED
        BY <2>2, <4>1 DEF WithdrawalHolds
    <3>2. CASE r # q
      BY <1>1, <1>3, <2>2, <3>2, PutLeavesWithdrawn DEF ItemsInv, TypeOK
    <3> QED
      BY <3>1, <3>2
  <2> QED
    BY <1>1, <2>4, <2>5, <2>6
<1> QED
  BY <1>1, <1>2, <1>3, OnlyPutsWrite

\* A withdrawal that was carried out stands until the player signs up again, as
\* long as requests do not overlap.
THEOREM WithdrawalsStand == Spec => []WithdrawalsHold
<1>1. Init => WithdrawalInv
  <2> SUFFICES ASSUME Init PROVE WithdrawalInv
    OBVIOUS
  <2>1. InTurn
    BY DEF Init, InTurn, Alone, Placed, OnePerEmail, InFlight, Stored
  <2>2. Bodies /\ AmendsConfirmed
    BY DEF Init, Bodies, AmendsConfirmed
  <2>3. Made /\ TargetsStored /\ WithdrawalsHold
    BY DEF Init, Made, TargetsStored, WithdrawalsHold, Stored
  <2> QED
    BY <2>1, <2>2, <2>3, ItemsInit DEF WithdrawalInv, RevivalInv
<1>2. WithdrawalInv => WithdrawalsHold
  BY DEF WithdrawalInv
<1> QED
  BY <1>1, <1>2, WithdrawalNext, PTL DEF Spec
=============================================================================
