------------------------- MODULE GuestSignIn_proofs -------------------------
(***************************************************************************)
(* Theorems about GuestSignIn, for any number of emails, tabs and codes,   *)
(* any life of a code, and however requests overlap, fail or are lost.     *)
(***************************************************************************)
EXTENDS GuestSignIn, FiniteSetTheorems, TLAPS

-----------------------------------------------------------------------------
(* The inductive invariant. *)

\* The table and the requests' locals are functions of the right domain.
Shapes ==
    /\ stored \in [Emails -> AuthCode \cup {NoCode}]
    /\ record \in [Tabs -> AuthCode \cup {NoCode}]
    /\ IsFiniteSet(drawn)

\* Codes are numbered in the order they are drawn.
Numbered ==
    /\ \A c \in drawn : c.id <= Cardinality(drawn)
    /\ \A c, d \in drawn : c.id = d.id => c = d

\* A request was sent from a form that was filled in.
Filled ==
    \A t \in Tabs :
        /\ Pending(t) \/ step[t] = "code" => email[t] \in Emails
        /\ pc[t] \in {"getAuthCode", "deleteUsed"} => typed[t] \in Codes

\* An accepted record matched what was typed and had not expired.
Accepted ==
    \A t \in Tabs : pc[t] = "deleteUsed" =>
        record[t].to = email[t] /\ record[t].code = typed[t] /\ checked[t] < record[t].ttl

SignInInv == TypeOK /\ Shapes /\ Numbered /\ Filled /\ Accepted /\ SessionEarned

LEMMA SignInInit == Init => SignInInv
<1> SUFFICES ASSUME Init PROVE SignInInv
  OBVIOUS
<1> USE SignInAssumption DEF Init
<1>1. TypeOK
  BY DEF TypeOK
<1>2. Shapes
  BY FS_EmptySet DEF Shapes
<1>3. Numbered /\ Filled /\ Accepted /\ SessionEarned
  BY DEF Numbered, Filled, Accepted, SessionEarned, Pending
<1> QED
  BY <1>1, <1>2, <1>3 DEF SignInInv

\* The next number is a new one.
LEMMA NextNumber ==
    ASSUME SignInInv, Cardinality(drawn) < MaxCodes, NEW e \in Emails, NEW c \in Codes
    PROVE  LET new == [id |-> Cardinality(drawn) + 1, to |-> e, code |-> c, ttl |-> now + CodeTtl]
           IN  /\ new \in AuthCode
               /\ new \notin drawn
               /\ \A d \in drawn : d.id < new.id
               /\ IsFiniteSet(drawn \cup {new})
               /\ Cardinality(drawn \cup {new}) = new.id
<1> DEFINE new == [id |-> Cardinality(drawn) + 1, to |-> e, code |-> c, ttl |-> now + CodeTtl]
           n   == Cardinality(drawn)
<1>1. IsFiniteSet(drawn) /\ n \in Nat
  BY FS_CardinalityType DEF SignInInv, Shapes
<1>2. now \in 0..MaxTime /\ drawn \subseteq AuthCode
  BY DEF SignInInv, TypeOK
<1>3. new.id = n + 1
  OBVIOUS
<1>4. new \in AuthCode
  <2>1. n + 1 \in 1..MaxCodes
    BY <1>1, SignInAssumption
  <2>2. now + CodeTtl \in 0..(MaxTime + CodeTtl)
    BY <1>2, SignInAssumption
  <2> QED
    BY <2>1, <2>2 DEF AuthCode
<1>5. \A d \in drawn : d.id < n + 1
  <2> SUFFICES ASSUME NEW d \in drawn PROVE d.id < n + 1
    OBVIOUS
  <2>1. d.id \in Nat
    BY <1>2, SignInAssumption DEF AuthCode
  <2>2. d.id <= n
    BY DEF SignInInv, Numbered
  <2> QED
    BY <1>1, <2>1, <2>2
<1>6. new \notin drawn
  BY <1>1, <1>3, <1>5
<1>7. IsFiniteSet(drawn \cup {new}) /\ Cardinality(drawn \cup {new}) = n + 1
  <2> HIDE DEF new
  <2> QED
    BY <1>1, <1>6, FS_AddElement
<1> HIDE DEF n
<1> QED
  BY <1>3, <1>4, <1>5, <1>6, <1>7 DEF n

\* Drawing a code.
LEMMA PutKeeps ==
    ASSUME SignInInv, NEW t \in Tabs, PutAuthCode(t)
    PROVE  SignInInv'
<1> USE DEF SignInInv
<1>1. email[t] \in Emails
  BY DEF PutAuthCode, Filled, Pending
<1>2. PICK c \in Codes :
        LET new == [id |-> Cardinality(drawn) + 1, to |-> email[t], code |-> c,
                    ttl |-> now + CodeTtl]
        IN  /\ stored' = [stored EXCEPT ![email[t]] = new]
            /\ drawn' = drawn \cup {new}
            /\ record' = [record EXCEPT ![t] = new]
  BY DEF PutAuthCode
<1> DEFINE new == [id |-> Cardinality(drawn) + 1, to |-> email[t], code |-> c,
                   ttl |-> now + CodeTtl]
<1>3. /\ stored' = [stored EXCEPT ![email[t]] = new]
      /\ drawn' = drawn \cup {new}
      /\ record' = [record EXCEPT ![t] = new]
  BY <1>2
<1>4. /\ new \in AuthCode /\ new \notin drawn
      /\ \A d \in drawn : d.id < new.id
      /\ IsFiniteSet(drawn') /\ Cardinality(drawn') = new.id
  BY <1>1, <1>3, NextNumber DEF PutAuthCode
<1>5. new.to = email[t]
  OBVIOUS
<1> HIDE DEF new
<1>6. /\ pc[t] = "putAuthCode" /\ pc' = [pc EXCEPT ![t] = "sendCode"]
      /\ UNCHANGED <<now, inbox, step, email, typed, checked, token, sessions, crossed>>
  BY DEF PutAuthCode, form
<1>7. TypeOK'
  BY <1>1, <1>3, <1>4, <1>5, <1>6 DEF TypeOK, Shapes
<1>8. Shapes'
  BY <1>3, <1>4 DEF Shapes
<1>9. Numbered'
  <2>1. \A d \in drawn : d.id \in Nat
    BY SignInAssumption DEF TypeOK, AuthCode
  <2>2. new.id \in Nat
    BY <1>4, SignInAssumption DEF AuthCode
  <2>3. \A d \in drawn' : d.id <= new.id
    BY <1>3, <1>4, <2>1, <2>2
  <2>4. \A b, d \in drawn' : b.id = d.id => b = d
    BY <1>3, <1>4, <2>1, <2>2 DEF Numbered
  <2> QED
    BY <1>4, <2>3, <2>4 DEF Numbered
<1>10. Filled'
  BY <1>6 DEF Filled, Pending, TypeOK
<1>11. Accepted'
  BY <1>3, <1>6 DEF Accepted, TypeOK, Shapes
<1>12. SessionEarned'
  BY <1>3, <1>6 DEF SessionEarned
<1> QED
  BY <1>7, <1>8, <1>9, <1>10, <1>11, <1>12

\* The other steps draw no code.
LEMMA DrawnStays ==
    ASSUME SignInInv, drawn' = drawn
    PROVE  Numbered' /\ IsFiniteSet(drawn')
BY DEF SignInInv, Numbered, Shapes

LEMMA SendKeeps ==
    ASSUME SignInInv, NEW t \in Tabs,
           \/ \E e \in Emails : RequestCode(t, e)
           \/ \E c \in Codes : SubmitCode(t, c)
    PROVE  SignInInv'
<1> USE DEF SignInInv
<1>1. /\ pc[t] = "idle"
      /\ \/ /\ pc' = [pc EXCEPT ![t] = "putAuthCode"]
            /\ \E e \in Emails : /\ email' = [email EXCEPT ![t] = e]
                                 /\ crossed' \in SUBSET (crossed \cup {e})
            /\ typed' = typed
         \/ /\ pc' = [pc EXCEPT ![t] = "getAuthCode"]
            /\ \E c \in Codes : typed' = [typed EXCEPT ![t] = c]
            /\ crossed' \in SUBSET (crossed \cup {email[t]})
            /\ email' = email
            /\ step[t] = "code"
      /\ UNCHANGED <<now, stored, drawn, inbox, step, record, checked, token, sessions>>
  BY DEF RequestCode, SubmitCode, MaySend, Pending
<1>2. TypeOK'
  BY <1>1 DEF TypeOK, Filled
<1>3. Shapes' /\ Numbered'
  BY <1>1, DrawnStays DEF Shapes
<1>4. Filled'
  BY <1>1 DEF Filled, Pending, TypeOK
<1>5. Accepted'
  BY <1>1 DEF Accepted, TypeOK
<1>6. SessionEarned'
  BY <1>1 DEF SessionEarned
<1> QED
  BY <1>2, <1>3, <1>4, <1>5, <1>6

\* A request that ends without a session: it has sent its email, found nothing
\* to accept, deleted an expired record, or failed.
LEMMA EndKeeps ==
    ASSUME SignInInv, NEW t \in Tabs, Pending(t), Respond(t),
           stored' \in {stored, [stored EXCEPT ![email[t]] = NoCode]},
           \/ inbox' = inbox /\ step' = step
           \/ /\ pc[t] = "sendCode"
              /\ inbox' = inbox \cup {record[t].id}
              /\ step' = [step EXCEPT ![t] = "code"],
           UNCHANGED <<now, drawn, email, typed, checked, token, sessions, crossed>>
    PROVE  SignInInv'
<1> USE DEF SignInInv, Respond
<1>1. TypeOK'
  <2>1. \A e \in Emails : stored'[e] \in {stored[e], NoCode}
    BY DEF Shapes
  <2>2. inbox' \subseteq {c.id : c \in drawn}
    BY DEF TypeOK
  <2>3. step' \in [Tabs -> {"email", "code"}]
    BY DEF TypeOK
  <2>4. \A u \in Tabs : IF pc'[u] \in {"sendCode", "deleteUsed"}
                        THEN record'[u] \in drawn
                        ELSE record'[u] = NoCode
    BY DEF TypeOK, Shapes
  <2> QED
    BY <2>1, <2>2, <2>3, <2>4 DEF TypeOK
<1>2. Shapes' /\ Numbered'
  BY DrawnStays DEF Shapes
<1>3. Filled'
  BY DEF Filled, Pending, TypeOK
<1>4. Accepted'
  BY DEF Accepted, TypeOK, Shapes
<1>5. SessionEarned'
  BY DEF SessionEarned
<1> QED
  BY <1>1, <1>2, <1>3, <1>4, <1>5

\* The record is read and kept: expired, or accepted.
LEMMA CheckKeeps ==
    ASSUME SignInInv, NEW t \in Tabs, CheckAuthCode(t)
    PROVE  SignInInv'
<1> USE DEF SignInInv
<1> DEFINE found == stored[email[t]]
<1>1. email[t] \in Emails /\ Pending(t)
  BY DEF CheckAuthCode, Filled, Pending
<1>2. /\ pc[t] = "getAuthCode"
      /\ UNCHANGED <<now, stored, drawn, inbox, step, email, typed, token, sessions, crossed>>
  BY DEF CheckAuthCode, form
<1>3. \/ Respond(t) /\ UNCHANGED checked
      \/ pc' = [pc EXCEPT ![t] = "deleteExpired"] /\ UNCHANGED <<record, checked>>
      \/ /\ found # NoCode /\ found.to = email[t] /\ found.code = typed[t] /\ ~ (found.ttl <= now)
         /\ pc' = [pc EXCEPT ![t] = "deleteUsed"]
         /\ record' = [record EXCEPT ![t] = found]
         /\ checked' = [checked EXCEPT ![t] = now]
  BY DEF CheckAuthCode, Expired, HashMatches
<1>4. CASE Respond(t) /\ UNCHANGED checked
  BY <1>1, <1>2, <1>4, EndKeeps
<1>5. CASE ~ (Respond(t) /\ UNCHANGED checked)
  <2>1. found # NoCode => found \in drawn /\ found \in AuthCode
    BY <1>1 DEF TypeOK
  <2>2. TypeOK'
    <3>1. pc' \in [Tabs -> {"idle", "putAuthCode", "sendCode", "getAuthCode", "deleteExpired",
                            "deleteUsed"}]
      BY <1>3, <1>5 DEF TypeOK
    <3>2. \A u \in Tabs : IF pc'[u] \in {"sendCode", "deleteUsed"}
                          THEN record'[u] \in drawn
                          ELSE record'[u] = NoCode
      BY <1>2, <1>3, <1>5, <2>1 DEF TypeOK, Shapes
    <3>3. checked' \in [Tabs -> 0..MaxTime]
      BY <1>3, <1>5 DEF TypeOK
    <3> QED
      BY <1>2, <3>1, <3>2, <3>3 DEF TypeOK
  <2>3. Shapes' /\ Numbered'
    BY <1>2, <1>3, <1>5, <2>1, DrawnStays DEF Shapes
  <2>4. Filled'
    BY <1>2, <1>3, <1>5 DEF Filled, Pending, TypeOK
  <2>5. Accepted'
    <3> SUFFICES ASSUME NEW u \in Tabs, pc'[u] = "deleteUsed"
                 PROVE  /\ record'[u].to = email[u] /\ record'[u].code = typed[u]
                        /\ checked'[u] < record'[u].ttl
      BY <1>2 DEF Accepted
    <3>1. CASE u # t
      BY <1>3, <1>5, <3>1 DEF Accepted, TypeOK, Shapes
    <3>2. CASE u = t
      <4>1. /\ found # NoCode /\ found.to = email[t] /\ found.code = typed[t]
            /\ ~ (found.ttl <= now) /\ record'[t] = found /\ checked'[t] = now
        BY <1>3, <1>5, <3>2 DEF TypeOK, Shapes
      <4>2. found.ttl \in Int /\ now \in Int
        BY <2>1, <4>1, SignInAssumption DEF TypeOK, AuthCode
      <4> HIDE DEF found
      <4> QED
        BY <3>2, <4>1, <4>2
    <3> QED
      BY <3>1, <3>2
  <2>6. SessionEarned'
    BY <1>2 DEF SessionEarned
  <2> QED
    BY <2>2, <2>3, <2>4, <2>5, <2>6
<1> QED
  BY <1>4, <1>5

\* A session is issued.
LEMMA UseKeeps ==
    ASSUME SignInInv, NEW t \in Tabs, DeleteUsed(t)
    PROVE  SignInInv'
<1> USE DEF SignInInv
<1> DEFINE s == [tab |-> t, email |-> email[t], code |-> typed[t], id |-> record[t].id,
                 at |-> checked[t]]
<1>1. /\ pc[t] = "deleteUsed"
      /\ stored' = [stored EXCEPT ![email[t]] = NoCode]
      /\ sessions' = sessions \cup {s}
      /\ token' \in {token, [token EXCEPT ![t] = email[t]]}
      /\ pc' = [pc EXCEPT ![t] = "idle"] /\ record' = [record EXCEPT ![t] = NoCode]
      /\ UNCHANGED <<now, drawn, inbox, step, email, typed, checked, crossed>>
  BY DEF DeleteUsed, Respond, form
<1>2. /\ record[t] \in drawn /\ record[t] \in AuthCode
      /\ email[t] \in Emails /\ typed[t] \in Codes
      /\ record[t].to = email[t] /\ record[t].code = typed[t] /\ checked[t] < record[t].ttl
  BY <1>1 DEF TypeOK, Filled, Accepted, Pending
<1>3. s \in Session
  BY <1>2 DEF Session, AuthCode, TypeOK
<1>4. /\ s.tab = t /\ s.email = email[t]
      /\ record[t].id = s.id /\ record[t].to = s.email /\ record[t].code = s.code
      /\ s.at < record[t].ttl
  BY <1>2
<1> HIDE DEF s
<1>5. TypeOK'
  <2>1. \A e \in Emails : stored'[e] \in {stored[e], NoCode}
    BY <1>1 DEF Shapes
  <2>2. \A u \in Tabs : IF pc'[u] \in {"sendCode", "deleteUsed"}
                        THEN record'[u] \in drawn
                        ELSE record'[u] = NoCode
    BY <1>1 DEF TypeOK, Shapes
  <2>3. token' \in [Tabs -> Emails \cup {NoEmail}]
    BY <1>1, <1>2 DEF TypeOK
  <2>4. sessions' \subseteq Session
    BY <1>1, <1>3 DEF TypeOK
  <2>5. /\ now' \in 0..MaxTime
        /\ drawn' \subseteq AuthCode
        /\ \A e \in Emails : stored'[e] = NoCode \/ (stored'[e] \in drawn' /\ stored'[e].to = e)
        /\ inbox' \subseteq {c.id : c \in drawn'}
    BY <1>1, <2>1 DEF TypeOK
  <2>6. /\ step' \in [Tabs -> {"email", "code"}]
        /\ email' \in [Tabs -> Emails \cup {NoEmail}]
        /\ typed' \in [Tabs -> Codes \cup {NoCode}]
        /\ pc' \in [Tabs -> {"idle", "putAuthCode", "sendCode", "getAuthCode", "deleteExpired",
                             "deleteUsed"}]
        /\ checked' \in [Tabs -> 0..MaxTime]
        /\ crossed' \subseteq Emails
    BY <1>1 DEF TypeOK
  <2> QED
    BY <1>1, <2>2, <2>3, <2>4, <2>5, <2>6 DEF TypeOK
<1>6. Shapes' /\ Numbered'
  BY <1>1, DrawnStays DEF Shapes
<1>7. Filled'
  BY <1>1 DEF Filled, Pending, TypeOK
<1>8. Accepted'
  BY <1>1 DEF Accepted, TypeOK, Shapes
<1>9. SessionEarned'
  <2>1. \A u \in sessions' : \E c \in drawn' :
            c.id = u.id /\ c.to = u.email /\ c.code = u.code /\ u.at < c.ttl
    BY <1>1, <1>2, <1>4 DEF SessionEarned
  <2>2. \A u \in Tabs : token'[u] # NoEmail =>
            \E r \in sessions' : r.tab = u /\ r.email = token'[u]
    <3> SUFFICES ASSUME NEW u \in Tabs, token'[u] # NoEmail
                 PROVE  \E r \in sessions' : r.tab = u /\ r.email = token'[u]
      OBVIOUS
    <3>1. token'[u] = token[u] \/ (u = t /\ token'[u] = email[t])
      BY <1>1 DEF TypeOK
    <3>2. CASE token'[u] = token[u]
      BY <1>1, <3>2 DEF SessionEarned
    <3>3. CASE u = t /\ token'[u] = email[t]
      BY <1>1, <1>4, <3>3
    <3> QED
      BY <3>1, <3>2, <3>3
  <2> QED
    BY <2>1, <2>2 DEF SessionEarned
<1> QED
  BY <1>5, <1>6, <1>7, <1>8, <1>9

\* Steps of the browser, the clock and the sweeper, no request of whose is sent.
LEMMA QuietKeeps ==
    ASSUME SignInInv,
           \/ \E t \in Tabs : Reload(t) \/ DropToken(t)
           \/ \E e \in Emails : Sweep(e)
           \/ Tick
           \/ UNCHANGED vars
    PROVE  SignInInv'
<1> USE DEF SignInInv
<1>1. /\ UNCHANGED <<drawn, inbox, pc, record, checked, sessions, crossed>>
      /\ stored' = stored \/ \E e \in Emails : stored' = [stored EXCEPT ![e] = NoCode]
      /\ now' = now \/ (now < MaxTime /\ now' = now + 1)
      /\ token' = token \/ \E t \in Tabs : token' = [token EXCEPT ![t] = NoEmail]
      /\ \/ UNCHANGED <<step, email, typed>>
         \/ \E t \in Tabs : /\ pc[t] = "idle"
                            /\ step' = [step EXCEPT ![t] = "email"]
                            /\ email' = [email EXCEPT ![t] = NoEmail]
                            /\ typed' = [typed EXCEPT ![t] = NoCode]
  BY DEF Reload, DropToken, Sweep, Tick, vars, form, request, Pending
<1>2. TypeOK'
  <2>1. \A e \in Emails : stored'[e] \in {stored[e], NoCode}
    BY <1>1 DEF Shapes
  <2>2. now' \in 0..MaxTime
    BY <1>1, SignInAssumption DEF TypeOK
  <2>3. token' \in [Tabs -> Emails \cup {NoEmail}]
    BY <1>1 DEF TypeOK
  <2>4. /\ step' \in [Tabs -> {"email", "code"}]
        /\ email' \in [Tabs -> Emails \cup {NoEmail}]
        /\ typed' \in [Tabs -> Codes \cup {NoCode}]
    BY <1>1 DEF TypeOK
  <2> QED
    BY <1>1, <2>1, <2>2, <2>3, <2>4 DEF TypeOK
<1>3. Shapes' /\ Numbered'
  BY <1>1, DrawnStays DEF Shapes
<1>4. Filled'
  BY <1>1 DEF Filled, Pending, TypeOK
<1>5. Accepted'
  BY <1>1 DEF Accepted, TypeOK
<1>6. SessionEarned'
  BY <1>1 DEF SessionEarned, TypeOK
<1> QED
  BY <1>2, <1>3, <1>4, <1>5, <1>6

LEMMA SignInNext == SignInInv /\ [Next]_vars => SignInInv'
<1> SUFFICES ASSUME SignInInv, [Next]_vars PROVE SignInInv'
  OBVIOUS
<1>1. ASSUME NEW t \in Tabs, SendCode(t) \/ DeleteExpired(t) \/ Fail(t) PROVE SignInInv'
  BY <1>1, EndKeeps DEF SendCode, DeleteExpired, Fail, form, Pending
<1> QED
  BY <1>1, SendKeeps, PutKeeps, CheckKeeps, UseKeeps, QuietKeeps DEF Next, Server

THEOREM SignInInvariant == Spec => []SignInInv
<1> QED
  BY SignInInit, SignInNext, PTL DEF Spec

\* The form, the requests, the codes and the sessions keep their types (TypeOK).
THEOREM SignInTypeCorrect == Spec => []TypeOK
<1>1. SignInInv => TypeOK
  BY DEF SignInInv
<1> QED
  BY <1>1, SignInInvariant, PTL

\* verifyGuestCode issues a session only for a code drawn for that very email and
\* not expired when checked, and a tab holds only a token issued to it so.
THEOREM SessionsAreEarned == Spec => []SessionEarned
<1>1. SignInInv => SessionEarned
  BY DEF SignInInv
<1> QED
  BY <1>1, SignInInvariant, PTL
-----------------------------------------------------------------------------
(* One request at a time. *)

\* Two requests in flight about the same email have crossed.
Exclusive ==
    \A t, u \in Tabs : Pending(t) /\ Pending(u) /\ email[t] = email[u] =>
        t = u \/ email[t] \in crossed

\* Nobody else has replaced the record that a request is about to delete.
AtHand ==
    \A t \in Tabs : email[t] \notin crossed =>
        /\ pc[t] = "deleteUsed" => stored[email[t]] \in {record[t], NoCode}
        /\ pc[t] = "deleteExpired" => stored[email[t]] = NoCode \/ stored[email[t]].ttl <= now

\* A code that has been used is neither stored nor accepted by a request.
Spent ==
    \A s \in sessions : s.email \notin crossed =>
        /\ \A e \in Emails : stored[e] # NoCode => stored[e].id # s.id
        /\ \A t \in Tabs : pc[t] = "deleteUsed" => record[t].id # s.id

CodesInv == Exclusive /\ AtHand /\ Spent /\ SingleUse /\ LatestCodeStands

LEMMA CodesInit == Init => CodesInv
BY DEF Init, CodesInv, Exclusive, AtHand, Spent, SingleUse, LatestCodeStands, Pending

\* What is stored has a number and a time to live; a session names its code.
LEMMA CodeFacts ==
    ASSUME SignInInv
    PROVE  /\ \A c \in drawn : c # NoCode /\ c.id \in Nat /\ c.ttl \in Nat /\ c.to \in Emails
           /\ \A e \in Emails : stored[e] # NoCode => stored[e] \in drawn /\ stored[e].to = e
           /\ \A t \in Tabs : Pending(t) => email[t] \in Emails
           /\ \A t \in Tabs : pc[t] = "deleteUsed" => record[t] \in drawn /\ record[t].to = email[t]
           /\ \A s \in sessions : \E c \in drawn : c.id = s.id /\ c.to = s.email
           /\ \A c, d \in drawn : c.id = d.id => c = d
           /\ now \in Nat
<1> USE DEF SignInInv
<1>1. \A c \in drawn : c # NoCode /\ c.id \in Nat /\ c.ttl \in Nat /\ c.to \in Emails
  BY NoRecordAssumption, SignInAssumption DEF TypeOK, AuthCode
<1>2. \A e \in Emails : stored[e] # NoCode => stored[e] \in drawn /\ stored[e].to = e
  BY DEF TypeOK
<1>3. \A t \in Tabs : pc[t] = "deleteUsed" => record[t] \in drawn /\ record[t].to = email[t]
  BY DEF TypeOK, Accepted
<1>4. now \in Nat
  BY SignInAssumption DEF TypeOK
<1> QED
  BY <1>1, <1>2, <1>3, <1>4 DEF Filled, SessionEarned, Numbered

LEMMA CodesPut ==
    ASSUME SignInInv, CodesInv, NEW t \in Tabs, PutAuthCode(t)
    PROVE  CodesInv'
<1>1. email[t] \in Emails
  BY CodeFacts DEF PutAuthCode, Pending
<1>2. PICK c \in Codes :
        LET new == [id |-> Cardinality(drawn) + 1, to |-> email[t], code |-> c,
                    ttl |-> now + CodeTtl]
        IN  /\ stored' = [stored EXCEPT ![email[t]] = new]
            /\ drawn' = drawn \cup {new}
            /\ record' = [record EXCEPT ![t] = new]
  BY DEF PutAuthCode
<1> DEFINE new == [id |-> Cardinality(drawn) + 1, to |-> email[t], code |-> c,
                   ttl |-> now + CodeTtl]
<1>3. /\ stored' = [stored EXCEPT ![email[t]] = new]
      /\ drawn' = drawn \cup {new}
      /\ record' = [record EXCEPT ![t] = new]
  BY <1>2
<1>4. new \in AuthCode /\ \A d \in drawn : d.id < new.id
  BY <1>1, NextNumber DEF PutAuthCode
<1>5. new.to = email[t]
  OBVIOUS
<1> HIDE DEF new
<1>6. /\ pc[t] = "putAuthCode" /\ pc' = [pc EXCEPT ![t] = "sendCode"]
      /\ UNCHANGED <<now, email, sessions, crossed>>
  BY DEF PutAuthCode, form
<1>7. /\ DOMAIN stored = Emails /\ DOMAIN record = Tabs /\ DOMAIN pc = Tabs
  BY DEF SignInInv, Shapes, TypeOK
<1>8. stored'[email[t]] = new /\ \A e \in Emails \ {email[t]} : stored'[e] = stored[e]
  BY <1>1, <1>3, <1>7
<1>9. \A u \in Tabs : /\ Pending(u)' <=> Pending(u)
                      /\ pc'[u] \in {"deleteUsed", "deleteExpired"} =>
                            pc'[u] = pc[u] /\ u # t /\ record'[u] = record[u] /\ Pending(u)
  BY <1>3, <1>6, <1>7 DEF Pending
<1>10. Exclusive'
  BY <1>6, <1>9 DEF CodesInv, Exclusive
<1>11. AtHand'
  <2> SUFFICES ASSUME NEW u \in Tabs, email[u] \notin crossed,
                      pc'[u] \in {"deleteUsed", "deleteExpired"}
               PROVE  /\ pc[u] = "deleteUsed" => stored'[email[u]] \in {record[u], NoCode}
                      /\ pc[u] = "deleteExpired" =>
                            stored'[email[u]] = NoCode \/ stored'[email[u]].ttl <= now
    BY <1>6, <1>9 DEF AtHand
  <2>1. Pending(t) /\ Pending(u) /\ u # t
    BY <1>6, <1>9 DEF Pending
  <2>2. email[u] # email[t] /\ email[u] \in Emails
    BY <2>1, CodeFacts DEF CodesInv, Exclusive
  <2>3. stored'[email[u]] = stored[email[u]]
    BY <1>8, <2>2
  <2> QED
    BY <2>3 DEF CodesInv, AtHand
<1>12. Spent'
  <2> SUFFICES ASSUME NEW s \in sessions, s.email \notin crossed
               PROVE  /\ \A e \in Emails : stored'[e] # NoCode => stored'[e].id # s.id
                      /\ \A u \in Tabs : pc'[u] = "deleteUsed" => record'[u].id # s.id
    BY <1>6 DEF Spent
  <2>1. new.id # s.id
    <3>1. PICK d \in drawn : d.id = s.id
      BY CodeFacts
    <3>2. d.id \in Nat /\ new.id \in Nat /\ d.id < new.id
      BY <1>4, CodeFacts, SignInAssumption DEF AuthCode
    <3> QED
      BY <3>1, <3>2
  <2> QED
    BY <1>8, <1>9, <2>1 DEF CodesInv, Spent
<1>13. SingleUse'
  BY <1>6 DEF CodesInv, SingleUse
<1>14. LatestCodeStands'
  <2> SUFFICES ASSUME NEW d \in drawn'
               PROVE  \/ d.to \in crossed
                      \/ \E b \in drawn' : b.to = d.to /\ b.id > d.id
                      \/ d.ttl <= now
                      \/ \E s \in sessions : s.id = d.id
                      \/ stored'[d.to] = d
    BY <1>6 DEF LatestCodeStands
  <2>1. CASE d = new
    BY <1>5, <1>8, <2>1
  <2>2. CASE d # new /\ d.to = email[t]
    <3>1. d \in drawn /\ d.id < new.id /\ new \in drawn'
      BY <1>3, <1>4, <2>2
    <3>2. d.id \in Nat /\ new.id \in Nat
      BY <1>4, <3>1, CodeFacts, SignInAssumption DEF AuthCode
    <3> QED
      BY <1>5, <2>2, <3>1, <3>2
  <2>3. CASE d # new /\ d.to # email[t]
    <3>1. d \in drawn /\ drawn \subseteq drawn' /\ d.to \in Emails
      BY <1>3, <2>3, CodeFacts
    <3>2. stored'[d.to] = stored[d.to]
      BY <1>8, <2>3, <3>1
    <3> QED
      BY <3>1, <3>2 DEF CodesInv, LatestCodeStands
  <2> QED
    BY <2>1, <2>2, <2>3
<1> QED
  BY <1>10, <1>11, <1>12, <1>13, <1>14 DEF CodesInv

LEMMA CodesSend ==
    ASSUME SignInInv, CodesInv, NEW t \in Tabs,
           \/ \E e \in Emails : RequestCode(t, e)
           \/ \E c \in Codes : SubmitCode(t, c)
    PROVE  CodesInv'
<1>1. /\ ~ Pending(t)
      /\ pc' \in {[pc EXCEPT ![t] = "putAuthCode"], [pc EXCEPT ![t] = "getAuthCode"]}
      /\ \E e : /\ email' = [email EXCEPT ![t] = e]
                /\ crossed' = crossed \cup {d \in {e} : \E u \in Tabs : Pending(u) /\ email[u] = d}
      /\ UNCHANGED <<now, stored, drawn, record, sessions>>
  <2>1. CASE \E e \in Emails : RequestCode(t, e)
    BY <2>1 DEF RequestCode, MaySend
  <2>2. CASE \E c \in Codes : SubmitCode(t, c)
    <3>1. email' = email /\ email = [email EXCEPT ![t] = email[t]]
      BY <2>2 DEF SubmitCode, SignInInv, TypeOK
    <3> QED
      BY <2>2, <3>1 DEF SubmitCode, MaySend
  <2> QED
    BY <2>1, <2>2
<1>2. PICK e : /\ email' = [email EXCEPT ![t] = e]
               /\ crossed' = crossed \cup {d \in {e} : \E u \in Tabs : Pending(u) /\ email[u] = d}
  BY <1>1
<1>3. crossed \subseteq crossed' /\ \A u \in Tabs : Pending(u) /\ email[u] = e => e \in crossed'
  BY <1>2
<1>4. /\ email'[t] = e
      /\ pc'[t] \notin {"deleteUsed", "deleteExpired"}
      /\ \A u \in Tabs \ {t} : email'[u] = email[u] /\ pc'[u] = pc[u]
  BY <1>1, <1>2 DEF SignInInv, TypeOK
<1>5. Exclusive'
  <2> SUFFICES ASSUME NEW u \in Tabs, NEW v \in Tabs, Pending(u)', Pending(v)',
                      email'[u] = email'[v], u # v
               PROVE  email'[u] \in crossed'
    BY DEF Exclusive
  <2>1. \A w \in {u, v} \ {t} : Pending(w) /\ email'[w] = email[w]
    BY <1>4 DEF Pending
  <2> QED
    BY <1>3, <1>4, <2>1 DEF CodesInv, Exclusive
<1>6. AtHand'
  BY <1>1, <1>3, <1>4 DEF CodesInv, AtHand
<1>7. Spent'
  BY <1>1, <1>3, <1>4 DEF CodesInv, Spent
<1>8. SingleUse' /\ LatestCodeStands'
  BY <1>1, <1>3 DEF CodesInv, SingleUse, LatestCodeStands
<1> QED
  BY <1>5, <1>6, <1>7, <1>8 DEF CodesInv

\* A request that ends without a session deletes an expired record at most.
LEMMA CodesEnd ==
    ASSUME SignInInv, CodesInv, NEW t \in Tabs, Pending(t), Respond(t),
           \/ stored' = stored
           \/ pc[t] = "deleteExpired" /\ stored' = [stored EXCEPT ![email[t]] = NoCode],
           UNCHANGED <<now, drawn, email, sessions, crossed>>
    PROVE  CodesInv'
<1>1. /\ pc'[t] = "idle"
      /\ \A u \in Tabs \ {t} : pc'[u] = pc[u] /\ record'[u] = record[u]
  BY DEF Respond, SignInInv, TypeOK, Shapes
<1>2. \A e \in Emails : stored'[e] \in {stored[e], NoCode}
  BY DEF SignInInv, Shapes
<1>3. \A u \in Tabs : Pending(u)' => Pending(u)
  BY <1>1 DEF Pending
<1>4. Exclusive'
  BY <1>3 DEF CodesInv, Exclusive
<1>5. AtHand'
  <2> SUFFICES ASSUME NEW u \in Tabs, email[u] \notin crossed,
                      pc'[u] \in {"deleteUsed", "deleteExpired"}
               PROVE  /\ pc'[u] = "deleteUsed" => stored'[email[u]] \in {record'[u], NoCode}
                      /\ pc'[u] = "deleteExpired" =>
                            stored'[email[u]] = NoCode \/ stored'[email[u]].ttl <= now
    BY DEF AtHand
  <2>1. u # t /\ pc'[u] = pc[u] /\ record'[u] = record[u] /\ email[u] \in Emails
    BY <1>1, <1>3, CodeFacts DEF Pending
  <2> QED
    BY <1>2, <2>1 DEF CodesInv, AtHand
<1>6. Spent'
  BY <1>1, <1>2 DEF CodesInv, Spent
<1>7. SingleUse'
  BY DEF CodesInv, SingleUse
<1>8. LatestCodeStands'
  <2> SUFFICES ASSUME NEW c \in drawn, c.to \notin crossed, ~ (c.ttl <= now), stored[c.to] = c
               PROVE  stored'[c.to] = c
    BY DEF CodesInv, LatestCodeStands
  <2>1. c # NoCode /\ c.to \in Emails
    BY CodeFacts
  <2>2. ~ (pc[t] = "deleteExpired" /\ email[t] = c.to)
    BY <2>1 DEF CodesInv, AtHand
  <2> QED
    BY <2>1, <2>2 DEF SignInInv, Shapes
<1> QED
  BY <1>4, <1>5, <1>6, <1>7, <1>8 DEF CodesInv

LEMMA CodesCheck ==
    ASSUME SignInInv, CodesInv, NEW t \in Tabs, CheckAuthCode(t)
    PROVE  CodesInv'
<1> DEFINE found == stored[email[t]]
<1>1. Pending(t) /\ email[t] \in Emails
  BY CodeFacts DEF CheckAuthCode, Pending
<1>2. UNCHANGED <<now, stored, drawn, email, sessions, crossed>>
  BY DEF CheckAuthCode, form
<1>3. \/ Respond(t)
      \/ found.ttl <= now /\ pc' = [pc EXCEPT ![t] = "deleteExpired"] /\ record' = record
      \/ /\ found # NoCode
         /\ pc' = [pc EXCEPT ![t] = "deleteUsed"]
         /\ record' = [record EXCEPT ![t] = found]
  BY DEF CheckAuthCode, Expired
<1>4. CASE Respond(t)
  BY <1>1, <1>2, <1>4, CodesEnd
<1>5. CASE ~ Respond(t)
  <2>1. /\ \A u \in Tabs \ {t} : pc'[u] = pc[u] /\ record'[u] = record[u]
        /\ pc'[t] \in {"deleteExpired", "deleteUsed"}
        /\ pc'[t] = "deleteExpired" => found.ttl <= now
        /\ pc'[t] = "deleteUsed" => found # NoCode /\ record'[t] = found
    BY <1>3, <1>5 DEF SignInInv, TypeOK, Shapes
  <2>2. Exclusive'
    BY <1>1, <1>2, <2>1 DEF CodesInv, Exclusive, Pending
  <2>3. AtHand'
    BY <1>2, <2>1 DEF CodesInv, AtHand
  <2>4. Spent'
    BY <1>1, <1>2, <2>1 DEF CodesInv, Spent
  <2>5. SingleUse' /\ LatestCodeStands'
    BY <1>2 DEF CodesInv, SingleUse, LatestCodeStands
  <2> QED
    BY <2>2, <2>3, <2>4, <2>5 DEF CodesInv
<1> QED
  BY <1>4, <1>5

LEMMA CodesUse ==
    ASSUME SignInInv, CodesInv, NEW t \in Tabs, DeleteUsed(t)
    PROVE  CodesInv'
<1> DEFINE s == [tab |-> t, email |-> email[t], code |-> typed[t], id |-> record[t].id,
                 at |-> checked[t]]
<1>1. /\ pc[t] = "deleteUsed"
      /\ stored' = [stored EXCEPT ![email[t]] = NoCode]
      /\ sessions' = sessions \cup {s}
      /\ pc' = [pc EXCEPT ![t] = "idle"] /\ record' = [record EXCEPT ![t] = NoCode]
      /\ UNCHANGED <<now, drawn, email, crossed>>
  BY DEF DeleteUsed, Respond, form
<1>2. s.email = email[t] /\ s.id = record[t].id
  OBVIOUS
<1> HIDE DEF s
<1>3. /\ email[t] \in Emails /\ record[t] \in drawn /\ record[t].to = email[t] /\ Pending(t)
  BY <1>1, CodeFacts DEF Pending
<1>4. /\ pc'[t] = "idle"
      /\ \A u \in Tabs \ {t} : pc'[u] = pc[u] /\ record'[u] = record[u]
      /\ stored'[email[t]] = NoCode
      /\ \A e \in Emails \ {email[t]} : stored'[e] = stored[e]
  BY <1>1, <1>3 DEF SignInInv, TypeOK, Shapes
<1>5. Exclusive'
  BY <1>1, <1>4 DEF CodesInv, Exclusive, Pending
<1>6. AtHand'
  <2> SUFFICES ASSUME NEW u \in Tabs, email[u] \notin crossed,
                      pc'[u] \in {"deleteUsed", "deleteExpired"}
               PROVE  /\ pc'[u] = "deleteUsed" => stored'[email[u]] \in {record'[u], NoCode}
                      /\ pc'[u] = "deleteExpired" =>
                            stored'[email[u]] = NoCode \/ stored'[email[u]].ttl <= now
    BY <1>1 DEF AtHand
  <2>1. u # t /\ pc'[u] = pc[u] /\ record'[u] = record[u] /\ email[u] \in Emails
    BY <1>4, CodeFacts DEF Pending
  <2> QED
    BY <1>4, <2>1 DEF CodesInv, AtHand
<1>7. Spent'
  <2> SUFFICES ASSUME NEW r \in sessions', r.email \notin crossed
               PROVE  /\ \A e \in Emails : stored'[e] # NoCode => stored'[e].id # r.id
                      /\ \A u \in Tabs : pc'[u] = "deleteUsed" => record'[u].id # r.id
    BY <1>1 DEF Spent
  <2>1. CASE r \in sessions
    BY <1>4, <2>1 DEF CodesInv, Spent
  <2>2. CASE r = s
    <3>1. ASSUME NEW e \in Emails, stored'[e] # NoCode PROVE stored'[e].id # s.id
      <4>1. e # email[t] /\ stored[e] \in drawn /\ stored[e].to = e /\ stored'[e] = stored[e]
        BY <1>4, <3>1, CodeFacts
      <4> QED
        BY <1>2, <1>3, <4>1, CodeFacts
    <3>2. ASSUME NEW u \in Tabs, pc'[u] = "deleteUsed" PROVE record'[u].id # s.id
      <4>1. u # t /\ pc[u] = "deleteUsed" /\ record'[u] = record[u]
        BY <1>4, <3>2
      <4>2. record[u] \in drawn /\ record[u].to = email[u] /\ Pending(u)
        BY <4>1, CodeFacts DEF Pending
      <4>3. email[u] # email[t]
        BY <1>2, <1>3, <2>2, <4>1, <4>2 DEF CodesInv, Exclusive
      <4>4. record[u].id # record[t].id
        BY <1>3, <4>2, <4>3, CodeFacts
      <4> QED
        BY <1>2, <4>1, <4>4
    <3> QED
      BY <2>2, <3>1, <3>2
  <2> QED
    BY <1>1, <2>1, <2>2
<1>8. SingleUse'
  <2>1. \A r \in sessions : r.id = s.id => r.email = s.email /\ r.email \in crossed
    <3> SUFFICES ASSUME NEW r \in sessions, r.id = s.id
                 PROVE  r.email = s.email /\ r.email \in crossed
      OBVIOUS
    <3>1. PICK c \in drawn : c.id = r.id /\ c.to = r.email
      BY CodeFacts
    <3>2. c = record[t]
      BY <1>2, <1>3, <3>1, CodeFacts
    <3> QED
      BY <1>1, <1>2, <1>3, <3>1, <3>2 DEF CodesInv, Spent
  <2> QED
    BY <1>1, <2>1 DEF CodesInv, SingleUse
<1>9. LatestCodeStands'
  <2> SUFFICES ASSUME NEW c \in drawn, c.to \notin crossed, stored[c.to] = c
               PROVE  stored'[c.to] = c \/ s.id = c.id
    BY <1>1 DEF CodesInv, LatestCodeStands
  <2>1. c # NoCode /\ c.to \in Emails
    BY CodeFacts
  <2>2. c.to = email[t] => c = record[t]
    BY <1>1, <2>1 DEF CodesInv, AtHand
  <2> QED
    BY <1>2, <1>4, <2>1, <2>2
<1> QED
  BY <1>5, <1>6, <1>7, <1>8, <1>9 DEF CodesInv

LEMMA CodesQuiet ==
    ASSUME SignInInv, CodesInv,
           \/ \E t \in Tabs : Reload(t) \/ DropToken(t)
           \/ \E e \in Emails : Sweep(e)
           \/ Tick
           \/ UNCHANGED vars
    PROVE  CodesInv'
<1>1. /\ UNCHANGED <<drawn, pc, record, sessions, crossed>>
      /\ \/ stored' = stored
         \/ \E e \in Emails : stored[e].ttl < now /\ stored' = [stored EXCEPT ![e] = NoCode]
      /\ now' = now \/ now' = now + 1
      /\ email' = email \/ \E t \in Tabs : ~ Pending(t) /\ email' = [email EXCEPT ![t] = NoEmail]
  BY DEF Reload, DropToken, Sweep, Tick, vars, form, request
<1>2. \A e \in Emails : \/ stored'[e] = stored[e]
                        \/ stored'[e] = NoCode /\ stored[e].ttl < now
  BY <1>1 DEF SignInInv, Shapes
<1>3. \A u \in Tabs : /\ Pending(u)' <=> Pending(u)
                      /\ Pending(u) => email'[u] = email[u] /\ email[u] \in Emails
  BY <1>1, CodeFacts DEF Pending, SignInInv, TypeOK
<1>4. \A c \in drawn : c.ttl <= now => c.ttl <= now'
  BY <1>1, CodeFacts
<1>5. Exclusive'
  BY <1>1, <1>3 DEF CodesInv, Exclusive
<1>6. AtHand'
  <2> SUFFICES ASSUME NEW u \in Tabs, email[u] \notin crossed,
                      pc[u] \in {"deleteUsed", "deleteExpired"}
               PROVE  /\ pc[u] = "deleteUsed" => stored'[email[u]] \in {record[u], NoCode}
                      /\ pc[u] = "deleteExpired" =>
                            stored'[email[u]] = NoCode \/ stored'[email[u]].ttl <= now'
    BY <1>1, <1>3 DEF AtHand, Pending
  <2>1. email[u] \in Emails
    BY <1>3 DEF Pending
  <2>2. stored[email[u]] # NoCode => stored[email[u]] \in drawn
    BY <2>1, CodeFacts
  <2> QED
    BY <1>2, <1>4, <2>1, <2>2 DEF CodesInv, AtHand
<1>7. Spent'
  BY <1>1, <1>2 DEF CodesInv, Spent
<1>8. SingleUse'
  BY <1>1 DEF CodesInv, SingleUse
<1>9. LatestCodeStands'
  <2> SUFFICES ASSUME NEW c \in drawn, ~ (c.ttl <= now'), stored[c.to] = c
               PROVE  stored'[c.to] = c
    BY <1>1, <1>4 DEF CodesInv, LatestCodeStands
  <2>1. ~ (c.ttl <= now) /\ c.to \in Emails /\ c.ttl \in Nat /\ now \in Nat
    BY <1>4, CodeFacts
  <2> QED
    BY <1>2, <2>1
<1> QED
  BY <1>5, <1>6, <1>7, <1>8, <1>9 DEF CodesInv

LEMMA CodesNext == SignInInv /\ CodesInv /\ [Next]_vars => CodesInv'
<1> SUFFICES ASSUME SignInInv, CodesInv, [Next]_vars PROVE CodesInv'
  OBVIOUS
<1>1. ASSUME NEW t \in Tabs, SendCode(t) \/ DeleteExpired(t) \/ Fail(t) PROVE CodesInv'
  BY <1>1, CodesEnd DEF SendCode, DeleteExpired, Fail, form, Pending
<1> QED
  BY <1>1, CodesSend, CodesPut, CodesCheck, CodesUse, CodesQuiet DEF Next, Server

LEMMA CodesInvariant == Spec => []CodesInv
<1> QED
  BY CodesInit, CodesNext, SignInInvariant, PTL DEF Spec

\* "On success, consume it (single-use)": one code yields one session, unless
\* requests about its email have overlapped.
THEOREM CodesWorkOnce == Spec => []SingleUse
<1>1. CodesInv => SingleUse
  BY DEF CodesInv
<1> QED
  BY <1>1, CodesInvariant, PTL

\* "It expires in 15 minutes": the latest code of an email can be used until it
\* expires or is used, unless requests about that email have overlapped.
THEOREM LatestCodeWorks == Spec => []LatestCodeStands
<1>1. CodesInv => LatestCodeStands
  BY DEF CodesInv
<1> QED
  BY <1>1, CodesInvariant, PTL
=============================================================================
