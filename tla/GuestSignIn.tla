---------------------------- MODULE GuestSignIn ----------------------------
(***************************************************************************)
(* Guests sign in with an emailed code: the two-step form in the browser   *)
(* (GuestCodeForm), the two routes behind it, and the one code the table   *)
(* keeps per email.  Time passes in Ticks; a code lives for CodeTtl of     *)
(* them.  What a code hashes to is the email and the code together.        *)
(***************************************************************************)
EXTENDS Integers, FiniteSets

CONSTANTS
    Emails,
    Codes,      \* the numeric codes generateNumericCode draws from
    Tabs,       \* tabs that show a GuestCodeForm, each in a browser of its own
    NoEmail,    \* nothing typed yet, or nobody signed in
    NoCode,     \* nothing stored, drawn or typed
    CodeTtl,    \* CODE_TTL_SECONDS, in ticks
    MaxTime,    \* bound: the last tick
    MaxCodes    \* bound: how many codes are drawn

ASSUME SignInAssumption ==
    /\ CodeTtl \in Nat \ {0}
    /\ MaxTime \in Nat
    /\ MaxCodes \in Nat
    /\ NoEmail \notin Emails
    /\ NoCode \notin Codes

VARIABLES
    now,        \* nowSeconds(), in ticks
    stored,     \* the AUTHCODE item of each email
    drawn,      \* every code drawn so far, with what was stored for it
    inbox,      \* the numbers of the codes whose email went out
    step,       \* the form's step: "email" or "code"
    email,      \* what each tab has typed as email ...
    typed,      \* ... and as code
    pc,         \* the call a tab's request makes next
    record,     \* the item a request works with
    checked,    \* when that item was found good
    token,      \* whom a tab's session token names
    sessions,   \* every session issued so far
    crossed     \* emails about which two requests have overlapped

form    == <<step, email, typed>>
request == <<pc, record, checked>>
\* crossed is for the properties; no guard reads it.
vars    == <<now, stored, drawn, inbox, form, request, token, sessions, crossed>>

AuthCode == [id : 1..MaxCodes, to : Emails, code : Codes, ttl : 0..(MaxTime + CodeTtl)]

ASSUME NoRecordAssumption == NoCode \notin AuthCode

Session == [tab : Tabs, email : Emails, code : Codes, id : 1..MaxCodes, at : 0..MaxTime]

Pending(t) == pc[t] # "idle"

Init ==
    /\ now = 0
    /\ stored = [e \in Emails |-> NoCode]
    /\ drawn = {}
    /\ inbox = {}
    /\ step = [t \in Tabs |-> "email"]
    /\ email = [t \in Tabs |-> NoEmail]
    /\ typed = [t \in Tabs |-> NoCode]
    /\ pc = [t \in Tabs |-> "idle"]
    /\ record = [t \in Tabs |-> NoCode]
    /\ checked = [t \in Tabs |-> 0]
    /\ token = [t \in Tabs |-> NoEmail]
    /\ sessions = {}
    /\ crossed = {}

\* A form sends nothing while its own mutation is pending.
MaySend(t, e) ==
    /\ ~Pending(t)
    /\ token[t] = NoEmail
    /\ crossed' = crossed \cup {d \in {e} : \E u \in Tabs : Pending(u) /\ email[u] = d}

\* Mutant: the handler's record outlives it.
RespondOnly(t) ==
    /\ pc' = [pc EXCEPT ![t] = "idle"]
    /\ UNCHANGED record

\* The response arrives, or the request fails and the form shows an error.
Respond(t) ==
    /\ pc' = [pc EXCEPT ![t] = "idle"]
    /\ record' = [record EXCEPT ![t] = NoCode]

-----------------------------------------------------------------------------
(* Requesting a code. *)

\* The email step is submitted: POST .../guest/request-code.
RequestCode(t, e) ==
    /\ step[t] = "email"
    /\ MaySend(t, e)
    /\ email' = [email EXCEPT ![t] = e]
    /\ pc' = [pc EXCEPT ![t] = "putAuthCode"]
    /\ UNCHANGED <<now, stored, drawn, inbox, step, typed, record, checked, token, sessions>>

\* A code is drawn and its record replaces the email's earlier one.
PutAuthCode(t) ==
    /\ pc[t] = "putAuthCode"
    /\ Cardinality(drawn) < MaxCodes
    /\ \E c \in Codes :
          LET new == [id |-> Cardinality(drawn) + 1, to |-> email[t], code |-> c,
                      ttl |-> now + CodeTtl]
          IN  /\ stored' = [stored EXCEPT ![email[t]] = new]
              /\ drawn' = drawn \cup {new}
              /\ record' = [record EXCEPT ![t] = new]
    /\ pc' = [pc EXCEPT ![t] = "sendCode"]
    /\ UNCHANGED <<now, inbox, form, checked, token, sessions, crossed>>

\* The code is emailed and the form moves on.
SendCode(t) ==
    /\ pc[t] = "sendCode"
    /\ inbox' = inbox \cup {record[t].id}
    /\ step' = [step EXCEPT ![t] = "code"]
    /\ Respond(t)
    /\ UNCHANGED <<now, stored, drawn, email, typed, checked, token, sessions, crossed>>

-----------------------------------------------------------------------------
(* Verifying a code. *)

\* The code step is submitted: POST .../guest/verify-code.
SubmitCode(t, c) ==
    /\ step[t] = "code"
    /\ MaySend(t, email[t])
    /\ typed' = [typed EXCEPT ![t] = c]
    /\ pc' = [pc EXCEPT ![t] = "getAuthCode"]
    /\ UNCHANGED <<now, stored, drawn, inbox, step, email, record, checked, token, sessions>>

\* Mutant: a code still counts at the very second it expires.
ExpiredLate(rec) == rec.ttl < now

\* record.ttl <= now()
Expired(rec) == rec.ttl <= now

\* record.codeHash = hashGuestCode(clubId, emailLower, code)
HashMatches(rec, e, c) == rec.to = e /\ rec.code = c

\* Mutant: any failed attempt uses the code up.
CheckOnce(t) ==
    /\ pc[t] = "getAuthCode"
    /\ LET found == stored[email[t]]
       IN  \/ /\ found = NoCode
              /\ Respond(t)
              /\ UNCHANGED checked
           \/ /\ found # NoCode
              /\ Expired(found) \/ ~HashMatches(found, email[t], typed[t])
              /\ pc' = [pc EXCEPT ![t] = "deleteExpired"]
              /\ UNCHANGED <<record, checked>>
           \/ /\ found # NoCode
              /\ ~Expired(found)
              /\ HashMatches(found, email[t], typed[t])
              /\ pc' = [pc EXCEPT ![t] = "deleteUsed"]
              /\ record' = [record EXCEPT ![t] = found]
              /\ checked' = [checked EXCEPT ![t] = now]
    /\ UNCHANGED <<now, stored, drawn, inbox, form, token, sessions, crossed>>

\* The record is read; without one, or with the wrong code, there is no session.
CheckAuthCode(t) ==
    /\ pc[t] = "getAuthCode"
    /\ LET found == stored[email[t]]
       IN  \/ /\ found = NoCode
              /\ Respond(t)
              /\ UNCHANGED checked
           \/ /\ found # NoCode
              /\ Expired(found)
              /\ pc' = [pc EXCEPT ![t] = "deleteExpired"]
              /\ UNCHANGED <<record, checked>>
           \/ /\ found # NoCode
              /\ ~Expired(found)
              /\ ~HashMatches(found, email[t], typed[t])
              /\ Respond(t)
              /\ UNCHANGED checked
           \/ /\ found # NoCode
              /\ ~Expired(found)
              /\ HashMatches(found, email[t], typed[t])
              /\ pc' = [pc EXCEPT ![t] = "deleteUsed"]
              /\ record' = [record EXCEPT ![t] = found]
              /\ checked' = [checked EXCEPT ![t] = now]
    /\ UNCHANGED <<now, stored, drawn, inbox, form, token, sessions, crossed>>

\* An expired record is deleted, by key, whatever is stored there by now.
DeleteExpired(t) ==
    /\ pc[t] = "deleteExpired"
    /\ stored' = [stored EXCEPT ![email[t]] = NoCode]
    /\ Respond(t)
    /\ UNCHANGED <<now, drawn, inbox, form, checked, token, sessions, crossed>>

\* Mutant: an accepted code stays.
KeepUsed(t) ==
    /\ pc[t] = "deleteUsed"
    /\ sessions' = sessions \cup {[tab |-> t, email |-> email[t], code |-> typed[t],
                                   id |-> record[t].id, at |-> checked[t]]}
    /\ token' \in {token, [token EXCEPT ![t] = email[t]]}
    /\ Respond(t)
    /\ UNCHANGED <<now, stored, drawn, inbox, form, checked, crossed>>

\* An accepted code is deleted and a session issued.  The response may be lost
\* on its way to the browser: then the code is gone and the token with it.
DeleteUsed(t) ==
    /\ pc[t] = "deleteUsed"
    /\ stored' = [stored EXCEPT ![email[t]] = NoCode]
    /\ sessions' = sessions \cup {[tab |-> t, email |-> email[t], code |-> typed[t],
                                   id |-> record[t].id, at |-> checked[t]]}
    /\ token' \in {token, [token EXCEPT ![t] = email[t]]}
    /\ Respond(t)
    /\ UNCHANGED <<now, drawn, inbox, form, checked, crossed>>

-----------------------------------------------------------------------------

\* A call throws or the Lambda stops: nothing more happens on the server.
Fail(t) ==
    /\ Pending(t)
    /\ Respond(t)
    /\ UNCHANGED <<now, stored, drawn, inbox, form, checked, token, sessions, crossed>>

\* The page is loaded anew: the form starts over, the token survives.
Reload(t) ==
    /\ ~Pending(t)
    /\ step' = [step EXCEPT ![t] = "email"]
    /\ email' = [email EXCEPT ![t] = NoEmail]
    /\ typed' = [typed EXCEPT ![t] = NoCode]
    /\ UNCHANGED <<now, stored, drawn, inbox, request, token, sessions, crossed>>

\* The token is given up: setToken(null), or the browser's storage is cleared.
DropToken(t) ==
    /\ ~Pending(t)
    /\ token' = [token EXCEPT ![t] = NoEmail]
    /\ UNCHANGED <<now, stored, drawn, inbox, form, request, sessions, crossed>>

Tick ==
    /\ now < MaxTime
    /\ now' = now + 1
    /\ UNCHANGED <<stored, drawn, inbox, form, request, token, sessions, crossed>>

\* DynamoDB removes items whose ttl has passed, some time later.
Sweep(e) ==
    /\ stored[e] # NoCode
    /\ stored[e].ttl < now
    /\ stored' = [stored EXCEPT ![e] = NoCode]
    /\ UNCHANGED <<now, drawn, inbox, form, request, token, sessions, crossed>>

Server(t) ==
    PutAuthCode(t) \/ SendCode(t) \/ CheckAuthCode(t) \/ DeleteExpired(t) \/ DeleteUsed(t)

Next ==
    \/ \E t \in Tabs, e \in Emails : RequestCode(t, e)
    \/ \E t \in Tabs, c \in Codes : SubmitCode(t, c)
    \/ \E t \in Tabs : Server(t) \/ Fail(t) \/ Reload(t) \/ DropToken(t)
    \/ \E e \in Emails : Sweep(e)
    \/ Tick

Spec == Init /\ [][Next]_vars

-----------------------------------------------------------------------------
(* Properties. *)

\* A request's local record is there exactly while it is worked with, and what
\* is stored under an email was drawn for it.
TypeOK ==
    /\ now \in 0..MaxTime
    /\ drawn \subseteq AuthCode
    /\ \A e \in Emails : stored[e] = NoCode \/ (stored[e] \in drawn /\ stored[e].to = e)
    /\ inbox \subseteq {c.id : c \in drawn}
    /\ step \in [Tabs -> {"email", "code"}]
    /\ email \in [Tabs -> Emails \cup {NoEmail}]
    /\ typed \in [Tabs -> Codes \cup {NoCode}]
    /\ pc \in [Tabs -> {"idle", "putAuthCode", "sendCode", "getAuthCode", "deleteExpired",
                        "deleteUsed"}]
    /\ \A t \in Tabs : IF pc[t] \in {"sendCode", "deleteUsed"}
                       THEN record[t] \in drawn
                       ELSE record[t] = NoCode
    /\ checked \in [Tabs -> 0..MaxTime]
    /\ token \in [Tabs -> Emails \cup {NoEmail}]
    /\ sessions \subseteq Session
    /\ crossed \subseteq Emails

\* However requests overlap: a session is issued only for a code that was drawn
\* for the session's own email and had not expired when it was checked, and a
\* tab's token names an email such a session was issued for.
SessionEarned ==
    /\ \A s \in sessions : \E c \in drawn :
          c.id = s.id /\ c.to = s.email /\ c.code = s.code /\ s.at < c.ttl
    /\ \A t \in Tabs : token[t] # NoEmail => \E s \in sessions : s.tab = t /\ s.email = token[t]

\* "On success, consume it (single-use)" (verifyGuestCode): as long as requests
\* about one email do not overlap, one code yields one session.
SingleUse ==
    \A s, u \in sessions : s.id = u.id => s = u \/ s.email \in crossed

\* "It expires in 15 minutes": as long as requests about one email do not
\* overlap, the latest code drawn for it can be used until it expires or is
\* used, whatever wrong codes are tried in between.
LatestCodeStands ==
    \A c \in drawn :
        \/ c.to \in crossed
        \/ \E d \in drawn : d.to = c.to /\ d.id > c.id
        \/ c.ttl <= now
        \/ \E s \in sessions : s.id = c.id
        \/ stored[c.to] = c
=============================================================================
