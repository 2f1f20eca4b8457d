------------------------ MODULE NightPairings_proofs ------------------------
(***************************************************************************)
(* Theorems about the pairing algorithm, for whatever the shuffle returns, *)
(* and about NightPairings, for any number of players, systems and         *)
(* requests.                                                               *)
(***************************************************************************)
EXTENDS NightPairings, FiniteSetTheorems, TLAPS

(* The pairing algorithm: PairNight. *)

\* The loop over one shuffled group, as PairUp states it: each pairing is of
\* this run and system, seats two different players of the group or one, and
\* the status says which.
LEMMA PairUpShape ==
    ASSUME NEW r \in Requests, NEW s \in Systems, NEW G \in SUBSET Players,
           NEW n \in Nat, NEW f \in Bijection(1..n, G), NEW p \in PairUp(r, s, f, n)
    PROVE  /\ p \in Pairing
           /\ p.by = r
           /\ p.system = s
           /\ Seated(p) \subseteq G
           /\ p.first # p.second
           /\ (p.status = "MATCHED") <=> (p.second # NoOne)
<1>1. CASE \E i \in {k \in 1..(n-1) : k % 2 = 1} : p = Match(r, s, f[i], f[i+1])
  <2>1. PICK i \in {k \in 1..(n-1) : k % 2 = 1} : p = Match(r, s, f[i], f[i+1])
    BY <1>1
  <2>2. i \in 1..n /\ i+1 \in 1..n /\ i # i+1
    OBVIOUS
  <2>3. f[i] \in G /\ f[i+1] \in G /\ f[i] # f[i+1]
    BY <2>2 DEF Bijection, Injection, IsInjective
  <2> QED
    BY <2>1, <2>3, NoOneAssumption DEF Match, Pairing, Seated
<1>2. CASE \E i \in {k \in {n} : k % 2 = 1} : p = Single(r, s, f[i])
  <2>1. n % 2 = 1 /\ p = Single(r, s, f[n])
    BY <1>2
  <2>2. n \in 1..n
    BY <2>1
  <2>3. f[n] \in G
    BY <2>2 DEF Bijection, Injection, IsInjective
  <2> QED
    BY <2>1, <2>3, NoOneAssumption DEF Single, Pairing, Seated
<1> QED
  BY <1>1, <1>2 DEF PairUp

\* No player of the group is left out by the loop, and none is seated twice.
LEMMA PairUpCovers ==
    ASSUME NEW r \in Requests, NEW s \in Systems, NEW G \in SUBSET Players,
           NEW n \in Nat, NEW f \in Bijection(1..n, G), NEW x \in G
    PROVE  \E p \in PairUp(r, s, f, n) : x \in Seated(p)
<1>1. PICK i \in 1..n : f[i] = x
  BY DEF Bijection, Surjection
<1>2. x # NoOne
  BY NoOneAssumption
<1>3. CASE i % 2 = 1 /\ i < n
  <2>1. i \in {k \in 1..(n-1) : k % 2 = 1}
    BY <1>3
  <2>2. Match(r, s, f[i], f[i+1]) \in PairUp(r, s, f, n)
    BY <2>1 DEF PairUp
  <2>3. x \in Seated(Match(r, s, f[i], f[i+1]))
    BY <1>1, <1>2 DEF Seated, Match
  <2> QED
    BY <2>2, <2>3
<1>4. CASE i % 2 = 1 /\ i = n
  <2>1. Single(r, s, f[i]) \in PairUp(r, s, f, n)
    BY <1>4 DEF PairUp
  <2>2. x \in Seated(Single(r, s, f[i]))
    BY <1>1, <1>2 DEF Seated, Single
  <2> QED
    BY <2>1, <2>2
<1>5. CASE i % 2 = 0
  <2> DEFINE j == i - 1
  <2>1. j \in {k \in 1..(n-1) : k % 2 = 1} /\ j + 1 = i
    BY <1>5
  <2>2. Match(r, s, f[j], f[j+1]) \in PairUp(r, s, f, n)
    BY <2>1 DEF PairUp
  <2>3. x \in Seated(Match(r, s, f[j], f[j+1]))
    BY <1>1, <1>2, <2>1 DEF Seated, Match
  <2> QED
    BY <2>2, <2>3
<1> QED
  BY <1>3, <1>4, <1>5

\* The positions a pairing was made from.
LEMMA PairUpPositions ==
    ASSUME NEW r \in Requests, NEW s \in Systems, NEW G \in SUBSET Players,
           NEW n \in Nat, NEW f \in Bijection(1..n, G), NEW p \in PairUp(r, s, f, n)
    PROVE  \E i \in 1..n :
              /\ i % 2 = 1
              /\ \/ i < n /\ p = Match(r, s, f[i], f[i+1])
                 \/ i = n /\ p = Single(r, s, f[i])
<1>1. CASE \E i \in {k \in 1..(n-1) : k % 2 = 1} : p = Match(r, s, f[i], f[i+1])
  <2>1. PICK i \in {k \in 1..(n-1) : k % 2 = 1} : p = Match(r, s, f[i], f[i+1])
    BY <1>1
  <2>2. i \in 1..n /\ i % 2 = 1 /\ i < n
    OBVIOUS
  <2> QED
    BY <2>1, <2>2
<1>2. CASE \E i \in {k \in {n} : k % 2 = 1} : p = Single(r, s, f[i])
  <2>1. n % 2 = 1 /\ p = Single(r, s, f[n])
    BY <1>2
  <2>2. n \in 1..n
    BY <2>1
  <2> QED
    BY <2>1, <2>2
<1> QED
  BY <1>1, <1>2 DEF PairUp

LEMMA PairUpDisjoint ==
    ASSUME NEW r \in Requests, NEW s \in Systems, NEW G \in SUBSET Players,
           NEW n \in Nat, NEW f \in Bijection(1..n, G),
           NEW p \in PairUp(r, s, f, n), NEW q \in PairUp(r, s, f, n),
           Seated(p) \cap Seated(q) # {}
    PROVE  p = q
<1>1. PICK i \in 1..n :
          /\ i % 2 = 1
          /\ \/ i < n /\ p = Match(r, s, f[i], f[i+1])
             \/ i = n /\ p = Single(r, s, f[i])
  BY PairUpPositions
<1>2. PICK j \in 1..n :
          /\ j % 2 = 1
          /\ \/ j < n /\ q = Match(r, s, f[j], f[j+1])
             \/ j = n /\ q = Single(r, s, f[j])
  BY PairUpPositions
<1>3. \E k \in {i, i+1} \cap 1..n, l \in {j, j+1} \cap 1..n : f[k] = f[l]
  <2>1. \A x \in Seated(p) : \E k \in {i, i+1} \cap 1..n : f[k] = x
    BY <1>1 DEF Seated, Match, Single
  <2>2. \A x \in Seated(q) : \E k \in {j, j+1} \cap 1..n : f[k] = x
    BY <1>2 DEF Seated, Match, Single
  <2> QED
    BY <2>1, <2>2
<1>4. PICK k \in {i, i+1} \cap 1..n, l \in {j, j+1} \cap 1..n : f[k] = f[l]
  BY <1>3
<1>5. k = l
  BY <1>4 DEF Bijection, Injection, IsInjective
<1>6. i = j
  BY <1>1, <1>2, <1>5
<1> QED
  BY <1>1, <1>2, <1>6

LEMMA PairUpOneSingle ==
    ASSUME NEW r \in Requests, NEW s \in Systems, NEW G \in SUBSET Players,
           NEW n \in Nat, NEW f \in Bijection(1..n, G),
           NEW p \in PairUp(r, s, f, n), NEW q \in PairUp(r, s, f, n),
           p.second = NoOne, q.second = NoOne
    PROVE  p = q
<1>1. \A i \in 1..n : i < n => f[i+1] \in G
  BY DEF Bijection, Injection
<1>2. \A i \in 1..n : i < n => Match(r, s, f[i], f[i+1]).second # NoOne
  BY <1>1, NoOneAssumption DEF Match
<1>3. p = Single(r, s, f[n])
  BY <1>2, PairUpPositions
<1>4. q = Single(r, s, f[n])
  BY <1>2, PairUpPositions
<1> QED
  BY <1>3, <1>4

-----------------------------------------------------------------------------

\* Every shuffled result has one bijection per system behind it.
LEMMA PairNightShuffles ==
    ASSUME NEW r \in Requests, NEW D \in SUBSET Players, NEW systemOf \in [D -> Systems],
           NEW plan \in PairNight(r, systemOf)
    PROVE  \E f \in [Systems -> UNION {Shuffles(Group(systemOf, s)) : s \in Systems}] :
              /\ \A s \in Systems :
                    f[s] \in Bijection(1..Cardinality(Group(systemOf, s)), Group(systemOf, s))
              /\ plan = UNION {PairUp(r, s, f[s], Cardinality(Group(systemOf, s))) : s \in Systems}
BY DEF PairNight, Shuffles

\* pairNight pairs every confirmed player exactly once, within that player's
\* own system, and leaves at most one odd player per system: for every number of
\* players and systems and every outcome of the shuffles.
THEOREM PairNightWellPaired ==
    ASSUME NEW r \in Requests, NEW D \in SUBSET Players, NEW systemOf \in [D -> Systems],
           NEW plan \in PairNight(r, systemOf)
    PROVE  WellPaired(plan, r, systemOf)
<1> DEFINE G(s) == Group(systemOf, s)
           n(s) == Cardinality(G(s))
<1>1. PICK f : /\ \A s \in Systems : f[s] \in Bijection(1..n(s), G(s))
               /\ plan = UNION {PairUp(r, s, f[s], n(s)) : s \in Systems}
  BY PairNightShuffles
<1>2. \A s \in Systems : G(s) \in SUBSET Players /\ G(s) \subseteq D /\ n(s) \in Nat
  BY PlayersFinite, FS_Subset, FS_CardinalityType DEF Group
<1>3. \A p \in plan : \E s \in Systems : p \in PairUp(r, s, f[s], n(s))
  BY <1>1
<1>4. ASSUME NEW s \in Systems, NEW p \in PairUp(r, s, f[s], n(s))
      PROVE  /\ p \in Pairing
             /\ p.by = r
             /\ p.system = s
             /\ Seated(p) \subseteq G(s)
             /\ p.first # p.second
             /\ (p.status = "MATCHED") <=> (p.second # NoOne)
  BY <1>1, <1>2, PairUpShape
<1>5. \A s \in Systems : \A x \in G(s) : x \in D /\ systemOf[x] = s
  BY DEF Group
<1> HIDE DEF G, n
<1>6. plan \subseteq Pairing
  BY <1>3, <1>4
<1>7. ASSUME NEW p \in plan
      PROVE  /\ p.by = r
             /\ Seated(p) \subseteq DOMAIN systemOf
             /\ \A x \in Seated(p) : systemOf[x] = p.system
             /\ p.first # p.second
             /\ p.status = "MATCHED" <=> p.second # NoOne
  <2>1. PICK s \in Systems : p \in PairUp(r, s, f[s], n(s))
    BY <1>3
  <2> QED
    BY <2>1, <1>4, <1>5
<1>8. ASSUME NEW x \in DOMAIN systemOf
      PROVE  \E p \in plan : x \in Seated(p)
  <2>1. systemOf[x] \in Systems /\ x \in G(systemOf[x])
    BY DEF G, Group
  <2>2. \E p \in PairUp(r, systemOf[x], f[systemOf[x]], n(systemOf[x])) : x \in Seated(p)
    BY <2>1, <1>1, <1>2, PairUpCovers
  <2> QED
    BY <2>1, <2>2, <1>1
<1>9. ASSUME NEW p \in plan, NEW q \in plan, Seated(p) \cap Seated(q) # {}
      PROVE  p = q
  <2>1. PICK s \in Systems : p \in PairUp(r, s, f[s], n(s))
    BY <1>3
  <2>2. PICK t \in Systems : q \in PairUp(r, t, f[t], n(t))
    BY <1>3
  <2>3. PICK x : x \in Seated(p) /\ x \in Seated(q)
    BY <1>9
  <2>4. s = t
    BY <2>1, <2>2, <2>3, <1>4, <1>5
  <2> QED
    BY <2>1, <2>2, <2>4, <1>1, <1>2, <1>9, PairUpDisjoint
<1>10. ASSUME NEW p \in plan, NEW q \in plan,
              p.second = NoOne, q.second = NoOne, p.system = q.system
       PROVE  p = q
  <2>1. PICK s \in Systems : p \in PairUp(r, s, f[s], n(s))
    BY <1>3
  <2>2. PICK t \in Systems : q \in PairUp(r, t, f[t], n(t))
    BY <1>3
  <2>3. s = t
    BY <2>1, <2>2, <1>4, <1>10
  <2> QED
    BY <2>1, <2>2, <2>3, <1>1, <1>2, <1>10, PairUpOneSingle
<1> QED
  BY <1>6, <1>7, <1>8, <1>9, <1>10 DEF WellPaired

-----------------------------------------------------------------------------
(* The steps of the night's handlers. *)

\* The disjuncts of Next, one by one.
LEMMA NextCases ==
    ASSUME Next
    PROVE  \/ \E r \in Requests : Generate(r) \/ RunDeadlinePairing(r) \/ Publish(r)
                                  \/ Resolve(r) \/ PatchNight(r)
           \/ \E r \in Requests : GetNight(r) \/ PairConfirmed(r) \/ QueryPairings(r)
                                  \/ DeleteNext(r) \/ PutNext(r) \/ CloseSignups(r)
                                  \/ NotifyOrganizer(r)
           \/ \E r \in Requests : ListPairings(r) \/ ReadEmails(r) \/ SendNotices(r)
                                  \/ PutPaired(r)
           \/ \E r \in Requests : FindSingles(r) \/ PutMerged(r) \/ DeleteAbsorbed(r)
           \/ \E r \in Requests : PutNight(r) \/ DeleteSchedule(r) \/ MoveSchedule(r)
                                  \/ CreateSchedule(r)
           \/ \E r \in Requests : Crash(r)
           \/ \E p \in Players : CheckOpen(p) \/ UpsertSignup(p) \/ ChangeSystem(p) \/ Withdraw(p)
BY DEF Next, Arrive, Continue, Player

-----------------------------------------------------------------------------
(* Type correctness. *)

Rosters == UNION {[D -> Systems] : D \in SUBSET Players}

\* What a request reads as the confirmed players is a roster.
LEMMA ConfirmedRoster ==
    ASSUME TypeOK
    PROVE  /\ Confirmed \subseteq Players
           /\ [p \in Confirmed |-> signups[p].system] \in [Confirmed -> Systems]
           /\ [p \in Confirmed |-> signups[p].system] \in Rosters
<1>1. Confirmed \subseteq Players
  BY DEF Confirmed
<1>2. \A p \in Confirmed : signups[p].system \in Systems
  BY DEF Confirmed, TypeOK, Signup
<1>3. [p \in Confirmed |-> signups[p].system] \in [Confirmed -> Systems]
  BY <1>2
<1> QED
  BY <1>1, <1>3 DEF Rosters

LEMMA NoRosterType == NoRoster \in Rosters
<1>1. NoRoster \in [{} -> Systems]
  BY DEF NoRoster
<1> QED
  BY <1>1 DEF Rosters

LEMMA TypeInit == Init => TypeOK
BY NoRosterType DEF Init, TypeOK, Stage, Finished, NightStatus, NightHandlers, Rosters

LEMMA TypeNext == TypeOK /\ [Next]_vars => TypeOK'
<1> SUFFICES ASSUME TypeOK, [Next]_vars PROVE TypeOK'
  OBVIOUS
<1> USE NoRosterType DEF TypeOK, Rosters, Goto, Return, Stage, Finished, NightHandlers, NightStatus
<1>0. ASSUME NEW r \in Requests, NEW how \in Finished, Return(r, how)
      PROVE  /\ pc' \in [Requests -> Stage]
             /\ seen' \in [Requests -> NightStatus \cup {"none"}]
             /\ confirmed' \in [Requests -> Rosters]
             /\ batch' \in [Requests -> SUBSET Pairing]
             /\ result' \in [Requests -> SUBSET Pairing]
  BY <1>0
<1>1. ASSUME NEW r \in Requests, NEW h \in NightHandlers, NEW next \in Stage, Begin(r, h, next),
             armed' \in BOOLEAN
      PROVE  TypeOK'
  BY <1>1 DEF Begin
<1>2. ASSUME NEW r \in Requests, Generate(r) PROVE TypeOK'
  BY <1>1, <1>2 DEF Generate
<1>3. ASSUME NEW r \in Requests, RunDeadlinePairing(r) PROVE TypeOK'
  BY <1>1, <1>3 DEF RunDeadlinePairing
<1>4. ASSUME NEW r \in Requests, Publish(r) PROVE TypeOK'
  BY <1>1, <1>4 DEF Publish
<1>5. ASSUME NEW r \in Requests, Resolve(r) PROVE TypeOK'
  BY <1>1, <1>5 DEF Resolve
<1>6. ASSUME NEW r \in Requests, PatchNight(r) PROVE TypeOK'
  BY <1>1, <1>6 DEF PatchNight
<1>7. ASSUME NEW r \in Requests, GetNight(r) PROVE TypeOK'
  BY <1>7 DEF GetNight, table
<1>8. ASSUME NEW r \in Requests, PairConfirmed(r) PROVE TypeOK'
  <2> DEFINE systemOf == [p \in Confirmed |-> signups[p].system]
  <2>1. systemOf \in Rosters /\ Confirmed \in SUBSET Players /\ systemOf \in [Confirmed -> Systems]
    BY ConfirmedRoster
  <2>2. PICK plan \in PairNight(r, systemOf) : result' = [result EXCEPT ![r] = plan]
    BY <1>8 DEF PairConfirmed
  <2>3. plan \subseteq Pairing
    <3>1. WellPaired(plan, r, systemOf)
      BY <2>1, PairNightWellPaired
    <3> QED
      BY <3>1 DEF WellPaired
  <2>4. confirmed' = [confirmed EXCEPT ![r] = systemOf]
    BY <1>8 DEF PairConfirmed
  <2> HIDE DEF systemOf
  <2> QED
    BY <1>8, <2>1, <2>2, <2>3, <2>4 DEF PairConfirmed, table
<1>9. ASSUME NEW r \in Requests, QueryPairings(r) PROVE TypeOK'
  BY <1>9 DEF QueryPairings, table
<1>10. ASSUME NEW r \in Requests, DeleteNext(r) PROVE TypeOK'
  BY <1>10 DEF DeleteNext, Delete
<1>11. ASSUME NEW r \in Requests, PutNext(r) PROVE TypeOK'
  BY <1>11 DEF PutNext, Put
<1>12. ASSUME NEW r \in Requests, CloseSignups(r) PROVE TypeOK'
  <2>1. CASE handler[r] = "deadline"
    BY <1>12, <2>1 DEF CloseSignups
  <2>2. CASE handler[r] # "deadline"
    <3>1. Return(r, "done")
      BY <1>12, <2>2 DEF CloseSignups
    <3> QED
      BY <1>12, <3>1, <1>0 DEF CloseSignups
  <2> QED
    BY <2>1, <2>2
<1>13. ASSUME NEW r \in Requests, NotifyOrganizer(r) PROVE TypeOK'
  BY <1>13 DEF NotifyOrganizer, Message
<1>14. ASSUME NEW r \in Requests, ListPairings(r) PROVE TypeOK'
  <2>1. CASE \E how \in Finished : Return(r, how)
    BY <1>14, <2>1, <1>0 DEF ListPairings, table
  <2>2. CASE /\ batch' = [batch EXCEPT ![r] = pairings]
             /\ Goto(r, "readEmails")
             /\ UNCHANGED <<seen, confirmed, result>>
    BY <1>14, <2>2 DEF ListPairings, table
  <2> QED
    BY <1>14, <2>1, <2>2 DEF ListPairings
<1>15. ASSUME NEW r \in Requests, ReadEmails(r) PROVE TypeOK'
  BY <1>15, ConfirmedRoster DEF ReadEmails, table
<1>16. ASSUME NEW r \in Requests, SendNotices(r) PROVE TypeOK'
  <2>1. Notices(r) \subseteq Message
    BY DEF Notices, Message, Pairing
  <2>2. mail' \subseteq Message
    BY <1>16, <2>1 DEF SendNotices
  <2> QED
    BY <1>16, <2>2 DEF SendNotices
<1>17. ASSUME NEW r \in Requests, PutPaired(r) PROVE TypeOK'
  BY <1>17 DEF PutPaired
<1>18. ASSUME NEW r \in Requests, FindSingles(r) PROVE TypeOK'
  <2>1. CASE Return(r, "rejected")
    BY <1>18, <2>1, <1>0 DEF FindSingles, table
  <2>2. CASE ~Return(r, "rejected")
    <3>1. PICK target \in pairings, absorbed \in pairings :
             /\ batch' = [batch EXCEPT ![r] = {absorbed}]
             /\ result' = [result EXCEPT ![r] =
                    {[target EXCEPT !.second = absorbed.first, !.status = "MATCHED"]}]
             /\ Goto(r, "putMerged")
             /\ UNCHANGED <<seen, confirmed>>
      BY <1>18, <2>2 DEF FindSingles
    <3>2. [target EXCEPT !.second = absorbed.first, !.status = "MATCHED"] \in Pairing
      BY DEF Pairing
    <3> QED
      BY <1>18, <3>1, <3>2 DEF FindSingles, table
  <2> QED
    BY <2>1, <2>2
<1>19. ASSUME NEW r \in Requests, PutMerged(r) PROVE TypeOK'
  BY <1>19 DEF PutMerged, Put
<1>20. ASSUME NEW r \in Requests, DeleteAbsorbed(r) PROVE TypeOK'
  BY <1>20 DEF DeleteAbsorbed, Delete
<1>21. ASSUME NEW r \in Requests, PutNight(r) PROVE TypeOK'
  <2>1. PICK new \in {seen[r]} \cup PatchStatuses :
           /\ status' = new
           /\ \/ new = "CANCELLED" /\ Goto(r, "deleteSchedule") /\ UNCHANGED seen
              \/ new = "OPEN" /\ Goto(r, "moveSchedule") /\ UNCHANGED seen
              \/ new # "CANCELLED" /\ Goto(r, "done") /\ seen' = [seen EXCEPT ![r] = "none"]
    BY <1>21 DEF PutNight
  <2>2. new \in NightStatus
    BY <1>21, <2>1, EnvironmentAssumption DEF PutNight
  <2> QED
    BY <1>21, <2>1, <2>2 DEF PutNight
<1>22. ASSUME NEW r \in Requests, DeleteSchedule(r) PROVE TypeOK'
  BY <1>22 DEF DeleteSchedule
<1>23. ASSUME NEW r \in Requests, MoveSchedule(r) PROVE TypeOK'
  <2>1. CASE Return(r, "done")
    BY <1>23, <2>1, <1>0 DEF MoveSchedule
  <2>2. CASE ~Return(r, "done")
    BY <1>23, <2>2 DEF MoveSchedule
  <2> QED
    BY <2>1, <2>2
<1>24. ASSUME NEW r \in Requests, CreateSchedule(r) PROVE TypeOK'
  BY <1>24 DEF CreateSchedule
<1>25. ASSUME NEW r \in Requests, Crash(r) PROVE TypeOK'
  BY <1>25 DEF Crash, table
<1>26. ASSUME NEW p \in Players, CheckOpen(p) PROVE TypeOK'
  BY <1>26 DEF CheckOpen, local
<1>27. ASSUME NEW p \in Players, UpsertSignup(p) PROVE TypeOK'
  BY <1>27 DEF UpsertSignup, local, Signup
<1>28. ASSUME NEW p \in Players, ChangeSystem(p) PROVE TypeOK'
  BY <1>28 DEF ChangeSystem, Confirmed, local, Signup
<1>29. ASSUME NEW p \in Players, Withdraw(p) PROVE TypeOK'
  BY <1>29 DEF Withdraw, local, Signup
<1>30. CASE UNCHANGED vars
  BY <1>30 DEF vars, table, local
<1> QED
  BY NextCases, <1>2, <1>3, <1>4, <1>5, <1>6, <1>7, <1>8, <1>9, <1>10, <1>11, <1>12, <1>13,
     <1>14, <1>15, <1>16, <1>17, <1>18, <1>19, <1>20, <1>21, <1>22, <1>23, <1>24, <1>25,
     <1>26, <1>27, <1>28, <1>29, <1>30

\* Every variable keeps to the shape the schemas give it, whatever overlaps and
\* whatever crashes.
THEOREM TypeCorrect == Spec => []TypeOK
BY TypeInit, TypeNext, PTL DEF Spec

-----------------------------------------------------------------------------
(* What each kind of step leaves alone. *)

LEMMA ArriveEffect ==
    ASSUME TypeOK, NEW r \in Requests, Arrive(r)
    PROVE  /\ pc[r] = "ready"
           /\ \E next \in {"rejected", "getNight", "listSignups", "listPairings", "findSingles",
                           "putNight"} : pc' = [pc EXCEPT ![r] = next]
           /\ solo' = IF \E q \in Requests : InFlight(q) THEN NoOne ELSE r
           /\ Overlap \/ \A q \in Requests : ~InFlight(q)
           /\ UNCHANGED <<signups, signing, pairings, mail, confirmed, batch, result>>
BY DEF Arrive, Generate, RunDeadlinePairing, Publish, Resolve, PatchNight, Begin

LEMMA ContinueEffect ==
    ASSUME NEW r \in Requests, Continue(r)
    PROVE  InFlight(r) /\ UNCHANGED <<signups, signing, solo>>
BY DEF Continue, InFlight, Finished, table, GetNight, PairConfirmed, QueryPairings, DeleteNext,
       PutNext, CloseSignups, NotifyOrganizer, ListPairings, ReadEmails, SendNotices, PutPaired,
       FindSingles, PutMerged, DeleteAbsorbed, PutNight, DeleteSchedule, MoveSchedule,
       CreateSchedule

LEMMA ContinueOthers ==
    ASSUME TypeOK, NEW r \in Requests, Continue(r), NEW q \in Requests, q # r
    PROVE  /\ pc'[q] = pc[q] /\ confirmed'[q] = confirmed[q]
           /\ batch'[q] = batch[q] /\ result'[q] = result[q]
BY DEF TypeOK, Continue, Goto, Return, GetNight, PairConfirmed, QueryPairings, DeleteNext,
       PutNext, CloseSignups, NotifyOrganizer, ListPairings, ReadEmails, SendNotices, PutPaired,
       FindSingles, PutMerged, DeleteAbsorbed, PutNight, DeleteSchedule, MoveSchedule,
       CreateSchedule

LEMMA CrashEffect ==
    ASSUME NEW r \in Requests, Crash(r)
    PROVE  /\ InFlight(r)
           /\ pc' = [pc EXCEPT ![r] = "crashed"]
           /\ confirmed' = [confirmed EXCEPT ![r] = NoRoster]
           /\ batch' = IF pc[r] = "deleteAbsorbed" THEN batch ELSE [batch EXCEPT ![r] = {}]
           /\ result' = [result EXCEPT ![r] = {}]
           /\ UNCHANGED <<signups, signing, pairings, mail, solo>>
BY DEF Crash, table

LEMMA PlayerEffect ==
    ASSUME NEW p \in Players, Player(p)
    PROVE  UNCHANGED <<status, armed, pairings, mail, handler, pc, seen, confirmed, batch, result,
                       solo>>
BY DEF Player, CheckOpen, UpsertSignup, ChangeSystem, Withdraw, local

\* Only four calls write pairing items.
LEMMA ContinueTable ==
    ASSUME NEW r \in Requests, Continue(r),
           ~DeleteNext(r), ~PutNext(r), ~PutMerged(r), ~DeleteAbsorbed(r)
    PROVE  UNCHANGED pairings
BY DEF Continue, table, GetNight, PairConfirmed, QueryPairings,
       CloseSignups, NotifyOrganizer, ListPairings, ReadEmails, SendNotices, PutPaired,
       FindSingles, PutNight, DeleteSchedule, MoveSchedule, CreateSchedule

-----------------------------------------------------------------------------
(* A request that is alone, and the shape of what is stored. *)

SoloAlone == \A r, q \in Requests : (solo = r /\ q # r) => ~InFlight(q)

KeysUnique == \A p, q \in pairings : Key(p) = Key(q) => p = q

\* While `solo` says that a request is alone, no other request is in flight.
LEMMA SoloAloneNext == TypeOK /\ SoloAlone /\ [Next]_vars => SoloAlone'
<1> SUFFICES ASSUME TypeOK, SoloAlone, [Next]_vars, NEW r \in Requests, NEW q \in Requests,
                    solo' = r, q # r
             PROVE  ~InFlight(q)'
  BY DEF SoloAlone
<1> USE DEF InFlight
<1>1. ASSUME NEW s \in Requests, Arrive(s) PROVE ~InFlight(q)'
  BY <1>1, ArriveEffect, NoOneAssumption DEF TypeOK
<1>2. ASSUME NEW s \in Requests, Continue(s) PROVE ~InFlight(q)'
  <2>1. solo = r /\ ~InFlight(q) /\ s # q
    BY <1>2, ContinueEffect DEF SoloAlone
  <2> QED
    BY <1>2, <2>1, ContinueOthers
<1>3. ASSUME NEW s \in Requests, Crash(s) PROVE ~InFlight(q)'
  BY <1>3, CrashEffect DEF SoloAlone, TypeOK, Finished
<1>4. ASSUME NEW p \in Players, Player(p) PROVE ~InFlight(q)'
  BY <1>4, PlayerEffect DEF SoloAlone
<1>5. CASE UNCHANGED vars
  BY <1>5 DEF vars, local, SoloAlone
<1> QED
  BY <1>1, <1>2, <1>3, <1>4, <1>5 DEF Next

\* Nobody but a request that is alone after a step, or a player, took the step.
LEMMA SoloSteps ==
    ASSUME TypeOK, SoloAlone, Next, NEW r \in Requests, solo' = r
    PROVE  Arrive(r) \/ Continue(r) \/ Crash(r) \/ \E p \in Players : Player(p)
<1>1. ASSUME NEW s \in Requests, Arrive(s), s # r PROVE FALSE
  BY <1>1, ArriveEffect, NoOneAssumption
<1>2. ASSUME NEW s \in Requests, Continue(s), s # r PROVE FALSE
  BY <1>2, ContinueEffect DEF SoloAlone
<1>3. ASSUME NEW s \in Requests, Crash(s), s # r PROVE FALSE
  BY <1>3, CrashEffect DEF SoloAlone
<1> QED
  BY <1>1, <1>2, <1>3 DEF Next

\* Every write is a put or a delete by key, so no two items share a key.
LEMMA KeysUniqueNext == KeysUnique /\ [Next]_vars => KeysUnique'
<1> SUFFICES ASSUME KeysUnique, [Next]_vars PROVE KeysUnique'
  OBVIOUS
<1>1. ASSUME NEW p, Put(p) PROVE KeysUnique'
  BY <1>1 DEF Put, KeysUnique
<1>2. ASSUME NEW p, Delete(p) PROVE KeysUnique'
  BY <1>2 DEF Delete, KeysUnique
<1>3. ASSUME UNCHANGED pairings PROVE KeysUnique'
  BY <1>3 DEF KeysUnique
<1>4. ASSUME NEW r \in Requests, Arrive(r) PROVE UNCHANGED pairings
  BY <1>4 DEF Arrive, Generate, RunDeadlinePairing, Publish, Resolve, PatchNight, Begin
<1>5. ASSUME NEW r \in Requests, Continue(r) PROVE KeysUnique'
  <2>1. CASE DeleteNext(r) \/ PutNext(r) \/ PutMerged(r) \/ DeleteAbsorbed(r)
    BY <2>1, <1>1, <1>2 DEF DeleteNext, PutNext, PutMerged, DeleteAbsorbed
  <2> QED
    BY <1>5, <2>1, <1>3, ContinueTable
<1> QED
  BY <1>3, <1>4, <1>5, CrashEffect, PlayerEffect DEF Next, vars, table

-----------------------------------------------------------------------------
(* Generating again recovers. *)

\* What a generation has planned before it touches the table.
PlanReady ==
    \A r \in Requests : pc[r] = "queryPairings" => WellPaired(result[r], r, confirmed[r])

\* While a lone generation deletes, the table is what it still has to delete and
\* its plan is whole; from then on the table and the rest make up the plan.
Rewriting ==
    \A r \in Requests : (solo = r /\ pc[r] = "rewrite") =>
        IF batch[r] # {}
        THEN pairings = batch[r] /\ WellPaired(result[r], r, confirmed[r])
        ELSE WellPaired(pairings \cup result[r], r, confirmed[r])

RecoveryInv == TypeOK /\ SoloAlone /\ KeysUnique /\ PlanReady /\ Rewriting

\* In a good plan no two pairings have the same key.
LEMMA WellPairedKeys ==
    ASSUME NEW S, NEW r, NEW sys, WellPaired(S, r, sys), NEW p \in S, NEW q \in S, Key(p) = Key(q)
    PROVE  p = q
<1>1. p.first \in Seated(p) /\ q.first \in Seated(q) /\ p.first = q.first
  BY NoOneAssumption DEF WellPaired, Pairing, Seated, Key
<1> QED
  BY <1>1 DEF WellPaired

LEMMA PlanReadyNext == TypeOK /\ PlanReady /\ [Next]_vars => PlanReady'
<1> SUFFICES ASSUME TypeOK, PlanReady, [Next]_vars, NEW r \in Requests,
                    pc'[r] = "queryPairings"
             PROVE  WellPaired(result'[r], r, confirmed'[r])
  BY DEF PlanReady
<1>1. ASSUME pc[r] = "queryPairings", result'[r] = result[r], confirmed'[r] = confirmed[r]
      PROVE  WellPaired(result'[r], r, confirmed'[r])
  BY <1>1 DEF PlanReady
<1>2. ASSUME NEW q \in Requests, Arrive(q) PROVE WellPaired(result'[r], r, confirmed'[r])
  BY <1>1, <1>2, ArriveEffect DEF TypeOK
<1>3. ASSUME NEW q \in Requests, Continue(q), q # r
      PROVE  WellPaired(result'[r], r, confirmed'[r])
  BY <1>1, <1>3, ContinueOthers
<1>4. CASE PairConfirmed(r)
  <2> DEFINE systemOf == [p \in Confirmed |-> signups[p].system]
  <2>1. PICK plan \in PairNight(r, systemOf) : result' = [result EXCEPT ![r] = plan]
    BY <1>4 DEF PairConfirmed
  <2>2. confirmed' = [confirmed EXCEPT ![r] = systemOf]
    BY <1>4 DEF PairConfirmed
  <2>3. Confirmed \in SUBSET Players /\ systemOf \in [Confirmed -> Systems]
    BY ConfirmedRoster
  <2> HIDE DEF systemOf
  <2>4. WellPaired(plan, r, systemOf)
    BY <2>1, <2>3, PairNightWellPaired
  <2> QED
    BY <2>1, <2>2, <2>4 DEF TypeOK
<1>5. CASE Continue(r) /\ ~PairConfirmed(r)
  <2>1. pc'[r] # "queryPairings"
    BY <1>5 DEF TypeOK, Continue, Goto, Return, GetNight, QueryPairings, DeleteNext,
       PutNext, CloseSignups, NotifyOrganizer, ListPairings, ReadEmails, SendNotices, PutPaired,
       FindSingles, PutMerged, DeleteAbsorbed, PutNight, DeleteSchedule, MoveSchedule,
       CreateSchedule
  <2> QED
    BY <2>1
<1>6. ASSUME NEW q \in Requests, Crash(q) PROVE WellPaired(result'[r], r, confirmed'[r])
  BY <1>1, <1>6, CrashEffect DEF TypeOK
<1>7. ASSUME NEW p \in Players, Player(p) PROVE WellPaired(result'[r], r, confirmed'[r])
  BY <1>1, <1>7, PlayerEffect
<1>8. CASE UNCHANGED vars
  BY <1>1, <1>8 DEF vars, local
<1> QED
  BY <1>2, <1>3, <1>4, <1>5, <1>6, <1>7, <1>8 DEF Next

LEMMA RewritingNext == RecoveryInv /\ [Next]_vars => Rewriting'
<1> SUFFICES ASSUME RecoveryInv, [Next]_vars, NEW r \in Requests, solo' = r, pc'[r] = "rewrite"
             PROVE  IF batch'[r] # {}
                    THEN pairings' = batch'[r] /\ WellPaired(result'[r], r, confirmed'[r])
                    ELSE WellPaired(pairings' \cup result'[r], r, confirmed'[r])
  BY DEF Rewriting
<1> DEFINE Goal == IF batch'[r] # {}
                   THEN pairings' = batch'[r] /\ WellPaired(result'[r], r, confirmed'[r])
                   ELSE WellPaired(pairings' \cup result'[r], r, confirmed'[r])
<1> USE DEF RecoveryInv
<1>1. CASE Arrive(r)
  BY <1>1, ArriveEffect DEF TypeOK
<1>2. CASE QueryPairings(r)
  <2>1. /\ WellPaired(result[r], r, confirmed[r])
        /\ batch'[r] = pairings /\ pairings' = pairings
        /\ result' = result /\ confirmed' = confirmed
    BY <1>2 DEF QueryPairings, PlanReady, TypeOK, table
  <2>2. pairings = {} => pairings \cup result[r] = result[r]
    OBVIOUS
  <2> QED
    BY <2>1, <2>2
<1>3. CASE DeleteNext(r)
  <2>1. PICK p \in batch[r] : Delete(p) /\ batch' = [batch EXCEPT ![r] = @ \ {p}]
    BY <1>3 DEF DeleteNext
  <2>2. /\ solo = r /\ pc[r] = "rewrite" /\ result' = result /\ confirmed' = confirmed
    BY <1>3 DEF DeleteNext
  <2>3. pairings = batch[r] /\ WellPaired(result[r], r, confirmed[r])
    BY <2>1, <2>2 DEF Rewriting
  <2>4. pairings' = pairings \ {p}
    BY <2>1, <2>3 DEF Delete, KeysUnique
  <2>5. batch'[r] = pairings'
    BY <2>1, <2>3, <2>4 DEF TypeOK
  <2>6. pairings' = {} => pairings' \cup result[r] = result[r]
    OBVIOUS
  <2> QED
    BY <2>2, <2>3, <2>5, <2>6
<1>4. CASE PutNext(r)
  <2>1. PICK p \in result[r] : Put(p) /\ result' = [result EXCEPT ![r] = @ \ {p}]
    BY <1>4 DEF PutNext
  <2>2. /\ solo = r /\ pc[r] = "rewrite" /\ batch[r] = {} /\ batch' = batch
        /\ confirmed' = confirmed
    BY <1>4 DEF PutNext
  <2>3. WellPaired(pairings \cup result[r], r, confirmed[r])
    BY <2>2 DEF Rewriting
  <2>4. \A q \in pairings : Key(q) = Key(p) => q = p
    BY <2>1, <2>3, WellPairedKeys
  <2>5. pairings' = pairings \cup {p}
    BY <2>1, <2>4 DEF Put
  <2>6. result'[r] = result[r] \ {p}
    BY <2>1 DEF TypeOK
  <2>7. pairings' \cup result'[r] = pairings \cup result[r]
    BY <2>5, <2>6
  <2> QED
    BY <2>2, <2>3, <2>7
<1>5. CASE Continue(r) /\ ~QueryPairings(r) /\ ~DeleteNext(r) /\ ~PutNext(r)
  <2>1. pc'[r] # "rewrite"
    BY <1>5 DEF TypeOK, Continue, Goto, Return, GetNight, PairConfirmed,
       CloseSignups, NotifyOrganizer, ListPairings, ReadEmails, SendNotices, PutPaired,
       FindSingles, PutMerged, DeleteAbsorbed, PutNight, DeleteSchedule, MoveSchedule,
       CreateSchedule
  <2> QED
    BY <2>1
<1>6. CASE Crash(r)
  BY <1>6, CrashEffect DEF TypeOK
<1>7. ASSUME NEW p \in Players, Player(p) PROVE Goal
  BY <1>7, PlayerEffect DEF Rewriting
<1>8. CASE UNCHANGED vars
  BY <1>8 DEF vars, table, local, Rewriting
<1> QED
  BY <1>1, <1>2, <1>3, <1>4, <1>5, <1>6, <1>7, <1>8, SoloSteps

LEMMA RecoveryInit == Init => RecoveryInv
BY TypeInit, NoOneAssumption DEF Init, RecoveryInv, SoloAlone, KeysUnique, PlanReady, Rewriting

\* The inductive invariant behind recovery holds in every behaviour.
LEMMA RecoveryAlways == Spec => []RecoveryInv
<1>1. RecoveryInv /\ [Next]_vars => RecoveryInv'
  BY TypeNext, SoloAloneNext, KeysUniqueNext, PlanReadyNext, RewritingNext DEF RecoveryInv
<1> QED
  BY RecoveryInit, <1>1, PTL DEF Spec

\* A generation that had the night to itself leaves a good pairing of the
\* players it found confirmed, whatever other handlers left behind earlier by
\* crashing or overlapping: re-generating does recover.
THEOREM GenerationRecovers == Spec => []RegenerateRecovers
<1>1. RecoveryInv => RegenerateRecovers
  <2> SUFFICES ASSUME RecoveryInv, NEW r \in Requests,
                      solo = r, pc[r] = "rewrite", batch[r] = {}, result[r] = {}
               PROVE  WellPaired(pairings, r, confirmed[r])
    BY DEF RegenerateRecovers
  <2>1. WellPaired(pairings \cup {}, r, confirmed[r])
    BY DEF RecoveryInv, Rewriting
  <2>2. pairings \cup {} = pairings
    OBVIOUS
  <2> QED
    BY <2>1, <2>2
<1> QED
  BY RecoveryAlways, <1>1, PTL

-----------------------------------------------------------------------------
(* Messages tell the truth. *)

NothingSent ==
    \A r \in Requests : pc[r] \in {"ready", "listPairings", "readEmails", "send"} =>
        \A m \in mail : m.by # r

\* After its sends a publish has only sent notices, to players with an address.
NoticesSent ==
    \A r \in Requests : pc[r] = "putPaired" =>
        \A m \in mail : m.by = r => m \in Notices(r) /\ m.to \in DOMAIN confirmed[r]

\* What a lone publish has read is what is still stored.
PublishView ==
    \A r \in Requests : (solo = r /\ pc[r] \in {"readEmails", "send", "putPaired"}) =>
        batch[r] = pairings

MailInv == TypeOK /\ SoloAlone /\ NothingSent /\ NoticesSent /\ PublishView

LEMMA ContinueMail ==
    ASSUME NEW r \in Requests, Continue(r), ~SendNotices(r), ~NotifyOrganizer(r)
    PROVE  UNCHANGED mail
BY DEF Continue, table, GetNight, PairConfirmed, QueryPairings, DeleteNext, PutNext,
       CloseSignups, ListPairings, ReadEmails, PutPaired, FindSingles, PutMerged,
       DeleteAbsorbed, PutNight, DeleteSchedule, MoveSchedule, CreateSchedule

\* A message is sent in its sender's name.
LEMMA NewMail ==
    ASSUME NEW r \in Requests, Continue(r), NEW m \in mail', m \notin mail
    PROVE  m.by = r /\ (NotifyOrganizer(r) \/ SendNotices(r))
<1>1. CASE NotifyOrganizer(r)
  BY <1>1 DEF NotifyOrganizer
<1>2. CASE SendNotices(r)
  <2>1. m \in Notices(r)
    BY <1>2 DEF SendNotices
  <2> QED
    BY <1>2, <2>1 DEF Notices
<1> QED
  BY <1>1, <1>2, ContinueMail

LEMMA NothingSentNext == TypeOK /\ NothingSent /\ [Next]_vars => NothingSent'
<1> SUFFICES ASSUME TypeOK, NothingSent, [Next]_vars, NEW r \in Requests,
                    pc'[r] \in {"ready", "listPairings", "readEmails", "send"},
                    NEW m \in mail'
             PROVE  m.by # r
  BY DEF NothingSent
<1>1. ASSUME NEW q \in Requests, Arrive(q) PROVE m.by # r
  BY <1>1, ArriveEffect DEF NothingSent, TypeOK
<1>2. ASSUME NEW q \in Requests, Continue(q), q # r PROVE m.by # r
  BY <1>2, ContinueOthers, NewMail DEF NothingSent
<1>3. CASE Continue(r)
  <2>1. CASE ListPairings(r) \/ ReadEmails(r)
    BY <2>1 DEF ListPairings, ReadEmails, table, NothingSent
  <2>2. CASE ~ListPairings(r) /\ ~ReadEmails(r)
    <3>1. pc'[r] \notin {"ready", "listPairings", "readEmails", "send"}
      BY <1>3, <2>2 DEF TypeOK, Continue, Goto, Return, GetNight, PairConfirmed,
         QueryPairings, DeleteNext, PutNext, CloseSignups, NotifyOrganizer, SendNotices,
         PutPaired, FindSingles, PutMerged, DeleteAbsorbed, PutNight, DeleteSchedule,
         MoveSchedule, CreateSchedule
    <3> QED
      BY <3>1
  <2> QED
    BY <2>1, <2>2
<1>4. ASSUME NEW q \in Requests, Crash(q) PROVE m.by # r
  BY <1>4, CrashEffect DEF NothingSent, TypeOK
<1>5. ASSUME NEW p \in Players, Player(p) PROVE m.by # r
  BY <1>5, PlayerEffect DEF NothingSent
<1>6. CASE UNCHANGED vars
  BY <1>6 DEF vars, table, local, NothingSent
<1> QED
  BY <1>1, <1>2, <1>3, <1>4, <1>5, <1>6 DEF Next

LEMMA NoticesSentNext == TypeOK /\ NothingSent /\ NoticesSent /\ [Next]_vars => NoticesSent'
<1> SUFFICES ASSUME TypeOK, NothingSent, NoticesSent, [Next]_vars, NEW r \in Requests,
                    pc'[r] = "putPaired", NEW m \in mail', m.by = r
             PROVE  m \in Notices(r)' /\ m.to \in DOMAIN confirmed'[r]
  BY DEF NoticesSent
<1> DEFINE Goal == m \in Notices(r)' /\ m.to \in DOMAIN confirmed'[r]
<1>1. ASSUME pc[r] = "putPaired", m \in mail, batch'[r] = batch[r], confirmed'[r] = confirmed[r]
      PROVE  Goal
  BY <1>1 DEF NoticesSent, Notices
<1>2. ASSUME NEW q \in Requests, Arrive(q) PROVE Goal
  BY <1>1, <1>2, ArriveEffect DEF TypeOK
<1>3. ASSUME NEW q \in Requests, Continue(q), q # r PROVE Goal
  BY <1>1, <1>3, ContinueOthers, NewMail
<1>4. CASE SendNotices(r)
  <2>1. m \notin mail
    BY <1>4 DEF SendNotices, NothingSent
  <2>2. batch' = batch /\ confirmed' = confirmed
    BY <1>4 DEF SendNotices
  <2>3. m \in Notices(r) /\ m.to \in DOMAIN confirmed[r]
    BY <1>4, <2>1 DEF SendNotices
  <2> QED
    BY <2>2, <2>3 DEF Notices
<1>5. CASE Continue(r) /\ ~SendNotices(r)
  <2>1. pc'[r] # "putPaired"
    BY <1>5 DEF TypeOK, Continue, Goto, Return, GetNight, PairConfirmed, QueryPairings,
       DeleteNext, PutNext, CloseSignups, NotifyOrganizer, ListPairings, ReadEmails, PutPaired,
       FindSingles, PutMerged, DeleteAbsorbed, PutNight, DeleteSchedule, MoveSchedule,
       CreateSchedule
  <2> QED
    BY <2>1
<1>6. ASSUME NEW q \in Requests, Crash(q) PROVE Goal
  <2>1. q # r /\ pc[r] = "putPaired"
    BY <1>6, CrashEffect DEF TypeOK
  <2> QED
    BY <1>1, <1>6, <2>1, CrashEffect DEF TypeOK
<1>7. ASSUME NEW p \in Players, Player(p) PROVE Goal
  BY <1>1, <1>7, PlayerEffect
<1>8. CASE UNCHANGED vars
  BY <1>1, <1>8 DEF vars, table, local
<1> QED
  BY <1>2, <1>3, <1>4, <1>5, <1>6, <1>7, <1>8 DEF Next

LEMMA PublishViewNext == TypeOK /\ SoloAlone /\ PublishView /\ [Next]_vars => PublishView'
<1> SUFFICES ASSUME TypeOK, SoloAlone, PublishView, [Next]_vars, NEW r \in Requests,
                    solo' = r, pc'[r] \in {"readEmails", "send", "putPaired"}
             PROVE  batch'[r] = pairings'
  BY DEF PublishView
<1>1. CASE Arrive(r)
  BY <1>1, ArriveEffect DEF TypeOK
<1>2. CASE ListPairings(r) \/ ReadEmails(r) \/ SendNotices(r)
  BY <1>2 DEF ListPairings, ReadEmails, SendNotices, Return, Goto, TypeOK, table, PublishView
<1>3. CASE Continue(r) /\ ~ListPairings(r) /\ ~ReadEmails(r) /\ ~SendNotices(r)
  <2>1. pc'[r] \notin {"readEmails", "send", "putPaired"}
    BY <1>3 DEF TypeOK, Continue, Goto, Return, GetNight, PairConfirmed, QueryPairings,
       DeleteNext, PutNext, CloseSignups, NotifyOrganizer, PutPaired, FindSingles, PutMerged,
       DeleteAbsorbed, PutNight, DeleteSchedule, MoveSchedule, CreateSchedule
  <2> QED
    BY <2>1
<1>4. CASE Crash(r)
  BY <1>4, CrashEffect DEF TypeOK
<1>5. ASSUME NEW p \in Players, Player(p) PROVE batch'[r] = pairings'
  BY <1>5, PlayerEffect DEF PublishView
<1>6. CASE UNCHANGED vars
  BY <1>6 DEF vars, table, local, PublishView
<1> QED
  BY <1>1, <1>2, <1>3, <1>4, <1>5, <1>6, SoloSteps

LEMMA MailAlways == Spec => []MailInv
<1>1. Init => MailInv
  BY TypeInit, NoOneAssumption
     DEF Init, MailInv, SoloAlone, NothingSent, NoticesSent, PublishView
<1>2. MailInv /\ [Next]_vars => MailInv'
  BY TypeNext, SoloAloneNext, NothingSentNext, NoticesSentNext, PublishViewNext DEF MailInv
<1> QED
  BY <1>1, <1>2, PTL DEF Spec

\* A publish that had the night to itself has told only players it found
\* confirmed, and each of them the opponent of a pairing that is still stored.
THEOREM PublishTellsTheTruth == Spec => []TruthfulMail
<1>1. MailInv => TruthfulMail
  <2> SUFFICES ASSUME MailInv, NEW r \in Requests, solo = r, pc[r] = "putPaired",
                      NEW m \in mail, m.by = r
               PROVE  /\ m.to \in DOMAIN confirmed[r]
                      /\ \E p \in pairings : p.status = "MATCHED" /\ Seated(p) = {m.to, m.about}
    BY DEF TruthfulMail
  <2>1. m \in Notices(r) /\ m.to \in DOMAIN confirmed[r] /\ batch[r] = pairings
    BY DEF MailInv, NoticesSent, PublishView
  <2>2. PICK p \in pairings :
           /\ p.status = "MATCHED" /\ p.second # NoOne
           /\ \/ m.to = p.first /\ m.about = p.second
              \/ m.to = p.second /\ m.about = p.first
    BY <2>1 DEF Notices
  <2>3. p.first # NoOne
    BY NoOneAssumption DEF MailInv, TypeOK, Pairing
  <2> QED
    BY <2>1, <2>2, <2>3 DEF Seated
<1> QED
  BY MailAlways, <1>1, PTL

-----------------------------------------------------------------------------
(* Pairings and messages name players who exist. *)

SignedUp(x) == signups[x] # NoSignup

\* Also the pairings a request carries in its local variables name only players
\* with a sign-up item: they may be stored long after they were read.
NamesKnown ==
    /\ \A p \in pairings : \A x \in Seated(p) : SignedUp(x)
    /\ \A r \in Requests : \A p \in batch[r] \cup result[r] : \A x \in Seated(p) : SignedUp(x)
    /\ \A m \in mail : m.to \in Players => SignedUp(m.to)

\* No step takes a sign-up item away.
LEMMA SignupsStay ==
    ASSUME TypeOK, [Next]_vars, NEW x, SignedUp(x)
    PROVE  SignedUp(x)'
<1> USE DEF SignedUp
<1>1. ASSUME NEW p \in Players, Player(p) PROVE SignedUp(x)'
  <2>1. \A s \in Systems : [system |-> s, status |-> "CONFIRMED"] # NoSignup
    BY NoSignupAssumption DEF Signup
  <2>2. CASE CheckOpen(p)
    BY <2>2 DEF CheckOpen
  <2>3. CASE UpsertSignup(p)
    BY <2>1, <2>3 DEF UpsertSignup, TypeOK
  <2>4. CASE ChangeSystem(p)
    <3>1. \A s \in Systems : [signups[p] EXCEPT !.system = s] # NoSignup
      BY <2>4, NoSignupAssumption DEF ChangeSystem, Confirmed, TypeOK, Signup
    <3> QED
      BY <2>4, <3>1 DEF ChangeSystem, TypeOK
  <2>5. CASE Withdraw(p)
    <3>1. [signups[p] EXCEPT !.status = "CANCELLED"] # NoSignup
      BY <2>5, NoSignupAssumption DEF Withdraw, TypeOK, Signup
    <3> QED
      BY <2>5, <3>1 DEF Withdraw, TypeOK
  <2> QED
    BY <1>1, <2>2, <2>3, <2>4, <2>5 DEF Player
<1>2. ASSUME NEW r \in Requests, Arrive(r) PROVE SignedUp(x)'
  BY <1>2, ArriveEffect
<1>3. ASSUME NEW r \in Requests, Continue(r) PROVE SignedUp(x)'
  BY <1>3, ContinueEffect
<1>4. ASSUME NEW r \in Requests, Crash(r) PROVE SignedUp(x)'
  BY <1>4, CrashEffect
<1> QED
  BY <1>1, <1>2, <1>3, <1>4 DEF Next, vars, table

LEMMA NamesKnownNext == TypeOK /\ NamesKnown /\ [Next]_vars => NamesKnown'
<1> SUFFICES ASSUME TypeOK, NamesKnown, [Next]_vars PROVE NamesKnown'
  OBVIOUS
<1> DEFINE Known(p) == \A x \in Seated(p) : SignedUp(x)
<1>1. \A p : Known(p) => Known(p)'
  BY SignupsStay
<1>2. ASSUME \A p \in pairings' : Known(p),
             \A r \in Requests : \A p \in batch'[r] \cup result'[r] : Known(p),
             \A m \in mail' : m.to \in Players => SignedUp(m.to)
      PROVE  NamesKnown'
  BY <1>1, <1>2, SignupsStay DEF NamesKnown
<1>3. CASE UNCHANGED <<pairings, mail, batch, result>>
  BY <1>2, <1>3 DEF NamesKnown
<1>4. ASSUME NEW r \in Requests, NEW how \in Finished, Return(r, how)
      PROVE  \A q \in Requests : batch'[q] \subseteq batch[q] /\ result'[q] \subseteq result[q]
  BY <1>4 DEF Return, TypeOK
<1>5. ASSUME \A q \in Requests : batch'[q] \subseteq batch[q] /\ result'[q] \subseteq result[q],
             pairings' \subseteq pairings, mail' = mail
      PROVE  NamesKnown'
  BY <1>2, <1>5 DEF NamesKnown
<1>6. ASSUME NEW r \in Requests, PairConfirmed(r) PROVE NamesKnown'
  <2> DEFINE systemOf == [p \in Confirmed |-> signups[p].system]
  <2>1. PICK plan \in PairNight(r, systemOf) : result' = [result EXCEPT ![r] = plan]
    BY <1>6 DEF PairConfirmed
  <2>2. Confirmed \in SUBSET Players /\ systemOf \in [Confirmed -> Systems]
    BY ConfirmedRoster
  <2>3. \A x \in Confirmed : SignedUp(x)
    BY DEF Confirmed, SignedUp
  <2> HIDE DEF systemOf
  <2>4. \A p \in plan : Seated(p) \subseteq Confirmed
    <3>1. WellPaired(plan, r, systemOf)
      BY <2>1, <2>2, PairNightWellPaired
    <3> QED
      BY <3>1, <2>2 DEF WellPaired
  <2>5. UNCHANGED <<pairings, mail, batch>>
    BY <1>6 DEF PairConfirmed, table
  <2>6. \A q \in Requests : result'[q] = result[q] \/ result'[q] = plan
    BY <2>1 DEF TypeOK
  <2> QED
    BY <1>2, <2>3, <2>4, <2>5, <2>6 DEF NamesKnown
<1>7. ASSUME NEW r \in Requests, QueryPairings(r) \/ ListPairings(r) PROVE NamesKnown'
  <2>1. UNCHANGED <<pairings, mail>>
    BY <1>7 DEF QueryPairings, ListPairings, table
  <2>2. \A q \in Requests : /\ batch'[q] \in {batch[q], pairings, {}}
                            /\ result'[q] \in {result[q], {}}
    BY <1>7 DEF QueryPairings, ListPairings, Return, Goto, TypeOK
  <2> QED
    BY <1>2, <2>1, <2>2 DEF NamesKnown
<1>8. ASSUME NEW r \in Requests, DeleteNext(r) PROVE NamesKnown'
  BY <1>5, <1>8 DEF DeleteNext, Delete, TypeOK
<1>9. ASSUME NEW r \in Requests, PutNext(r) \/ PutMerged(r) PROVE NamesKnown'
  <2>1. PICK p \in result[r] : Put(p)
    BY <1>9 DEF PutNext, PutMerged
  <2>2. \A q \in pairings' : q \in pairings \/ q = p
    BY <2>1 DEF Put
  <2>3. /\ UNCHANGED <<mail, batch>>
        /\ \A q \in Requests : result'[q] \subseteq result[q]
    BY <1>9 DEF PutNext, PutMerged, TypeOK
  <2> QED
    BY <1>2, <2>1, <2>2, <2>3 DEF NamesKnown
<1>10. ASSUME NEW r \in Requests,
              CloseSignups(r) \/ PutPaired(r) \/ DeleteSchedule(r) \/ MoveSchedule(r)
              \/ CreateSchedule(r) \/ GetNight(r) \/ ReadEmails(r) \/ PutNight(r)
       PROVE  NamesKnown'
  <2>1. UNCHANGED <<pairings, mail>>
    BY <1>10 DEF CloseSignups, PutPaired, DeleteSchedule, MoveSchedule, CreateSchedule, GetNight,
       ReadEmails, PutNight, table
  <2>2. UNCHANGED <<batch, result>> \/ Return(r, "done")
    BY <1>10 DEF CloseSignups, PutPaired, DeleteSchedule, MoveSchedule, CreateSchedule, GetNight,
       ReadEmails, PutNight
  <2>3. CASE UNCHANGED <<batch, result>>
    BY <1>3, <2>1, <2>3
  <2>4. CASE Return(r, "done")
    BY <1>4, <1>5, <2>1, <2>4 DEF Finished
  <2> QED
    BY <2>2, <2>3, <2>4
<1>11. ASSUME NEW r \in Requests, NotifyOrganizer(r) PROVE NamesKnown'
  <2>1. \A q \in Requests : batch'[q] \subseteq batch[q] /\ result'[q] \subseteq result[q]
    BY <1>4, <1>11 DEF NotifyOrganizer, Finished
  <2>2. \A m \in mail' : m \in mail \/ m.to = Organizer
    BY <1>11 DEF NotifyOrganizer
  <2>3. UNCHANGED pairings
    BY <1>11 DEF NotifyOrganizer
  <2> QED
    BY <1>2, <2>1, <2>2, <2>3, OrganizerAssumption DEF NamesKnown
<1>12. ASSUME NEW r \in Requests, SendNotices(r) PROVE NamesKnown'
  <2>1. \A m \in Notices(r) : \E p \in batch[r] : m.to \in {p.first, p.second}
    BY DEF Notices
  <2>2. \A m \in Notices(r) : m.to \in Players => SignedUp(m.to)
    BY <2>1, NoOneAssumption DEF NamesKnown, Seated
  <2>3. \A m \in mail' : m \in mail \/ m \in Notices(r)
    BY <1>12 DEF SendNotices
  <2>4. UNCHANGED <<pairings, batch, result>>
    BY <1>12 DEF SendNotices
  <2> QED
    BY <1>2, <2>2, <2>3, <2>4 DEF NamesKnown
<1>13. ASSUME NEW r \in Requests, FindSingles(r) PROVE NamesKnown'
  <2>1. CASE Return(r, "rejected")
    BY <1>4, <1>5, <1>13, <2>1 DEF FindSingles, Finished, table
  <2>2. CASE ~Return(r, "rejected")
    <3>1. PICK target \in pairings, absorbed \in pairings :
             /\ batch' = [batch EXCEPT ![r] = {absorbed}]
             /\ result' = [result EXCEPT ![r] =
                    {[target EXCEPT !.second = absorbed.first, !.status = "MATCHED"]}]
      BY <1>13, <2>2 DEF FindSingles
    <3> DEFINE merged == [target EXCEPT !.second = absorbed.first, !.status = "MATCHED"]
    <3>2. target \in Pairing /\ absorbed \in Pairing
      BY DEF TypeOK
    <3>3. merged.first = target.first /\ merged.second = absorbed.first
      BY <3>2 DEF Pairing
    <3>4. target.first \in Seated(target) /\ absorbed.first \in Seated(absorbed)
      BY <3>2, NoOneAssumption DEF Pairing, Seated
    <3>5. \A x \in Seated(merged) : SignedUp(x)
      BY <3>3, <3>4 DEF Seated, NamesKnown
    <3> HIDE DEF merged
    <3>6. \A q \in Requests : /\ batch'[q] \in {batch[q], {absorbed}}
                              /\ result'[q] \in {result[q], {merged}}
      BY <3>1 DEF TypeOK, merged
    <3>7. UNCHANGED <<pairings, mail>>
      BY <1>13 DEF FindSingles, table
    <3> QED
      BY <1>2, <3>5, <3>6, <3>7 DEF NamesKnown
  <2> QED
    BY <2>1, <2>2
<1>14. ASSUME NEW r \in Requests, DeleteAbsorbed(r) PROVE NamesKnown'
  <2>1. Return(r, "done") /\ pairings' \subseteq pairings /\ mail' = mail
    BY <1>14 DEF DeleteAbsorbed, Delete
  <2> QED
    BY <1>4, <1>5, <2>1 DEF Finished
<1>15. ASSUME NEW r \in Requests, Crash(r) PROVE NamesKnown'
  BY <1>5, <1>15, CrashEffect DEF TypeOK
<1>16. ASSUME NEW r \in Requests, Arrive(r) PROVE NamesKnown'
  BY <1>3, <1>16, ArriveEffect
<1>17. ASSUME NEW p \in Players, Player(p) PROVE NamesKnown'
  BY <1>3, <1>17, PlayerEffect
<1> QED
  BY <1>3, <1>6, <1>7, <1>8, <1>9, <1>10, <1>11, <1>12, <1>13, <1>14, <1>15, <1>16, <1>17
     DEF Next, Continue, vars, table, local

LEMMA NamesKnownAlways == Spec => []NamesKnown
<1>1. Init => NamesKnown
  BY DEF Init, NamesKnown
<1> QED
  BY TypeInit, TypeNext, NamesKnownNext, <1>1, PTL DEF Spec

\* Whatever overlaps and whatever crashes, every stored pairing and every
\* message to a player is about somebody who signed up for the night.
THEOREM PairedPlayersExist == Spec => []PlayersExist
<1>1. NamesKnown => PlayersExist
  BY DEF NamesKnown, PlayersExist, SignedUp
<1> QED
  BY NamesKnownAlways, <1>1, PTL
=============================================================================
