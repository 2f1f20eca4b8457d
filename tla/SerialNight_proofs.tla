------------------------- MODULE SerialNight_proofs -------------------------
(***************************************************************************)
(* What holds of a night whose handlers run one after another (~Overlap),  *)
(* with crashes at any point, any number of players and any number of      *)
(* requests.  Players sign up, change and withdraw at any time.  Such      *)
(* handlers also keep the promise of PairingReview: the refinement, step   *)
(* by step, and who may be left out of the pairings.                       *)
(***************************************************************************)
EXTENDS NightPairings_proofs, LateSignups

\* With no overlap the request in flight, if any, is alone.
Serial == \A r \in Requests : InFlight(r) => solo = r

\* Two unresolved pairings differ both in system and in player.
SinglesApart ==
    \A p, q \in pairings :
        /\ p.status = "NEEDS_RESOLUTION" /\ q.status = "NEEDS_RESOLUTION"
        /\ p.system = q.system \/ p.first = q.first
        => p = q

\* The two singles a resolve is about to merge are still stored.
MergeReady ==
    \A r \in Requests : pc[r] = "putMerged" =>
        \E target, absorbed \in {q \in pairings : q.status = "NEEDS_RESOLUTION"} :
            /\ Key(target) # Key(absorbed)
            /\ batch[r] = {absorbed}
            /\ result[r] = {[target EXCEPT !.second = absorbed.first, !.status = "MATCHED"]}

DeleteReady ==
    \A r \in Requests : pc[r] = "deleteAbsorbed" => \E a \in Pairing : batch[r] = {a}

TwoSeats == \A p \in pairings : p.first # p.second

CrashedOrphan(x) == \E r \in Requests : pc[r] = "crashed" /\ \E a \in batch[r] : a.first = x

\* A resolve in flight accounts for a double booking only through the very item
\* it is about to delete.
Doubles ==
    \A p, q \in pairings : \A x \in Seated(p) \cap Seated(q) :
        \/ p = q
        \/ CrashedOrphan(x)
        \/ \E r \in Requests : /\ pc[r] = "deleteAbsorbed"
                               /\ \E a \in batch[r] : x = a.first /\ Key(a) \in {Key(p), Key(q)}

SerialInv ==
    /\ RecoveryInv
    /\ Serial
    /\ SinglesApart
    /\ MergeReady
    /\ DeleteReady
    /\ TwoSeats
    /\ Doubles

LEMMA SerialNext ==
    ASSUME ~Overlap, TypeOK, Serial, [Next]_vars
    PROVE  Serial'
<1> SUFFICES ASSUME NEW r \in Requests, InFlight(r)' PROVE solo' = r
  BY DEF Serial
<1> USE DEF InFlight
<1>1. ASSUME NEW q \in Requests, Arrive(q) PROVE solo' = r
  BY <1>1, ArriveEffect DEF TypeOK
<1>2. ASSUME NEW q \in Requests, Continue(q) PROVE solo' = r
  <2>1. InFlight(r)
    BY <1>2, ContinueEffect, ContinueOthers
  <2> QED
    BY <1>2, <2>1, ContinueEffect DEF Serial
<1>3. ASSUME NEW q \in Requests, Crash(q) PROVE solo' = r
  BY <1>3, CrashEffect DEF Serial, TypeOK, Finished
<1>4. ASSUME NEW p \in Players, Player(p) PROVE solo' = r
  BY <1>4, PlayerEffect DEF Serial
<1> QED
  BY <1>1, <1>2, <1>3, <1>4 DEF Next, vars, local, Serial

\* While one request takes a step no other one is in flight.
LEMMA OnlyOne ==
    ASSUME Serial, NEW r \in Requests, Continue(r) \/ Crash(r)
    PROVE  \A q \in Requests : q # r => ~InFlight(q)
BY ContinueEffect, CrashEffect DEF Serial

\* The calls that put a plan's pairing only ever build up a good plan.
LEMMA PutNextPlan ==
    ASSUME RecoveryInv, Serial, NEW r \in Requests, PutNext(r)
    PROVE  \E W : WellPaired(W, r, confirmed[r]) /\ pairings' \subseteq W
<1>1. solo = r /\ pc[r] = "rewrite" /\ batch[r] = {}
  BY DEF PutNext, Serial, InFlight, Finished
<1>2. WellPaired(pairings \cup result[r], r, confirmed[r])
  BY <1>1 DEF RecoveryInv, Rewriting
<1>3. pairings' \subseteq pairings \cup result[r]
  BY DEF PutNext, Put
<1> QED
  BY <1>2, <1>3

\* What a merged pairing looks like, and what the table is after it is put.
LEMMA MergedPut ==
    ASSUME TypeOK, KeysUnique, MergeReady, NEW r \in Requests, PutMerged(r)
    PROVE  \E target, absorbed \in pairings, m \in Pairing :
              /\ target.status = "NEEDS_RESOLUTION" /\ absorbed.status = "NEEDS_RESOLUTION"
              /\ target # absorbed
              /\ batch[r] = {absorbed} /\ batch' = batch
              /\ m.first = target.first /\ m.second = absorbed.first
              /\ m.status = "MATCHED"
              /\ pairings' = (pairings \ {target}) \cup {m}
<1>1. pc[r] = "putMerged"
  BY DEF PutMerged
<1>2. PICK target \in pairings, absorbed \in pairings :
          /\ target.status = "NEEDS_RESOLUTION" /\ absorbed.status = "NEEDS_RESOLUTION"
          /\ Key(target) # Key(absorbed)
          /\ batch[r] = {absorbed}
          /\ result[r] = {[target EXCEPT !.second = absorbed.first, !.status = "MATCHED"]}
  BY <1>1 DEF MergeReady
<1> DEFINE m == [target EXCEPT !.second = absorbed.first, !.status = "MATCHED"]
<1>3. target \in Pairing /\ absorbed \in Pairing
  BY DEF TypeOK
<1>4. /\ m \in Pairing /\ m.first = target.first /\ m.second = absorbed.first
      /\ m.status = "MATCHED" /\ m.by = target.by /\ m.system = target.system
  BY <1>3 DEF Pairing
<1>5. result[r] = {m}
  BY <1>2
<1> HIDE DEF m
<1>6. Put(m) /\ batch' = batch
  BY <1>5 DEF PutMerged
<1>7. Key(m) = Key(target)
  BY <1>4 DEF Key
<1>8. pairings' = (pairings \ {target}) \cup {m}
  BY <1>6, <1>7 DEF Put, KeysUnique
<1> QED
  BY <1>2, <1>4, <1>6, <1>8

LEMMA SinglesApartNext ==
    ASSUME SerialInv, [Next]_vars
    PROVE  SinglesApart'
<1> USE DEF SerialInv
<1>1. ASSUME pairings' \subseteq pairings PROVE SinglesApart'
  BY <1>1 DEF SinglesApart
<1>2. ASSUME NEW r \in Requests, Continue(r) PROVE SinglesApart'
  <2>1. CASE DeleteNext(r) \/ DeleteAbsorbed(r)
    BY <1>1, <2>1 DEF DeleteNext, DeleteAbsorbed, Delete
  <2>2. CASE PutNext(r)
    <3>1. PICK W : WellPaired(W, r, confirmed[r]) /\ pairings' \subseteq W
      BY <2>2, PutNextPlan
    <3>2. \A p \in W : p.status = "NEEDS_RESOLUTION" => p.second = NoOne
      BY <3>1 DEF WellPaired
    <3>3. \A p \in W : p.first \in Seated(p)
      BY <3>1, NoOneAssumption DEF WellPaired, Pairing, Seated
    <3> QED
      BY <3>1, <3>2, <3>3 DEF WellPaired, SinglesApart
  <2>3. CASE PutMerged(r)
    <3>1. PICK target \in pairings, m \in Pairing :
             m.status = "MATCHED" /\ pairings' = (pairings \ {target}) \cup {m}
      BY <2>3, MergedPut DEF RecoveryInv
    <3> QED
      BY <3>1 DEF SinglesApart
  <2> QED
    BY <1>1, <1>2, <2>1, <2>2, <2>3, ContinueTable
<1> QED
  BY <1>1, <1>2, ArriveEffect, CrashEffect, PlayerEffect DEF Next, vars, table, RecoveryInv

LEMMA MergeReadyNext ==
    ASSUME ~Overlap, SerialInv, [Next]_vars
    PROVE  MergeReady'
<1> USE DEF SerialInv, RecoveryInv
<1> SUFFICES ASSUME NEW r \in Requests, pc'[r] = "putMerged"
             PROVE  (\E target, absorbed \in {q \in pairings : q.status = "NEEDS_RESOLUTION"} :
                        /\ Key(target) # Key(absorbed)
                        /\ batch[r] = {absorbed}
                        /\ result[r] = {[target EXCEPT !.second = absorbed.first,
                                                       !.status = "MATCHED"]})'
  BY DEF MergeReady
<1>1. CASE pc[r] = "putMerged" /\ UNCHANGED <<pairings, batch, result>>
  BY <1>1 DEF MergeReady
<1>2. solo' = r
  BY SerialNext DEF Serial, InFlight, Finished
<1>3. CASE Arrive(r)
  BY <1>3, ArriveEffect DEF TypeOK
<1>4. CASE FindSingles(r)
  <2>1. ~Return(r, "rejected")
    BY <1>4 DEF Return, TypeOK
  <2>2. PICK target, absorbed \in {q \in pairings : q.status = "NEEDS_RESOLUTION"} :
           /\ Key(target) # Key(absorbed)
           /\ batch' = [batch EXCEPT ![r] = {absorbed}]
           /\ result' = [result EXCEPT ![r] =
                  {[target EXCEPT !.second = absorbed.first, !.status = "MATCHED"]}]
    BY <1>4, <2>1 DEF FindSingles
  <2>3. pairings' = pairings
    BY <1>4 DEF FindSingles, table
  <2>4. /\ batch'[r] = {absorbed}
        /\ result'[r] = {[target EXCEPT !.second = absorbed.first, !.status = "MATCHED"]}
    BY <2>2 DEF TypeOK
  <2> QED
    BY <2>2, <2>3, <2>4 DEF Key
<1>5. CASE Continue(r) /\ ~FindSingles(r)
  <2>1. pc'[r] # "putMerged"
    BY <1>5 DEF TypeOK, Continue, Goto, Return, GetNight, PairConfirmed, QueryPairings,
       DeleteNext, PutNext, CloseSignups, NotifyOrganizer, ListPairings, ReadEmails, SendNotices,
       PutPaired, PutMerged, DeleteAbsorbed, PutNight, DeleteSchedule, MoveSchedule,
       CreateSchedule
  <2> QED
    BY <2>1
<1>6. CASE Crash(r)
  BY <1>6, CrashEffect DEF TypeOK
<1>7. ASSUME NEW p \in Players, Player(p)
      PROVE  pc[r] = "putMerged" /\ UNCHANGED <<pairings, batch, result>>
  BY <1>7, PlayerEffect
<1>8. CASE UNCHANGED vars
  BY <1>1, <1>8 DEF vars, table, local
<1> QED
  BY <1>1, <1>2, <1>3, <1>4, <1>5, <1>6, <1>7, <1>8, SoloSteps

LEMMA DeleteReadyNext ==
    ASSUME ~Overlap, SerialInv, [Next]_vars
    PROVE  DeleteReady'
<1> USE DEF SerialInv, RecoveryInv
<1> SUFFICES ASSUME NEW r \in Requests, pc'[r] = "deleteAbsorbed"
             PROVE  \E a \in Pairing : batch'[r] = {a}
  BY DEF DeleteReady
<1>1. CASE pc[r] = "deleteAbsorbed" /\ UNCHANGED batch
  BY <1>1 DEF DeleteReady
<1>2. solo' = r
  BY SerialNext DEF Serial, InFlight, Finished
<1>3. CASE Arrive(r)
  BY <1>3, ArriveEffect DEF TypeOK
<1>4. CASE PutMerged(r)
  BY <1>4, MergedPut DEF TypeOK
<1>5. CASE Continue(r) /\ ~PutMerged(r)
  <2>1. pc'[r] # "deleteAbsorbed"
    BY <1>5 DEF TypeOK, Continue, Goto, Return, GetNight, PairConfirmed, QueryPairings,
       DeleteNext, PutNext, CloseSignups, NotifyOrganizer, ListPairings, ReadEmails, SendNotices,
       PutPaired, FindSingles, DeleteAbsorbed, PutNight, DeleteSchedule, MoveSchedule,
       CreateSchedule
  <2> QED
    BY <2>1
<1>6. CASE Crash(r)
  BY <1>6, CrashEffect DEF TypeOK
<1>7. ASSUME NEW p \in Players, Player(p) PROVE pc[r] = "deleteAbsorbed" /\ UNCHANGED batch
  BY <1>7, PlayerEffect
<1>8. CASE UNCHANGED vars
  BY <1>1, <1>8 DEF vars, table, local
<1> QED
  BY <1>1, <1>2, <1>3, <1>4, <1>5, <1>6, <1>7, <1>8, SoloSteps

LEMMA TwoSeatsNext ==
    ASSUME SerialInv, [Next]_vars
    PROVE  TwoSeats'
<1> USE DEF SerialInv
<1>1. ASSUME pairings' \subseteq pairings PROVE TwoSeats'
  BY <1>1 DEF TwoSeats
<1>2. ASSUME NEW r \in Requests, Continue(r) PROVE TwoSeats'
  <2>1. CASE DeleteNext(r) \/ DeleteAbsorbed(r)
    BY <1>1, <2>1 DEF DeleteNext, DeleteAbsorbed, Delete
  <2>2. CASE PutNext(r)
    BY <2>2, PutNextPlan DEF WellPaired, TwoSeats
  <2>3. CASE PutMerged(r)
    <3>1. PICK target \in pairings, absorbed \in pairings, m \in Pairing :
             /\ target.status = "NEEDS_RESOLUTION" /\ absorbed.status = "NEEDS_RESOLUTION"
             /\ target # absorbed
             /\ m.first = target.first /\ m.second = absorbed.first
             /\ pairings' = (pairings \ {target}) \cup {m}
      BY <2>3, MergedPut DEF RecoveryInv
    <3>2. target.first # absorbed.first
      BY <3>1 DEF SinglesApart
    <3> QED
      BY <3>1, <3>2 DEF TwoSeats
  <2> QED
    BY <1>1, <1>2, <2>1, <2>2, <2>3, ContinueTable
<1> QED
  BY <1>1, <1>2, ArriveEffect, CrashEffect, PlayerEffect DEF Next, vars, table, RecoveryInv

\* What a crashed resolve left behind stays left behind.
LEMMA OrphansStay ==
    ASSUME TypeOK, [Next]_vars, NEW x, CrashedOrphan(x)
    PROVE  CrashedOrphan(x)'
<1>1. PICK s \in Requests : pc[s] = "crashed" /\ \E a \in batch[s] : a.first = x
  BY DEF CrashedOrphan
<1>2. ~InFlight(s)
  BY <1>1 DEF InFlight, Finished
<1>3. ASSUME NEW r \in Requests, Arrive(r) PROVE pc'[s] = pc[s] /\ batch'[s] = batch[s]
  BY <1>1, <1>3, ArriveEffect DEF TypeOK
<1>4. ASSUME NEW r \in Requests, Continue(r) PROVE pc'[s] = pc[s] /\ batch'[s] = batch[s]
  BY <1>2, <1>4, ContinueEffect, ContinueOthers
<1>5. ASSUME NEW r \in Requests, Crash(r) PROVE pc'[s] = pc[s] /\ batch'[s] = batch[s]
  BY <1>2, <1>5, CrashEffect DEF TypeOK
<1>6. ASSUME NEW p \in Players, Player(p) PROVE pc'[s] = pc[s] /\ batch'[s] = batch[s]
  BY <1>6, PlayerEffect
<1>7. pc'[s] = pc[s] /\ batch'[s] = batch[s]
  BY <1>3, <1>4, <1>5, <1>6 DEF Next, vars, local
<1> QED
  BY <1>1, <1>7 DEF CrashedOrphan

LEMMA DoublesNext ==
    ASSUME ~Overlap, SerialInv, [Next]_vars
    PROVE  Doubles'
<1> USE DEF SerialInv, RecoveryInv
<1> SUFFICES ASSUME NEW p \in pairings', NEW q \in pairings', NEW x \in Seated(p) \cap Seated(q),
                    p # q, ~CrashedOrphan(x)
             PROVE  \/ CrashedOrphan(x)'
                    \/ \E r \in Requests : /\ pc'[r] = "deleteAbsorbed"
                                           /\ \E a \in batch'[r] : /\ x = a.first
                                                                  /\ Key(a) \in {Key(p), Key(q)}
  BY OrphansStay DEF Doubles
<1> DEFINE Goal == \/ CrashedOrphan(x)'
                   \/ \E r \in Requests : /\ pc'[r] = "deleteAbsorbed"
                                          /\ \E a \in batch'[r] : /\ x = a.first
                                                                 /\ Key(a) \in {Key(p), Key(q)}
\* Two old pairings share a player only because of a resolve in flight.
<1>1. ASSUME NEW u \in pairings, NEW v \in pairings, x \in Seated(u), x \in Seated(v), u # v
      PROVE  \E r \in Requests : /\ pc[r] = "deleteAbsorbed"
                                 /\ \E a \in batch[r] : x = a.first /\ Key(a) \in {Key(u), Key(v)}
  BY <1>1 DEF Doubles
<1>2. ASSUME NEW r \in Requests, Arrive(r) PROVE Goal
  <2>1. p \in pairings /\ q \in pairings /\ batch' = batch
    BY <1>2, ArriveEffect
  <2>2. PICK s \in Requests : /\ pc[s] = "deleteAbsorbed"
                              /\ \E a \in batch[s] : x = a.first /\ Key(a) \in {Key(p), Key(q)}
    BY <1>1, <2>1
  <2>3. pc'[s] = pc[s]
    BY <1>2, <2>2, ArriveEffect DEF TypeOK
  <2> QED
    BY <2>1, <2>2, <2>3
<1>3. ASSUME NEW r \in Requests, Continue(r) PROVE Goal
  <2>1. ASSUME pc[r] # "deleteAbsorbed", p \in pairings, q \in pairings PROVE FALSE
    <3>1. PICK s \in Requests : pc[s] = "deleteAbsorbed"
      BY <1>1, <2>1
    <3>2. InFlight(s) /\ s # r
      BY <2>1, <3>1 DEF InFlight, Finished
    <3> QED
      BY <1>3, <3>2, OnlyOne
  <2>2. CASE DeleteNext(r)
    BY <2>1, <2>2 DEF DeleteNext, Delete
  <2>3. CASE PutNext(r)
    BY <2>3, PutNextPlan DEF WellPaired
  <2>4. CASE PutMerged(r)
    <3>1. PICK target \in pairings, absorbed \in pairings, m \in Pairing :
             /\ target # absorbed
             /\ batch[r] = {absorbed} /\ batch' = batch
             /\ m.first = target.first /\ m.second = absorbed.first
             /\ pairings' = (pairings \ {target}) \cup {m}
      BY <2>4, MergedPut
    <3>2. pc[r] = "putMerged" /\ pc'[r] = "deleteAbsorbed"
      BY <2>4 DEF PutMerged, Goto, TypeOK
    <3>3. ASSUME NEW u \in pairings, NEW v \in pairings, x \in Seated(u), x \in Seated(v), u # v
          PROVE  FALSE
      <4>1. PICK s \in Requests : pc[s] = "deleteAbsorbed"
        BY <1>1, <3>3
      <4>2. InFlight(s) /\ s # r
        BY <3>2, <4>1 DEF InFlight, Finished
      <4> QED
        BY <1>3, <4>2, OnlyOne
    <3>4. target.first \in Seated(target) /\ absorbed.first \in Seated(absorbed)
      BY NoOneAssumption DEF TypeOK, Pairing, Seated
    <3>5. ASSUME NEW o \in pairings, o # target, x \in Seated(m), x \in Seated(o)
          PROVE  x = absorbed.first /\ o = absorbed
      <4>1. x \in {target.first, absorbed.first}
        BY <3>1, <3>5 DEF Seated
      <4> QED
        BY <3>3, <3>4, <3>5, <4>1
    <3>6. x = absorbed.first /\ (p = absorbed \/ q = absorbed)
      BY <3>1, <3>3, <3>5
    <3> QED
      BY <3>1, <3>2, <3>6
  <2>5. CASE DeleteAbsorbed(r)
    <3>1. pc[r] = "deleteAbsorbed"
      BY <2>5 DEF DeleteAbsorbed
    <3>2. PICK a : batch[r] = {a}
      BY <3>1 DEF DeleteReady
    <3>3. p \in pairings /\ q \in pairings /\ Key(p) # Key(a) /\ Key(q) # Key(a)
      BY <2>5, <3>2 DEF DeleteAbsorbed, Delete
    <3>4. PICK s \in Requests : /\ pc[s] = "deleteAbsorbed"
                                /\ \E b \in batch[s] : Key(b) \in {Key(p), Key(q)}
      BY <1>1, <3>3
    <3>5. InFlight(s) /\ s # r
      BY <3>2, <3>3, <3>4 DEF InFlight, Finished
    <3> QED
      BY <1>3, <3>5, OnlyOne
  <2>6. CASE ~DeleteNext(r) /\ ~PutNext(r) /\ ~PutMerged(r) /\ ~DeleteAbsorbed(r)
    <3>1. pairings' = pairings
      BY <1>3, <2>6, ContinueTable
    <3>2. pc[r] # "deleteAbsorbed"
      BY <1>3, <2>6 DEF Continue, GetNight, PairConfirmed, QueryPairings, CloseSignups,
         NotifyOrganizer, ListPairings, ReadEmails, SendNotices, PutPaired, FindSingles,
         PutNight, DeleteSchedule, MoveSchedule, CreateSchedule
    <3> QED
      BY <2>1, <3>1, <3>2
  <2> QED
    BY <2>2, <2>3, <2>4, <2>5, <2>6
<1>4. ASSUME NEW r \in Requests, Crash(r) PROVE Goal
  <2>1. PICK s \in Requests : pc[s] = "deleteAbsorbed" /\ \E a \in batch[s] : x = a.first
    BY <1>1, <1>4, CrashEffect
  <2>2. s = r
    BY <1>4, <2>1, OnlyOne DEF InFlight, Finished
  <2>3. pc'[r] = "crashed" /\ batch' = batch
    BY <1>4, <2>1, <2>2, CrashEffect DEF TypeOK
  <2> QED
    BY <2>1, <2>2, <2>3 DEF CrashedOrphan
<1>5. ASSUME NEW u \in Players, Player(u) PROVE Goal
  BY <1>1, <1>5, PlayerEffect
<1>6. CASE UNCHANGED vars
  BY <1>1, <1>6 DEF vars, table, local
<1> QED
  BY <1>2, <1>3, <1>4, <1>5, <1>6 DEF Next

-----------------------------------------------------------------------------

LEMMA SerialInit == Init => SerialInv
BY RecoveryInit, NoOneAssumption
   DEF Init, SerialInv, Serial, InFlight, SinglesApart, MergeReady, DeleteReady, TwoSeats, Doubles

\* The inductive invariant of a night without overlap.
LEMMA SerialAlways ==
    ASSUME ~Overlap
    PROVE  Spec => []SerialInv
<1>1. SerialInv /\ [Next]_vars => RecoveryInv'
  BY TypeNext, SoloAloneNext, KeysUniqueNext, PlanReadyNext, RewritingNext
     DEF SerialInv, RecoveryInv
<1>2. SerialInv /\ [Next]_vars => Serial'
  BY SerialNext DEF SerialInv, RecoveryInv
<1>3. SerialInv /\ [Next]_vars => SerialInv'
  BY <1>1, <1>2, SinglesApartNext, MergeReadyNext, DeleteReadyNext, TwoSeatsNext, DoublesNext
     DEF SerialInv
<1> QED
  BY SerialInit, <1>3, PTL DEF Spec

\* The comment in resolvePairing holds when requests do not overlap, even if
\* they crash: no two unresolved pairings are of one system.
THEOREM OddOnesDiffer ==
    ASSUME ~Overlap
    PROVE  Spec => []OneOddPerSystem
<1>1. SerialInv => OneOddPerSystem
  BY DEF SerialInv, SinglesApart, OneOddPerSystem
<1> QED
  BY SerialAlways, <1>1, PTL

\* Without overlap the only players ever booked twice are those whose single an
\* interrupted resolve did not get round to deleting.
THEOREM DoubleBookingsExplained ==
    ASSUME ~Overlap
    PROVE  Spec => []OnlyOrphansDoubleBooked
<1>1. SerialInv => OnlyOrphansDoubleBooked
  BY DEF SerialInv, TwoSeats, Doubles, CrashedOrphan, Orphaned, OnlyOrphansDoubleBooked
<1> QED
  BY SerialAlways, <1>1, PTL

-----------------------------------------------------------------------------
(* What a request in flight can rely on. *)

\* What the request in flight has read of the night still stands, and its
\* route's guard still holds.
ReadsStand ==
    \A r \in Requests :
        /\ pc[r] \in {"getNight", "listSignups", "queryPairings", "rewrite", "listPairings",
                      "readEmails", "send", "putPaired", "putNight"} => seen[r] = status
        /\ pc[r] \in {"readEmails", "send", "putPaired", "notifyOrganizer"} => status = "CLOSED"
        /\ pc[r] \in {"getNight", "listSignups", "queryPairings", "rewrite"} =>
              status # "PAIRED" \/ "deadline" \in Handlers
        /\ pc[r] \in {"findSingles", "putMerged", "deleteAbsorbed"} => status # "PAIRED"

\* While an absorbed single is left to delete, it is still stored, and so is the
\* pairing its player has been merged into.
OrphanStored ==
    \A r \in Requests : pc[r] = "deleteAbsorbed" =>
        \E a, m \in pairings : /\ a.status = "NEEDS_RESOLUTION" /\ m.status = "MATCHED"
                               /\ m.second = a.first
                               /\ batch[r] = {a}

LEMMA ReadsStandNext ==
    ASSUME ~Overlap, SerialInv, ReadsStand, [Next]_vars
    PROVE  ReadsStand'
<1> USE DEF SerialInv, RecoveryInv
<1> DEFINE Stands(r) ==
        /\ pc[r] \in {"getNight", "listSignups", "queryPairings", "rewrite", "listPairings",
                      "readEmails", "send", "putPaired", "putNight"} => seen[r] = status
        /\ pc[r] \in {"readEmails", "send", "putPaired", "notifyOrganizer"} => status = "CLOSED"
        /\ pc[r] \in {"getNight", "listSignups", "queryPairings", "rewrite"} =>
              status # "PAIRED" \/ "deadline" \in Handlers
        /\ pc[r] \in {"findSingles", "putMerged", "deleteAbsorbed"} => status # "PAIRED"
<1> SUFFICES ASSUME NEW r \in Requests, InFlight(r)' PROVE Stands(r)'
  BY DEF ReadsStand, InFlight, Finished
<1>1. Stands(r)
  BY DEF ReadsStand
<1>2. solo' = r
  BY SerialNext DEF Serial
<1>3. CASE Arrive(r)
  BY <1>3 DEF Arrive, Generate, RunDeadlinePairing, Publish, Resolve, PatchNight, Begin, TypeOK
<1>4. CASE GetNight(r) \/ PairConfirmed(r) \/ QueryPairings(r) \/ DeleteNext(r) \/ PutNext(r)
  BY <1>1, <1>4
     DEF GetNight, PairConfirmed, QueryPairings, DeleteNext, PutNext, Goto, TypeOK, table
<1>5. CASE CloseSignups(r)
  BY <1>1, <1>5 DEF CloseSignups, Goto, Return, TypeOK, InFlight, Finished
<1>6. CASE ListPairings(r) \/ ReadEmails(r) \/ SendNotices(r) \/ PutPaired(r)
  BY <1>1, <1>6
     DEF ListPairings, ReadEmails, SendNotices, PutPaired, Goto, Return, TypeOK, table
<1>7. CASE FindSingles(r) \/ PutMerged(r) \/ DeleteAbsorbed(r)
  BY <1>1, <1>7 DEF FindSingles, PutMerged, DeleteAbsorbed, Goto, Return, TypeOK, table
<1>8. CASE NotifyOrganizer(r) \/ PutNight(r) \/ DeleteSchedule(r) \/ MoveSchedule(r)
           \/ CreateSchedule(r)
  BY <1>8 DEF NotifyOrganizer, PutNight, DeleteSchedule, MoveSchedule, CreateSchedule, Goto,
     Return, TypeOK
<1>9. CASE Crash(r)
  BY <1>9, CrashEffect DEF TypeOK, InFlight, Finished
<1>10. ASSUME NEW p \in Players, Player(p) PROVE Stands(r)'
  BY <1>1, <1>10, PlayerEffect
<1>11. CASE UNCHANGED vars
  BY <1>1, <1>11 DEF vars, table, local
<1> QED
  BY <1>2, <1>3, <1>4, <1>5, <1>6, <1>7, <1>8, <1>9, <1>10, <1>11, SoloSteps DEF Continue

LEMMA OrphanStoredNext ==
    ASSUME ~Overlap, SerialInv, OrphanStored, [Next]_vars
    PROVE  OrphanStored'
<1> USE DEF SerialInv, RecoveryInv
<1> DEFINE Kept(r) == \E a, m \in pairings : /\ a.status = "NEEDS_RESOLUTION"
                                             /\ m.status = "MATCHED"
                                             /\ m.second = a.first
                                             /\ batch[r] = {a}
<1> SUFFICES ASSUME NEW r \in Requests, pc'[r] = "deleteAbsorbed" PROVE Kept(r)'
  BY DEF OrphanStored
<1>1. CASE pc[r] = "deleteAbsorbed" /\ UNCHANGED <<pairings, batch>>
  BY <1>1 DEF OrphanStored
<1>2. solo' = r
  BY SerialNext DEF Serial, InFlight, Finished
<1>3. CASE Arrive(r)
  BY <1>3, ArriveEffect DEF TypeOK
<1>4. CASE PutMerged(r)
  <2>1. PICK target \in pairings, absorbed \in pairings, m \in Pairing :
           /\ absorbed.status = "NEEDS_RESOLUTION" /\ target # absorbed
           /\ batch[r] = {absorbed} /\ batch' = batch
           /\ m.second = absorbed.first /\ m.status = "MATCHED"
           /\ pairings' = (pairings \ {target}) \cup {m}
    BY <1>4, MergedPut
  <2>2. absorbed \in pairings' /\ m \in pairings'
    BY <2>1
  <2> QED
    BY <2>1, <2>2
<1>5. CASE Continue(r) /\ ~PutMerged(r)
  <2>1. pc'[r] # "deleteAbsorbed"
    BY <1>5 DEF TypeOK, Continue, Goto, Return, GetNight, PairConfirmed, QueryPairings,
       DeleteNext, PutNext, CloseSignups, NotifyOrganizer, ListPairings, ReadEmails, SendNotices,
       PutPaired, FindSingles, DeleteAbsorbed, PutNight, DeleteSchedule, MoveSchedule,
       CreateSchedule
  <2> QED
    BY <2>1
<1>6. CASE Crash(r)
  BY <1>6, CrashEffect DEF TypeOK
<1>7. ASSUME NEW p \in Players, Player(p)
      PROVE  pc[r] = "deleteAbsorbed" /\ UNCHANGED <<pairings, batch>>
  BY <1>7, PlayerEffect
<1>8. CASE UNCHANGED vars
  BY <1>1, <1>8 DEF vars, table, local
<1> QED
  BY <1>1, <1>2, <1>3, <1>4, <1>5, <1>6, <1>7, <1>8, SoloSteps

PromiseInv == SerialInv /\ MailInv /\ NamesKnown /\ ReadsStand /\ OrphanStored

\* The inductive invariant on which the promise rests.
LEMMA PromiseAlways ==
    ASSUME ~Overlap
    PROVE  Spec => []PromiseInv
<1>1. Init => ReadsStand /\ OrphanStored
  BY DEF Init, ReadsStand, OrphanStored
<1>2. SerialInv /\ ReadsStand /\ OrphanStored /\ [Next]_vars => ReadsStand' /\ OrphanStored'
  BY ReadsStandNext, OrphanStoredNext
<1>3. Spec => []NamesKnown
  BY NamesKnownAlways
<1> QED
  BY <1>1, <1>2, <1>3, SerialAlways, MailAlways, PTL DEF Spec, PromiseInv

-----------------------------------------------------------------------------
(* The refinement. *)

View == <<status, signups, Board, Roster, Told, Stopped>>

\* The organizer's view, read off the only request in flight.
LEMMA LoneView ==
    ASSUME NEW r \in Requests, solo = r
    PROVE  /\ Roster = IF pc[r] \in {"queryPairings", "rewrite"} THEN confirmed[r] ELSE NoOne
           /\ Board = IF pc[r] \in {"queryPairings", "rewrite"} THEN {}
                      ELSE IF pc[r] = "deleteAbsorbed" THEN pairings \ batch[r] ELSE pairings
           /\ Told = IF pc[r] = "putPaired" THEN {m \in mail : m.by # r} ELSE mail
BY DEF Roster, Board, Told, Preparing, At

\* The same in the state a step leads to.
LEMMA LoneViewNext ==
    ASSUME NEW r \in Requests, solo' = r
    PROVE  /\ Roster' = IF pc'[r] \in {"queryPairings", "rewrite"} THEN confirmed'[r] ELSE NoOne
           /\ Board' = IF pc'[r] \in {"queryPairings", "rewrite"} THEN {}
                       ELSE IF pc'[r] = "deleteAbsorbed" THEN pairings' \ batch'[r] ELSE pairings'
           /\ Told' = IF pc'[r] = "putPaired" THEN {m \in mail' : m.by # r} ELSE mail'
BY DEF Roster, Board, Told, Preparing, At

LEMMA RosterKnown ==
    ASSUME TypeOK, NEW r \in Requests
    PROVE  confirmed[r] # NoOne
BY RosterAssumption DEF TypeOK

\* An arriving request changes nothing an organizer sees.
LEMMA ArriveSteps ==
    ASSUME ~Overlap, PromiseInv, NEW r \in Requests, Arrive(r)
    PROVE  UNCHANGED View
<1> USE DEF PromiseInv, SerialInv, RecoveryInv
<1>1. PICK next \in {"rejected", "getNight", "listSignups", "listPairings", "findSingles",
                     "putNight"} : pc' = [pc EXCEPT ![r] = next]
  BY ArriveEffect
<1>2. /\ pc[r] = "ready" /\ solo' = r
      /\ \A q \in Requests : ~InFlight(q)
      /\ UNCHANGED <<signups, pairings, mail, batch, confirmed>>
  BY ArriveEffect
<1>3. status' = status
  BY DEF Arrive, Generate, RunDeadlinePairing, Publish, Resolve, PatchNight, Begin
<1>4. Board = pairings /\ Roster = NoOne /\ Told = mail
  BY <1>2 DEF Board, Roster, Told, Preparing, At, InFlight, Finished
<1>5. pc'[r] \in {"rejected", "getNight", "listSignups", "listPairings", "findSingles", "putNight"}
  BY <1>1 DEF TypeOK
<1>6. Board' = pairings' /\ Roster' = NoOne /\ Told' = mail'
  BY <1>2, <1>5, LoneViewNext
<1>7. Stopped' = Stopped
  BY <1>1, <1>2 DEF Stopped, TypeOK
<1> QED
  BY <1>2, <1>3, <1>4, <1>6, <1>7 DEF View

\* The request that goes on is alone; one that is not interrupted has not stopped.
LEMMA ContinueAlone ==
    ASSUME PromiseInv, NEW r \in Requests, Continue(r)
    PROVE  /\ solo = r /\ solo' = r /\ Stopped' = Stopped
           /\ UNCHANGED signups
<1> USE DEF PromiseInv, SerialInv, RecoveryInv
<1>1. solo = r /\ solo' = r /\ UNCHANGED signups /\ pc[r] # "crashed"
  BY ContinueEffect DEF Serial, InFlight, Finished
<1>2. pc'[r] # "crashed"
  BY DEF TypeOK, Continue, Goto, Return, GetNight, PairConfirmed, QueryPairings,
       DeleteNext, PutNext, CloseSignups, NotifyOrganizer, ListPairings, ReadEmails, SendNotices,
       PutPaired, FindSingles, PutMerged, DeleteAbsorbed, PutNight, DeleteSchedule, MoveSchedule,
       CreateSchedule
<1>3. \A q \in Requests : q # r => pc'[q] = pc[q]
  BY ContinueOthers
<1> QED
  BY <1>1, <1>2, <1>3 DEF Stopped

\* Generating: listing the confirmed players prepares a board, closing sign-ups
\* completes it, and the calls in between show nothing.
LEMMA GenerateSteps ==
    ASSUME PromiseInv, NEW r \in Requests, Continue(r),
           GetNight(r) \/ PairConfirmed(r) \/ QueryPairings(r) \/ DeleteNext(r) \/ PutNext(r)
           \/ CloseSignups(r) \/ NotifyOrganizer(r)
    PROVE  Review!Next \/ UNCHANGED View
<1> USE DEF PromiseInv, SerialInv, RecoveryInv, View
<1>0. solo = r /\ solo' = r /\ Stopped' = Stopped /\ UNCHANGED signups
  BY ContinueAlone
<1>1. CASE GetNight(r)
  <2>1. pc[r] = "getNight" /\ pc'[r] = "listSignups" /\ UNCHANGED table
    BY <1>1 DEF GetNight, Goto, TypeOK
  <2> QED
    BY <1>0, <2>1, LoneView, LoneViewNext DEF table
<1>2. CASE PairConfirmed(r)
  <2> DEFINE systemOf == [p \in Confirmed |-> signups[p].system]
  <2>1. pc[r] = "listSignups" /\ pc'[r] = "queryPairings" /\ UNCHANGED table
    BY <1>2 DEF PairConfirmed, Goto, TypeOK
  <2>2. confirmed'[r] = systemOf
    BY <1>2 DEF PairConfirmed, TypeOK
  <2>3. status = "PAIRED" => "deadline" \in Handlers
    BY <2>1 DEF ReadsStand
  <2>4. Roster = NoOne /\ Roster' = systemOf /\ Board' = {} /\ Told = mail /\ Told' = mail'
    BY <1>0, <2>1, <2>2, LoneView, LoneViewNext
  <2>5. Review!Prepare
    BY <1>0, <2>1, <2>3, <2>4 DEF Review!Prepare, Review!Confirmed, Confirmed, table
  <2> QED
    BY <2>5 DEF Review!Next
<1>3. CASE QueryPairings(r)
  <2>1. /\ pc[r] = "queryPairings" /\ pc'[r] = "rewrite" /\ UNCHANGED table
        /\ confirmed' = confirmed
    BY <1>3 DEF QueryPairings, Goto, TypeOK
  <2> QED
    BY <1>0, <2>1, LoneView, LoneViewNext DEF table
<1>4. CASE DeleteNext(r) \/ PutNext(r)
  <2>1. pc[r] = "rewrite" /\ UNCHANGED <<pc, confirmed, status, mail>>
    BY <1>4 DEF DeleteNext, PutNext
  <2> QED
    BY <1>0, <2>1, LoneView, LoneViewNext
<1>5. CASE CloseSignups(r)
  <2>1. /\ pc[r] = "rewrite" /\ batch[r] = {} /\ result[r] = {}
        /\ UNCHANGED <<pairings, mail>>
    BY <1>5 DEF CloseSignups
  <2>2. pc'[r] \in {"done", "notifyOrganizer"}
    BY <1>5 DEF CloseSignups, Goto, Return, TypeOK
  <2>3. status' = "CLOSED"
    BY <1>5 DEF CloseSignups, ReadsStand
  <2>4. WellPaired(pairings, r, confirmed[r])
    <3>1. WellPaired(pairings \cup {}, r, confirmed[r])
      BY <1>0, <2>1 DEF Rewriting
    <3>2. pairings \cup {} = pairings
      OBVIOUS
    <3> QED
      BY <3>1, <3>2
  <2>5. /\ Roster = confirmed[r] /\ Roster' = NoOne
        /\ Board' = pairings /\ Told = mail /\ Told' = mail'
    BY <1>0, <2>1, <2>2, LoneView, LoneViewNext
  <2>6. Review!WellPaired(Board', r, Roster)
    BY <2>4, <2>5 DEF WellPaired, Pairing, Seated, Review!WellPaired, Review!Pairing,
       Review!Seated
  <2>7. Review!Complete
    BY <1>0, <2>1, <2>3, <2>5, <2>6, RosterKnown DEF Review!Complete
  <2> QED
    BY <2>7 DEF Review!Next
<1>6. CASE NotifyOrganizer(r)
  <2>1. /\ pc[r] = "notifyOrganizer" /\ pc'[r] = "done" /\ UNCHANGED <<status, pairings>>
        /\ mail' = mail \/ mail' = mail \cup {[by |-> r, to |-> Organizer, about |-> NoOne]}
    BY <1>6 DEF NotifyOrganizer, Return, TypeOK
  <2>2. status = "CLOSED"
    BY <2>1 DEF ReadsStand
  <2>3. /\ Roster = NoOne /\ Roster' = NoOne /\ Board = pairings /\ Board' = pairings'
        /\ Told = mail /\ Told' = mail'
    BY <1>0, <2>1, LoneView, LoneViewNext
  <2>4. CASE mail' = mail
    BY <1>0, <2>1, <2>3, <2>4
  <2>5. CASE mail' = mail \cup {[by |-> r, to |-> Organizer, about |-> NoOne]}
    <3>1. Review!TellOrganizer
      BY <1>0, <2>1, <2>2, <2>3, <2>5 DEF Review!TellOrganizer
    <3> QED
      BY <3>1 DEF Review!Next
  <2> QED
    BY <2>1, <2>4, <2>5
<1> QED
  BY <1>1, <1>2, <1>3, <1>4, <1>5, <1>6

\* What a lone publish has sent is what Review lets it tell.
LEMMA NoticesTruthful ==
    ASSUME PromiseInv, NEW r \in Requests, solo = r, pc[r] = "putPaired"
    PROVE  /\ Board = pairings /\ Roster = NoOne
           /\ Told \subseteq mail /\ Review!Truthful(mail \ Told)
<1> USE DEF PromiseInv, SerialInv, RecoveryInv
<1>1. Board = pairings /\ Roster = NoOne /\ Told = {m \in mail : m.by # r}
  BY LoneView
<1>2. batch[r] = pairings
  BY DEF MailInv, PublishView
<1>3. SUFFICES ASSUME NEW m \in mail, m.by = r
               PROVE  /\ m.to \in Players
                      /\ signups[m.to] # NoSignup
                      /\ \E p \in pairings : p.status = "MATCHED" /\ Review!Seated(p) = {m.to, m.about}
  BY <1>1 DEF Review!Truthful
<1>4. PICK p \in pairings : /\ p.status = "MATCHED" /\ p.second # NoOne
                            /\ \/ m.to = p.first /\ m.about = p.second
                               \/ m.to = p.second /\ m.about = p.first
  BY <1>2, <1>3 DEF MailInv, NoticesSent, Notices
<1>5. p.first \in Players /\ p.second \in Players
  BY <1>4 DEF TypeOK, Pairing
<1>6. p.first # NoOne
  BY <1>5, NoOneAssumption
<1>7. Review!Seated(p) = {m.to, m.about}
  BY <1>4, <1>6 DEF Review!Seated
<1> QED
  BY <1>3, <1>4, <1>5, <1>7 DEF NamesKnown, SignedUp

\* Publishing: only writing PAIRED shows, and with it the messages.
LEMMA PublishSteps ==
    ASSUME PromiseInv, NEW r \in Requests, Continue(r),
           ListPairings(r) \/ ReadEmails(r) \/ SendNotices(r) \/ PutPaired(r)
    PROVE  Review!Next \/ UNCHANGED View
<1> USE DEF PromiseInv, SerialInv, RecoveryInv, View
<1>0. solo = r /\ solo' = r /\ Stopped' = Stopped /\ UNCHANGED signups
  BY ContinueAlone
<1>1. CASE ListPairings(r) \/ ReadEmails(r)
  <2>1. /\ pc[r] \in {"listPairings", "readEmails"}
        /\ pc'[r] \in {"readEmails", "send", "done", "rejected"}
        /\ UNCHANGED table
    BY <1>1 DEF ListPairings, ReadEmails, Goto, Return, TypeOK
  <2> QED
    BY <1>0, <2>1, LoneView, LoneViewNext DEF table
<1>2. CASE SendNotices(r)
  <2>1. pc[r] = "send" /\ pc'[r] = "putPaired" /\ UNCHANGED <<status, pairings>>
    BY <1>2 DEF SendNotices, Goto, TypeOK
  <2>2. \A m \in mail : m.by # r
    BY <2>1 DEF MailInv, NothingSent
  <2>3. \A m \in mail' : m \in mail \/ m.by = r
    BY <1>2 DEF SendNotices, Notices
  <2>4. mail \subseteq mail'
    BY <1>2 DEF SendNotices
  <2>5. {m \in mail' : m.by # r} = mail
    BY <2>2, <2>3, <2>4
  <2> QED
    BY <1>0, <2>1, <2>5, LoneView, LoneViewNext
<1>3. CASE PutPaired(r)
  <2>1. /\ pc[r] = "putPaired" /\ pc'[r] = "done" /\ status' = "PAIRED"
        /\ UNCHANGED <<pairings, mail>>
    BY <1>3 DEF PutPaired, Return, TypeOK
  <2>2. status = "CLOSED"
    BY <2>1 DEF ReadsStand
  <2>3. Board' = pairings /\ Roster' = NoOne /\ Told' = mail
    BY <1>0, <2>1, LoneViewNext
  <2>4. Review!Publish
    BY <1>0, <2>1, <2>2, <2>3, NoticesTruthful DEF Review!Publish
  <2> QED
    BY <2>4 DEF Review!Next
<1> QED
  BY <1>1, <1>2, <1>3

\* Resolving: putting the merged pairing is the step that shows, since the
\* absorbed single no longer counts.
LEMMA ResolveSteps ==
    ASSUME PromiseInv, NEW r \in Requests, Continue(r),
           FindSingles(r) \/ PutMerged(r) \/ DeleteAbsorbed(r)
    PROVE  Review!Next \/ UNCHANGED View
<1> USE DEF PromiseInv, SerialInv, RecoveryInv, View
<1>0. solo = r /\ solo' = r /\ Stopped' = Stopped /\ UNCHANGED signups
  BY ContinueAlone
<1>1. CASE FindSingles(r)
  <2>1. pc[r] = "findSingles" /\ pc'[r] \in {"putMerged", "rejected"} /\ UNCHANGED table
    BY <1>1 DEF FindSingles, Goto, Return, TypeOK
  <2> QED
    BY <1>0, <2>1, LoneView, LoneViewNext DEF table
<1>2. CASE PutMerged(r)
  <2>1. /\ pc[r] = "putMerged" /\ pc'[r] = "deleteAbsorbed"
        /\ UNCHANGED <<status, mail, batch>>
    BY <1>2 DEF PutMerged, Goto, TypeOK
  <2>2. PICK target \in pairings, absorbed \in pairings :
          /\ target.status = "NEEDS_RESOLUTION" /\ absorbed.status = "NEEDS_RESOLUTION"
          /\ Key(target) # Key(absorbed)
          /\ batch[r] = {absorbed}
          /\ result[r] = {[target EXCEPT !.second = absorbed.first, !.status = "MATCHED"]}
    BY <2>1 DEF MergeReady
  <2> DEFINE m == [target EXCEPT !.second = absorbed.first, !.status = "MATCHED"]
  <2>3. Key(m) = Key(target) /\ m.status = "MATCHED"
    BY DEF TypeOK, Pairing, Key
  <2>4. Put(m)
    BY <1>2, <2>2 DEF PutMerged
  <2>5. pairings' = (pairings \ {target}) \cup {m}
    BY <2>3, <2>4 DEF Put, KeysUnique
  <2>6. status # "PAIRED"
    BY <2>1 DEF ReadsStand
  <2>7. /\ Board = pairings /\ Board' = pairings' \ {absorbed}
        /\ Roster = NoOne /\ Roster' = NoOne /\ Told = mail /\ Told' = mail
    BY <1>0, <2>1, <2>2, LoneView, LoneViewNext
  <2>8. Board' = (Board \ {target, absorbed}) \cup {m}
    BY <2>2, <2>3, <2>5, <2>7
  <2>9. Review!Resolve
    BY <1>0, <2>1, <2>2, <2>6, <2>7, <2>8 DEF Review!Resolve
  <2> QED
    BY <2>9 DEF Review!Next
<1>3. CASE DeleteAbsorbed(r)
  <2>1. pc[r] = "deleteAbsorbed" /\ pc'[r] = "done" /\ UNCHANGED <<status, mail>>
    BY <1>3 DEF DeleteAbsorbed, Return, TypeOK
  <2>2. PICK a \in pairings : batch[r] = {a}
    BY <2>1 DEF OrphanStored
  <2>3. pairings' = pairings \ {a}
    BY <1>3, <2>2 DEF DeleteAbsorbed, Delete, KeysUnique
  <2> QED
    BY <1>0, <2>1, <2>2, <2>3, LoneView, LoneViewNext
<1> QED
  BY <1>1, <1>2, <1>3

\* Editing the night.
LEMMA PatchSteps ==
    ASSUME PromiseInv, NEW r \in Requests, Continue(r),
           PutNight(r) \/ DeleteSchedule(r) \/ MoveSchedule(r) \/ CreateSchedule(r)
    PROVE  Review!Next \/ UNCHANGED View
<1> USE DEF PromiseInv, SerialInv, RecoveryInv, View
<1>0. solo = r /\ solo' = r /\ Stopped' = Stopped /\ UNCHANGED signups
  BY ContinueAlone
<1>1. /\ pc[r] \in {"putNight", "deleteSchedule", "moveSchedule", "createSchedule"}
      /\ pc'[r] \in {"deleteSchedule", "moveSchedule", "createSchedule", "done"}
      /\ UNCHANGED <<pairings, mail>>
  BY DEF PutNight, DeleteSchedule, MoveSchedule, CreateSchedule, Goto, Return, TypeOK
<1>2. UNCHANGED <<Board, Roster, Told>> /\ Roster = NoOne
  BY <1>0, <1>1, LoneView, LoneViewNext
<1>3. status' = status \/ status' \in PatchStatuses
  BY DEF PutNight, DeleteSchedule, MoveSchedule, CreateSchedule, ReadsStand
<1>4. CASE status' \in PatchStatuses
  BY <1>0, <1>2, <1>4 DEF Review!Next, Review!Edit
<1> QED
  BY <1>0, <1>2, <1>3, <1>4

\* An interruption leaves what Abandon, LeaveOrphan, TellOnly or Stop allow.
LEMMA CrashSteps ==
    ASSUME PromiseInv, NEW r \in Requests, Crash(r)
    PROVE  Review!Next
<1> USE DEF PromiseInv, SerialInv, RecoveryInv
<1>0. /\ solo = r /\ solo' = r /\ UNCHANGED <<status, signups, pairings, mail>>
      /\ pc' = [pc EXCEPT ![r] = "crashed"] /\ pc[r] # "crashed"
  BY CrashEffect DEF Crash, table, Serial, InFlight, Finished
<1>1. pc'[r] = "crashed"
  BY <1>0 DEF TypeOK
<1>2. Review!Interrupted
  <2>1. r \notin Stopped /\ Stopped' = Stopped \cup {r}
    BY <1>0, <1>1 DEF Stopped, TypeOK
  <2> QED
    BY <2>1 DEF Review!Interrupted, Crash
<1>3. Board' = pairings /\ Roster' = NoOne /\ Told' = mail
  BY <1>0, <1>1, LoneViewNext
<1>4. CASE pc[r] \in {"queryPairings", "rewrite"}
  <2>1. Roster = confirmed[r] /\ Told = mail
    BY <1>0, <1>4, LoneView
  <2>2. Board' \subseteq Review!Pairing
    BY <1>3 DEF TypeOK, Pairing, Review!Pairing
  <2>3. Review!Abandon
    BY <1>0, <1>2, <1>3, <2>1, <2>2, RosterKnown DEF Review!Abandon
  <2> QED
    BY <2>3 DEF Review!Next
<1>5. CASE pc[r] = "deleteAbsorbed"
  <2>1. PICK a \in pairings, m \in pairings :
           /\ a.status = "NEEDS_RESOLUTION" /\ m.status = "MATCHED"
           /\ m.second = a.first
           /\ batch[r] = {a}
    BY <1>5 DEF OrphanStored
  <2>2. Roster = NoOne /\ Told = mail /\ Board = pairings \ {a}
    BY <1>0, <1>5, <2>1, LoneView
  <2>3. a \in Review!Pairing
    BY DEF TypeOK, Pairing, Review!Pairing
  <2>4. m \in Board /\ a \in Board' /\ Board' = Board \cup {a}
    BY <1>3, <2>1, <2>2
  <2>5. Review!LeaveOrphan
    BY <1>0, <1>2, <1>3, <2>1, <2>2, <2>3, <2>4 DEF Review!LeaveOrphan
  <2> QED
    BY <2>5 DEF Review!Next
<1>6. CASE pc[r] = "putPaired"
  <2>1. status = "CLOSED"
    BY <1>6 DEF ReadsStand
  <2>2. Review!TellOnly
    BY <1>0, <1>2, <1>3, <1>6, <2>1, NoticesTruthful DEF Review!TellOnly
  <2> QED
    BY <2>2 DEF Review!Next
<1>7. CASE pc[r] \notin {"queryPairings", "rewrite", "deleteAbsorbed", "putPaired"}
  <2>1. Board = pairings /\ Roster = NoOne /\ Told = mail
    BY <1>0, <1>7, LoneView
  <2>2. Review!Stop
    BY <1>0, <1>2, <1>3, <2>1 DEF Review!Stop
  <2> QED
    BY <2>2 DEF Review!Next
<1> QED
  BY <1>4, <1>5, <1>6, <1>7

\* Players sign up, change and withdraw, also while a board is being prepared.
LEMMA PlayerSteps ==
    ASSUME PromiseInv, NEW p \in Players, Player(p)
    PROVE  Review!Next \/ UNCHANGED View
<1> USE DEF PromiseInv, SerialInv, RecoveryInv
<1>1. UNCHANGED <<status, Board, Roster, Told, Stopped>>
  BY PlayerEffect DEF Board, Roster, Told, Stopped, Preparing, At
<1>2. CASE CheckOpen(p)
  BY <1>1, <1>2 DEF CheckOpen, View
<1>3. ASSUME NEW s \in Systems, NEW how \in {"CONFIRMED", "CANCELLED"},
             signups' = [signups EXCEPT ![p] = [system |-> s, status |-> how]]
      PROVE  Review!Next
  BY <1>1, <1>3 DEF Review!Next, Review!PlayerWrites
<1>4. CASE UpsertSignup(p)
  BY <1>3, <1>4 DEF UpsertSignup
<1>5. CASE ChangeSystem(p)
  <2>1. PICK s \in Systems : signups' = [signups EXCEPT ![p].system = s]
    BY <1>5 DEF ChangeSystem
  <2>2. signups[p] \in Signup /\ signups[p].status = "CONFIRMED"
    BY <1>5 DEF ChangeSystem, Confirmed, TypeOK
  <2>3. [signups[p] EXCEPT !.system = s] = [system |-> s, status |-> "CONFIRMED"]
    BY <2>2 DEF Signup
  <2> QED
    BY <1>3, <2>1, <2>3
<1>6. CASE Withdraw(p)
  <2>1. signups[p] \in Signup
    BY <1>6 DEF Withdraw, TypeOK
  <2>2. [signups[p] EXCEPT !.status = "CANCELLED"]
            = [system |-> signups[p].system, status |-> "CANCELLED"]
    BY <2>1 DEF Signup
  <2>3. signups[p].system \in Systems
    BY <2>1 DEF Signup
  <2>4. signups' = [signups EXCEPT ![p] = [system |-> signups[p].system, status |-> "CANCELLED"]]
    BY <1>6, <2>2 DEF Withdraw
  <2> QED
    BY <1>3, <2>3, <2>4
<1> QED
  BY <1>2, <1>4, <1>5, <1>6 DEF Player

-----------------------------------------------------------------------------

\* The pairing service implements PairingReview, whatever crashes, as long as no
\* two handlers of a night are in flight at once: boards appear whole, are
\* resolved, are published with their messages, and then stand.
THEOREM PromiseIsKept ==
    ASSUME ~Overlap
    PROVE  Spec => KeepsPromise
<1>1. Init => Review!Init
  BY NoOneAssumption DEF Init, Review!Init, Board, Roster, Told, Stopped, Preparing, At
<1>2. PromiseInv /\ [Next]_vars => [Review!Next]_Review!vars
  <2> SUFFICES ASSUME PromiseInv, [Next]_vars PROVE Review!Next \/ UNCHANGED View
    BY DEF View, Review!vars
  <2>1. ASSUME NEW r \in Requests, Continue(r) PROVE Review!Next \/ UNCHANGED View
    BY <2>1, GenerateSteps, PublishSteps, ResolveSteps, PatchSteps DEF Continue
  <2>2. CASE UNCHANGED vars
    BY <2>2 DEF vars, table, local, View, Board, Roster, Told, Stopped, Preparing, At
  <2> QED
    BY <2>1, <2>2, ArriveSteps, CrashSteps, PlayerSteps DEF Next
<1> QED
  BY <1>1, <1>2, PromiseAlways, PTL DEF Spec, KeepsPromise, Review!Spec

-----------------------------------------------------------------------------
(* Who is left out.  The night is closed by generating only. *)

Rewrites(r) == pc[r] \in {"queryPairings", "rewrite"}

InBoard(x) == \E p \in pairings : x \in Seated(p)

\* A generation under way has found every confirmed player it could know of.
ListedOrMissed ==
    \A r \in Requests : Rewrites(r) => \A x \in Confirmed : x \in missed \cup DOMAIN confirmed[r]

\* The board of a closed night seats them.
SeatedOrMissed ==
    (status \in {"CLOSED", "PAIRED"} /\ \A r \in Requests : ~Rewrites(r)) =>
        \A x \in Confirmed : x \in missed \/ InBoard(x)

\* Nobody becomes a confirmed player but by signing up, which the history sees.
LEMMA ConfirmedGrows ==
    ASSUME TypeOK, [Next]_vars, NEW x \in Confirmed'
    PROVE  x \in Confirmed \/ x \in signing \ signing'
<1>1. ASSUME NEW p \in Players, Player(p) PROVE x \in Confirmed \/ x \in signing \ signing'
  <2>1. CASE CheckOpen(p)
    BY <2>1 DEF CheckOpen, Confirmed
  <2>2. CASE UpsertSignup(p)
    BY <2>2 DEF UpsertSignup, Confirmed, TypeOK
  <2>3. CASE ChangeSystem(p)
    BY <2>3 DEF ChangeSystem, Confirmed, TypeOK
  <2>4. CASE Withdraw(p)
    <3>1. x # p
      <4>1. signups[p] \in Signup
        BY <2>4 DEF Withdraw, TypeOK
      <4>2. signups'[p] = [signups[p] EXCEPT !.status = "CANCELLED"]
        BY <2>4 DEF Withdraw, TypeOK
      <4> QED
        BY <4>1, <4>2 DEF Confirmed, Signup
    <3> QED
      BY <2>4, <3>1 DEF Withdraw, Confirmed, TypeOK
  <2> QED
    BY <1>1, <2>1, <2>2, <2>3, <2>4 DEF Player
<1>2. signups' = signups => x \in Confirmed
  BY DEF Confirmed
<1> QED
  BY <1>1, <1>2, ArriveEffect, ContinueEffect, CrashEffect DEF Next, vars, table

\* Until sign-ups are listed anew, whoever is not missed was confirmed before,
\* and no rewrite has stopped.
LEMMA NotMissed ==
    ASSUME TypeOK, LateNext, ~Lists, NEW x \in Confirmed', x \notin missed'
    PROVE  x \in Confirmed /\ x \notin missed /\ ~Stops
<1>1. x \in Players
  BY DEF Confirmed
<1>2. ~Stops
  BY <1>1 DEF LateNext
<1>3. x \notin missed /\ x \notin signing \ signing'
  BY <1>2 DEF LateNext
<1> QED
  BY <1>2, <1>3, ConfirmedGrows DEF LateNext

\* A rewrite begins with listing sign-ups, ends with closing them, and keeps
\* what it has listed.
LEMMA RewriteSteps ==
    ASSUME PromiseInv, Next, NEW r \in Requests
    PROVE  /\ (Rewrites(r)' /\ ~Rewrites(r)) => PairConfirmed(r) /\ Lists
           /\ (Rewrites(r)' /\ Rewrites(r)) => confirmed'[r] = confirmed[r]
           /\ (~Rewrites(r)' /\ Rewrites(r)) => CloseSignups(r) \/ Stops
<1> USE DEF PromiseInv, SerialInv, RecoveryInv, Rewrites
<1> DEFINE Goal == /\ (Rewrites(r)' /\ ~Rewrites(r)) => PairConfirmed(r) /\ Lists
                   /\ (Rewrites(r)' /\ Rewrites(r)) => confirmed'[r] = confirmed[r]
                   /\ (~Rewrites(r)' /\ Rewrites(r)) => CloseSignups(r) \/ Stops
<1>1. ASSUME pc'[r] = pc[r], confirmed'[r] = confirmed[r] PROVE Goal
  BY <1>1
<1>2. ASSUME NEW q \in Requests, Arrive(q) PROVE Goal
  BY <1>2, ArriveEffect DEF TypeOK
<1>3. ASSUME NEW q \in Requests, Continue(q), q # r PROVE Goal
  BY <1>1, <1>3, ContinueOthers
<1>4. CASE PairConfirmed(r)
  BY <1>4 DEF PairConfirmed, Lists, Goto, TypeOK
<1>5. CASE QueryPairings(r) \/ DeleteNext(r) \/ PutNext(r)
  BY <1>5 DEF QueryPairings, DeleteNext, PutNext, Goto, TypeOK
<1>6. CASE CloseSignups(r)
  BY <1>6 DEF CloseSignups, Goto, Return, TypeOK
<1>7. CASE Continue(r) /\ ~PairConfirmed(r) /\ ~QueryPairings(r) /\ ~DeleteNext(r) /\ ~PutNext(r)
           /\ ~CloseSignups(r)
  BY <1>7 DEF TypeOK, Continue, Goto, Return, GetNight, NotifyOrganizer, ListPairings, ReadEmails,
     SendNotices, PutPaired, FindSingles, PutMerged, DeleteAbsorbed, PutNight, DeleteSchedule,
     MoveSchedule, CreateSchedule
<1>8. ASSUME NEW q \in Requests, Crash(q) PROVE Goal
  BY <1>8, CrashEffect DEF Stops, TypeOK
<1>9. ASSUME NEW p \in Players, Player(p) PROVE Goal
  BY <1>1, <1>9, PlayerEffect
<1> QED
  BY <1>2, <1>3, <1>4, <1>5, <1>6, <1>7, <1>8, <1>9 DEF Next

\* An unresolved pairing seats one player.
OddAreSingle == \A p \in pairings : p.status = "NEEDS_RESOLUTION" => p.second = NoOne

LEMMA OddAreSingleNext ==
    ASSUME SerialInv, OddAreSingle, [Next]_vars
    PROVE  OddAreSingle'
<1> USE DEF SerialInv
<1>1. ASSUME pairings' \subseteq pairings PROVE OddAreSingle'
  BY <1>1 DEF OddAreSingle
<1>2. ASSUME NEW r \in Requests, Continue(r) PROVE OddAreSingle'
  <2>1. CASE DeleteNext(r) \/ DeleteAbsorbed(r)
    BY <1>1, <2>1 DEF DeleteNext, DeleteAbsorbed, Delete
  <2>2. CASE PutNext(r)
    BY <2>2, PutNextPlan DEF WellPaired, OddAreSingle
  <2>3. CASE PutMerged(r)
    <3>1. PICK target \in pairings, m \in Pairing :
             m.status = "MATCHED" /\ pairings' = (pairings \ {target}) \cup {m}
      BY <2>3, MergedPut DEF RecoveryInv
    <3> QED
      BY <3>1 DEF OddAreSingle
  <2> QED
    BY <1>1, <1>2, <2>1, <2>2, <2>3, ContinueTable
<1> QED
  BY <1>1, <1>2, ArriveEffect, CrashEffect, PlayerEffect DEF Next, vars, table, RecoveryInv

\* While no generation rewrites the board nobody loses a seat.
LEMMA SeatsStay ==
    ASSUME PromiseInv, OddAreSingle, Next, \A r \in Requests : ~Rewrites(r), NEW x, InBoard(x)
    PROVE  InBoard(x)'
<1> USE DEF PromiseInv, SerialInv, RecoveryInv, InBoard
<1>1. ASSUME NEW r \in Requests, Continue(r) PROVE InBoard(x)'
  <2>1. CASE DeleteNext(r) \/ PutNext(r)
    BY <2>1 DEF DeleteNext, PutNext, Rewrites
  <2>2. CASE PutMerged(r)
    <3>1. PICK target \in pairings, m \in Pairing :
             /\ target.status = "NEEDS_RESOLUTION"
             /\ m.first = target.first
             /\ pairings' = (pairings \ {target}) \cup {m}
      BY <2>2, MergedPut
    <3>2. Seated(target) \subseteq Seated(m)
      BY <3>1 DEF Seated, OddAreSingle
    <3> QED
      BY <3>1, <3>2
  <2>3. CASE DeleteAbsorbed(r)
    <3>1. PICK a \in pairings, m \in pairings :
             /\ a.status = "NEEDS_RESOLUTION" /\ m.status = "MATCHED"
             /\ m.second = a.first
             /\ batch[r] = {a}
      BY <2>3 DEF DeleteAbsorbed, OrphanStored
    <3>2. pairings' = pairings \ {a}
      BY <2>3, <3>1 DEF DeleteAbsorbed, Delete, KeysUnique
    <3>3. Seated(a) \subseteq Seated(m)
      BY <3>1 DEF Seated, OddAreSingle
    <3> QED
      BY <3>1, <3>2, <3>3
  <2> QED
    BY <1>1, <2>1, <2>2, <2>3, ContinueTable
<1> QED
  BY <1>1, ArriveEffect, CrashEffect, PlayerEffect DEF Next

\* Only a generation closes a night, and only a closed one is published.
LEMMA ClosedBefore ==
    ASSUME PatchStatuses \cap {"CLOSED", "PAIRED"} = {},
           PromiseInv, Next, \A r \in Requests : ~Rewrites(r), status' \in {"CLOSED", "PAIRED"}
    PROVE  status \in {"CLOSED", "PAIRED"}
<1> USE DEF PromiseInv
<1>1. ASSUME NEW r \in Requests, Continue(r) PROVE status \in {"CLOSED", "PAIRED"}
  <2>1. CASE CloseSignups(r)
    BY <2>1 DEF CloseSignups, Rewrites
  <2>2. CASE PutPaired(r)
    BY <2>2 DEF PutPaired, ReadsStand
  <2>3. CASE PutNight(r)
    BY <2>3 DEF PutNight, ReadsStand
  <2>4. CASE ~CloseSignups(r) /\ ~PutPaired(r) /\ ~PutNight(r)
    BY <1>1, <2>4 DEF Continue, table, GetNight, PairConfirmed, QueryPairings, DeleteNext, PutNext,
       NotifyOrganizer, ListPairings, ReadEmails, SendNotices, FindSingles, PutMerged,
       DeleteAbsorbed, DeleteSchedule, MoveSchedule, CreateSchedule
  <2> QED
    BY <2>1, <2>2, <2>3, <2>4
<1>2. ASSUME NEW r \in Requests, Arrive(r) PROVE status' = status
  BY <1>2 DEF Arrive, Generate, RunDeadlinePairing, Publish, Resolve, PatchNight, Begin
<1>3. ASSUME NEW r \in Requests, Crash(r) PROVE status' = status
  BY <1>3 DEF Crash, table
<1> QED
  BY <1>1, <1>2, <1>3, PlayerEffect DEF Next

LEMMA LatecomersNext ==
    ASSUME ~Overlap, PatchStatuses \cap {"CLOSED", "PAIRED"} = {},
           PromiseInv, OddAreSingle, ListedOrMissed, SeatedOrMissed, LateNext
    PROVE  ListedOrMissed' /\ SeatedOrMissed'
<1> USE DEF PromiseInv, SerialInv, RecoveryInv
<1>1. CASE Lists
  <2>1. PICK r \in Requests : pc[r] = "listSignups" /\ pc'[r] = "queryPairings"
    BY <1>1 DEF Lists
  <2>2. PairConfirmed(r)
    BY <2>1, RewriteSteps DEF LateNext, Rewrites
  <2>3. confirmed'[r] = [p \in Confirmed |-> signups[p].system] /\ signups' = signups
    BY <2>2 DEF PairConfirmed, TypeOK, table
  <2>4. Confirmed' = DOMAIN confirmed'[r]
    BY <2>3 DEF Confirmed
  <2>5. Serial'
    BY SerialNext DEF LateNext
  <2>6. \A q \in Requests : Rewrites(q)' => q = r
    BY <2>1, <2>5 DEF Serial, InFlight, Finished, Rewrites
  <2> QED
    BY <2>1, <2>4, <2>6 DEF ListedOrMissed, SeatedOrMissed, Rewrites
<1>2. CASE ~Lists
  <2>1. ListedOrMissed'
    <3> SUFFICES ASSUME NEW r \in Requests, Rewrites(r)', NEW x \in Confirmed', x \notin missed'
                 PROVE  x \in DOMAIN confirmed'[r]
      BY DEF ListedOrMissed
    <3>1. x \in Confirmed /\ x \notin missed
      BY <1>2, NotMissed
    <3>2. Rewrites(r) /\ confirmed'[r] = confirmed[r]
      BY <1>2, RewriteSteps DEF LateNext
    <3> QED
      BY <3>1, <3>2 DEF ListedOrMissed
  <2>2. SeatedOrMissed'
    <3> SUFFICES ASSUME status' \in {"CLOSED", "PAIRED"}, \A r \in Requests : ~Rewrites(r)',
                        NEW x \in Confirmed', x \notin missed'
                 PROVE  InBoard(x)'
      BY DEF SeatedOrMissed
    <3>1. x \in Confirmed /\ x \notin missed /\ ~Stops
      BY <1>2, NotMissed
    <3>2. CASE \E r \in Requests : Rewrites(r)
      <4>1. PICK r \in Requests : Rewrites(r)
        BY <3>2
      <4>2. CloseSignups(r)
        BY <3>1, <4>1, RewriteSteps DEF LateNext
      <4>3. solo = r
        BY <4>1 DEF Serial, InFlight, Finished, Rewrites
      <4>4. /\ pc[r] = "rewrite" /\ batch[r] = {} /\ result[r] = {}
            /\ pairings' = pairings
        BY <4>2 DEF CloseSignups
      <4>5. WellPaired(pairings \cup {}, r, confirmed[r])
        BY <4>3, <4>4 DEF Rewriting
      <4>6. pairings \cup {} = pairings
        OBVIOUS
      <4>7. x \in DOMAIN confirmed[r]
        BY <3>1, <4>1 DEF ListedOrMissed
      <4> QED
        BY <4>4, <4>5, <4>6, <4>7 DEF WellPaired, InBoard
    <3>3. CASE \A r \in Requests : ~Rewrites(r)
      <4>1. InBoard(x)
        BY <3>1, <3>3, ClosedBefore DEF LateNext, SeatedOrMissed
      <4> QED
        BY <3>3, <4>1, SeatsStay DEF LateNext
    <3> QED
      BY <3>2, <3>3
  <2> QED
    BY <2>1, <2>2
<1> QED
  BY <1>1, <1>2

\* With nothing under way, a confirmed player of a closed or published night is
\* seated, unless they signed up after the generation had looked, or it stopped
\* half way: the OPEN check that is not repeated loses nobody else.
THEOREM OnlyLatecomersLeftOut ==
    ASSUME ~Overlap, PatchStatuses \cap {"CLOSED", "PAIRED"} = {}
    PROVE  LateSpec => []OnlyLatecomersUnpaired
<1>1. LateSpec => Spec
  <2>1. LateInit => Init
    BY DEF LateInit
  <2>2. [LateNext]_<<vars, missed>> => [Next]_vars
    BY DEF LateNext
  <2> QED
    BY <2>1, <2>2, PTL DEF LateSpec, Spec
<1>2. LateInit => OddAreSingle /\ ListedOrMissed /\ SeatedOrMissed
  BY DEF LateInit, Init, OddAreSingle, ListedOrMissed, SeatedOrMissed, Rewrites
<1>3. PromiseInv /\ OddAreSingle /\ [LateNext]_<<vars, missed>> => OddAreSingle'
  BY OddAreSingleNext DEF PromiseInv, LateNext
<1>4. PromiseInv /\ OddAreSingle /\ ListedOrMissed /\ SeatedOrMissed /\ [LateNext]_<<vars, missed>>
          => ListedOrMissed' /\ SeatedOrMissed'
  <2>1. CASE UNCHANGED <<vars, missed>>
    BY <2>1 DEF vars, table, local, ListedOrMissed, SeatedOrMissed, Rewrites, InBoard, Confirmed
  <2> QED
    BY <2>1, LatecomersNext
<1>5. ListedOrMissed /\ SeatedOrMissed => OnlyLatecomersUnpaired
  BY DEF SeatedOrMissed, OnlyLatecomersUnpaired, Rewrites, InFlight, Finished, InBoard
<1> QED
  BY <1>1, <1>2, <1>3, <1>4, <1>5, PromiseAlways, PTL DEF LateSpec
=============================================================================
