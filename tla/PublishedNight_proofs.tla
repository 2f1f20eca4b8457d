----------------------- MODULE PublishedNight_proofs -----------------------
(***************************************************************************)
(* What a publish leaves behind, whatever handlers overlap with it: for    *)
(* any number of players, systems and requests, any schedule, any PATCH    *)
(* and crashes at any point, the players hear of one board once, and the   *)
(* published board is the one they heard of, until something disrupts it.  *)
(***************************************************************************)
EXTENDS NightPairings_proofs, PublishedNight

ToPlayers == {m \in mail : m.to \in Players}

\* A stored pairing says what the message said.
Stands(m) == \E p \in pairings : p.status = "MATCHED" /\ Seated(p) = {m.to, m.about}

\* A publish that goes on after listing the board has read a CLOSED night.
PublishRead ==
    \A r \in Requests :
        pc[r] \in {"listPairings", "readEmails", "send", "putPaired"} =>
            /\ handler[r] = "publish"
            /\ pc[r] # "listPairings" => seen[r] = "CLOSED"

\* What a publish has listed is what is still stored.
BoardRead ==
    \A r \in Requests : pc[r] \in {"readEmails", "send", "putPaired"} => batch[r] = pairings

\* The players' messages are of one publish and name what is stored.
OneSender ==
    /\ \A m \in ToPlayers : Stands(m)
    /\ \A m, n \in ToPlayers : m.by = n.by

\* That publish has marked the night, and nothing that could undo it runs ...
Announced == status = "PAIRED" /\ \A q \in Requests : ~Publishing(q) /\ ~Redrawing(q)

\* ... or it is about to mark it.
Announcing == \E r \in Requests : pc[r] = "putPaired" /\ \A m \in ToPlayers : m.by = r

OneAnnouncement == ToPlayers = {} \/ (OneSender /\ (Announced \/ Announcing))

Undisturbed == ~Overtaken /\ BoardRead /\ (PublishInterrupted \/ OneAnnouncement)

\* The inductive invariant.
PublishedInv == TypeOK /\ PublishRead /\ (disrupted \/ Undisturbed)

-----------------------------------------------------------------------------
(* What the steps do to the requests that publish, and to those that change *)
(* the board.                                                               *)

LEMMA ContinueReads ==
    ASSUME TypeOK, NEW r \in Requests, Continue(r)
    PROVE  /\ handler' = handler
           /\ \A q \in Requests : q # r => seen'[q] = seen[q]
BY DEF TypeOK, Continue, Goto, Return, GetNight, PairConfirmed, QueryPairings, DeleteNext,
       PutNext, CloseSignups, NotifyOrganizer, ListPairings, ReadEmails, SendNotices, PutPaired,
       FindSingles, PutMerged, DeleteAbsorbed, PutNight, DeleteSchedule, MoveSchedule,
       CreateSchedule

\* A handler goes through its own calls only.
LEMMA ContinueStages ==
    ASSUME TypeOK, NEW r \in Requests, Continue(r)
    PROVE  /\ pc'[r] \in {"listPairings", "readEmails", "send", "putPaired"} =>
                \/ ListPairings(r) /\ seen[r] = "CLOSED" /\ seen'[r] = "CLOSED"
                   /\ batch'[r] = pairings /\ pc'[r] = "readEmails"
                \/ ReadEmails(r) /\ seen'[r] = seen[r] /\ batch'[r] = batch[r] /\ pc'[r] = "send"
                \/ SendNotices(r) /\ seen'[r] = seen[r] /\ batch'[r] = batch[r]
                   /\ pc'[r] = "putPaired"
           /\ Redrawing(r)' => Redrawing(r)
<1>1. CASE ListPairings(r) \/ ReadEmails(r) \/ SendNotices(r)
  BY <1>1 DEF TypeOK, ListPairings, ReadEmails, SendNotices, Goto, Return, Redrawing
<1>2. CASE GetNight(r) \/ PairConfirmed(r) \/ QueryPairings(r) \/ DeleteNext(r) \/ PutNext(r)
           \/ CloseSignups(r) \/ FindSingles(r) \/ PutMerged(r) \/ DeleteAbsorbed(r)
  BY <1>2 DEF TypeOK, GetNight, PairConfirmed, QueryPairings, DeleteNext, PutNext, CloseSignups,
     FindSingles, PutMerged, DeleteAbsorbed, Goto, Return, Redrawing
<1>3. CASE NotifyOrganizer(r) \/ PutPaired(r) \/ PutNight(r) \/ DeleteSchedule(r)
           \/ MoveSchedule(r) \/ CreateSchedule(r)
  BY <1>3 DEF TypeOK, NotifyOrganizer, PutPaired, PutNight, DeleteSchedule, MoveSchedule,
     CreateSchedule, Goto, Return, Redrawing
<1> QED
  BY <1>1, <1>2, <1>3 DEF Continue

\* What each handler reads, and does next, when it begins.
LEMMA ArriveReads ==
    ASSUME TypeOK, NEW r \in Requests, Arrive(r)
    PROVE  /\ status' = status
           /\ \A q \in Requests : q # r =>
                 pc'[q] = pc[q] /\ seen'[q] = seen[q] /\ handler'[q] = handler[q]
           /\ pc'[r] \notin {"readEmails", "send", "putPaired", "crashed"}
           /\ pc'[r] = "listPairings" => handler'[r] = "publish" /\ seen'[r] = status
           /\ Redrawing(r)' => status # "PAIRED" \/ handler'[r] = "deadline"
BY DEF TypeOK, Arrive, Generate, RunDeadlinePairing, Publish, Resolve, PatchNight, Begin, Redrawing

\* A change of the board is the step of a request that redraws it.
LEMMA BoardSteps ==
    ASSUME TypeOK, [Next]_vars
    PROVE  pairings' = pairings \/ \E r \in Requests : Continue(r) /\ Redrawing(r)
<1>1. ASSUME NEW r \in Requests, Continue(r) PROVE pairings' = pairings \/ Redrawing(r)
  <2>1. CASE DeleteNext(r) \/ PutNext(r) \/ PutMerged(r) \/ DeleteAbsorbed(r)
    BY <2>1 DEF DeleteNext, PutNext, PutMerged, DeleteAbsorbed, Redrawing
  <2> QED
    BY <1>1, <2>1, ContinueTable
<1> QED
  BY <1>1, ArriveEffect, CrashEffect, PlayerEffect DEF Next, vars, table

\* Only a publish that sends writes to players.
LEMMA MailSteps ==
    ASSUME TypeOK, [Next]_vars
    PROVE  ToPlayers' = ToPlayers \/ \E r \in Requests : SendNotices(r)
<1>1. ASSUME NEW r \in Requests, Continue(r) PROVE ToPlayers' = ToPlayers \/ SendNotices(r)
  <2>1. CASE NotifyOrganizer(r)
    BY <2>1, OrganizerAssumption DEF NotifyOrganizer, ToPlayers
  <2> QED
    BY <1>1, <2>1, ContinueMail DEF ToPlayers
<1> QED
  BY <1>1, ArriveEffect, CrashEffect, PlayerEffect DEF Next, vars, table, ToPlayers

\* A request that publishes has done so before, or begins to on a CLOSED night.
LEMMA PublishingSteps ==
    ASSUME TypeOK, PublishRead, [Next]_vars, NEW q \in Requests, Publishing(q)'
    PROVE  \/ Publishing(q)
           \/ status = "CLOSED" /\ status' = "CLOSED" /\ UNCHANGED pairings /\ pc'[q] = "listPairings"
<1>1. ASSUME NEW r \in Requests, Arrive(r) PROVE Publishing(q) \/ (status = "CLOSED" /\
          status' = "CLOSED" /\ UNCHANGED pairings /\ pc'[q] = "listPairings")
  BY <1>1, ArriveReads, ArriveEffect DEF Publishing
<1>2. ASSUME NEW r \in Requests, Continue(r) PROVE Publishing(q)
  <2>1. CASE q # r
    BY <1>2, <2>1, ContinueOthers, ContinueReads DEF Publishing
  <2>2. CASE q = r
    BY <1>2, <2>2, ContinueStages DEF Publishing, ListPairings, ReadEmails, SendNotices
  <2> QED
    BY <2>1, <2>2
<1>3. ASSUME NEW r \in Requests, Crash(r) PROVE Publishing(q)
  BY <1>3 DEF Crash, Publishing, TypeOK
<1> QED
  BY <1>1, <1>2, <1>3, PlayerEffect DEF Next, vars, local, Publishing

\* A request that redraws has done so before, or begins to.
LEMMA RedrawingSteps ==
    ASSUME TypeOK, [Next]_vars, NEW q \in Requests, Redrawing(q)'
    PROVE  \/ Redrawing(q)
           \/ status' = status /\ (status # "PAIRED" \/ handler'[q] = "deadline")
<1>1. ASSUME NEW r \in Requests, Arrive(r) PROVE Redrawing(q) \/ (status' = status /\
          (status # "PAIRED" \/ handler'[q] = "deadline"))
  BY <1>1, ArriveReads DEF Redrawing
<1>2. ASSUME NEW r \in Requests, Continue(r) PROVE Redrawing(q)
  BY <1>2, ContinueOthers, ContinueStages DEF Redrawing
<1>3. ASSUME NEW r \in Requests, Crash(r) PROVE Redrawing(q)
  BY <1>3, CrashEffect DEF Redrawing, TypeOK
<1> QED
  BY <1>1, <1>2, <1>3, PlayerEffect DEF Next, vars, local, Redrawing

LEMMA PublishReadNext ==
    ASSUME TypeOK, PublishRead, [Next]_vars
    PROVE  PublishRead'
<1> SUFFICES ASSUME NEW q \in Requests,
                    pc'[q] \in {"listPairings", "readEmails", "send", "putPaired"}
             PROVE  handler'[q] = "publish" /\ (pc'[q] # "listPairings" => seen'[q] = "CLOSED")
  BY DEF PublishRead
<1> DEFINE Goal == handler'[q] = "publish" /\ (pc'[q] # "listPairings" => seen'[q] = "CLOSED")
<1>1. ASSUME NEW r \in Requests, Arrive(r) PROVE Goal
  BY <1>1, ArriveReads DEF PublishRead
<1>2. ASSUME NEW r \in Requests, Continue(r) PROVE Goal
  <2>1. CASE q # r
    BY <1>2, <2>1, ContinueOthers, ContinueReads DEF PublishRead
  <2>2. CASE q = r
    BY <1>2, <2>2, ContinueReads, ContinueStages
       DEF PublishRead, ListPairings, ReadEmails, SendNotices
  <2> QED
    BY <2>1, <2>2
<1>3. ASSUME NEW r \in Requests, Crash(r) PROVE Goal
  BY <1>3 DEF Crash, PublishRead, TypeOK
<1> QED
  BY <1>1, <1>2, <1>3, PlayerEffect DEF Next, vars, local, PublishRead

\* A request that has crashed does nothing any more.
LEMMA InterruptionStays ==
    ASSUME TypeOK, [Next]_vars, PublishInterrupted
    PROVE  PublishInterrupted'
<1>1. PICK s \in Requests : handler[s] = "publish" /\ pc[s] = "crashed"
  BY DEF PublishInterrupted
<1>2. ~InFlight(s) /\ pc[s] # "ready"
  BY <1>1 DEF InFlight, Finished
<1>3. ASSUME NEW r \in Requests, Arrive(r) PROVE pc'[s] = pc[s] /\ handler'[s] = handler[s]
  BY <1>2, <1>3, ArriveEffect, ArriveReads
<1>4. ASSUME NEW r \in Requests, Continue(r) PROVE pc'[s] = pc[s] /\ handler'[s] = handler[s]
  BY <1>2, <1>4, ContinueEffect, ContinueReads, ContinueOthers
<1>5. ASSUME NEW r \in Requests, Crash(r) PROVE pc'[s] = pc[s] /\ handler'[s] = handler[s]
  BY <1>2, <1>5, CrashEffect DEF TypeOK, Crash
<1>6. pc'[s] = pc[s] /\ handler'[s] = handler[s]
  BY <1>3, <1>4, <1>5, PlayerEffect DEF Next, vars, local
<1> QED
  BY <1>1, <1>6 DEF PublishInterrupted

-----------------------------------------------------------------------------
(* Undisturbed steps. *)

\* While a publish works on the board it has listed, nobody else changes it.
LEMMA BoardHeld ==
    ASSUME TypeOK, PublishRead, ~Overtaken, [Next]_vars,
           NEW r \in Requests, pc[r] \in {"readEmails", "send", "putPaired"}
    PROVE  pairings' = pairings
<1>1. Publishing(r) /\ ~Redrawing(r)
  BY DEF PublishRead, Publishing, Redrawing
<1>2. \A q \in Requests : ~Redrawing(q)
  BY <1>1 DEF Overtaken
<1> QED
  BY <1>2, BoardSteps

LEMMA BoardReadNext ==
    ASSUME TypeOK, PublishRead, ~Overtaken, BoardRead, [Next]_vars
    PROVE  BoardRead'
<1> SUFFICES ASSUME NEW q \in Requests, pc'[q] \in {"readEmails", "send", "putPaired"}
             PROVE  batch'[q] = pairings'
  BY DEF BoardRead
<1>1. ASSUME pc[q] = pc'[q], batch'[q] = batch[q] PROVE batch'[q] = pairings'
  BY <1>1, BoardHeld DEF BoardRead
<1>2. ASSUME NEW r \in Requests, Arrive(r) PROVE batch'[q] = pairings'
  BY <1>1, <1>2, ArriveEffect, ArriveReads
<1>3. ASSUME NEW r \in Requests, Continue(r) PROVE batch'[q] = pairings'
  <2>1. CASE q # r
    BY <1>1, <1>3, <2>1, ContinueOthers
  <2>2. CASE q = r /\ ListPairings(r)
    BY <1>3, <2>2, ContinueStages DEF ListPairings, table, ReadEmails, SendNotices
  <2>3. CASE q = r /\ ~ListPairings(r)
    BY <1>3, <2>3, ContinueStages, BoardHeld DEF BoardRead, ReadEmails, SendNotices
  <2> QED
    BY <2>1, <2>2, <2>3
<1>4. ASSUME NEW r \in Requests, Crash(r) PROVE batch'[q] = pairings'
  BY <1>1, <1>4, CrashEffect DEF TypeOK
<1> QED
  BY <1>1, <1>2, <1>3, <1>4, PlayerEffect DEF Next, vars, local

\* The first messages to players are those of one publish, about the stored board.
LEMMA FirstNotices ==
    ASSUME TypeOK, PublishRead, ~Overtaken, BoardRead, [Next]_vars, ToPlayers = {}
    PROVE  OneAnnouncement'
<1> SUFFICES ASSUME ToPlayers' # {} PROVE OneSender' /\ Announcing'
  BY DEF OneAnnouncement
<1>1. PICK r \in Requests : SendNotices(r)
  BY MailSteps
<1>2. pc[r] = "send" /\ pc'[r] = "putPaired" /\ pairings' = pairings
  BY <1>1 DEF SendNotices, Goto, TypeOK
<1>3. batch[r] = pairings
  BY <1>2 DEF BoardRead
<1>4. ASSUME NEW m \in ToPlayers' PROVE m.by = r /\ Stands(m)'
  <2>1. m \in Notices(r)
    BY <1>1 DEF SendNotices, ToPlayers
  <2>2. PICK p \in pairings : /\ p.status = "MATCHED" /\ p.second # NoOne
                              /\ \/ m.to = p.first /\ m.about = p.second
                                 \/ m.to = p.second /\ m.about = p.first
    BY <1>3, <2>1 DEF Notices
  <2>3. p.first # NoOne
    BY NoOneAssumption DEF TypeOK, Pairing
  <2>4. Seated(p) = {m.to, m.about}
    BY <2>2, <2>3 DEF Seated
  <2>5. m.by = r
    BY <2>1 DEF Notices
  <2> QED
    BY <1>2, <2>2, <2>4, <2>5 DEF Stands
<1> QED
  BY <1>2, <1>4 DEF OneSender, Announcing

\* Once the night is marked, only what disrupts it could change what was announced.
LEMMA AnnouncedStays ==
    ASSUME TypeOK, PublishRead, [Next]_vars, OneSender, Announced, ~DeadlineRuns', ~TakenBack
    PROVE  OneSender' /\ Announced'
<1>1. pairings' = pairings
  BY BoardSteps DEF Announced
<1>2. ToPlayers' = ToPlayers
  <2>1. ASSUME NEW r \in Requests, SendNotices(r) PROVE FALSE
    <3>1. pc[r] = "send" /\ seen[r] = "CLOSED"
      BY <2>1 DEF SendNotices, PublishRead
    <3> QED
      BY <3>1 DEF Announced, Publishing
  <2> QED
    BY <2>1, MailSteps
<1>3. status' = "PAIRED"
  <2>1. ASSUME NEW r \in Requests, Continue(r) PROVE status' = "PAIRED"
    <3>1. CASE CloseSignups(r)
      BY <3>1 DEF CloseSignups, Announced, Redrawing
    <3>2. CASE PutPaired(r)
      BY <3>2 DEF PutPaired
    <3>3. CASE PutNight(r)
      <4>1. pc[r] = "putNight" /\ pc'[r] # "putNight"
        BY <3>3 DEF PutNight, Goto, TypeOK
      <4> QED
        BY <4>1 DEF TakenBack, Announced
    <3>4. CASE ~CloseSignups(r) /\ ~PutPaired(r) /\ ~PutNight(r)
      BY <2>1, <3>4 DEF Continue, table, GetNight, PairConfirmed, QueryPairings, DeleteNext,
         PutNext, NotifyOrganizer, ListPairings, ReadEmails, SendNotices, FindSingles, PutMerged,
         DeleteAbsorbed, DeleteSchedule, MoveSchedule, CreateSchedule, Announced
    <3> QED
      BY <3>1, <3>2, <3>3, <3>4
  <2>2. ASSUME NEW r \in Requests, Crash(r) PROVE status' = status
    BY <2>2 DEF Crash, table
  <2> QED
    BY <2>1, <2>2, ArriveReads, PlayerEffect DEF Next, vars, table, Announced
<1>4. ASSUME NEW q \in Requests PROVE ~Publishing(q)' /\ ~Redrawing(q)'
  <2>1. ~Publishing(q)'
    BY PublishingSteps DEF Announced
  <2>2. ~Redrawing(q)'
    <3>1. SUFFICES ASSUME Redrawing(q)' PROVE handler'[q] = "deadline"
      BY <1>3 DEF DeadlineRuns
    <3> QED
      BY <3>1, RedrawingSteps DEF Announced
  <2> QED
    BY <2>1, <2>2
<1> QED
  BY <1>1, <1>2, <1>3, <1>4 DEF OneSender, Announced, Stands

\* A publish that has sent marks the night, or stops and is interrupted.
LEMMA AnnouncingGoesOn ==
    ASSUME TypeOK, PublishRead, [Next]_vars, ~Overtaken, ~Overtaken', ~DeadlineRuns',
           OneSender, Announcing
    PROVE  PublishInterrupted' \/ (OneSender' /\ (Announced' \/ Announcing'))
<1>1. PICK r \in Requests : pc[r] = "putPaired" /\ \A m \in ToPlayers : m.by = r
  BY DEF Announcing
<1>2. Publishing(r) /\ handler[r] = "publish"
  BY <1>1 DEF PublishRead, Publishing
<1>3. \A q \in Requests : ~Redrawing(q) /\ (q # r => ~Publishing(q))
  BY <1>1, <1>2 DEF Overtaken, Redrawing
<1>4. pairings' = pairings
  BY <1>3, BoardSteps
<1>5. ToPlayers' = ToPlayers
  <2>1. ASSUME NEW q \in Requests, SendNotices(q) PROVE FALSE
    <3>1. pc[q] = "send" /\ seen[q] = "CLOSED"
      BY <2>1 DEF SendNotices, PublishRead
    <3> QED
      BY <1>1, <1>3, <3>1 DEF Publishing
  <2> QED
    BY <2>1, MailSteps
<1>6. OneSender'
  BY <1>4, <1>5 DEF OneSender, Stands
<1>7. CASE pc'[r] = "putPaired"
  BY <1>1, <1>5, <1>6, <1>7 DEF Announcing
<1>8. CASE pc'[r] # "putPaired"
  <2>1. ASSUME NEW q \in Requests, Arrive(q) PROVE FALSE
    BY <1>1, <1>8, <2>1, ArriveEffect, ArriveReads
  <2>2. ASSUME NEW q \in Requests, Continue(q) PROVE PutPaired(r)
    <3>1. q = r
      BY <1>1, <1>8, <2>2, ContinueOthers
    <3> QED
      BY <1>1, <2>2, <3>1 DEF Continue, GetNight, PairConfirmed, QueryPairings, DeleteNext,
         PutNext, CloseSignups, NotifyOrganizer, ListPairings, ReadEmails, SendNotices,
         FindSingles, PutMerged, DeleteAbsorbed, PutNight, DeleteSchedule, MoveSchedule,
         CreateSchedule
  <2>3. ASSUME NEW q \in Requests, Crash(q) PROVE PublishInterrupted'
    <3>1. q = r
      BY <1>1, <1>8, <2>3, CrashEffect DEF TypeOK
    <3> QED
      BY <1>2, <2>3, <3>1 DEF Crash, PublishInterrupted, TypeOK
  <2>4. CASE PutPaired(r)
    <3>1. status' = "PAIRED" /\ pc'[r] = "done"
      BY <2>4 DEF PutPaired, Return, TypeOK
    <3>2. ASSUME NEW q \in Requests PROVE ~Publishing(q)'
      <4>1. q # r => ~Publishing(q)'
        BY <1>3, <3>1, PublishingSteps
      <4> QED
        BY <3>1, <4>1 DEF Publishing
    <3>3. ASSUME NEW q \in Requests PROVE ~Redrawing(q)'
      <4>1. Continue(r)
        BY <2>4 DEF Continue
      <4>2. q # r => ~Redrawing(q)'
        BY <1>3, <4>1, ContinueOthers DEF Redrawing
      <4> QED
        BY <3>1, <4>2 DEF Redrawing
    <3> QED
      BY <1>6, <3>1, <3>2, <3>3 DEF Announced
  <2> QED
    BY <1>1, <1>8, <2>1, <2>2, <2>3, <2>4, PlayerEffect DEF Next, vars, local
<1> QED
  BY <1>7, <1>8

LEMMA UndisturbedNext ==
    ASSUME TypeOK, PublishRead, Undisturbed, [Next]_vars,
           ~Overtaken', ~DeadlineRuns', ~TakenBack
    PROVE  Undisturbed'
<1>1. BoardRead'
  BY BoardReadNext DEF Undisturbed
<1>2. PublishInterrupted' \/ OneAnnouncement'
  <2>1. CASE PublishInterrupted
    BY <2>1, InterruptionStays
  <2>2. CASE ToPlayers = {}
    BY <2>2, FirstNotices DEF Undisturbed
  <2>3. CASE OneSender /\ Announced
    BY <2>3, AnnouncedStays DEF OneAnnouncement
  <2>4. CASE OneSender /\ Announcing
    BY <2>4, AnnouncingGoesOn DEF OneAnnouncement, Undisturbed
  <2> QED
    BY <2>1, <2>2, <2>3, <2>4 DEF Undisturbed, OneAnnouncement
<1> QED
  BY <1>1, <1>2 DEF Undisturbed

LEMMA PublishedAlways == PublishedSpec => []PublishedInv
<1>1. PublishedInit => PublishedInv
  <2> SUFFICES ASSUME PublishedInit PROVE PublishedInv
    OBVIOUS
  <2>1. Init
    BY DEF PublishedInit
  <2>2. PublishRead /\ BoardRead /\ ToPlayers = {} /\ ~Overtaken
    BY <2>1 DEF Init, PublishRead, BoardRead, ToPlayers, Overtaken, Publishing
  <2> QED
    BY <2>1, <2>2, TypeInit DEF PublishedInv, Undisturbed, OneAnnouncement
<1>2. PublishedInv /\ [PublishedNext]_<<vars, disrupted>> => PublishedInv'
  <2> SUFFICES ASSUME PublishedInv, [PublishedNext]_<<vars, disrupted>> PROVE PublishedInv'
    OBVIOUS
  <2>1. [Next]_vars
    BY DEF PublishedNext
  <2>2. TypeOK' /\ PublishRead'
    BY <2>1, TypeNext, PublishReadNext DEF PublishedInv
  <2>3. CASE PublishedNext
    <3>1. disrupted' = (disrupted \/ Overtaken' \/ DeadlineRuns' \/ TakenBack)
      BY <2>3 DEF PublishedNext
    <3>2. CASE disrupted \/ Overtaken' \/ DeadlineRuns' \/ TakenBack
      <4>1. disrupted'
        BY ONLY <3>1, <3>2, Zenon
      <4> QED
        BY <2>2, <4>1 DEF PublishedInv
    <3>3. CASE ~(disrupted \/ Overtaken' \/ DeadlineRuns' \/ TakenBack)
      <4>1. Undisturbed
        BY <3>3, Zenon DEF PublishedInv
      <4>2. TypeOK /\ PublishRead
        BY Zenon DEF PublishedInv
      <4>3. Undisturbed'
        BY <2>1, <3>3, <4>1, <4>2, UndisturbedNext
      <4> QED
        BY <2>2, <4>3 DEF PublishedInv
    <3> QED
      BY <3>2, <3>3
  <2>4. CASE UNCHANGED <<vars, disrupted>>
    <3>1. UNCHANGED vars /\ disrupted' = disrupted
      BY <2>4
    <3>2. Undisturbed => Undisturbed'
      BY <3>1 DEF vars, table, local, Undisturbed, Overtaken, Publishing, Redrawing, BoardRead,
         PublishInterrupted, OneAnnouncement, ToPlayers, OneSender, Stands, Announced, Announcing
    <3> QED
      BY <2>2, <3>1, <3>2, Zenon DEF PublishedInv
  <2> QED
    BY <2>3, <2>4
<1> QED
  BY <1>1, <1>2, PTL DEF PublishedSpec

-----------------------------------------------------------------------------

\* What the players of a published night were told is what is stored, unless a
\* publish stopped half way or something named in `disrupted` came in between.
THEOREM PublishedBoardStands == PublishedSpec => []PublishedStands
<1>1. PublishedInv => PublishedStands
  <2> SUFFICES ASSUME PublishedInv, status = "PAIRED", ~PublishInterrupted, ~disrupted,
                      NEW m \in mail, m.to \in Players
               PROVE  \E p \in pairings : p.status = "MATCHED" /\ Seated(p) = {m.to, m.about}
    BY Zenon DEF PublishedStands
  <2>1. Undisturbed
    BY Zenon DEF PublishedInv
  <2> QED
    BY <2>1 DEF Undisturbed, OneAnnouncement, OneSender, ToPlayers, Stands
<1> QED
  BY <1>1, PublishedAlways, PTL

\* No player gets two different pairing messages about one night, with the same
\* exceptions and but for a player whom the board has in two pairings.
THEOREM PlayersNotifiedOnce == PublishedSpec => []NotifiedOnce
<1>1. PublishedInv => NotifiedOnce
  <2> SUFFICES ASSUME PublishedInv, ~PublishInterrupted, ~disrupted,
                      NEW m \in mail, NEW n \in mail, m.to = n.to, m.to \in Players,
                      ~DoubleBooked(m.to)
               PROVE  m = n
    BY Zenon DEF NotifiedOnce
  <2>1. Undisturbed
    BY Zenon DEF PublishedInv
  <2>2. OneSender /\ m \in ToPlayers /\ n \in ToPlayers
    BY <2>1 DEF Undisturbed, OneAnnouncement, ToPlayers
  <2>3. PICK p \in pairings : Seated(p) = {m.to, m.about}
    BY <2>2 DEF OneSender, Stands
  <2>4. PICK q \in pairings : Seated(q) = {n.to, n.about}
    BY <2>2 DEF OneSender, Stands
  <2>5. p = q
    BY <2>3, <2>4 DEF DoubleBooked
  <2>6. m.about = n.about /\ m.by = n.by
    BY <2>2, <2>3, <2>4, <2>5 DEF OneSender
  <2>7. m \in Message /\ n \in Message
    BY DEF PublishedInv, TypeOK
  <2> QED
    BY <2>6, <2>7 DEF Message
<1> QED
  BY <1>1, PublishedAlways, PTL
=============================================================================
