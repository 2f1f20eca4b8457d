------------------------ MODULE NightSchedule_proofs ------------------------
(***************************************************************************)
(* Theorems about NightSchedule, for any deadlines, any number of requests *)
(* and any bound on time.                                                  *)
(***************************************************************************)
EXTENDS NightSchedule, TLAPS

-----------------------------------------------------------------------------
(* Types. *)

\* A request in flight has loaded a night, and the night stays.
Working == \A r \in Requests : InFlight(r) => night # NoNight /\ loaded[r] # NoNight

ScheduleInv == TypeOK /\ Working

\* A PATCH writes a night.
LEMMA SpreadType ==
    ASSUME NEW old \in Night,
           NEW in \in [status : PatchStatuses \cup {Unchanged}, deadline : Deadlines \cup {Unchanged}]
    PROVE  Spread(old, in) \in Night
<1>1. in.status # Unchanged => in.status \in NightStatus
  BY ScheduleAssumption
<1>2. in.deadline # Unchanged => in.deadline \in Deadlines
  OBVIOUS
<1> QED
  BY <1>1, <1>2 DEF Spread, Night

LEMMA ScheduleInit == Init => ScheduleInv
<1> SUFFICES ASSUME Init PROVE ScheduleInv
  OBVIOUS
<1> USE DEF Init
<1>1. now \in 0..MaxTime
  BY ScheduleAssumption
<1>2. input \in [Requests -> [status : PatchStatuses \cup {Unchanged},
                             deadline : Deadlines \cup {Unchanged}]]
  BY DEF NoInput
<1>3. TypeOK
  BY <1>1, <1>2 DEF TypeOK
<1>4. Working
  BY DEF Working, InFlight
<1> QED
  BY <1>3, <1>4 DEF ScheduleInv

LEMMA ScheduleNext == ScheduleInv /\ [Next]_vars => ScheduleInv'
<1> SUFFICES ASSUME ScheduleInv, [Next]_vars PROVE ScheduleInv'
  OBVIOUS
<1> USE DEF ScheduleInv, TypeOK, Working, InFlight, Goto
<1>1. \A d \in Deadlines : [status |-> "OPEN", deadline |-> d] \in Night
  BY DEF Night, NightStatus
<1>2. night # NoNight => [night EXCEPT !.status = "CLOSED"] \in Night
  BY DEF Night, NightStatus
<1>3. \A n \in Night : n # NoNight /\ n.deadline \in Deadlines
  BY NoNightAssumption DEF Night
<1>4. \A d \in Deadlines : d # NoSchedule
  BY NoNightAssumption
<1>5. ASSUME NEW r \in Requests, NEW d \in Deadlines, CreateNight(r, d) PROVE ScheduleInv'
  BY <1>1, <1>3, <1>5 DEF CreateNight, NoteOverlap
<1>6. ASSUME NEW r \in Requests, NEW s \in PatchStatuses \cup {Unchanged},
             NEW d \in Deadlines \cup {Unchanged}, PatchNight(r, s, d)
      PROVE  ScheduleInv'
  BY <1>6 DEF PatchNight, NoteOverlap
<1>7. ASSUME NEW r \in Requests, PutNight(r) PROVE ScheduleInv'
  <2> DEFINE updated == Spread(loaded[r], input[r])
  <2>1. updated \in Night
    BY <1>7, SpreadType DEF PutNight
  <2>2. NextCall(input[r], updated) \in {"cancelSchedule", "deleteSchedule", "done"}
    BY DEF NextCall
  <2>3. /\ night' = updated /\ loaded' = [loaded EXCEPT ![r] = updated]
        /\ pc' = [pc EXCEPT ![r] = NextCall(input[r], updated)]
        /\ UNCHANGED <<now, schedule, due, input, disturbed>>
    BY <1>7 DEF PutNight
  <2> HIDE DEF updated
  <2> QED
    BY <1>3, <2>1, <2>2, <2>3
<1>8. ASSUME NEW r \in Requests,
             CancelSchedule(r) \/ DeleteSchedule(r) \/ CreateSchedule(r) \/ SchedulerFails(r)
      PROVE  ScheduleInv'
  <2>1. InFlight(r) /\ night # NoNight /\ loaded[r] # NoNight
    BY <1>8 DEF CancelSchedule, DeleteSchedule, CreateSchedule, SchedulerFails
  <2>2. loaded[r].deadline \in Deadlines
    BY <1>3, <2>1
  <2>3. /\ schedule' \in Deadlines \cup {NoSchedule}
        /\ pc' \in {[pc EXCEPT ![r] = "done"], [pc EXCEPT ![r] = "createSchedule"]}
        /\ disturbed' \in BOOLEAN
        /\ UNCHANGED <<now, night, due, loaded, input>>
    BY <1>8, <2>2 DEF CancelSchedule, DeleteSchedule, CreateSchedule, SchedulerFails
  <2> QED
    BY <2>1, <2>3
<1>9. CASE Generate \/ RunDeadlinePairing
  BY <1>2, <1>3, <1>9 DEF Generate, RunDeadlinePairing, NoteOverlap
<1>10. CASE Tick \/ Fire
  <2>1. now' \in 0..MaxTime
    BY <1>10, ScheduleAssumption DEF Tick, Fire
  <2>2. /\ schedule' \in {schedule, NoSchedule}
        /\ due' \in {due, schedule # NoSchedule}
        /\ UNCHANGED <<night, pc, loaded, input, disturbed>>
    BY <1>10 DEF Tick, Fire
  <2> QED
    BY <2>1, <2>2
<1>11. CASE UNCHANGED vars
  BY <1>11 DEF vars
<1> QED
  BY <1>5, <1>6, <1>7, <1>8, <1>9, <1>10, <1>11 DEF Next, Continue

LEMMA ScheduleAlways == Spec => []ScheduleInv
<1> QED
  BY ScheduleInit, ScheduleNext, PTL DEF Spec

\* The clock, the night, its schedule and the requests keep their types (TypeOK).
THEOREM ScheduleTypeCorrect == Spec => []TypeOK
<1>1. ScheduleInv => TypeOK
  BY DEF ScheduleInv
<1> QED
  BY <1>1, ScheduleAlways, PTL

-----------------------------------------------------------------------------
(* One request at a time. *)

\* Until something goes wrong, a request is alone with the night it has read or
\* written, and the call it makes next fits that night.
Orderly ==
    ~disturbed =>
        /\ \A q, r \in Requests : InFlight(q) /\ InFlight(r) => q = r
        /\ \A r \in Requests :
              /\ InFlight(r) => loaded[r] = night
              /\ pc[r] = "cancelSchedule" => night.status = "CANCELLED"
              /\ pc[r] = "deleteSchedule" => night.status = "OPEN"
              /\ pc[r] = "createSchedule" => night.status = "OPEN" /\ schedule = NoSchedule

\* A cancelled night has no schedule, or a request is about to delete it.
Cancelled ==
    (~disturbed /\ night # NoNight /\ night.status = "CANCELLED") =>
        schedule = NoSchedule \/ \E r \in Requests : pc[r] = "cancelSchedule"

\* An open night has its schedule, or a request is about to make it.
Followed ==
    (~disturbed /\ night # NoNight /\ night.status = "OPEN" /\ now < night.deadline) =>
        \/ schedule = night.deadline
        \/ \E r \in Requests : pc[r] \in {"deleteSchedule", "createSchedule"}

\* A PATCH that is alone with its night writes what it has read, changed as asked.
LEMMA PutAlone ==
    ASSUME ScheduleInv, Orderly, ~disturbed, NEW r \in Requests, PutNight(r)
    PROVE  /\ night \in Night
           /\ night' = Spread(night, input[r])
           /\ night' \in Night
           /\ loaded'[r] = night'
           /\ pc[r] = "putNight"
           /\ pc'[r] = NextCall(input[r], night')
           /\ \A q \in Requests \ {r} : ~InFlight(q) /\ pc'[q] = pc[q]
           /\ UNCHANGED <<now, schedule, disturbed>>
<1>1. pc[r] = "putNight" /\ night # NoNight /\ loaded[r] = night
  BY DEF PutNight, ScheduleInv, Working, Orderly, InFlight
<1>2. \A q \in Requests \ {r} : ~InFlight(q)
  BY <1>1 DEF Orderly, InFlight
<1>3. night \in Night /\ Spread(night, input[r]) \in Night
  BY <1>1, SpreadType DEF ScheduleInv, TypeOK
<1> QED
  BY <1>1, <1>2, <1>3 DEF PutNight, Goto, ScheduleInv, TypeOK

LEMMA OrderlyNext == ScheduleInv /\ Orderly /\ [Next]_vars => Orderly'
<1> SUFFICES ASSUME ScheduleInv, Orderly, [Next]_vars, ~disturbed' PROVE Orderly'
  BY DEF Orderly
<1> USE DEF ScheduleInv, TypeOK, InFlight, Goto
<1>1. ASSUME NEW r \in Requests, NEW d \in Deadlines, CreateNight(r, d) PROVE Orderly'
  <2>1. \A q \in Requests : ~InFlight(q)
    BY <1>1 DEF CreateNight, NoteOverlap, Quiet
  <2>2. night'.status = "OPEN" /\ schedule = NoSchedule /\ schedule' = schedule
    BY <1>1 DEF CreateNight
  <2>3. pc'[r] = "createSchedule" /\ loaded'[r] = night'
    BY <1>1 DEF CreateNight
  <2>4. \A q \in Requests \ {r} : pc'[q] = pc[q]
    BY <1>1 DEF CreateNight
  <2> QED
    BY <2>1, <2>2, <2>3, <2>4 DEF Orderly
<1>2. ASSUME NEW r \in Requests, NEW s, NEW d, PatchNight(r, s, d) PROVE Orderly'
  <2>1. \A q \in Requests : ~InFlight(q)
    BY <1>2 DEF PatchNight, NoteOverlap, Quiet
  <2> QED
    BY <1>2, <2>1 DEF Orderly, PatchNight
<1>3. ASSUME NEW r \in Requests, PutNight(r) PROVE Orderly'
  <2>1. ~disturbed
    BY <1>3 DEF PutNight
  <2>2. /\ loaded'[r] = night'
        /\ pc'[r] = NextCall(input[r], night')
        /\ \A q \in Requests \ {r} : ~InFlight(q) /\ pc'[q] = pc[q]
    BY <1>3, <2>1, PutAlone
  <2> QED
    BY <2>2 DEF Orderly, NextCall
<1>4. ASSUME NEW r \in Requests, CancelSchedule(r) \/ DeleteSchedule(r) \/ CreateSchedule(r)
      PROVE  Orderly'
  BY <1>4 DEF Orderly, CancelSchedule, DeleteSchedule, CreateSchedule
<1>5. ASSUME NEW r \in Requests, SchedulerFails(r) PROVE FALSE
  BY <1>5 DEF SchedulerFails
<1>6. CASE Generate \/ RunDeadlinePairing
  <2>1. \A q \in Requests : ~InFlight(q)
    BY <1>6 DEF Generate, RunDeadlinePairing, NoteOverlap, Quiet
  <2> QED
    BY <1>6, <2>1 DEF Orderly, Generate, RunDeadlinePairing
<1>7. CASE Tick \/ Fire
  BY <1>7 DEF Orderly, Tick, Fire
<1>8. CASE UNCHANGED vars
  BY <1>8 DEF Orderly, vars
<1> QED
  BY <1>1, <1>2, <1>3, <1>4, <1>5, <1>6, <1>7, <1>8 DEF Next, Continue

LEMMA OrderlyAlways == Spec => []Orderly
<1>1. Init => Orderly
  BY DEF Init, Orderly, InFlight
<1> QED
  BY <1>1, OrderlyNext, ScheduleAlways, PTL DEF Spec

-----------------------------------------------------------------------------
(* Cancelling. *)

LEMMA CancelledNext == ScheduleInv /\ Orderly /\ Cancelled /\ [Next]_vars => Cancelled'
<1> SUFFICES ASSUME ScheduleInv, Orderly, Cancelled, [Next]_vars,
                    ~disturbed', night' # NoNight, night'.status = "CANCELLED"
             PROVE  schedule' = NoSchedule \/ \E r \in Requests : pc'[r] = "cancelSchedule"
  BY DEF Cancelled
<1> USE DEF ScheduleInv, TypeOK, Goto
<1>1. ASSUME NEW r \in Requests, NEW d \in Deadlines, CreateNight(r, d) PROVE FALSE
  BY <1>1 DEF CreateNight
<1>2. ASSUME NEW r \in Requests, NEW s, NEW d, PatchNight(r, s, d)
      PROVE  schedule' = NoSchedule \/ \E q \in Requests : pc'[q] = "cancelSchedule"
  <2>1. ~disturbed /\ \A q \in Requests : pc[q] # "cancelSchedule"
    BY <1>2 DEF PatchNight, NoteOverlap, Quiet, InFlight
  <2> QED
    BY <1>2, <2>1 DEF PatchNight, Cancelled
<1>3. ASSUME NEW r \in Requests, PutNight(r)
      PROVE  \E q \in Requests : pc'[q] = "cancelSchedule"
  <2>1. ~disturbed
    BY <1>3 DEF PutNight
  <2>2. pc'[r] = NextCall(input[r], night')
    BY <1>3, <2>1, PutAlone
  <2> QED
    BY <2>2 DEF NextCall
<1>4. ASSUME NEW r \in Requests, CancelSchedule(r) \/ DeleteSchedule(r)
      PROVE  schedule' = NoSchedule
  BY <1>4 DEF CancelSchedule, DeleteSchedule
<1>5. ASSUME NEW r \in Requests, CreateSchedule(r) PROVE FALSE
  BY <1>5 DEF CreateSchedule, Orderly
<1>6. ASSUME NEW r \in Requests, SchedulerFails(r) PROVE FALSE
  BY <1>6 DEF SchedulerFails
<1>7. CASE Generate \/ RunDeadlinePairing
  <2>1. night \in Night
    BY <1>7 DEF Generate, RunDeadlinePairing
  <2>2. night'.status = "CLOSED"
    BY <1>7, <2>1 DEF Generate, RunDeadlinePairing, Night
  <2> QED
    BY <2>2
<1>8. CASE Tick \/ Fire \/ UNCHANGED vars
  BY <1>8 DEF Tick, Fire, vars, Cancelled
<1> QED
  BY <1>1, <1>2, <1>3, <1>4, <1>5, <1>6, <1>7, <1>8 DEF Next, Continue

\* Cancelling a night deletes its schedule (PATCH of organizer-nights.ts), as long
\* as nothing overlaps a request and the scheduler answers.
THEOREM CancelledNightUnscheduled == Spec => []CancelledIsUnscheduled
<1>1. Init => Cancelled
  BY DEF Init, Cancelled
<1>2. Cancelled => CancelledIsUnscheduled
  BY DEF Cancelled, CancelledIsUnscheduled, Quiet, InFlight
<1> QED
  BY <1>1, <1>2, CancelledNext, OrderlyAlways, ScheduleAlways, PTL DEF Spec

-----------------------------------------------------------------------------
(* Reopening. *)

\* A night that has left OPEN is opened again only by a PATCH that asks for it, as
\* long as nothing overlaps a request: {...night, ...input} revives no old status.
THEOREM ReopeningIsAskedFor == Spec => OnlyAskedReopens
<1>1. ScheduleInv /\ Orderly /\ [Next]_vars =>
        [(night # NoNight /\ night.status # "OPEN" /\ night'.status = "OPEN")
            => \/ disturbed
               \/ \E r \in Requests : PutNight(r) /\ input[r].status = "OPEN"]_vars
  <2> SUFFICES ASSUME ScheduleInv, Orderly, [Next]_vars, ~disturbed,
                      night # NoNight, night.status # "OPEN", night'.status = "OPEN"
               PROVE  \E r \in Requests : PutNight(r) /\ input[r].status = "OPEN"
    OBVIOUS
  <2>1. ASSUME NEW r \in Requests, PutNight(r) PROVE input[r].status = "OPEN"
    <3>1. night' = Spread(night, input[r])
      BY <2>1, PutAlone
    <3> QED
      BY <3>1 DEF Spread
  <2>2. CASE Generate \/ RunDeadlinePairing
    <3>1. night'.status = "CLOSED"
      BY <2>2 DEF Generate, RunDeadlinePairing, ScheduleInv, TypeOK, Night
    <3> QED
      BY <3>1
  <2>3. night' = night \/ Generate \/ RunDeadlinePairing \/ \E r \in Requests : PutNight(r)
    BY DEF Next, Continue, CreateNight, PatchNight, CancelSchedule, DeleteSchedule,
           CreateSchedule, SchedulerFails, Tick, Fire, vars
  <2> QED
    BY <2>1, <2>2, <2>3
<1> QED
  BY <1>1, OrderlyAlways, ScheduleAlways, PTL DEF Spec, OnlyAskedReopens

-----------------------------------------------------------------------------
(* Following the deadline. *)

\* Deadlines and the clock are compared as numbers.
LEMMA ClockType ==
    ASSUME ScheduleInv
    PROVE  now \in Int /\ \A n \in Night : n.deadline \in Int
<1>1. \A n \in Night : n.deadline \in Deadlines
  BY DEF Night
<1>2. \A d \in Deadlines : d \in Int
  BY ScheduleAssumption
<1>3. now \in Int
  BY ScheduleAssumption DEF ScheduleInv, TypeOK
<1> QED
  BY <1>1, <1>2, <1>3

\* Provided that no PATCH opens a night: what was not scheduled while it was
\* closed is not scheduled when it is opened.
LEMMA FollowedNext ==
    ASSUME "OPEN" \notin PatchStatuses
    PROVE  ScheduleInv /\ Orderly /\ Followed /\ [Next]_vars => Followed'
<1> SUFFICES ASSUME ScheduleInv, Orderly, Followed, [Next]_vars,
                    ~disturbed', night' # NoNight, night'.status = "OPEN", now' < night'.deadline
             PROVE  \/ schedule' = night'.deadline
                    \/ \E r \in Requests : pc'[r] \in {"deleteSchedule", "createSchedule"}
  BY DEF Followed
<1> DEFINE Goal == \/ schedule' = night'.deadline
                   \/ \E r \in Requests : pc'[r] \in {"deleteSchedule", "createSchedule"}
<1> USE DEF ScheduleInv, TypeOK, Goto
<1>1. ASSUME NEW r \in Requests, NEW d \in Deadlines, CreateNight(r, d) PROVE Goal
  BY <1>1 DEF CreateNight
<1>2. ASSUME NEW r \in Requests, NEW s, NEW d, PatchNight(r, s, d) PROVE Goal
  <2>1. ~disturbed /\ \A q \in Requests : pc[q] \notin {"deleteSchedule", "createSchedule"}
    BY <1>2 DEF PatchNight, NoteOverlap, Quiet, InFlight
  <2> QED
    BY <1>2, <2>1 DEF PatchNight, Followed
<1>3. ASSUME NEW r \in Requests, PutNight(r) PROVE Goal
  <2>1. ~disturbed
    BY <1>3 DEF PutNight
  <2>2. /\ night \in Night
        /\ night' = Spread(night, input[r])
        /\ pc[r] = "putNight"
        /\ pc'[r] = NextCall(input[r], night')
        /\ \A q \in Requests \ {r} : ~InFlight(q)
        /\ now' = now /\ schedule' = schedule
    BY <1>3, <2>1, PutAlone
  <2>3. CASE input[r].deadline # Unchanged
    BY <2>2, <2>3 DEF NextCall
  <2>4. CASE input[r].deadline = Unchanged
    <3>1. input[r].status \in PatchStatuses \cup {Unchanged}
      OBVIOUS
    <3>2. night.status = "OPEN" /\ night.deadline = night'.deadline
      BY <2>2, <2>4, <3>1 DEF Spread
    <3>3. \A q \in Requests : pc[q] \notin {"deleteSchedule", "createSchedule"}
      BY <2>2 DEF InFlight
    <3> QED
      BY <2>1, <2>2, <3>2, <3>3, NoNightAssumption DEF Followed
  <2> QED
    BY <2>3, <2>4
<1>4. ASSUME NEW r \in Requests, CancelSchedule(r) PROVE FALSE
  BY <1>4 DEF CancelSchedule, Orderly
<1>5. ASSUME NEW r \in Requests, DeleteSchedule(r) PROVE Goal
  BY <1>5 DEF DeleteSchedule
<1>6. ASSUME NEW r \in Requests, CreateSchedule(r) PROVE Goal
  BY <1>6 DEF CreateSchedule, Orderly, InFlight
<1>7. ASSUME NEW r \in Requests, SchedulerFails(r) PROVE FALSE
  BY <1>7 DEF SchedulerFails
<1>8. CASE Generate \/ RunDeadlinePairing
  <2>1. night'.status = "CLOSED"
    BY <1>8 DEF Generate, RunDeadlinePairing, Night
  <2> QED
    BY <2>1
<1>9. CASE Tick
  <2>1. night \in Night /\ night' = night /\ now' = now + 1 /\ disturbed' = disturbed
    BY <1>9 DEF Tick
  <2>2. night.deadline \in Int /\ now \in Int
    BY <2>1, ClockType
  <2>3. now < night.deadline
    BY <2>1, <2>2
  <2> QED
    BY <1>9, <2>3 DEF Tick, Followed
<1>10. CASE Fire
  <2>1. night \in Night /\ night' = night /\ now' = now /\ schedule <= now /\ pc' = pc
    BY <1>10 DEF Fire
  <2>2. night.deadline \in Int /\ now \in Int
    BY <2>1, ClockType
  <2>3. schedule # night.deadline
    BY <2>1, <2>2
  <2> QED
    BY <1>10, <2>1, <2>3 DEF Fire, Followed
<1>11. CASE UNCHANGED vars
  BY <1>11 DEF vars, Followed
<1> QED
  BY <1>1, <1>2, <1>3, <1>4, <1>5, <1>6, <1>7, <1>8, <1>9, <1>10, <1>11 DEF Next, Continue

\* "replace the one-shot schedule so auto-pair fires at the new time": between
\* requests an OPEN night whose deadline lies ahead has a schedule for it, provided
\* that no PATCH opens a night.
THEOREM ScheduleIsKept ==
    ASSUME "OPEN" \notin PatchStatuses
    PROVE  Spec => []ScheduleFollowsDeadline
<1>1. Init => Followed
  BY DEF Init, Followed
<1>2. Followed => ScheduleFollowsDeadline
  BY DEF Followed, ScheduleFollowsDeadline, Quiet, InFlight
<1> QED
  BY <1>1, <1>2, FollowedNext, OrderlyAlways, ScheduleAlways, PTL DEF Spec
=============================================================================
