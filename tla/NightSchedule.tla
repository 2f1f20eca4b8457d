--------------------------- MODULE NightSchedule ---------------------------
(***************************************************************************)
(* A night's signupDeadline and the one-shot EventBridge schedule that is  *)
(* to pair it then.  Both are written by the organizer's routes, one call  *)
(* after the other, and the schedule outlives the request.  A generation   *)
(* is one step here: it closes the night (NightPairings has its calls).    *)
(***************************************************************************)
EXTENDS Integers

CONSTANTS
    Requests,       \* ids of organizer requests
    Deadlines,      \* the deadlines organizers ask for, in ticks
    PatchStatuses,  \* the statuses a PATCH may ask for
    NoNight,        \* the night has not been created
    Unchanged,      \* a field the PATCH leaves out
    NoSchedule,     \* no schedule of the night's name exists
    MaxTime         \* bound: the last tick

NightStatus == {"OPEN", "CLOSED", "CANCELLED"}

ASSUME ScheduleAssumption ==
    /\ MaxTime \in Nat
    /\ Deadlines \subseteq 0..MaxTime
    /\ PatchStatuses \subseteq NightStatus

VARIABLES
    now,        \* the clock
    night,      \* status and signupDeadline in the table
    schedule,   \* when the night's schedule fires
    due,        \* the schedule has fired and its Lambda has yet to run
    pc,         \* the call a request makes next
    loaded,     \* the night as the request read it, then as it wrote it
    input,      \* what its body asks for
    disturbed   \* has anything overlapped a request, or has the scheduler failed?

\* disturbed is for the properties; no guard reads it.
vars == <<now, night, schedule, due, pc, loaded, input, disturbed>>

Night == [status : NightStatus, deadline : Deadlines]

ASSUME NoNightAssumption == NoNight \notin Night /\ NoSchedule \notin Deadlines

InFlight(r) == pc[r] \notin {"ready", "done"}

NoInput == [status |-> Unchanged, deadline |-> Unchanged]

Init ==
    /\ now = 0
    /\ night = NoNight
    /\ schedule = NoSchedule
    /\ due = FALSE
    /\ pc = [r \in Requests |-> "ready"]
    /\ loaded = [r \in Requests |-> NoNight]
    /\ input = [r \in Requests |-> NoInput]
    /\ disturbed = FALSE

Quiet == \A r \in Requests : ~InFlight(r)

\* Another request, or a generation, comes while requests are in flight.
NoteOverlap == disturbed' = (disturbed \/ ~Quiet)

Goto(r, next) == pc' = [pc EXCEPT ![r] = next]

-----------------------------------------------------------------------------

\* POST /clubs/:slug/nights: the night is put, then its schedule is created.
CreateNight(r, d) ==
    /\ pc[r] = "ready"
    /\ NoteOverlap
    /\ night = NoNight
    /\ night' = [status |-> "OPEN", deadline |-> d]
    /\ loaded' = [loaded EXCEPT ![r] = night']
    /\ Goto(r, "createSchedule")
    /\ UNCHANGED <<now, schedule, due, input>>

\* PATCH /clubs/:slug/nights/:nightId reads the night ...
PatchNight(r, s, d) ==
    /\ pc[r] = "ready"
    /\ NoteOverlap
    /\ night # NoNight
    /\ loaded' = [loaded EXCEPT ![r] = night]
    /\ input' = [input EXCEPT ![r] = [status |-> s, deadline |-> d]]
    /\ Goto(r, "putNight")
    /\ UNCHANGED <<now, night, schedule, due>>

\* Mutant: the input is written without the night that was read.
InputOnly(old, in) == [status |-> in.status, deadline |-> in.deadline]

\* Mutant: a night whose deadline is moved is opened again.
SpreadReopening(old, in) ==
    [status   |-> IF in.status # Unchanged THEN in.status
                  ELSE IF in.deadline # Unchanged THEN "OPEN" ELSE old.status,
     deadline |-> IF in.deadline = Unchanged THEN old.deadline ELSE in.deadline]

\* {...night, ...input}
Spread(old, in) ==
    [status   |-> IF in.status = Unchanged THEN old.status ELSE in.status,
     deadline |-> IF in.deadline = Unchanged THEN old.deadline ELSE in.deadline]

\* Mutant: only a new deadline touches the schedule.
NextForDeadline(in, updated) == IF in.deadline # Unchanged THEN "deleteSchedule" ELSE "done"

\* Cancelling deletes the schedule; a moved deadline of an OPEN night replaces it.
NextCall(in, updated) ==
    CASE updated.status = "CANCELLED" -> "cancelSchedule"
      [] updated.status = "OPEN" /\ in.deadline # Unchanged -> "deleteSchedule"
      [] OTHER -> "done"

\* ... and writes it back.
PutNight(r) ==
    /\ pc[r] = "putNight"
    /\ LET updated == Spread(loaded[r], input[r])
       IN  /\ night' = updated
           /\ loaded' = [loaded EXCEPT ![r] = updated]
           /\ Goto(r, NextCall(input[r], updated))
    /\ UNCHANGED <<now, schedule, due, input, disturbed>>

\* deleteNightSchedule, which takes a missing schedule for success.
CancelSchedule(r) ==
    /\ pc[r] = "cancelSchedule"
    /\ schedule' = NoSchedule
    /\ Goto(r, "done")
    /\ UNCHANGED <<now, night, due, loaded, input, disturbed>>

\* Mutant: a moved deadline creates its schedule beside the old one.
KeepOldSchedule(r) ==
    /\ pc[r] = "deleteSchedule"
    /\ Goto(r, "createSchedule")
    /\ UNCHANGED <<now, night, schedule, due, loaded, input, disturbed>>

\* Mutant: a moved deadline loses its schedule, and gets no new one.
DeleteOnly(r) ==
    /\ pc[r] = "deleteSchedule"
    /\ schedule' = NoSchedule
    /\ Goto(r, "done")
    /\ UNCHANGED <<now, night, due, loaded, input, disturbed>>

DeleteSchedule(r) ==
    /\ pc[r] = "deleteSchedule"
    /\ schedule' = NoSchedule
    /\ Goto(r, "createSchedule")
    /\ UNCHANGED <<now, night, due, loaded, input, disturbed>>

\* createNightSchedule.  Schedule names are unique: while one exists the call
\* fails, which is logged and forgotten.
CreateSchedule(r) ==
    /\ pc[r] = "createSchedule"
    /\ schedule' = IF schedule = NoSchedule THEN loaded[r].deadline ELSE schedule
    /\ Goto(r, "done")
    /\ UNCHANGED <<now, night, due, loaded, input, disturbed>>

\* A call to the scheduler throws: logged, and the request succeeds.
SchedulerFails(r) ==
    /\ pc[r] \in {"cancelSchedule", "deleteSchedule", "createSchedule"}
    /\ Goto(r, "done")
    /\ disturbed' = TRUE
    /\ UNCHANGED <<now, night, schedule, due, loaded, input>>

\* The organizer generates pairings by hand.
Generate ==
    /\ NoteOverlap
    /\ night # NoNight
    /\ night' = [night EXCEPT !.status = "CLOSED"]
    /\ UNCHANGED <<now, schedule, due, pc, loaded, input>>

-----------------------------------------------------------------------------

Tick ==
    /\ now < MaxTime
    /\ now' = now + 1
    /\ UNCHANGED <<night, schedule, due, pc, loaded, input, disturbed>>

\* EventBridge invokes the target once the time has come, at once if it has
\* passed already, and removes the schedule (ActionAfterCompletion DELETE).
Fire ==
    /\ schedule # NoSchedule
    /\ schedule <= now
    /\ schedule' = NoSchedule
    /\ due' = TRUE
    /\ UNCHANGED <<now, night, pc, loaded, input, disturbed>>

\* scheduled-handler: the night is generated, whatever it has become by now.
RunDeadlinePairing ==
    /\ NoteOverlap
    /\ due
    /\ due' = FALSE
    /\ night' = [night EXCEPT !.status = "CLOSED"]
    /\ UNCHANGED <<now, schedule, pc, loaded, input>>

Continue(r) ==
    PutNight(r) \/ CancelSchedule(r) \/ DeleteSchedule(r) \/ CreateSchedule(r) \/ SchedulerFails(r)

Next ==
    \/ \E r \in Requests, d \in Deadlines : CreateNight(r, d)
    \/ \E r \in Requests, s \in PatchStatuses \cup {Unchanged}, d \in Deadlines \cup {Unchanged} :
          PatchNight(r, s, d)
    \/ \E r \in Requests : Continue(r)
    \/ Generate \/ Tick \/ Fire \/ RunDeadlinePairing

Spec == Init /\ [][Next]_vars

\* Time passes, EventBridge and the Lambdas do their work; nobody has to ask
\* for anything.
FairSpec ==
    /\ Spec
    /\ WF_vars(Tick) /\ WF_vars(Fire) /\ WF_vars(RunDeadlinePairing)
    /\ \A r \in Requests : WF_vars(Continue(r))

-----------------------------------------------------------------------------
(* Properties. *)

\* Whatever a PATCH leaves out keeps its value, and a schedule is for one of the
\* deadlines asked for.
TypeOK ==
    /\ now \in 0..MaxTime
    /\ night \in Night \cup {NoNight}
    /\ schedule \in Deadlines \cup {NoSchedule}
    /\ due \in BOOLEAN
    /\ pc \in [Requests -> {"ready", "putNight", "cancelSchedule", "deleteSchedule",
                            "createSchedule", "done"}]
    /\ loaded \in [Requests -> Night \cup {NoNight}]
    /\ input \in [Requests -> [status : PatchStatuses \cup {Unchanged},
                               deadline : Deadlines \cup {Unchanged}]]
    /\ disturbed \in BOOLEAN
    /\ (due \/ schedule # NoSchedule) => night # NoNight

\* "replace the one-shot schedule so auto-pair fires at the new time"
\* (organizer-nights.ts): as long as nothing overlaps a request and the scheduler
\* answers, an OPEN night whose deadline lies ahead has, between requests, a
\* schedule for that very deadline.
ScheduleFollowsDeadline ==
    (/\ ~disturbed
     /\ Quiet
     /\ night # NoNight
     /\ night.status = "OPEN"
     /\ now < night.deadline)
        => schedule = night.deadline

\* Cancelling a night cancels its schedule: between requests a CANCELLED night has
\* none left, whichever deadlines it was moved to before, under the same condition.
CancelledIsUnscheduled ==
    (/\ ~disturbed
     /\ Quiet
     /\ night # NoNight
     /\ night.status = "CANCELLED")
        => schedule = NoSchedule

\* Generating "transitions OPEN -> CLOSED, which closes signups" (design, Two-phase
\* pairing): a night that has left OPEN is opened again only by a PATCH asking for it, as long as nothing
\* overlaps one.
OnlyAskedReopens ==
    [][(night # NoNight /\ night.status # "OPEN" /\ night'.status = "OPEN")
          => \/ disturbed
             \/ \E r \in Requests : PutNight(r) /\ input[r].status = "OPEN"]_vars

IsOpen == night # NoNight /\ night.status = "OPEN"

\* "At the deadline, the system automatically pairs players" (design, Overview):
\* an OPEN night does not stay open for ever, under the same condition.
DeadlineCloses == IsOpen ~> (~IsOpen \/ disturbed)
=============================================================================
