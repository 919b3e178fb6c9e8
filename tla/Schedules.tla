----------------------------- MODULE Schedules -----------------------------
(***************************************************************************)
(* One recurring payment and its beneficiary: the worker's periodic          *)
(* enqueueDueSchedules, the pauses and resumptions by the members, the       *)
(* approval and archiving of the beneficiary, and a freeze of the            *)
(* organisation, all against a clock that nothing waits for.                 *)
(***************************************************************************)
EXTENDS Naturals, FiniteSets

CONSTANTS
  Interval,   \* ticks between two occurrences
  MaxTime,    \* bound on the clock
  None        \* no end, or no maximum

VARIABLES
  now,
  frozen,      \* organizations.frozen
  beneficiary, \* its status
  schedule,    \* the row of payment_schedules
  paid         \* intents created: their occurrence and when

vars == <<now, frozen, beneficiary, schedule, paid>>

NoSchedule == [status |-> "none", start |-> 0, end |-> None, max |-> None, next |-> 0, created |-> 0]
Init ==
  /\ now = 0 /\ frozen = FALSE /\ beneficiary = "pending"
  /\ schedule = NoSchedule /\ paid = {}

\* start_at + n intervals; months are intervals of one length here.
DueAt(s, occurrence) == s.start + (occurrence - 1) * Interval

-----------------------------------------------------------------------------
(* The members.                                                             *)

ApproveBeneficiary ==
  /\ beneficiary = "pending" /\ beneficiary' = "active"
  /\ UNCHANGED <<now, frozen, schedule, paid>>

ArchiveBeneficiary ==
  /\ beneficiary' = "archived"
  /\ schedule' = IF schedule.status = "active" THEN [schedule EXCEPT !.status = "paused"] ELSE schedule
  /\ UNCHANGED <<now, frozen, paid>>

\* The start may lie in the past.
CreateSchedule ==
  /\ schedule.status = "none" /\ beneficiary = "active"
  /\ \E start \in 1 .. Interval + 1, end \in {None, Interval + 1, 2 * Interval + 1}, max \in {None, 2} :
       schedule' = [status |-> "active", start |-> start, end |-> end, max |-> max,
                    next |-> start, created |-> 0]
  /\ UNCHANGED <<now, frozen, beneficiary, paid>>

\* A resumed schedule that missed its turn is due at once.
SetScheduleStatus(status) ==
  /\ schedule.status \in {"active", "paused"}
  /\ schedule' = [schedule EXCEPT !.status = status,
                    !.next = IF status = "active" /\ @ < now THEN now ELSE @]
  /\ UNCHANGED <<now, frozen, beneficiary, paid>>

SetFrozen ==
  /\ frozen' = ~frozen
  /\ UNCHANGED <<now, beneficiary, schedule, paid>>

Tick ==
  /\ now < MaxTime /\ now' = now + 1
  /\ UNCHANGED <<frozen, beneficiary, schedule, paid>>

-----------------------------------------------------------------------------
(* enqueueDueSchedules, one transaction that holds the row.                 *)

\* How many occurrences have come due by now, whether paid or missed.
LatestDue == Cardinality({n \in 0 .. MaxTime : schedule.start + Interval * n <= now})

\* Mutant: every missed occurrence is paid, one after the other.
NextInLine == schedule.created + 1
Occurrence == IF schedule.created + 1 > LatestDue THEN schedule.created + 1 ELSE LatestDue

PastEnd ==
  \/ schedule.max # None /\ Occurrence > schedule.max
  \/ schedule.end # None /\ schedule.end < now

OverAfter(occurrence) ==
  \/ schedule.max # None /\ occurrence >= schedule.max
  \/ schedule.end # None /\ DueAt(schedule, occurrence + 1) > schedule.end

EnqueueDue ==
  /\ schedule.status = "active" /\ schedule.next <= now /\ ~frozen
  /\ \/ /\ beneficiary # "active"
        /\ schedule' = [schedule EXCEPT !.status = "paused"] /\ UNCHANGED paid
     \/ /\ beneficiary = "active" /\ PastEnd
        /\ schedule' = [schedule EXCEPT !.status = "completed"] /\ UNCHANGED paid
     \/ /\ beneficiary = "active" /\ ~PastEnd
        /\ paid' = paid \cup {[occurrence |-> Occurrence, at |-> now]}
        /\ schedule' = [schedule EXCEPT !.created = Occurrence,
                          !.next = DueAt(schedule, Occurrence + 1),
                          !.status = IF OverAfter(Occurrence) THEN "completed" ELSE @]
  /\ UNCHANGED <<now, frozen, beneficiary>>

Next ==
  \/ ApproveBeneficiary \/ ArchiveBeneficiary \/ CreateSchedule
  \/ \E status \in {"active", "paused", "cancelled"} : SetScheduleStatus(status)
  \/ SetFrozen \/ Tick \/ EnqueueDue

Spec == Init /\ [][Next]_vars

-----------------------------------------------------------------------------
\* However long the worker was away, the organisation frozen or the schedule
\* paused, a payment is made in the period it is for and no period pays twice:
\* what was missed is skipped and never paid in a burst.
OncePerPeriod ==
  /\ \A p \in paid : DueAt(schedule, p.occurrence) <= p.at /\ p.at < DueAt(schedule, p.occurrence + 1)
  /\ \A p, q \in paid : p.occurrence = q.occurrence => p = q

\* A schedule that completed has nothing left to pay: its maximum is reached or
\* the first occurrence that it did not get to lies after its end.
FinishedOnlyWhenOver ==
  schedule.status = "completed" =>
    \/ schedule.max # None /\ (schedule.created >= schedule.max \/ LatestDue > schedule.max)
    \/ schedule.end # None /\ (schedule.end < now \/ DueAt(schedule, schedule.created + 1) > schedule.end)

\* Neither too often nor too seldom, over every pause, freeze and end date.
SchedulesKept == OncePerPeriod /\ FinishedOnlyWhenOver
=============================================================================
