---------------------------- MODULE ScheduleTimes ----------------------------
(***************************************************************************)
(* should_schedule_next (redash/models/__init__.py) for schedules with a   *)
(* time of the day and possibly a day of the week, in the loop it is used  *)
(* in: refresh_queries polls, a due query waits in its queue for a while,  *)
(* and the start of the execution becomes the previous iteration.          *)
(*                                                                         *)
(* An instant is a number of units (of seconds, say) since a Monday's      *)
(* midnight; Minute units are a minute and Minutes minutes a day.          *)
(* Failures, and plain intervals, are the subject of ScheduledRefresh.     *)
(***************************************************************************)
EXTENDS Integers

CONSTANTS Minute,      \* units in a minute
          Minutes,     \* minutes in a day
          Intervals,   \* the intervals looked at, in days
          WeekDays,    \* the days of the week looked at, 0 for Monday, or NoDay
          Slots,       \* the times of the day looked at, in minutes
          PollEvery,   \* bound on the time between two polls
          MaxWait,     \* bound on the time a job waits in its queue
          Horizon,     \* bound on the clock
          NoDay

ASSUME TimesAssumption ==
  /\ {Minute, Minutes, PollEvery} \subseteq Nat \ {0}
  /\ {MaxWait, Horizon} \subseteq Nat /\ Intervals \subseteq Nat \ {0}
  /\ Slots \subseteq 0 .. Minutes - 1 /\ WeekDays \subseteq 0 .. 6 \cup {NoDay}

VARIABLES interval, slot, dow,   \* the schedule
          previous,              \* start of the previous execution
          clock,
          polled,                \* time since the last poll
          waiting,               \* a job of the query is in its queue
          waited                 \* and for how long

schedule == <<interval, slot, dow>>
vars == <<schedule, previous, clock, polled, waiting, waited>>

Day == Minute * Minutes

TypeOK ==
  /\ interval \in Intervals /\ slot \in Slots /\ dow \in WeekDays
  /\ clock \in 0 .. Horizon /\ previous \in 0 .. clock
  /\ polled \in 0 .. PollEvery /\ waiting \in BOOLEAN /\ waited \in 0 .. MaxWait

\* Some user's execution, at any time of the first week, precedes the schedule.  As the comment in
\* should_schedule_next demands, a schedule with a day of the week is for whole weeks.
Init ==
  /\ interval \in Intervals /\ slot \in Slots /\ dow \in WeekDays
  /\ dow # NoDay => interval % 7 = 0
  /\ previous \in 0 .. 7 * Day - 1 /\ clock = previous
  /\ polled = 0 /\ waiting = FALSE /\ waited = 0

(***************************************************************************)
(* should_schedule_next.                                                   *)
(***************************************************************************)
\* Mutant: days of the week are counted from 1.
IsoWeekDay(t) == 1 + ((t \div Day) % 7)

WeekDay(t) == (t \div Day) % 7

\* datetime.replace(hour, minute): the seconds stay.
AtSlot(t) == (t \div Day) * Day + slot * Minute + (t % Minute)

\* Mutants: the previous iteration is not normalised, or always.
PlainPrevious(normalized) == previous
EarlierPrevious(normalized) == normalized - Day

\* An execution before the time of the day counts for the day before.
NormalPrevious(normalized) == IF normalized > previous THEN normalized - Day ELSE previous

NextIteration ==
  LET normalized == AtSlot(previous)
      days_to_add == IF dow = NoDay THEN 0 ELSE dow - WeekDay(normalized)
  IN AtSlot(NormalPrevious(normalized) + (interval + days_to_add) * Day)

(***************************************************************************)
(* The loop.                                                               *)
(***************************************************************************)
Tick ==
  /\ clock < Horizon /\ polled < PollEvery /\ (waiting => waited < MaxWait)
  /\ clock' = clock + 1 /\ polled' = polled + 1
  /\ waited' = IF waiting THEN waited + 1 ELSE 0
  /\ UNCHANGED <<schedule, previous, waiting>>

\* refresh_queries: a query that waits already is found by enqueue_query.
Poll ==
  /\ polled' = 0
  /\ waiting' = (waiting \/ clock > NextIteration)
  /\ UNCHANGED <<schedule, previous, clock, waited>>

Start ==
  /\ waiting /\ waiting' = FALSE /\ waited' = 0
  /\ previous' = clock
  /\ UNCHANGED <<schedule, clock, polled>>

Next == Tick \/ Poll \/ Start

Spec == Init /\ [][Next]_vars

(***************************************************************************)
(* Properties.                                                             *)
(***************************************************************************)
\* How often the time of the day comes in the interval (a, b].
SlotsIn(a, b) == ((b - slot * Minute) \div Day) - ((a - slot * Minute) \div Day)

\* A query scheduled for every n-th day starts only after the time of the day has come n times: a late
\* start, past midnight even, does not bring an additional one.
NotTooEarly == [][Start /\ dow = NoDay => SlotsIn(previous, clock) >= interval]_vars

\* And it starts within a minute of the n-th time, a poll and the wait in the queue: no day is skipped
\* ("The query scheduled to run at 23:59.  The scheduler wakes up at 00:01.").
NotTooLate ==
  LET latest == clock - (Minute + PollEvery + MaxWait) IN
  dow = NoDay /\ latest > previous => SlotsIn(previous, latest) < interval

\* The poll enqueues the query on its day of the week, or as soon after midnight as polls are apart.
OnItsDay ==
  Poll /\ ~waiting /\ waiting' /\ dow # NoDay =>
    dow \in {WeekDay(clock), WeekDay(clock - (Minute + PollEvery))}

\* A query with a day of the week is executed on that day ("it should be running on Tuesdays").
DueOnWeekDay == [][OnItsDay]_vars

\* It is, at least, after an execution that did not precede the time of its day.
LateRunsKeepWeekDay == [][AtSlot(previous) <= previous => OnItsDay]_vars
==============================================================================
