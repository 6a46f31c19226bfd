------------------------ MODULE ScheduleTimesProofs -------------------------
(***************************************************************************)
(* Proofs about ScheduleTimes, for minutes and days of any length, any     *)
(* intervals, times of the day, polls and waits, and without a bound on    *)
(* the clock.                                                              *)
(***************************************************************************)
EXTENDS ScheduleTimes, TLAPS

(***************************************************************************)
(* Division.                                                               *)
(***************************************************************************)
LEMMA Division ==
  ASSUME NEW d \in Nat \ {0}, NEW t \in Int
  PROVE  t \div d \in Int /\ t % d \in 0 .. d - 1 /\ t = (t \div d) * d + (t % d)
OBVIOUS

LEMMA DayOf ==
  ASSUME NEW d \in Nat \ {0}, NEW q \in Int, NEW r \in 0 .. d - 1
  PROVE  (q * d + r) \div d = q /\ (q * d + r) % d = r
OBVIOUS

LEMMA FromDay ==
  ASSUME NEW d \in Nat \ {0}, NEW t \in Int, NEW q \in Int
  PROVE  t >= q * d <=> t \div d >= q
OBVIOUS

(***************************************************************************)
(* The time of the day.                                                    *)
(***************************************************************************)
Schedules ==
  /\ interval \in Intervals /\ slot \in Slots /\ dow \in WeekDays
  /\ dow # NoDay => interval % 7 = 0

Opens == slot * Minute

LEMMA DayIsPositive == Day \in Nat \ {0} /\ Minute \in Nat \ {0} /\ Minutes \in Nat \ {0}
BY TimesAssumption DEF Day

LEMMA SlotInDay ==
  ASSUME Schedules, NEW e \in 0 .. Minute - 1
  PROVE  Opens + e \in 0 .. Day - 1 /\ Opens \in 0 .. Day - 1 /\ slot \in Nat
<1>1. slot \in 0 .. Minutes - 1
  BY TimesAssumption DEF Schedules
<1>2. slot * Minute \in Nat /\ slot * Minute <= (Minutes - 1) * Minute
  BY <1>1, DayIsPositive
<1>3. (Minutes - 1) * Minute = Minute * Minutes - Minute
  BY DayIsPositive
<1> QED
  BY <1>1, <1>2, <1>3, DayIsPositive DEF Opens, Day

LEMMA AtSlotOfDay ==
  ASSUME Schedules, NEW t \in Int
  PROVE  /\ AtSlot(t) = (t \div Day) * Day + Opens + (t % Minute)
         /\ t \div Day \in Int /\ t % Minute \in 0 .. Minute - 1
         /\ AtSlot(t) \div Day = t \div Day /\ AtSlot(t) \in Int
<1>1. t \div Day \in Int /\ t % Minute \in 0 .. Minute - 1
  BY Division, DayIsPositive
<1>2. AtSlot(t) = (t \div Day) * Day + Opens + (t % Minute)
  BY DEF AtSlot, Opens
<1>3. Opens + (t % Minute) \in 0 .. Day - 1 /\ Opens \in Int
  BY <1>1, SlotInDay
<1>4. AtSlot(t) = (t \div Day) * Day + (Opens + (t % Minute))
  BY <1>1, <1>2, <1>3, DayIsPositive
<1>5. AtSlot(t) \div Day = t \div Day
  BY <1>1, <1>3, <1>4, DayOf, DayIsPositive
<1> QED
  BY <1>1, <1>2, <1>3, <1>5, DayIsPositive

\* The time of the day has come, to the second that normalizing keeps, when it has come to the minute.
LEMMA SecondsDoNotMatter ==
  ASSUME Schedules, NEW t \in Int
  PROVE  AtSlot(t) <= t <=> t >= (t \div Day) * Day + Opens
<1> DEFINE q == t \div Day
           j == q * Minutes + slot
           k == t \div Minute
           e == t % Minute
<1>1. q \in Int /\ slot \in Int /\ k \in Int /\ e \in 0 .. Minute - 1 /\ t = k * Minute + e
  BY AtSlotOfDay, SlotInDay, Division, DayIsPositive
<1>2. j \in Int /\ j * Minute = q * Day + Opens
  <2> HIDE DEF q
  <2>1. (q * Minutes) * Minute = q * (Minute * Minutes)
    BY <1>1, DayIsPositive
  <2>2. q * Minutes \in Int
    BY <1>1, DayIsPositive
  <2>3. j * Minute = (q * Minutes) * Minute + slot * Minute
    BY <1>1, <2>2, DayIsPositive
  <2> QED
    BY <1>1, <2>1, <2>2, <2>3, DayIsPositive DEF Day, Opens
<1>3. AtSlot(t) = j * Minute + e
  BY <1>2, AtSlotOfDay
<1> HIDE DEF q, j, k, e
<1>4. j * Minute + e <= k * Minute + e <=> j * Minute <= k * Minute
  BY <1>1, <1>2, DayIsPositive
<1>5. j * Minute <= k * Minute <=> j <= k
  BY <1>1, <1>2, DayIsPositive
<1>6. t >= j * Minute <=> k >= j
  BY <1>1, <1>2, FromDay, DayIsPositive DEF k
<1> QED
  BY <1>1, <1>2, <1>3, <1>4, <1>5, <1>6 DEF q

\* How often the time of the day has come, counted by days.
Passed(t) == (t - Opens) \div Day

LEMMA PassedByDay ==
  ASSUME Schedules, NEW t \in Int
  PROVE  /\ Passed(t) \in Int
         /\ Passed(t) = IF AtSlot(t) <= t THEN t \div Day ELSE (t \div Day) - 1
         /\ \A n \in Int : t >= n * Day + Opens <=> Passed(t) >= n
<1> DEFINE q == t \div Day
<1>1. q \in Int /\ Opens \in 0 .. Day - 1 /\ Opens \in Int /\ t - Opens \in Int
  BY AtSlotOfDay, SlotInDay, DayIsPositive
<1>2. Passed(t) \in Int
  BY <1>1, Division, DayIsPositive DEF Passed
<1>3. ASSUME NEW n \in Int PROVE t >= n * Day + Opens <=> Passed(t) >= n
  <2>1. t - Opens >= n * Day <=> (t - Opens) \div Day >= n
    BY <1>1, FromDay, DayIsPositive
  <2>2. n * Day \in Int
    BY DayIsPositive
  <2> QED
    BY <1>1, <2>1, <2>2 DEF Passed
<1>4. t < (q + 1) * Day + Opens /\ t >= (q - 1) * Day + Opens
  <2>1. t = q * Day + (t % Day) /\ t % Day \in 0 .. Day - 1
    BY Division, DayIsPositive
  <2>2. (q + 1) * Day = q * Day + Day /\ (q - 1) * Day = q * Day - Day /\ q * Day \in Int
    BY <1>1, DayIsPositive
  <2> HIDE DEF q
  <2> QED
    BY <1>1, <2>1, <2>2, DayIsPositive
<1>5. Passed(t) < q + 1 /\ Passed(t) >= q - 1
  <2>1. q + 1 \in Int /\ q - 1 \in Int
    BY <1>1
  <2>2. (q + 1) * Day + Opens \in Int
    BY <1>1, DayIsPositive
  <2> HIDE DEF q
  <2> QED
    BY <1>2, <1>3, <1>4, <2>1, <2>2
<1>6. AtSlot(t) <= t <=> Passed(t) >= q
  BY <1>1, <1>3, SecondsDoNotMatter
<1> HIDE DEF q
<1>7. Passed(t) = IF AtSlot(t) <= t THEN q ELSE q - 1
  BY <1>1, <1>2, <1>5, <1>6
<1> QED
  BY <1>2, <1>3, <1>7 DEF q

(***************************************************************************)
(* The next iteration.                                                     *)
(***************************************************************************)
DueDay ==
  Passed(previous) + interval + IF dow = NoDay THEN 0 ELSE dow - ((previous \div Day) % 7)

LEMMA DueAfterADay ==
  ASSUME Schedules, previous \in Int
  PROVE  /\ DueDay \in Int /\ DueDay >= Passed(previous) + 1
         /\ dow = NoDay => DueDay = Passed(previous) + interval
<1>1. Passed(previous) \in Int /\ previous \div Day \in Int
  BY PassedByDay, AtSlotOfDay
<1>2. (previous \div Day) % 7 \in 0 .. 6
  BY <1>1
<1>3. interval \in Nat \ {0} /\ dow \in 0 .. 6 \cup {NoDay}
  BY TimesAssumption DEF Schedules
<1>4. CASE dow = NoDay
  <2>1. DueDay = Passed(previous) + interval + 0
    BY <1>4 DEF DueDay
  <2>2. interval \in Nat /\ interval >= 1
    BY <1>3
  <2>3. \A p \in Int : p + interval + 0 = p + interval /\ p + interval \in Int /\ p + interval >= p + 1
    BY <2>2
  <2> QED
    BY <1>1, <1>4, <2>1, <2>3
<1>5. CASE dow # NoDay
  <2>1. interval % 7 = 0
    BY <1>5 DEF Schedules
  <2>2. interval >= 7
    BY <1>3, <2>1
  <2>3. dow \in 0 .. 6
    BY <1>3, <1>5
  <2>4. DueDay = Passed(previous) + interval + (dow - ((previous \div Day) % 7))
    BY <1>5 DEF DueDay
  <2>5. dow - ((previous \div Day) % 7) \in -6 .. 6
    BY <1>2, <2>3
  <2>6. \A p \in Int, n \in -6 .. 6 : p + interval + n \in Int /\ p + interval + n >= p + 1
    BY <1>3, <2>2
  <2> QED
    BY <1>1, <1>5, <2>4, <2>5, <2>6
<1> QED
  BY <1>4, <1>5

LEMMA NextIsOnDueDay ==
  ASSUME Schedules, previous \in Int
  PROVE  /\ NextIteration \in Int
         /\ NextIteration >= DueDay * Day + Opens /\ NextIteration < DueDay * Day + Opens + Minute
         /\ NextIteration >= previous
<1> DEFINE q == previous \div Day
           normalized == AtSlot(previous)
           np == NormalPrevious(normalized)
           days == interval + IF dow = NoDay THEN 0 ELSE dow - WeekDay(normalized)
           p == Passed(previous)
<1>1. /\ q \in Int /\ normalized \in Int /\ normalized \div Day = q
      /\ p \in Int /\ p = IF normalized <= previous THEN q ELSE q - 1
  BY AtSlotOfDay, PassedByDay
<1>2. WeekDay(normalized) = q % 7
  BY <1>1 DEF WeekDay
<1>3. DueDay = p + days /\ days \in Int
  <2>1. interval \in Nat /\ dow \in 0 .. 6 \cup {NoDay}
    BY TimesAssumption DEF Schedules
  <2>2. q % 7 \in Int
    BY <1>1
  <2> HIDE DEF q, p, normalized
  <2>3. CASE dow = NoDay
    BY <1>1, <2>1, <2>3 DEF DueDay, q, p
  <2>4. CASE dow # NoDay
    <3>1. DueDay = p + interval + (dow - (q % 7)) /\ days = interval + (dow - (q % 7))
      BY <1>2, <2>4 DEF DueDay, q, p
    <3> QED
      BY <1>1, <2>1, <2>2, <2>4, <3>1
  <2> QED
    BY <2>3, <2>4
<1>4. np \in Int /\ np \div Day = p
  <2>1. CASE normalized <= previous
    BY <1>1, <2>1 DEF NormalPrevious
  <2>2. CASE ~ (normalized <= previous)
    <3>1. normalized = q * Day + (normalized % Day) /\ normalized % Day \in 0 .. Day - 1
      BY <1>1, Division, DayIsPositive
    <3>2. np = normalized - Day
      BY <1>1, <2>2 DEF NormalPrevious
    <3>3. (q - 1) * Day = q * Day - Day /\ q * Day \in Int
      BY <1>1, DayIsPositive
    <3> HIDE DEF q, normalized, np
    <3>4. np = (q - 1) * Day + (normalized % Day)
      BY <1>1, <3>1, <3>2, <3>3, DayIsPositive
    <3>5. q - 1 \in Int /\ p = q - 1
      BY <1>1, <2>2
    <3>6. ((q - 1) * Day + (normalized % Day)) \div Day = q - 1
      BY <3>1, <3>5, DayOf, DayIsPositive
    <3> QED
      BY <1>1, <3>2, <3>4, <3>5, <3>6, DayIsPositive
  <2> QED
    BY <2>1, <2>2
<1>5. NextIteration = AtSlot(np + days * Day)
  BY DEF NextIteration
<1> HIDE DEF q, normalized, np, days, p
<1>6. np + days * Day \in Int /\ (np + days * Day) \div Day = DueDay
  <2>1. np = p * Day + (np % Day) /\ np % Day \in 0 .. Day - 1
    BY <1>4, Division, DayIsPositive
  <2>2. DueDay * Day = p * Day + days * Day /\ p * Day \in Int /\ days * Day \in Int
    BY <1>1, <1>3, DayIsPositive
  <2>3. np + days * Day = DueDay * Day + (np % Day)
    BY <2>1, <2>2, DayIsPositive
  <2>4. DueDay \in Int
    BY DueAfterADay
  <2>5. (DueDay * Day + (np % Day)) \div Day = DueDay
    BY <2>1, <2>4, DayOf, DayIsPositive
  <2> QED
    BY <1>4, <2>2, <2>3, <2>5
<1>7. PICK e \in 0 .. Minute - 1 : NextIteration = DueDay * Day + Opens + e
  BY <1>5, <1>6, AtSlotOfDay
<1>8. DueDay * Day \in Int /\ Opens \in Int /\ DueDay \in Int
  BY DueAfterADay, SlotInDay, DayIsPositive
<1>9. DueDay * Day + Opens > previous
  <2>1. ~ (previous >= DueDay * Day + Opens)
    <3>1. ~ (p >= DueDay)
      BY <1>1, <1>8, DueAfterADay DEF p
    <3> QED
      BY <1>8, <3>1, PassedByDay DEF p
  <2> QED
    BY <1>8, <2>1
<1> QED
  BY <1>7, <1>8, <1>9, DayIsPositive

(***************************************************************************)
(* The loop.                                                               *)
(***************************************************************************)
LoopTypes ==
  /\ Schedules
  /\ previous \in Nat /\ clock \in Nat /\ previous <= clock
  /\ polled \in 0 .. PollEvery /\ waiting \in BOOLEAN /\ waited \in 0 .. MaxWait

\* A query that does not wait was not due at the last poll; one that waits has become due since the poll before.
DueWhenPolled ==
  IF waiting THEN NextIteration < clock /\ clock - waited <= NextIteration + PollEvery
             ELSE waited = 0 /\ clock - polled <= NextIteration

LoopInv == LoopTypes /\ DueWhenPolled

LEMMA NextComes == Schedules /\ previous \in Int => NextIteration \in Int /\ NextIteration >= previous
BY NextIsOnDueDay

LEMMA LoopInitInv == Init => LoopInv
<1> SUFFICES ASSUME Init PROVE LoopInv
  OBVIOUS
<1>1. previous \in Nat /\ clock = previous /\ polled = 0 /\ waited = 0 /\ waiting = FALSE /\ Schedules
  BY DEF Init, Schedules
<1>2. LoopTypes
  <2>1. 0 \in 0 .. PollEvery /\ 0 \in 0 .. MaxWait
    BY TimesAssumption
  <2>2. clock \in Nat /\ previous <= clock
    BY <1>1
  <2>3. waiting \in BOOLEAN
    BY Zenon DEF Init
  <2> QED
    BY <1>1, <2>1, <2>2, <2>3 DEF LoopTypes
<1>3. NextIteration \in Int /\ NextIteration >= previous
  BY <1>1, NextIsOnDueDay
<1> QED
  BY <1>1, <1>2, <1>3 DEF LoopInv, DueWhenPolled

LEMMA LoopStep ==
  ASSUME LoopInv, [Next]_vars
  PROVE  LoopInv'
<1>1. /\ Schedules /\ previous \in Nat /\ clock \in Nat /\ previous <= clock /\ waiting \in BOOLEAN
      /\ polled \in 0 .. PollEvery /\ waited \in 0 .. MaxWait /\ PollEvery \in Nat /\ MaxWait \in Nat
  BY TimesAssumption DEF LoopInv, LoopTypes
<1>2. NextIteration \in Int
  BY <1>1, NextIsOnDueDay
<1>3. UNCHANGED <<schedule, previous>> => NextIteration' = NextIteration
  BY DEF NextIteration, AtSlot, NormalPrevious, WeekDay, schedule
<1>4. UNCHANGED schedule /\ Schedules'
  BY <1>1 DEF Next, Tick, Poll, Start, vars, schedule, Schedules
<1>5. CASE Tick
  <2>1. /\ clock' = clock + 1 /\ polled' = polled + 1 /\ UNCHANGED <<previous, waiting>>
        /\ waited' = IF waiting THEN waited + 1 ELSE 0
        /\ polled < PollEvery /\ (waiting => waited < MaxWait)
    BY <1>5 DEF Tick
  <2>2. LoopTypes'
    BY <1>1, <1>4, <2>1 DEF LoopTypes
  <2>3. NextIteration' = NextIteration
    BY <1>3, <1>4, <2>1
  <2>4. DueWhenPolled'
    BY <1>1, <1>2, <2>1, <2>3 DEF LoopInv, DueWhenPolled
  <2> QED
    BY <2>2, <2>4 DEF LoopInv
<1>6. CASE Poll
  <2>1. polled' = 0 /\ waiting' = (waiting \/ clock > NextIteration) /\ UNCHANGED <<previous, clock, waited>>
    BY <1>6 DEF Poll
  <2>2. LoopTypes'
    BY <1>1, <1>4, <2>1 DEF LoopTypes
  <2>3. NextIteration' = NextIteration
    BY <1>3, <1>4, <2>1
  <2>4. DueWhenPolled'
    <3>1. CASE waiting
      <4>1. waiting' /\ NextIteration < clock /\ clock - waited <= NextIteration + PollEvery
        BY <2>1, <3>1 DEF LoopInv, DueWhenPolled
      <4> QED
        BY <2>1, <2>3, <4>1 DEF DueWhenPolled
    <3>2. CASE ~waiting
      <4>1. waited = 0 /\ clock - polled <= NextIteration
        BY <3>2 DEF LoopInv, DueWhenPolled
      <4>2. waiting' <=> clock > NextIteration
        BY <2>1, <3>2
      <4>3. clock - 0 <= NextIteration + PollEvery /\ (~ (clock > NextIteration) => clock - 0 <= NextIteration)
        BY <1>1, <1>2, <4>1
      <4> QED
        BY <1>1, <1>2, <2>1, <2>3, <4>1, <4>2, <4>3 DEF DueWhenPolled
    <3> QED
      BY <3>1, <3>2
  <2> QED
    BY <2>2, <2>4 DEF LoopInv
<1>7. CASE Start
  <2>1. waiting' = FALSE /\ waited' = 0 /\ previous' = clock /\ UNCHANGED <<clock, polled>>
    BY <1>7 DEF Start
  <2>2. LoopTypes'
    <3>1. 0 \in 0 .. MaxWait /\ previous' \in Nat /\ previous' <= clock'
      BY <1>1, <2>1
    <3> QED
      BY <1>1, <1>4, <2>1, <3>1 DEF LoopTypes
  <2>3. NextIteration' \in Int /\ NextIteration' >= previous'
    <3>1. Schedules' /\ previous' \in Int
      BY <1>1, <1>4, <2>1
    <3>2. (Schedules /\ previous \in Int => NextIteration \in Int /\ NextIteration >= previous)'
      BY NextComes, PTL
    <3> QED
      BY <3>1, <3>2
  <2>4. DueWhenPolled'
    BY <1>1, <2>1, <2>3 DEF DueWhenPolled
  <2> QED
    BY <2>2, <2>4 DEF LoopInv
<1>8. CASE UNCHANGED vars
  <2>1. NextIteration' = NextIteration /\ UNCHANGED <<previous, clock, polled, waiting, waited>>
    BY <1>3, <1>4, <1>8 DEF vars
  <2> QED
    BY <1>4, <2>1 DEF LoopInv, LoopTypes, DueWhenPolled
<1> QED
  BY <1>5, <1>6, <1>7, <1>8 DEF Next

(***************************************************************************)
(* The theorems.                                                           *)
(***************************************************************************)
LEMMA PassedIn ==
  ASSUME NEW a, NEW b
  PROVE  SlotsIn(a, b) = Passed(b) - Passed(a)
BY DEF SlotsIn, Passed, Opens

LEMMA LoopIsOnTime ==
  ASSUME LoopInv
  PROVE  NotTooLate
<1> SUFFICES ASSUME dow = NoDay,
                    clock - (Minute + PollEvery + MaxWait) > previous
             PROVE  SlotsIn(previous, clock - (Minute + PollEvery + MaxWait)) < interval
  BY DEF NotTooLate
<1> DEFINE latest == clock - (Minute + PollEvery + MaxWait)
<1>1. /\ Schedules /\ previous \in Int /\ clock \in Nat /\ polled \in 0 .. PollEvery /\ waited \in 0 .. MaxWait
      /\ waiting \in BOOLEAN /\ PollEvery \in Nat /\ MaxWait \in Nat /\ interval \in Nat
  BY TimesAssumption DEF LoopInv, LoopTypes, Schedules
<1>2. NextIteration \in Int /\ NextIteration < DueDay * Day + Opens + Minute
  BY <1>1, NextIsOnDueDay
<1>3. DueDay \in Int /\ DueDay = Passed(previous) + interval /\ Passed(previous) \in Int
  BY <1>1, DueAfterADay, PassedByDay
<1>4. clock <= NextIteration + PollEvery + MaxWait
  <2>1. CASE waiting
    <3>1. clock - waited <= NextIteration + PollEvery
      BY <2>1 DEF LoopInv, DueWhenPolled
    <3> QED
      BY <1>1, <1>2, <3>1
  <2>2. CASE ~waiting
    <3>1. clock - polled <= NextIteration
      BY <2>2 DEF LoopInv, DueWhenPolled
    <3> QED
      BY <1>1, <1>2, <3>1
  <2> QED
    BY <2>1, <2>2
<1>5. DueDay * Day \in Int /\ Opens \in Int /\ Minute \in Nat /\ latest \in Int
  BY <1>1, <1>3, SlotInDay, DayIsPositive
<1>6. latest < DueDay * Day + Opens
  BY <1>1, <1>2, <1>4, <1>5
<1> HIDE DEF latest
<1>7. ~ (Passed(latest) >= DueDay) /\ Passed(latest) \in Int
  BY <1>1, <1>3, <1>5, <1>6, PassedByDay
<1>8. SlotsIn(previous, latest) = Passed(latest) - Passed(previous)
  BY PassedIn
<1> QED
  BY <1>1, <1>3, <1>7, <1>8 DEF latest

LEMMA StartsAreNotEarly ==
  ASSUME LoopInv, Start, dow = NoDay
  PROVE  SlotsIn(previous, clock) >= interval
<1>1. Schedules /\ previous \in Int /\ clock \in Int /\ interval \in Nat
  BY TimesAssumption DEF LoopInv, LoopTypes, Schedules
<1>2. NextIteration < clock /\ NextIteration \in Int /\ NextIteration >= DueDay * Day + Opens
  BY <1>1, NextIsOnDueDay DEF LoopInv, DueWhenPolled, Start
<1>3. DueDay \in Int /\ DueDay = Passed(previous) + interval /\ Passed(previous) \in Int
  BY <1>1, DueAfterADay, PassedByDay
<1>4. DueDay * Day + Opens \in Int
  BY <1>1, <1>3, SlotInDay, DayIsPositive
<1>5. clock >= DueDay * Day + Opens
  BY <1>1, <1>2, <1>4
<1>6. Passed(clock) >= DueDay /\ Passed(clock) \in Int
  BY <1>1, <1>3, <1>5, PassedByDay
<1>7. SlotsIn(previous, clock) = Passed(clock) - Passed(previous)
  BY PassedIn
<1> QED
  BY <1>1, <1>3, <1>6, <1>7

LEMMA DueDayIsWeekDay ==
  ASSUME Schedules, previous \in Int, AtSlot(previous) <= previous, dow # NoDay
  PROVE  DueDay % 7 = dow
<1> DEFINE q == previous \div Day
<1>1. Passed(previous) = q /\ q \in Int
  BY PassedByDay, AtSlotOfDay
<1>2. interval \in Nat /\ interval % 7 = 0 /\ dow \in 0 .. 6
  BY TimesAssumption DEF Schedules
<1>3. DueDay = q + interval + (dow - (q % 7))
  BY <1>1 DEF DueDay
<1> HIDE DEF q
<1> QED
  BY <1>1, <1>2, <1>3

LEMMA PollsInTime ==
  ASSUME LoopInv, Minute + PollEvery <= Day, AtSlot(previous) <= previous
  PROVE  OnItsDay
<1> SUFFICES ASSUME Poll, ~waiting, waiting', dow # NoDay
             PROVE  dow \in {WeekDay(clock), WeekDay(clock - (Minute + PollEvery))}
  BY DEF OnItsDay
<1>1. Schedules /\ previous \in Int /\ clock \in Int /\ polled \in 0 .. PollEvery /\ PollEvery \in Nat
  BY TimesAssumption DEF LoopInv, LoopTypes
<1>2. /\ NextIteration \in Int
      /\ NextIteration >= DueDay * Day + Opens /\ NextIteration < DueDay * Day + Opens + Minute
  BY <1>1, NextIsOnDueDay
<1>3. NextIteration < clock /\ clock - polled <= NextIteration
  BY DEF LoopInv, DueWhenPolled, Poll
<1>4. DueDay \in Int /\ DueDay % 7 = dow
  BY <1>1, DueAfterADay, DueDayIsWeekDay
<1>5. Opens \in 0 .. Day - 1 /\ Opens + (Minute - 1) \in 0 .. Day - 1
  <2>1. Minute - 1 \in 0 .. Minute - 1
    BY DayIsPositive
  <2> QED
    BY <1>1, <2>1, SlotInDay
<1>6. /\ DueDay * Day \in Int /\ (DueDay + 1) * Day = DueDay * Day + Day
  BY <1>4, DayIsPositive
<1>7. clock \div Day \in Int /\ clock \div Day >= DueDay
  <2>1. clock >= DueDay * Day
    BY <1>1, <1>2, <1>3, <1>5, <1>6, DayIsPositive
  <2> QED
    BY <1>1, <1>4, <2>1, FromDay, Division, DayIsPositive
<1>8. CASE clock \div Day = DueDay
  BY <1>4, <1>8 DEF WeekDay
<1>9. CASE clock \div Day # DueDay
  <2> DEFINE before == clock - (Minute + PollEvery)
  <2>1. DueDay + 1 \in Int /\ clock \div Day >= DueDay + 1
    BY <1>4, <1>7, <1>9
  <2>2. clock >= (DueDay + 1) * Day
    BY <1>1, <2>1, FromDay, DayIsPositive
  <2>3. before \in Int /\ before >= DueDay * Day /\ before < (DueDay + 1) * Day
    BY <1>1, <1>2, <1>3, <1>5, <1>6, <2>2, DayIsPositive
  <2> HIDE DEF before
  <2>4. before \div Day \in Int /\ before \div Day >= DueDay /\ ~ (before \div Day >= DueDay + 1)
    <3>1. before \div Day \in Int
      BY <2>3, Division, DayIsPositive
    <3>2. before >= DueDay * Day <=> before \div Day >= DueDay
      BY <1>4, <2>3, FromDay, DayIsPositive
    <3>3. before >= (DueDay + 1) * Day <=> before \div Day >= DueDay + 1
      BY <2>1, <2>3, FromDay, DayIsPositive
    <3>4. ~ (before >= (DueDay + 1) * Day)
      BY <1>6, <2>3, DayIsPositive
    <3> QED
      BY <2>3, <3>1, <3>2, <3>3, <3>4
  <2>5. before \div Day = DueDay
    BY <1>4, <2>4
  <2> QED
    BY <1>4, <2>5 DEF WeekDay, before
<1> QED
  BY <1>8, <1>9

\* A query scheduled for a time of every n-th day is neither executed before that time has come n times nor later
\* after it than a poll and the wait in the queue take, whatever delayed the execution before
\* (should_schedule_next), for any times, intervals and delays.
THEOREM SchedulesKeepTheirTime == Spec => []NotTooLate /\ NotTooEarly
<1>1. Init => LoopInv
  BY LoopInitInv
<1>2. LoopInv /\ [Next]_vars => LoopInv'
  BY LoopStep
<1>3. LoopInv => NotTooLate
  BY LoopIsOnTime
<1>4. LoopInv => [Start /\ dow = NoDay => SlotsIn(previous, clock) >= interval]_vars
  BY StartsAreNotEarly
<1> QED
  BY <1>1, <1>2, <1>3, <1>4, PTL DEF Spec, NotTooEarly

\* A query scheduled for a day of the week is executed on that day, unless the execution before it preceded the
\* time of its day, as long as the scheduler polls more than once a day.
THEOREM WeekDaysAreKept ==
  ASSUME Minute + PollEvery <= Day
  PROVE  Spec => LateRunsKeepWeekDay
<1>1. Init => LoopInv
  BY LoopInitInv
<1>2. LoopInv /\ [Next]_vars => LoopInv'
  BY LoopStep
<1>3. LoopInv => [AtSlot(previous) <= previous => OnItsDay]_vars
  BY PollsInTime
<1> QED
  BY <1>1, <1>2, <1>3, PTL DEF Spec, LateRunsKeepWeekDay
=============================================================================
