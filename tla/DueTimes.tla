------------------------------ MODULE DueTimes ------------------------------
(***************************************************************************)
(* When a job is due (internal/schedule): the catch-up window of a clock   *)
(* time, the key of its slot, the runs announced to the user, and whether  *)
(* a run is a full one.                                                    *)
(*                                                                         *)
(* An instant is a number of minutes; the wall clock agrees with it until  *)
(* the change of daylight saving time and differs by shift afterwards.     *)
(* Days have DayLen minutes, weeks seven days, months MonthLen days and    *)
(* years WeeksInYear weeks, so that small numbers have all the edges.      *)
(* The one step is the next tick, a minute later.                          *)
(*                                                                         *)
(* Left out: seconds (both programs tick at full minutes), the parsing of  *)
(* clock times and of the anchor (a clock time is a number, an anchor that *)
(* does not parse is none), and the order of lists.                        *)
(***************************************************************************)
EXTENDS Integers, FiniteSets

CONSTANTS
  DayLen,       \* minutes of a day: 1440
  CatchUpGrace, \* minutes: 30
  MonthLen,     \* days of a month
  WeeksInYear,  \* ISO weeks of a year: 52 or 53
  Schedules,    \* models.Schedule as the user saved it
  Shifts,       \* minutes by which the clock is put forward: 0, 60 or -60
  ChangeAt,     \* the instant of the change
  LastDay       \* bound: days

\* What the constants must satisfy; the values of a schedule are those the
\* comments of models.Schedule list and the window offers.
DueTimesAssumption ==
  /\ DayLen \in Nat \ {0} /\ CatchUpGrace \in 0..(DayLen - 1)
  /\ MonthLen \in Nat \ 0..6 /\ WeeksInYear \in Nat \ {0}
  /\ LastDay \in Nat \ {0} /\ ChangeAt \in Nat /\ Shifts \subseteq Int
  /\ Schedules \subseteq
       [type : {"", "daily", "weekly", "startup"}, times : SUBSET (0..(DayLen - 1)),
        days : SUBSET (1..7), mode : {"", "weekly", "biweekly", "monthly", "never"},
        fullday : 0..7, anchor : Nat \cup {-1}]

VARIABLES
  sched,  \* the schedule of the job
  shift,  \* the change of this year
  tick    \* the instant of the tick

due == <<sched, shift, tick>>

NoAnchor == -1

-----------------------------------------------------------------------------
(* time.Time *)

\* The wall clock at an instant, in minutes since day 0.
Wall(t) == IF t < ChangeAt THEN t ELSE t + shift
Day(t) == Wall(t) \div DayLen
Minute(t) == Wall(t) % DayLen

\* time.Date: of a clock time that does not exist or exists twice, one.
Date(day, minute) ==
  LET w == day * DayLen + minute IN IF w < ChangeAt THEN w ELSE w - shift

\* WeekdayUI: 1 is Monday.
WeekdayUI(day) == (day % 7) + 1
DayOfMonth(day) == (day % MonthLen) + 1
ISOWeek(day) == ((day \div 7) % WeeksInYear) + 1

-----------------------------------------------------------------------------
(* Normalized schedules *)

\* NormalizeSchedule, SyncTimes.
NormalizeSchedule(s) ==
  [s EXCEPT
    !.type = IF @ = "" /\ s.times # {} THEN "daily" ELSE @,
    !.mode = IF @ = "" THEN "weekly" ELSE @,
    !.fullday = IF @ = 0 /\ s.mode # "never" THEN 7 ELSE @,
    !.days = IF s.type = "weekly" /\ @ = {} THEN 1..5 ELSE @]

\* weekdayAllowed, asked for schedules by the week.
Allowed(s, day) == (s.type = "weekly" /\ s.days # {}) => WeekdayUI(day) \in s.days

-----------------------------------------------------------------------------
(* Due and the key of a slot *)

ClockMatches(t, minute) == Minute(t) = minute

Within(t, slot) == t > slot /\ t - slot <= CatchUpGrace

\* Variant: the clock time of the day before is forgotten.
ClockDueToday(t, minute) == ClockMatches(t, minute) \/ Within(t, Date(Day(t), minute))

\* clockDue: at the minute, after it, or after that of the day before.
ClockDue(t, minute) ==
  LET slot == Date(Day(t), minute)
  IN ClockMatches(t, minute) \/ Within(t, slot) \/ Within(t, slot - DayLen)

Due(s, t) ==
  /\ s.type # "startup" /\ Allowed(s, Day(t))
  /\ \E minute \in s.times : ClockDue(t, minute)

\* activeSlot: the slots a tick may belong to, of which the latest counts.
ActiveSlots(s, t) ==
  {Date(Day(t), m) : m \in {x \in s.times : ClockMatches(t, x) \/ Within(t, Date(Day(t), x))}}
    \cup {Date(Day(t), m) - DayLen : m \in {x \in s.times : Within(t, Date(Day(t), x) - DayLen)}}

Latest(slots) == CHOOSE x \in slots : \A y \in slots : y <= x

\* The wall clock of the slot, or that of the tick (MinuteKey).
SlotKey(s, t) == Wall(IF ActiveSlots(s, t) # {} THEN Latest(ActiveSlots(s, t)) ELSE t)

-----------------------------------------------------------------------------
(* Announced runs *)

\* nextOccurrences: of the next days, in the future.
NextOccurrences(s, t, days) ==
  {x \in {Date(Day(t) + d, m) : d \in {e \in 0..(days - 1) : Allowed(s, Day(t) + e)},
                                m \in s.times} : x > t}

\* NextScheduled: the nearest of ListUpcoming.
NextScheduled(s, t) ==
  LET all == NextOccurrences(s, t, 14) IN CHOOSE x \in all : \A y \in all : x <= y

-----------------------------------------------------------------------------
(* Full runs *)

\* matchesFullWeekday: by the week, the day must be one of the schedule.
MatchesFullWeekday(s, day) ==
  /\ WeekdayUI(day) = s.fullday
  /\ (s.type = "weekly" /\ s.days # {}) => s.fullday \in s.days

\* Variant: the anchor's own week is not counted.
IsBiweeklyFullWeekOdd(s, day) ==
  IF s.anchor = NoAnchor THEN ISOWeek(day) % 2 = 0
  ELSE day >= s.anchor /\ (day - s.anchor) % 14 > 0

\* isBiweeklyFullWeek: whole periods of 24 hours since the anchor.
IsBiweeklyFullWeek(s, day) ==
  IF s.anchor = NoAnchor THEN ISOWeek(day) % 2 = 0
  ELSE LET days == (Date(day, 0) - Date(s.anchor, 0)) \div DayLen
       IN day >= s.anchor /\ (days \div 7) % 2 = 0

ShouldForceFull(s, day) ==
  /\ s.mode # "never" /\ MatchesFullWeekday(s, day)
  /\ s.mode = "biweekly" => IsBiweeklyFullWeek(s, day)
  /\ s.mode = "monthly" => DayOfMonth(day) <= 7

-----------------------------------------------------------------------------
DueInit ==
  /\ sched \in {NormalizeSchedule(s) : s \in Schedules}
  /\ shift \in Shifts
  /\ tick = DayLen

\* DelayToNextBoundary: the next full minute.
DueTick ==
  /\ Day(tick + 1) < LastDay
  /\ tick' = tick + 1
  /\ UNCHANGED <<sched, shift>>

DueSpec == DueInit /\ [][DueTick]_due

-----------------------------------------------------------------------------
(* What a schedule says, without looking at one tick: a slot on every day it *)
(* allows.                                                                   *)
PlannedSlots(s) ==
  {Date(d, m) : d \in {e \in 0..LastDay : Allowed(s, e)}, m \in s.times}

OpenSlots(s, t) == {x \in PlannedSlots(s) : 0 <= t - x /\ t - x <= CatchUpGrace}

\* No slot of a weekday reaches into the day after.
Tame(s) == s.type = "weekly" => \A m \in s.times : m + CatchUpGrace < DayLen

(* While the clock is not changed, a job is due exactly in the catch-up      *)
(* window of its slots, the key of all ticks of a window is that of the      *)
(* latest slot that is open, and no slot lies between now and the run that   *)
(* is announced, which will be due.  With a change, due and the key still    *)
(* agree on whether there is a slot.  A slot of a weekly schedule that       *)
(* reaches over midnight is judged by the wrong day, and is left out         *)
(* (clockDue, activeSlot, nextOccurrences).                                  *)
DueExactly ==
  sched.type # "startup" /\ sched.times # {} =>
    /\ (shift = 0 /\ Tame(sched)) =>
         /\ Due(sched, tick) <=> OpenSlots(sched, tick) # {}
         /\ Due(sched, tick) => SlotKey(sched, tick) = Latest(OpenSlots(sched, tick))
         /\ NextOccurrences(sched, tick, 14) # {} =>
              LET next == NextScheduled(sched, tick)
              IN Due(sched, next) /\ \A x \in PlannedSlots(sched) : ~(tick < x /\ x < next)
    /\ sched.type = "daily" => (Due(sched, tick) <=> ActiveSlots(sched, tick) # {})

(* A full run is forced exactly once in its period: a week, two weeks of an  *)
(* anchor that has passed, or a month; or never, when the day of the full    *)
(* run is not one of the schedule.  Without a change of the clock; without   *)
(* an anchor two weeks may become three at the end of a long year            *)
(* (ShouldForceFull, isBiweeklyFullWeek, matchesFullWeekday).                *)
FullOnce ==
  LET today == Day(tick)
      period == CASE sched.mode = "weekly" -> today..(today + 6)
                  [] sched.mode = "biweekly" -> today..(today + 13)
                  [] OTHER -> (today - DayOfMonth(today) + 1)..(today - DayOfMonth(today) + MonthLen)
      fulls == {d \in period : ShouldForceFull(sched, d)}
  IN (shift = 0 /\ (sched.mode = "biweekly" => sched.anchor \in 0..today)) =>
       Cardinality(fulls) =
         IF sched.mode = "never" \/ (sched.type = "weekly" /\ sched.fullday \notin sched.days)
         THEN 0 ELSE 1
=============================================================================
