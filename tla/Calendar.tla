-------------------------------- MODULE Calendar -------------------------------
(******************************************************************************)
(* The 2026 trading calendar of the automation service and the ISO week and   *)
(* calendar month periods of its leaderboards (calendar.ts, indexer/          *)
(* periods.ts, config.ts).  A day is the number of days since 2026-01-01, a   *)
(* Thursday; an instant is the number of minutes since 2026-01-01T00:00Z.     *)
(* Days before and after 2026 are days too: the code answers for some of      *)
(* them and throws for others.                                                *)
(******************************************************************************)
EXTENDS Integers, Sequences

MonthStart == <<0, 31, 59, 90, 120, 151, 181, 212, 243, 273, 304, 334, 365, 396>>

Ymd(m, d) == MonthStart[m] + d - 1

Months == 1..12

(* The month of a day of 2026, or 13 for the January that follows. *)
MonthOf(day) == CHOOSE m \in 1..13 : MonthStart[m] <= day /\ day < MonthStart[m + 1]

(* 0 is Sunday, as Date.getUTCDay has it. *)
Weekday(day) == (day + 4) % 7

MINUTES_PER_DAY == 1440

FULL_HOLIDAYS_2026 ==
  {Ymd(1, 1), Ymd(1, 19), Ymd(2, 16), Ymd(4, 3), Ymd(5, 25), Ymd(6, 19), Ymd(7, 3),
   Ymd(9, 7), Ymd(11, 26), Ymd(12, 25)}

HALF_DAYS_2026 == {Ymd(11, 27), Ymd(12, 24)}

InCalendarYear(day) == day \in 0..364

--------------------------------------------------------------------------------
(* Eastern time.  The runtime's zone database moves the clock at 02:00 local  *)
(* time; the service's own rule answers for whole days.                       *)

FirstSunday(m) == CHOOSE d \in Ymd(m, 1)..Ymd(m, 7) : Weekday(d) = 0

isEtDst(day) == FirstSunday(3) + 7 <= day /\ day < FirstSunday(11)

utcOffset(day) == IF isEtDst(day) THEN 240 ELSE 300

(* What Intl.DateTimeFormat does with an instant. *)
EtOffsetAt(instant) ==
  LET springs == (FirstSunday(3) + 7) * MINUTES_PER_DAY + 420
      falls   == FirstSunday(11) * MINUTES_PER_DAY + 360
  IN IF springs <= instant /\ instant < falls THEN 240 ELSE 300

toEtDateString(instant) == (instant - EtOffsetAt(instant)) \div MINUTES_PER_DAY

noonUtc(day) == day * MINUTES_PER_DAY + 720

--------------------------------------------------------------------------------
(* The trading calendar. *)

isTradingDay(day) == day \notin FULL_HOLIDAYS_2026 /\ Weekday(day) \in 1..5

isHalfDay(day) == day \in HALF_DAYS_2026

(* Mutant: half-days pass. *)
isRegularTradingDay_HalfDaysToo(day) == isTradingDay(day)

isRegularTradingDay(day) == isTradingDay(day) /\ ~isHalfDay(day)

closeHourEt(day) == IF isHalfDay(day) THEN 13 ELSE 16

(* getCloseTime throws for a day that does not trade or is not of 2026. *)
hasCloseTime(day) == isTradingDay(day) /\ InCalendarYear(day)

getCloseTime(day) == day * MINUTES_PER_DAY + closeHourEt(day) * 60 + utcOffset(day)

(* The first trading day after a day, among the fourteen that are looked at. *)
nextTradingDay(from) ==
  CHOOSE d \in from + 1 .. from + 14 :
    isTradingDay(d) /\ \A e \in from + 1 .. d - 1 : ~isTradingDay(e)

previousTradingDay(from) ==
  CHOOSE d \in from - 14 .. from - 1 :
    isTradingDay(d) /\ \A e \in d + 1 .. from - 1 : ~isTradingDay(e)

(* The morning job's expiry: 20:00 UTC on the UTC date, in summer and winter. *)
computeExpiryUnixFor4pmETSameDay(runAt) ==
  (runAt \div MINUTES_PER_DAY) * MINUTES_PER_DAY + 1200

--------------------------------------------------------------------------------
(* Leaderboard periods.  A week is named by the year and the ordinal of its   *)
(* Thursday.                                                                  *)

mondayOf(day) == day - ((Weekday(day) + 6) % 7)

isoWeekInfo(day) ==
  LET thursday == mondayOf(day) + 3
      jan1     == IF thursday < 0 THEN -365 ELSE IF thursday > 364 THEN 365 ELSE 0
  IN [year |-> 2026 + jan1 \div 365, week |-> (thursday - jan1) \div 7 + 1]

isoWeekId(info) == info.year * 100 + info.week

midnightEt(day) == day * MINUTES_PER_DAY + utcOffset(day)

weeklyPeriodStartUtc(instant) ==
  midnightEt(toEtDateString(noonUtc(mondayOf(toEtDateString(instant)))))

(* Mutant: seven days of twenty-four hours. *)
weeklyPeriodEndUtc_SameOffset(instant) == weeklyPeriodStartUtc(instant) + 7 * MINUTES_PER_DAY

weeklyPeriodEndUtc(instant) ==
  midnightEt(toEtDateString(noonUtc(toEtDateString(weeklyPeriodStartUtc(instant)) + 7)))

monthlyPeriodId(month) == 202600 + month

monthlyPeriodStartUtc(month) == midnightEt(MonthStart[month])

monthlyPeriodEndUtc(month) == midnightEt(MonthStart[month + 1])

lastFridayOfMonth(month) ==
  CHOOSE d \in MonthStart[month + 1] - 7 .. MonthStart[month + 1] - 1 : Weekday(d) = 5

(* A last Friday that is a holiday is skipped, not moved. *)
isLastTradingFridayOfMonth(day) ==
  day = lastFridayOfMonth(MonthOf(day)) /\ isTradingDay(day)

periodForDate(instant, kind) ==
  IF kind = "weekly"
  THEN [kind  |-> kind,
        id    |-> isoWeekId(isoWeekInfo(toEtDateString(instant))),
        start |-> weeklyPeriodStartUtc(instant),
        end   |-> weeklyPeriodEndUtc(instant)]
  ELSE LET month == MonthOf(toEtDateString(instant))
       IN [kind  |-> kind,
           id    |-> monthlyPeriodId(month),
           start |-> monthlyPeriodStartUtc(month),
           end   |-> monthlyPeriodEndUtc(month)]
================================================================================
