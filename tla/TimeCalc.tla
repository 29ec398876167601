------------------------------ MODULE TimeCalc ------------------------------
(***************************************************************************)
(* Dates and times as HTP computes them (CTimeCalc).  The class keeps      *)
(* year, month, day, hour, minute, second and millisecond in one object;   *)
(* here the first three are a date of their own.  A field that is not set  *)
(* is -1 there; year 0 stands for it here, and both are below 1.           *)
(***************************************************************************)
EXTENDS Integers

(* isLeapYear.                                                             *)
IsLeapYear(y) == IF y % 100 = 0 THEN y % 400 = 0 ELSE y % 4 = 0

(* The cases of the switches in GetNextDay and GetPrevDay.                 *)
MonthDays(y, m) ==
    IF m \in {4, 6, 9, 11} THEN 30
    ELSE IF m = 2 THEN IF IsLeapYear(y) THEN 29 ELSE 28
    ELSE 31

Date(y, m, d) == [year |-> y, month |-> m, day |-> d]

Dates == {d \in [year : Nat \ {0}, month : 1 .. 12, day : 1 .. 31] :
             d.day <= MonthDays(d.year, d.month)}

Clock(date, h, mi, s, l) ==
    [date |-> date, hour |-> h, minute |-> mi, second |-> s, ms |-> l]

Clocks == [date : Dates, hour : 0 .. 23, minute : 0 .. 59, second : 0 .. 59, ms : 0 .. 999]

-----------------------------------------------------------------------------
NextDay(d) ==
    IF d.year < 1 THEN d
    ELSE IF d.day < MonthDays(d.year, d.month) THEN Date(d.year, d.month, d.day + 1)
    ELSE IF d.month < 12 THEN Date(d.year, d.month + 1, 1)
    ELSE Date(d.year + 1, 1, 1)

PrevDay(d) ==
    IF d.year < 1 THEN d
    ELSE IF d.day > 1 THEN Date(d.year, d.month, d.day - 1)
    ELSE IF d.month > 1 THEN Date(d.year, d.month - 1, MonthDays(d.year, d.month - 1))
    ELSE Date(d.year - 1, 12, 31)

NextHour(t) ==
    IF t.hour < 23 THEN Clock(t.date, t.hour + 1, t.minute, t.second, t.ms)
    ELSE Clock(NextDay(t.date), 0, t.minute, t.second, t.ms)

(* The minute is set too: GetPrevHour is written for GetPrevMinute.        *)
PrevHour(t) ==
    IF t.hour > 0 THEN Clock(t.date, t.hour - 1, 59, t.second, t.ms)
    ELSE Clock(PrevDay(t.date), 23, 59, t.second, t.ms)

NextMinute(t) ==
    IF t.minute < 59 THEN Clock(t.date, t.hour, t.minute + 1, t.second, t.ms)
    ELSE NextHour(Clock(t.date, t.hour, 0, t.second, t.ms))

PrevMinute(t) ==
    IF t.minute > 0 THEN Clock(t.date, t.hour, t.minute - 1, t.second, t.ms)
    ELSE PrevHour(t)

-----------------------------------------------------------------------------
(* The order of dates that GetYMD's number and TimeCompare give, and the   *)
(* time of day as GetHMS's number.                                         *)
EarlierDate(a, b) ==
    \/ a.year < b.year
    \/ a.year = b.year /\ a.month < b.month
    \/ a.year = b.year /\ a.month = b.month /\ a.day < b.day

HMS(t) == t.hour * 10000 + t.minute * 100 + t.second

-----------------------------------------------------------------------------
(* A span added field by field, with one carry each: CTimeCalc has no such *)
(* operation, GetTimeList and GetTime both spell it out.  The minutes may  *)
(* exceed 59 afterwards, for one hour is carried only.                     *)
Carry(t, span) ==
    LET l == t.ms + span.ms
        s == t.second + span.second + IF l > 999 THEN 1 ELSE 0
        m == t.minute + span.minute + IF s > 59 THEN 1 ELSE 0
        u == Clock(t.date, t.hour, IF m > 59 THEN m - 60 ELSE m,
                   IF s > 59 THEN s - 60 ELSE s, IF l > 999 THEN l - 1000 ELSE l)
    IN  IF m > 59 THEN NextHour(u) ELSE u
=============================================================================
