-------------------------- MODULE TargetPlanProofs --------------------------
(***************************************************************************)
(* What HTP's date and time arithmetic computes, for every date and every  *)
(* time: that each step of the calendar is to the neighbouring day or      *)
(* minute, that the additions GetTimeList and GetTime spell out are exact  *)
(* below an hour and what they do above, and that the dates given to ticks *)
(* and trading hours are in order.                                         *)
(*                                                                         *)
(* Then, for any number of buffers, any workers and any documents, that    *)
(* ThreadTime prepares a plan where no worker looks, that the plan is in   *)
(* the order of its times and keeps to the straight line to the target,    *)
(* and that no worker is handed a slot it should not have any more.        *)
(***************************************************************************)
EXTENDS TargetPlan, HtpSystem, TradeTimes, FiniteSetTheorems, SumLemmas, TLAPS

(* The first day that PrevDay can still be asked about has one before it.  *)
FirstDate == Date(1, 1, 1)

(* An hour and a day in milliseconds.                                      *)
Hour == 60 * 60 * 1000
Day  == 24 * Hour

(* Milliseconds since midnight, and of a span.                             *)
Since(t)     == ((t.hour * 60 + t.minute) * 60 + t.second) * 1000 + t.ms
Length(span) == (span.minute * 60 + span.second) * 1000 + span.ms

Span3(m, s, l) == [minute |-> m, second |-> s, ms |-> l]

Spans == [minute : 0 .. 59, second : 0 .. 59, ms : 0 .. 999]

(* u is k milliseconds after t, which is less than a day.                  *)
Later(t, u, k) ==
    \/ u.date = t.date /\ Since(u) = Since(t) + k
    \/ u.date = NextDay(t.date) /\ Since(u) + Day = Since(t) + k

-----------------------------------------------------------------------------
LEMMA MonthRange ==
    ASSUME NEW y \in Int, NEW m \in Int
    PROVE  MonthDays(y, m) \in 28 .. 31
BY DEF MonthDays

LEMMA DateParts ==
    ASSUME NEW d \in Dates
    PROVE  /\ d.year \in Nat \ {0} /\ d.month \in 1 .. 12 /\ d.day \in 1 .. 31
           /\ d.day <= MonthDays(d.year, d.month)
           /\ d = Date(d.year, d.month, d.day)
BY DEF Dates, Date

LEMMA IsDate ==
    ASSUME NEW y \in Nat \ {0}, NEW m \in 1 .. 12, NEW d \in 1 .. MonthDays(y, m)
    PROVE  Date(y, m, d) \in Dates
<1>1. d \in 1 .. 31
  BY MonthRange
<1>2. Date(y, m, d) \in [year : Nat \ {0}, month : 1 .. 12, day : 1 .. 31]
  BY <1>1 DEF Date
<1> QED
  BY <1>2 DEF Dates, Date

(* GetNextDay goes to the next date of the calendar: a date, later, and    *)
(* with no date between.                                                   *)
THEOREM NextDayIsNext ==
    ASSUME NEW d \in Dates
    PROVE  /\ NextDay(d) \in Dates
           /\ EarlierDate(d, NextDay(d))
           /\ \A e \in Dates : EarlierDate(d, e) => \/ e = NextDay(d)
                                                   \/ EarlierDate(NextDay(d), e)
<1> DEFINE n == MonthDays(d.year, d.month)
<1>1. /\ d.year \in Nat \ {0} /\ d.month \in 1 .. 12 /\ d.day \in 1 .. 31 /\ d.day <= n
      /\ n \in 28 .. 31
  BY DateParts, MonthRange
<1>2. NextDay(d) = IF d.day < n THEN Date(d.year, d.month, d.day + 1)
                   ELSE IF d.month < 12 THEN Date(d.year, d.month + 1, 1)
                   ELSE Date(d.year + 1, 1, 1)
  BY <1>1 DEF NextDay
<1>3. NextDay(d) \in Dates
  <2>1. CASE d.day < n
    BY <1>1, <1>2, <2>1, IsDate, SMTT(20)
  <2>2. CASE d.day >= n /\ d.month < 12
    <3>1. d.month + 1 \in 1 .. 12 /\ 1 \in 1 .. MonthDays(d.year, d.month + 1)
      BY <1>1, <2>2, MonthRange
    <3>2. Date(d.year, d.month + 1, 1) \in Dates
      BY <1>1, <3>1, IsDate
    <3> QED
      BY <1>1, <1>2, <2>2, <3>2
  <2>3. CASE d.day >= n /\ d.month = 12
    BY <1>1, <1>2, <2>3, IsDate, MonthRange, SMTT(20)
  <2> QED
    BY <1>1, <2>1, <2>2, <2>3
<1>4. EarlierDate(d, NextDay(d))
  BY <1>1, <1>2 DEF EarlierDate, Date
<1>5. ASSUME NEW e \in Dates, EarlierDate(d, e), ~EarlierDate(NextDay(d), e)
      PROVE  e = NextDay(d)
  <2>1. /\ e.year \in Nat \ {0} /\ e.month \in 1 .. 12 /\ e.day \in 1 .. 31
        /\ e.day <= MonthDays(e.year, e.month) /\ e = Date(e.year, e.month, e.day)
    BY DateParts
  <2>2. CASE d.day < n
    <3>1. e.year = d.year /\ e.month = d.month /\ e.day = d.day + 1
      BY <1>1, <1>2, <1>5, <2>1, <2>2 DEF EarlierDate, Date
    <3> QED
      BY <1>2, <2>1, <2>2, <3>1
  <2>3. CASE ~(d.day < n) /\ d.month < 12
    <3>1. ~(e.year = d.year /\ e.month = d.month)
      BY <1>1, <1>5, <2>1, <2>3 DEF EarlierDate
    <3>2. e.year = d.year /\ e.month = d.month + 1 /\ e.day = 1
      BY <1>1, <1>2, <1>5, <2>1, <2>3, <3>1 DEF EarlierDate, Date
    <3> QED
      BY <1>2, <2>1, <2>3, <3>2
  <2>4. CASE ~(d.day < n) /\ d.month = 12
    <3>1. ~(e.year = d.year /\ e.month = d.month)
      BY <1>1, <1>5, <2>1, <2>4 DEF EarlierDate
    <3>2. e.year = d.year + 1 /\ e.month = 1 /\ e.day = 1
      BY <1>1, <1>2, <1>5, <2>1, <2>4, <3>1 DEF EarlierDate, Date
    <3> QED
      BY <1>2, <2>1, <2>4, <3>2
  <2> QED
    BY <1>1, <2>2, <2>3, <2>4
<1> QED
  BY <1>3, <1>4, <1>5

(* GetPrevDay undoes GetNextDay, over the ends of months, leap years and   *)
(* years.                                                                  *)
THEOREM PrevDayUndoes ==
    ASSUME NEW d \in Dates
    PROVE  PrevDay(NextDay(d)) = d
<1> DEFINE n == MonthDays(d.year, d.month)
<1>1. /\ d.year \in Nat \ {0} /\ d.month \in 1 .. 12 /\ d.day \in 1 .. 31 /\ d.day <= n
      /\ n \in 28 .. 31 /\ d = Date(d.year, d.month, d.day)
  BY DateParts, MonthRange
<1>2. CASE d.day < n
  <2>1. NextDay(d) = Date(d.year, d.month, d.day + 1)
    BY <1>1, <1>2 DEF NextDay
  <2>2. PrevDay(NextDay(d)) = Date(d.year, d.month, d.day)
    BY <1>1, <2>1 DEF PrevDay, Date
  <2> QED
    BY <1>1, <2>2
<1>3. CASE d.day = n /\ d.month < 12
  <2>1. NextDay(d) = Date(d.year, d.month + 1, 1)
    BY <1>1, <1>3 DEF NextDay
  <2>2. PrevDay(NextDay(d)) = Date(d.year, d.month, MonthDays(d.year, d.month))
    BY <1>1, <2>1 DEF PrevDay, Date
  <2> QED
    BY <1>1, <1>3, <2>2
<1>4. CASE d.day = n /\ d.month = 12
  <2>1. NextDay(d) = Date(d.year + 1, 1, 1)
    BY <1>1, <1>4 DEF NextDay
  <2>2. PrevDay(NextDay(d)) = Date(d.year, 12, 31)
    BY <1>1, <2>1 DEF PrevDay, Date
  <2>3. n = 31
    BY <1>1, <1>4 DEF MonthDays
  <2> QED
    BY <1>1, <1>4, <2>2, <2>3
<1> QED
  BY <1>1, <1>2, <1>3, <1>4

(* GetNextDay undoes GetPrevDay, and what GetPrevDay gives is a date.      *)
THEOREM NextDayUndoes ==
    ASSUME NEW d \in Dates, d # FirstDate
    PROVE  PrevDay(d) \in Dates /\ NextDay(PrevDay(d)) = d
<1>1. /\ d.year \in Nat \ {0} /\ d.month \in 1 .. 12 /\ d.day \in 1 .. 31
      /\ d.day <= MonthDays(d.year, d.month) /\ d = Date(d.year, d.month, d.day)
  BY DateParts
<1>2. CASE d.day > 1
  <2>1. PrevDay(d) = Date(d.year, d.month, d.day - 1)
    BY <1>1, <1>2 DEF PrevDay
  <2>2. d.day - 1 \in 1 .. MonthDays(d.year, d.month)
    BY <1>1, <1>2, MonthRange
  <2>3. NextDay(PrevDay(d)) = Date(d.year, d.month, d.day)
    BY <1>1, <1>2, <2>1, <2>2, MonthRange DEF NextDay, Date
  <2> QED
    BY <1>1, <2>1, <2>2, <2>3, IsDate
<1>3. CASE d.day = 1 /\ d.month > 1
  <2> DEFINE n == MonthDays(d.year, d.month - 1)
  <2>1. n \in 28 .. 31 /\ d.month - 1 \in 1 .. 12
    BY <1>1, <1>3, MonthRange
  <2>2. PrevDay(d) = Date(d.year, d.month - 1, n)
    BY <1>1, <1>3 DEF PrevDay
  <2>3. NextDay(PrevDay(d)) = Date(d.year, d.month, d.day)
    BY <1>1, <1>3, <2>1, <2>2 DEF NextDay, Date
  <2>4. Date(d.year, d.month - 1, n) \in Dates
    <3> n \in 1 .. n
      BY <2>1
    <3> QED
      BY <1>1, <2>1, IsDate
  <2> QED
    BY <1>1, <2>2, <2>3, <2>4
<1>4. CASE d.day = 1 /\ d.month = 1
  <2>1. d.year - 1 \in Nat \ {0}
    BY <1>1, <1>4 DEF FirstDate
  <2>2. PrevDay(d) = Date(d.year - 1, 12, 31)
    BY <1>1, <1>4 DEF PrevDay
  <2>3. MonthDays(d.year - 1, 12) = 31
    BY <2>1 DEF MonthDays
  <2>4. NextDay(PrevDay(d)) = Date(d.year, d.month, d.day)
    BY <1>1, <1>4, <2>1, <2>2, <2>3 DEF NextDay, Date
  <2>5. Date(d.year - 1, 12, 31) \in Dates
    <3> 31 \in 1 .. MonthDays(d.year - 1, 12) /\ 12 \in 1 .. 12
      BY <2>3
    <3> QED
      BY <2>1, IsDate
  <2> QED
    BY <1>1, <2>2, <2>4, <2>5
<1> QED
  BY <1>1, <1>2, <1>3, <1>4

-----------------------------------------------------------------------------
LEMMA ClockParts ==
    ASSUME NEW t \in Clocks
    PROVE  /\ t.date \in Dates /\ t.hour \in 0 .. 23 /\ t.minute \in 0 .. 59
           /\ t.second \in 0 .. 59 /\ t.ms \in 0 .. 999
           /\ NextDay(t.date) \in Dates
BY NextDayIsNext DEF Clocks

LEMMA ClockIs ==
    ASSUME NEW t \in Clocks
    PROVE  t = Clock(t.date, t.hour, t.minute, t.second, t.ms)
BY DEF Clocks, Clock

(* GetPrevMinute undoes GetNextMinute, over the ends of hours and days:    *)
(* GetPrevHour's setting of the minute does no harm there.                 *)
THEOREM PrevMinuteUndoes ==
    ASSUME NEW t \in Clocks
    PROVE  NextMinute(t) \in Clocks /\ PrevMinute(NextMinute(t)) = t
<1> DEFINE d == t.date
           h == t.hour
           mi == t.minute
           s == t.second
           l == t.ms
<1>1. /\ d \in Dates /\ h \in 0 .. 23 /\ mi \in 0 .. 59
      /\ s \in 0 .. 59 /\ l \in 0 .. 999
  BY ClockParts
<1>2. t = Clock(d, h, mi, s, l)
  BY ClockIs
<1>0. t.date = d /\ t.hour = h /\ t.minute = mi /\ t.second = s /\ t.ms = l
  OBVIOUS
<1> HIDE DEF d, h, mi, s, l
<1>3. CASE mi < 59
  <2>1. NextMinute(t) = Clock(d, h, mi + 1, s, l)
    BY <1>0, <1>1, <1>3 DEF NextMinute
  <2>2. PrevMinute(Clock(d, h, mi + 1, s, l)) = Clock(d, h, mi, s, l)
    BY <1>1 DEF PrevMinute, Clock
  <2>3. mi + 1 \in 0 .. 59
    BY <1>1, <1>3
  <2>4. Clock(d, h, mi + 1, s, l) \in Clocks
    BY <1>1, <2>3, SMT DEF Clock, Clocks
  <2> QED
    BY <1>2, <2>1, <2>2, <2>4, Zenon
<1>4. CASE mi = 59 /\ h < 23
  <2>1. NextMinute(t) = Clock(d, h + 1, 0, s, l)
    BY <1>0, <1>1, <1>4 DEF NextMinute, NextHour, Clock
  <2>2. PrevMinute(Clock(d, h + 1, 0, s, l)) = Clock(d, h, mi, s, l)
    BY <1>1, <1>4 DEF PrevMinute, PrevHour, Clock
  <2>3. h + 1 \in 0 .. 23 /\ 0 \in 0 .. 59
    BY <1>1, <1>4
  <2>4. Clock(d, h + 1, 0, s, l) \in Clocks
    BY <1>1, <2>3, SMT DEF Clock, Clocks
  <2> QED
    BY <1>2, <2>1, <2>2, <2>4, Zenon
<1>5. CASE mi = 59 /\ h = 23
  <2>1. NextMinute(t) = Clock(NextDay(d), 0, 0, s, l)
    BY <1>0, <1>1, <1>5 DEF NextMinute, NextHour, Clock
  <2>2. PrevDay(NextDay(d)) = d /\ NextDay(d) \in Dates
    BY <1>1, PrevDayUndoes, NextDayIsNext
  <2>3. PrevMinute(Clock(NextDay(d), 0, 0, s, l)) = Clock(d, h, mi, s, l)
    BY <1>1, <1>5, <2>2 DEF PrevMinute, PrevHour, Clock
  <2>4. Clock(NextDay(d), 0, 0, s, l) \in Clocks
    <3> 0 \in 0 .. 23 /\ 0 \in 0 .. 59
      OBVIOUS
    <3> QED
      BY <1>1, <2>2, SMT DEF Clock, Clocks
  <2> QED
    BY <1>2, <2>1, <2>3, <2>4, Zenon
<1> QED
  BY <1>1, <1>3, <1>4, <1>5

(* The addition that GetTimeList and GetTime spell out is exact for spans  *)
(* below an hour, over midnight too: one carry per field is enough.        *)
THEOREM CarryExact ==
    ASSUME NEW t \in Clocks, NEW span \in Spans
    PROVE  Carry(t, span) \in Clocks /\ Later(t, Carry(t, span), Length(span))
<1> DEFINE d == t.date
           h == t.hour
           a3 == t.minute
           a2 == t.second
           a1 == t.ms
           b3 == span.minute
           b2 == span.second
           b1 == span.ms
<1>h. d \in Dates /\ h \in 0 .. 23
  BY ClockParts
<1>1. /\ a3 \in 0 .. 59 /\ a2 \in 0 .. 59 /\ a1 \in 0 .. 999
      /\ b3 \in 0 .. 59 /\ b2 \in 0 .. 59 /\ b1 \in 0 .. 999
  BY ClockParts DEF Spans
<1> DEFINE l == a1 + b1
           s == a2 + b2 + IF l > 999 THEN 1 ELSE 0
           m == a3 + b3 + IF s > 59 THEN 1 ELSE 0
           l1 == IF l > 999 THEN l - 1000 ELSE l
           s1 == IF s > 59 THEN s - 60 ELSE s
           m1 == IF m > 59 THEN m - 60 ELSE m
           u == Clock(d, h, m1, s1, l1)
           old == (a3 * 60 + a2) * 1000 + a1
           new == (m1 * 60 + s1) * 1000 + l1
           len == (b3 * 60 + b2) * 1000 + b1
<1>2. Carry(t, span) = IF m > 59 THEN NextHour(u) ELSE u
  BY DEF Carry
<1>0. Length(span) = len /\ Since(t) = ((h * 60 + a3) * 60 + a2) * 1000 + a1 /\ t.date = d
  BY DEF Length, Since
<1> HIDE DEF d, h, a1, a2, a3, b1, b2, b3
<1>3. l \in 0 .. 1998 /\ l1 \in 0 .. 999 /\ a1 + b1 = l1 + IF l > 999 THEN 1000 ELSE 0
  BY <1>1, SMT
<1>4. l \in Int /\ s = a2 + b2 + IF l > 999 THEN 1 ELSE 0
  BY <1>1, SMT
<1> HIDE DEF l, l1
<1>5. s \in 0 .. 119 /\ s1 \in 0 .. 59 /\ s = s1 + IF s > 59 THEN 60 ELSE 0
  BY <1>1, <1>4, SMT
<1>6. m = a3 + b3 + IF s > 59 THEN 1 ELSE 0
  OBVIOUS
<1> HIDE DEF s, s1
<1>7. m \in 0 .. 119 /\ m1 \in 0 .. 59 /\ m = m1 + IF m > 59 THEN 60 ELSE 0
  BY <1>1, <1>5, <1>6, SMT
<1> HIDE DEF m, m1
<1>8. /\ Hour \in Nat /\ old \in Int /\ new \in Int /\ len \in Int
       /\ new + (IF m > 59 THEN Hour ELSE 0) = old + len
  BY <1>1, <1>3, <1>4, <1>5, <1>6, <1>7, SMT DEF Hour
<1>9. Length(span) = len /\ Since(t) = h * Hour + old
  BY <1>0, <1>1, <1>h, SMT DEF Hour
<1>10. ASSUME NEW e \in Dates, NEW g \in 0 .. 23
       PROVE  /\ Clock(e, g, m1, s1, l1) \in Clocks
              /\ Clock(e, g, m1, s1, l1).date = e
              /\ Since(Clock(e, g, m1, s1, l1)) = g * Hour + new
  <2>1. Since(Clock(e, g, m1, s1, l1)) = ((g * 60 + m1) * 60 + s1) * 1000 + l1
    BY Zenon DEF Since, Clock
  <2>2. ((g * 60 + m1) * 60 + s1) * 1000 + l1 = g * Hour + new
    BY <1>3, <1>5, <1>7, SMT DEF Hour
  <2>3. Clock(e, g, m1, s1, l1).date = e
    BY DEF Clock
  <2>4. Clock(e, g, m1, s1, l1) \in Clocks
    BY <1>3, <1>5, <1>7, SMT DEF Clock, Clocks
  <2> QED
    BY <2>1, <2>2, <2>3, <2>4, ZenonT(30)
<1> HIDE DEF old, new, len
<1>11. CASE m <= 59
  <2>1. Carry(t, span) = u
    BY <1>2, <1>7, <1>11
  <2>3. u \in Clocks /\ u.date = d /\ Since(u) = h * Hour + new
    BY <1>h, <1>10, Zenon
  <2> HIDE DEF u
  <2>2. Since(u) = Since(t) + Length(span)
    BY <1>7, <1>h, <1>8, <1>9, <1>11, <2>3, SMT
  <2> QED
    BY <1>0, <2>1, <2>2, <2>3, Zenon DEF Later
<1>12. CASE m > 59 /\ h < 23
  <2> DEFINE v == Clock(d, h + 1, m1, s1, l1)
  <2>1. Carry(t, span) = v
    BY <1>h, <1>2, <1>12 DEF NextHour, Clock
  <2>2. h + 1 \in 0 .. 23
    BY <1>h, <1>12
  <2>3. v \in Clocks /\ v.date = d /\ Since(v) = (h + 1) * Hour + new
    BY <1>h, <1>10, <2>2, Zenon
  <2> HIDE DEF v
  <2>4. Since(v) = Since(t) + Length(span)
    BY <1>h, <1>8, <1>9, <1>12, <2>3, SMT
  <2> QED
    BY <1>0, <2>1, <2>3, <2>4, Zenon DEF Later
<1>13. CASE m > 59 /\ h = 23
  <2> DEFINE v == Clock(NextDay(d), 0, m1, s1, l1)
  <2>1. Carry(t, span) = v
    BY <1>2, <1>13 DEF NextHour, Clock
  <2>2. NextDay(d) \in Dates /\ 0 \in 0 .. 23
    BY <1>h, NextDayIsNext
  <2>3. v \in Clocks /\ v.date = NextDay(d) /\ Since(v) = new
    BY <1>8, <1>10, <2>2, SMT
  <2> HIDE DEF v
  <2>4. Since(v) + Day = Since(t) + Length(span)
    BY <1>8, <1>9, <1>13, <2>3, SMT DEF Day
  <2> QED
    BY <1>0, <2>1, <2>3, <2>4, Zenon DEF Later
<1> QED
  BY <1>h, <1>7, <1>11, <1>12, <1>13

(* A frequency's span holds all of it but the hours.                       *)
LEMMA SpanHolds ==
    ASSUME NEW freq \in Nat
    PROVE  Span(freq) \in Spans /\ Length(Span(freq)) = freq % Hour
<1> DEFINE h == freq % Hour
           mi == h \div 60000
           r == freq % 60000
           se == r \div 1000
           l == freq % 1000
<1>1. h \in Nat /\ h < Hour /\ r \in Nat /\ r < 60000 /\ l \in 0 .. 999
  BY SMT DEF Hour
<1>2. mi \in 0 .. 59 /\ se \in 0 .. 59
  BY <1>1, SMT DEF Hour
<1>3. h = mi * 60000 + r
  BY SMT DEF Hour
<1>4. r = se * 1000 + l
  BY SMT DEF Hour
<1>5. Span(freq) = [minute |-> mi, second |-> se, ms |-> l]
  BY SMT DEF Span, Hour
<1> HIDE DEF h, mi, r, se, l
<1>6. Span(freq) \in Spans
  BY <1>1, <1>2, <1>5, SMT DEF Spans
<1>7. Length(Span(freq)) = h
  BY <1>1, <1>2, <1>3, <1>4, <1>5, SMT DEF Length
<1> QED
  BY <1>6, <1>7, SMT DEF h, Hour

(* A session's time is followed by the one freq later, if freq is below an *)
(* hour; otherwise the hours are missing (CTargetCtrl.cpp:130, 206-211).   *)
THEOREM TimesApart ==
    ASSUME NEW t \in Clocks, NEW freq \in Nat
    PROVE  /\ Carry(t, Span(freq)) \in Clocks
           /\ Later(t, Carry(t, Span(freq)), freq % Hour)
BY CarryExact, SpanHolds

(* With a frequency of whole hours the next time is the same time: the     *)
(* loop that lays out the session never leaves it (199-212).               *)
THEOREM WholeHoursStandStill ==
    ASSUME NEW t \in Clocks, NEW freq \in Nat, freq % Hour = 0
    PROVE  Carry(t, Span(freq)) = t
<1>1. /\ t.hour \in 0 .. 23 /\ t.minute \in 0 .. 59
      /\ t.second \in 0 .. 59 /\ t.ms \in 0 .. 999
  BY ClockParts
<1>2. freq % 60000 = 0 /\ freq % 1000 = 0
  BY SMT DEF Hour
<1>3. Span(freq) = [minute |-> 0, second |-> 0, ms |-> 0]
  BY <1>2, SMT DEF Span, Hour
<1>4. Carry(t, Span(freq)) = Clock(t.date, t.hour, t.minute, t.second, t.ms)
  BY <1>1, <1>3, SMTT(20) DEF Carry
<1> QED
  BY <1>4, ClockIs

(* The network time is exact for an hour after the last answer of an NTP   *)
(* server ...                                                              *)
THEOREM NetTimeExact ==
    ASSUME NEW t \in Clocks, NEW k \in Nat, k < Hour
    PROVE  NetTime(t, k) \in Clocks /\ Later(t, NetTime(t, k), k)
<1>1. Elapsed(k) = Span(k)
  BY SMT DEF Elapsed, Span, Hour
<1>2. k % Hour = k
  BY SMT DEF Hour
<1> QED
  BY <1>1, <1>2, CarryExact, SpanHolds, SMT DEF NetTime

(* ... and after two hours it is no time of day any more: one hour is      *)
(* carried, the others stay in the minutes (CHtpSystem.cpp:285-286).       *)
THEOREM NetTimeBreaks ==
    ASSUME NEW t \in Clocks, NEW k \in Nat, k >= 2 * Hour
    PROVE  NetTime(t, k).minute > 59
<1>1. /\ t.hour \in 0 .. 23 /\ t.minute \in 0 .. 59
      /\ t.second \in 0 .. 59 /\ t.ms \in 0 .. 999
  BY ClockParts
<1>2. /\ k \div 60000 \in Nat /\ k \div 60000 >= 120
      /\ (k % 60000) \div 1000 \in Nat /\ k % 1000 \in Nat
  BY SMT DEF Hour
<1> DEFINE l == t.ms + Elapsed(k).ms
           s == t.second + Elapsed(k).second + IF l > 999 THEN 1 ELSE 0
           m == t.minute + Elapsed(k).minute + IF s > 59 THEN 1 ELSE 0
           u == Clock(t.date, t.hour, m - 60, IF s > 59 THEN s - 60 ELSE s,
                      IF l > 999 THEN l - 1000 ELSE l)
<1>3. m \in Int /\ m - 60 > 59
  BY <1>1, <1>2, SMT DEF Elapsed
<1>4. NetTime(t, k) = NextHour(u)
  <2>1. NetTime(t, k) = IF m > 59
                        THEN NextHour(Clock(t.date, t.hour, IF m > 59 THEN m - 60 ELSE m,
                                            IF s > 59 THEN s - 60 ELSE s,
                                            IF l > 999 THEN l - 1000 ELSE l))
                        ELSE Clock(t.date, t.hour, IF m > 59 THEN m - 60 ELSE m,
                                   IF s > 59 THEN s - 60 ELSE s,
                                   IF l > 999 THEN l - 1000 ELSE l)
    BY DEF NetTime, Carry
  <2>2. m > 59
    BY <1>3
  <2> HIDE DEF l, s, m
  <2> QED
    BY <2>1, <2>2
<1>5. NextHour(u).minute = m - 60
  BY DEF NextHour, Clock
<1> QED
  BY <1>3, <1>4, <1>5

-----------------------------------------------------------------------------
LEMMA SinceBounds ==
    ASSUME NEW t \in Clocks
    PROVE  /\ Since(t) \in Nat
           /\ Since(t) >= t.hour * Hour
           /\ Since(t) < t.hour * Hour + Hour
<1> DEFINE h == t.hour
           mi == t.minute
           s == t.second
           l == t.ms
<1>1. h \in 0 .. 23 /\ mi \in 0 .. 59 /\ s \in 0 .. 59 /\ l \in 0 .. 999
  BY ClockParts
<1>2. Since(t) = ((h * 60 + mi) * 60 + s) * 1000 + l
  BY DEF Since
<1> HIDE DEF h, mi, s, l
<1>3. /\ ((h * 60 + mi) * 60 + s) * 1000 + l \in Nat
      /\ ((h * 60 + mi) * 60 + s) * 1000 + l >= h * Hour
      /\ ((h * 60 + mi) * 60 + s) * 1000 + l < h * Hour + Hour
  BY <1>1, SMT DEF Hour
<1> QED
  BY <1>2, <1>3 DEF h

(* TimeStand: once there are a network time and a trading day, a tick not  *)
(* more than an hour from the time the NTP server gave last is taken, and  *)
(* dated right, whichever of the two is past midnight; before, none is.    *)
THEOREM TicksDatedRight ==
    ASSUME NEW nature \in Clocks, NEW trading \in [year : Nat, month : Nat, day : Nat],
           NEW tick \in Clocks, NEW k \in Nat, k <= Hour,
           Later(nature, tick, k) \/ Later(tick, nature, k)
    PROVE  /\ Stands(nature, trading, tick.hour) <=>
                 nature.date.year >= 2000 /\ trading.year >= 2000
           /\ StandDate(nature, tick.hour) = tick.date
<1>1. /\ nature.hour \in 0 .. 23 /\ tick.hour \in 0 .. 23
      /\ nature.date \in Dates /\ tick.date \in Dates
  BY ClockParts, SMT
<1>2. ASSUME NEW t \in Clocks, NEW u \in Clocks
      PROVE  /\ Since(u) = Since(t) + k => u.hour - t.hour \in {0, 1}
             /\ Since(u) + Day = Since(t) + k => u.hour - t.hour = -23
  <2>1. /\ t.hour \in 0 .. 23 /\ u.hour \in 0 .. 23
    BY ClockParts, SMT
  <2>2. /\ Since(t) \in Nat /\ Since(u) \in Nat
        /\ Since(t) >= t.hour * Hour /\ Since(t) < t.hour * Hour + Hour
        /\ Since(u) >= u.hour * Hour /\ Since(u) < u.hour * Hour + Hour
    BY SinceBounds, SMT
  <2> QED
    BY <2>1, <2>2, SMT DEF Hour, Day
<1>3. CASE Later(nature, tick, k)
  <2>1. \/ tick.date = nature.date /\ tick.hour - nature.hour \in {0, 1}
        \/ tick.date = NextDay(nature.date) /\ tick.hour - nature.hour = -23
    BY <1>2, <1>3, SMT DEF Later
  <2> QED
    BY <1>1, <2>1, SMT DEF Stands, StandDate
<1>4. CASE Later(tick, nature, k)
  <2>1. \/ tick.date = nature.date /\ nature.hour - tick.hour \in {0, 1}
        \/ nature.date = NextDay(tick.date) /\ nature.hour - tick.hour = -23
    BY <1>2, <1>4, SMT DEF Later
  <2>2. PrevDay(NextDay(tick.date)) = tick.date
    BY <1>1, PrevDayUndoes, SMT
  <2>3. \/ tick.date = nature.date /\ tick.hour - nature.hour \in {-1, 0}
        \/ tick.date = PrevDay(nature.date) /\ tick.hour - nature.hour = 23
    BY <1>1, <2>1, <2>2, SMT
  <2> QED
    BY <1>1, <2>3, SMT DEF Stands, StandDate
<1> QED
  BY <1>3, <1>4, SMT

-----------------------------------------------------------------------------
LEMMA EarlierTotal ==
    ASSUME NEW a \in Dates, NEW b \in Dates, ~EarlierDate(a, b), ~EarlierDate(b, a)
    PROVE  a = b
<1>1. /\ a.year \in Nat \ {0} /\ a.month \in 1 .. 12 /\ a.day \in 1 .. 31
      /\ a = Date(a.year, a.month, a.day)
  BY DateParts
<1>2. /\ b.year \in Nat \ {0} /\ b.month \in 1 .. 12 /\ b.day \in 1 .. 31
      /\ b = Date(b.year, b.month, b.day)
  BY DateParts
<1>3. a.year = b.year /\ a.month = b.month /\ a.day = b.day
  BY <1>1, <1>2 DEF EarlierDate
<1> QED
  BY <1>1, <1>2, <1>3

(* The dates given to a night session, to the hours after midnight and to  *)
(* the day's sessions are in this order at any time up to the trading day: *)
(* the modes, which go through the times by index, rely on it.             *)
THEOREM SessionsInOrder ==
    ASSUME NEW now \in Clocks, now.date # FirstDate, NEW day \in Dates,
           ~EarlierDate(day, now.date),
           NEW night \in 21 .. 23, NEW small \in 0 .. 5, NEW light \in 6 .. 20
    PROVE  /\ NextDay(SessionDate(night, now, day)) = SessionDate(small, now, day)
           /\ \/ SessionDate(small, now, day) = SessionDate(light, now, day)
              \/ EarlierDate(SessionDate(small, now, day), SessionDate(light, now, day))
<1>1. /\ now.date \in Dates /\ now.hour \in 0 .. 23
      /\ NextDay(PrevDay(now.date)) = now.date
  BY ClockParts, NextDayUndoes
<1>2. CASE Eve(now, day) /\ now.hour >= 6
  BY <1>1, <1>2, NextDayIsNext DEF SessionDate, Eve
<1>3. CASE Eve(now, day) /\ ~(now.hour >= 6)
  BY <1>1, <1>3 DEF SessionDate, Eve
<1>4. CASE ~Eve(now, day)
  <2>1. now.date = day
    BY <1>1, <1>4, EarlierTotal DEF Eve
  <2> QED
    BY <1>1, <1>4, <2>1 DEF SessionDate
<1> QED
  BY <1>2, <1>3, <1>4

(* The call auction before a night session is dated like the session, but  *)
(* for plans made after the midnight that follows it while the trading day *)
(* is still to come, as on a Saturday morning: then it is dated a day too  *)
(* late (114-117, against 142-149).                                        *)
THEOREM AuctionDated ==
    ASSUME NEW now \in Clocks, now.date # FirstDate, NEW day \in Dates,
           NEW hours, NEW night \in 21 .. 23
    PROVE  Auction(hours, now, day).date =
               IF Eve(now, day) /\ now.hour < 6
               THEN NextDay(SessionDate(night, now, day))
               ELSE SessionDate(night, now, day)
<1>1. now.hour \in 0 .. 23 /\ NextDay(PrevDay(now.date)) = now.date
  BY ClockParts, NextDayUndoes
<1>2. Auction(hours, now, day).date = IF Eve(now, day) THEN now.date ELSE PrevDay(now.date)
  BY DEF Auction
<1>3. SessionDate(night, now, day) =
         IF Eve(now, day) /\ now.hour >= 6 THEN now.date ELSE PrevDay(now.date)
  BY DEF SessionDate
<1> QED
  BY <1>1, <1>2, <1>3

-----------------------------------------------------------------------------
(* The plan in use.                                                        *)

(* What the steps keep of the buffers and of who uses them.                *)
BufferInv ==
    /\ cur \in 0 .. Buffers - 1
    /\ buf = [b \in 0 .. Buffers - 1 |-> buf[b]]
    /\ wk = [w \in Workers |-> wk[w]]

(* The next buffer is one of them and not the one in use.                  *)
LEMMA NextIsOther ==
    ASSUME NEW b \in 0 .. Buffers - 1
    PROVE  NextBuffer(b) \in 0 .. Buffers - 1 /\ NextBuffer(b) # b
<1>1. Buffers \in Nat /\ Buffers > 1 /\ b \in Int /\ 0 <= b /\ b < Buffers
  BY PlanAssumption
<1>2. CASE b + 1 < Buffers
  <2>1. (b + 1) % Buffers = b + 1
    BY <1>1, <1>2
  <2> QED
    BY <1>1, <1>2, <2>1 DEF NextBuffer
<1>3. CASE b + 1 = Buffers
  <2>1. Buffers % Buffers = 0
    BY <1>1
  <2> QED
    BY <1>1, <1>3, <2>1 DEF NextBuffer
<1> QED
  BY <1>1, <1>2, <1>3

LEMMA BufferInit == Init => BufferInv
<1>1. 0 \in 0 .. Buffers - 1
  BY PlanAssumption
<1> QED
  BY <1>1 DEF Init, BufferInv

LEMMA BufferNext == BufferInv /\ [Next]_vars => BufferInv'
<1> SUFFICES ASSUME BufferInv, [Next]_vars
             PROVE  BufferInv'
  OBVIOUS
<1>1. CASE CheckOut
  BY <1>1, NextIsOther DEF CheckOut, BufferInv
<1>2. CASE \/ TimePasses \/ Publish \/ LoadNew \/ CreateTurn \/ CreateEnd \/ Execute
           \/ UNCHANGED vars
  <2>1. /\ UNCHANGED cur
        /\ UNCHANGED buf \/ \E b, x : buf' = [buf EXCEPT ![b] = x]
        /\ UNCHANGED wk \/ \E w, x : wk' = [wk EXCEPT ![w] = x]
    BY <1>2, Zenon DEF TimePasses, Publish, LoadNew, CreateTurn, CreateEnd, Execute, Tick,
                GetTarget, TargetWay, PopTarget, vars
  <2>2. buf' = [b \in 0 .. Buffers - 1 |-> buf'[b]]
    BY <2>1 DEF BufferInv
  <2>3. wk' = [w \in Workers |-> wk'[w]]
    BY <2>1 DEF BufferInv
  <2> QED
    BY <2>1, <2>2, <2>3 DEF BufferInv
<1> QED
  BY <1>1, <1>2 DEF Next, LoadTarget

(* LoadNew and CreateEnd write the next buffer only; CheckOut changes the  *)
(* one in use, and what a worker takes or pops moves the worker.           *)
LEMMA StepUntouched ==
    ASSUME BufferInv, [Next]_vars, wk' = wk, cur' = cur
    PROVE  buf'[cur] = Plan
<1>1. NextBuffer(cur) # cur /\ NextBuffer(cur) \in 0 .. Buffers - 1
  BY NextIsOther DEF BufferInv
<1>2. CASE LoadNew \/ CreateEnd
  <2>1. PICK x : buf' = [buf EXCEPT ![NextBuffer(cur)] = x]
    BY <1>2, Zenon DEF LoadNew, CreateEnd
  <2> QED
    BY <1>1, <2>1 DEF BufferInv, Plan
<1>3. CASE CheckOut
  BY <1>1, <1>3 DEF CheckOut
<1>4. ASSUME NEW w \in Workers, GetTarget(w) \/ PopTarget(w)
      PROVE  FALSE
  <2>1. wk[w].pc # wk'[w].pc
    <3>1. wk[w].pc \in {"tick", "pop"}
      BY <1>4 DEF GetTarget, PopTarget
    <3>2. PICK x : wk' = [wk EXCEPT ![w] = x] /\ x.pc \in {"idle", "got"}
      <4>1. Idle.pc = "idle"
        BY DEF Idle
      <4>2. CASE wk' = [wk EXCEPT ![w] = Idle]
        BY <4>1, <4>2
      <4>3. ASSUME NEW t, NEW s, NEW p,
                   wk' = [wk EXCEPT ![w] = [pc |-> "got", time |-> t, slot |-> s, plan |-> p]]
            PROVE  \E x : wk' = [wk EXCEPT ![w] = x] /\ x.pc \in {"idle", "got"}
        <5>1. PICK x : x = [pc |-> "got", time |-> t, slot |-> s, plan |-> p]
          OBVIOUS
        <5>2. x.pc = "got"
          BY <5>1
        <5>3. wk' = [wk EXCEPT ![w] = x]
          BY <4>3, <5>1, Zenon
        <5> QED
          BY <5>2, <5>3
      <4> QED
        BY <1>4, <4>2, <4>3, Zenon DEF GetTarget, PopTarget
    <3> QED
      BY <3>1, <3>2 DEF BufferInv
  <2> QED
    BY <2>1
<1>5. CASE UNCHANGED buf
  BY <1>5 DEF Plan
<1> QED
  BY <1>2, <1>3, <1>4, <1>5
     DEF Next, TimePasses, Publish, LoadTarget, CreateTurn, Execute, Tick, TargetWay, vars

(* Until CheckOut the plan in use changes by what the workers take from it *)
(* only, although LoadTarget clears and fills a buffer step by step while  *)
(* GetTarget and PopTarget go on: the buffers are at least two.            *)
THEOREM CurrentUntouchedAlways == Spec => CurrentUntouched
<1>1. BufferInv /\ [Next]_vars => [wk' = wk /\ cur' = cur => buf'[cur] = Plan]_<<buf, cur, wk>>
  BY StepUntouched
<1> QED
  BY <1>1, BufferInit, BufferNext, PTL DEF Spec, CurrentUntouched

-----------------------------------------------------------------------------
(* The times of a plan (GetTimeList).                                      *)

(* The least of any natural numbers, ...                                   *)
LEMMA LeastNat ==
    ASSUME NEW S, S \subseteq Nat, S # {}
    PROVE  Min(S) \in S /\ \A y \in S : Min(S) <= y
<1> SUFFICES \E x \in S : \A y \in S : x <= y
  BY DEF Min
<1> SUFFICES ASSUME \A x \in S : \E y \in S : y < x
             PROVE  FALSE
  OBVIOUS
<1> DEFINE T == {n \in Nat : \A k \in 0 .. n : k \notin S}
<1>1. 0 \in T
  OBVIOUS
<1>2. \A n \in Nat : n \in T => n + 1 \in T
  <2> SUFFICES ASSUME NEW n \in Nat, n \in T
               PROVE  n + 1 \in T
    OBVIOUS
  <2>1. n + 1 \notin S
    <3> SUFFICES ASSUME n + 1 \in S
                 PROVE  FALSE
      OBVIOUS
    <3>1. PICK y \in S : y < n + 1
      OBVIOUS
    <3> QED
      BY <3>1
  <2> QED
    BY <2>1
<1> HIDE DEF T
<1>3. Nat \subseteq T
  BY <1>1, <1>2, NatSets, Zenon
<1>4. \A n \in Nat : n \notin S
  BY <1>3 DEF T
<1> QED
  BY <1>4

(* ... and, of some of a sequence's, the greatest.                         *)
LEMMA GreatestOf ==
    ASSUME NEW n \in Nat, NEW day \in [1 .. n -> Nat], NEW I \in SUBSET (1 .. n), I # {}
    PROVE  \E i \in I : \A j \in I : day[j] <= day[i]
<1> DEFINE Top(K) == \E i \in K : \A j \in K : day[j] <= day[i]
           T == {k \in Nat : \A K \in SUBSET (1 .. n) : K \subseteq 1 .. k /\ K # {} => Top(K)}
<1>1. 0 \in T
  <2>1. \A K : K \subseteq 1 .. 0 => K = {}
    OBVIOUS
  <2> HIDE DEF Top
  <2> QED
    BY <2>1
<1>2. ASSUME NEW k \in Nat, k \in T
      PROVE  k + 1 \in T
  <2>1. \A K \in SUBSET (1 .. n) : K \subseteq 1 .. k /\ K # {} => Top(K)
    <3> HIDE DEF Top
    <3> QED
      BY <1>2
  <2>2. ASSUME NEW K \in SUBSET (1 .. n), K \subseteq 1 .. k + 1, K # {}
        PROVE  Top(K)
    <3> DEFINE L == K \ {k + 1}
    <3>1. L \subseteq 1 .. k
      <4> SUFFICES ASSUME NEW x \in L
                   PROVE  x \in 1 .. k
        OBVIOUS
      <4>1. x \in 1 .. k + 1 /\ x # k + 1
        BY <2>2
      <4> QED
        BY ONLY <4>1, k \in Nat
    <3>2. \A j \in K : day[j] \in Nat
      OBVIOUS
    <3>3. CASE k + 1 \notin K
      <4>1. L = K
        BY <3>3
      <4> HIDE DEF Top, L
      <4> QED
        BY <2>1, <2>2, <3>1, <4>1
    <3>4. CASE L = {} /\ k + 1 \in K
      <4>1. \A j \in K : j = k + 1
        BY <3>4
      <4> QED
        BY <3>2, <3>4, <4>1
    <3>5. CASE L # {} /\ k + 1 \in K
      <4>1. L \in SUBSET (1 .. n)
        OBVIOUS
      <4>2. Top(L)
        <5> HIDE DEF Top, L
        <5> QED
          BY <2>1, <3>1, <3>5, <4>1
      <4>3. PICK i \in L : \A j \in L : day[j] <= day[i]
        BY <4>2
      <4>4. i \in K /\ \A j \in K : j = k + 1 \/ day[j] <= day[i]
        BY <4>3
      <4>5. PICK x \in Nat, y \in Nat : x = day[i] /\ y = day[k + 1]
        BY <3>2, <3>5, <4>4
      <4>6. CASE y <= x
        <5>1. \A j \in K : day[j] <= day[i]
          BY ONLY <4>4, <4>5, <4>6
        <5> QED
          BY <4>4, <5>1
      <4>7. CASE ~(y <= x)
        <5>1. \A j \in K : day[j] <= day[k + 1]
          BY ONLY <3>2, <4>4, <4>5, <4>7, x \in Nat, y \in Nat
        <5> QED
          BY <3>5, <5>1
      <4> QED
        BY <4>6, <4>7
    <3> QED
      BY <3>3, <3>4, <3>5
  <2> HIDE DEF Top
  <2> QED
    BY <2>2
<1> HIDE DEF T
<1>3. n \in T
  <2>1. \A k \in Nat : k \in T => k + 1 \in T
    BY <1>2
  <2> QED
    BY <1>1, <2>1, NatSets
<1> HIDE DEF Top
<1>4. Top(I)
  BY <1>3 DEF T
<1> QED
  BY <1>4 DEF Top

LEMMA GreatestNat ==
    ASSUME NEW n \in Nat, NEW I \in SUBSET (1 .. n), I # {}
    PROVE  Max(I) \in I
<1>1. PICK f \in [1 .. n -> Nat] : \A i \in 1 .. n : f[i] = i
  <2>1. [i \in 1 .. n |-> i] \in [1 .. n -> Nat]
    OBVIOUS
  <2> QED
    BY <2>1
<1>2. \E i \in I : \A j \in I : f[j] <= f[i]
  BY GreatestOf, Zenon
<1> QED
  BY <1>1, <1>2 DEF Max

LEMMA IndicesFinite ==
    ASSUME NEW n \in Nat, NEW I \in SUBSET (1 .. n)
    PROVE  IsFiniteSet(I) /\ Cardinality(I) \in Nat
<1>1. IsFiniteSet(1 .. n)
  BY FS_Interval
<1>2. IsFiniteSet(I)
  BY <1>1, FS_Subset
<1> QED
  BY <1>2, FS_CardinalityType

(* Times in order.                                                         *)
InTime(s) == \A i, j \in 1 .. Len(s) : i <= j => s[i] <= s[j]

(* The list that GetTimeList sorts is in order, whichever times were       *)
(* chosen and whatever their order in the day.                             *)
LEMMA InOrderIs ==
    ASSUME NEW day \in Seq(Nat), NEW I \in SUBSET (1 .. Len(day)), NEW J \in SUBSET (1 .. Len(day))
    PROVE  InOrder(day, I, J) \in Seq(Nat) /\ InTime(InOrder(day, I, J))
<1> DEFINE Until(t) == Cardinality({i \in I : day[i] <= t}) + Cardinality({j \in J : day[j] <= t})
           n    == Cardinality(I) + Cardinality(J)
           S(k) == {t \in {day[i] : i \in I \cup J} : Until(t) >= k}
           s    == [k \in 1 .. n |-> Min(S(k))]
<1>1. InOrder(day, I, J) = s
  BY DEF InOrder
<1>0. day \in [1 .. Len(day) -> Nat] /\ Len(day) \in Nat
  OBVIOUS
<1>2. Cardinality(I) \in Nat /\ Cardinality(J) \in Nat /\ n \in Nat
  <2>1. Cardinality(I) \in Nat /\ Cardinality(J) \in Nat
    BY <1>0, IndicesFinite, Zenon
  <2> QED
    BY <2>1
<1>3. \A t \in Nat : Until(t) \in Nat
  <2> SUFFICES ASSUME NEW t \in Nat
               PROVE  Until(t) \in Nat
    OBVIOUS
  <2>1. /\ {i \in I : day[i] <= t} \in SUBSET (1 .. Len(day))
        /\ {j \in J : day[j] <= t} \in SUBSET (1 .. Len(day))
    OBVIOUS
  <2>2. /\ Cardinality({i \in I : day[i] <= t}) \in Nat
        /\ Cardinality({j \in J : day[j] <= t}) \in Nat
    BY <1>0, <2>1, IndicesFinite, Zenon
  <2> QED
    BY <2>2
<1>4. ASSUME NEW k \in 1 .. n
      PROVE  S(k) \subseteq Nat /\ S(k) # {}
  <2>1. S(k) \subseteq Nat
    BY <1>0
  <2>2. I \cup J # {}
    <3>1. Cardinality({}) = 0
      BY FS_EmptySet
    <3> SUFFICES ASSUME I = {}, J = {}
                 PROVE  FALSE
      OBVIOUS
    <3>2. n = 0
      BY <3>1
    <3> QED
      BY <3>2
  <2>3. PICK m \in I \cup J : \A j \in I \cup J : day[j] <= day[m]
    <3>1. I \cup J \in SUBSET (1 .. Len(day))
      OBVIOUS
    <3> QED
      BY <1>0, <2>2, <3>1, GreatestOf, Zenon
  <2>4. {i \in I : day[i] <= day[m]} = I /\ {j \in J : day[j] <= day[m]} = J
    BY <2>3
  <2>5. Until(day[m]) = n
    BY <2>4, Zenon
  <2>6. Until(day[m]) >= k
    BY ONLY <1>2, <2>5, k \in 1 .. n
  <2>7. day[m] \in {day[i] : i \in I \cup J}
    OBVIOUS
  <2>8. day[m] \in S(k)
    <3> HIDE DEF Until
    <3> QED
      BY <2>6, <2>7
  <2> QED
    BY <2>1, <2>8, Zenon
<1>5. ASSUME NEW k \in 1 .. n
      PROVE  Min(S(k)) \in S(k) /\ \A y \in S(k) : Min(S(k)) <= y
  <2> HIDE DEF S, n
  <2> QED
    BY <1>4, <1>5, LeastNat, Zenon
<1>6. \A k \in 1 .. n : Min(S(k)) \in Nat
  BY <1>4, <1>5, Zenon
<1>7. s \in [1 .. n -> Nat]
  <2> HIDE DEF S, n
  <2> QED
    BY <1>6
<1>8. s \in Seq(Nat) /\ Len(s) = n
  <2> HIDE DEF s, n
  <2> QED
    BY <1>2, <1>7
<1>9. ASSUME NEW i \in 1 .. n, NEW j \in 1 .. n, i <= j
      PROVE  s[i] <= s[j]
  <2>1. Min(S(j)) \in S(j)
    BY <1>5, Zenon
  <2>2. Min(S(j)) \in Nat /\ Min(S(j)) \in {day[x] : x \in I \cup J} /\ Until(Min(S(j))) >= j
    BY <1>6, <2>1
  <2>3. \A u \in Nat : u >= j => u >= i
    BY <1>2, <1>9
  <2>4. Until(Min(S(j))) >= i
    BY <1>3, <2>2, <2>3, Zenon
  <2>5. Min(S(j)) \in S(i)
    BY <2>2, <2>4
  <2> HIDE DEF S, n
  <2>6. Min(S(i)) <= Min(S(j))
    BY <1>5, <2>5, Zenon
  <2> QED
    BY <2>6
<1> HIDE DEF s, n
<1> QED
  BY <1>1, <1>8, <1>9 DEF InTime

(* GetTimeList gives times in order, whatever the modes.                   *)
LEMMA TimeListIs ==
    ASSUME NEW day \in Seq(Nat), NEW mode \in Modes, NEW now \in Nat
    PROVE  TimeList(day, mode, now) \in Seq(Nat) /\ InTime(TimeList(day, mode, now))
<1> DEFINE open  == 2 .. OpenEnd(day, mode)
           next  == OpenEnd(day, mode) + 1
           all   == IF mode.twapAD THEN Ahead(day, next, now) ELSE {}
           next2 == IF mode.twapAD THEN Len(day) + 1 ELSE next
           some  == FirstOf(Ahead(day, next2, now), mode.twapK)
           next3 == IF mode.twapK = 0 THEN next2
                    ELSE IF Cardinality(some) < mode.twapK THEN Len(day) + 1
                    ELSE Max(some)
           close == Greater(Len(day) - mode.closeK + 1, next3) .. Len(day)
           first == (IF mode.preOpen THEN {1} ELSE {}) \cup open \cup all \cup some
<1>1. TimeList(day, mode, now) = IF day = <<>> THEN <<>> ELSE InOrder(day, first, close)
  BY DEF TimeList
<1>2. PICK n \in Nat : n = Len(day)
  OBVIOUS
<1>3. /\ mode.preOpen \in BOOLEAN /\ mode.openK \in Nat /\ mode.twapAD \in BOOLEAN
      /\ mode.twapK \in Nat /\ mode.closeK \in Nat
  BY DEF Modes
<1>4. CASE day = <<>>
  BY <1>1, <1>4 DEF InTime
<1>5. CASE day # <<>>
  <2>1. n > 0
    BY <1>2, <1>5
  <2>2. OpenEnd(day, mode) \in 1 .. n
    BY <1>2, <1>3, <2>1 DEF OpenEnd, Greater, Lesser
  <2>3. next \in Nat /\ next > 1 /\ next2 \in Nat /\ next2 > 1
    BY <1>2, <2>1, <2>2
  <2>4. open \in SUBSET (1 .. n) /\ (IF mode.preOpen THEN {1} ELSE {}) \in SUBSET (1 .. n)
    BY <2>1, <2>2
  <2> HIDE DEF next, next2
  <2>5. \A i \in Nat \ {0} : Ahead(day, i, now) \in SUBSET (1 .. n)
    BY <1>2 DEF Ahead
  <2>6. all \in SUBSET (1 .. n) /\ Ahead(day, next2, now) \in SUBSET (1 .. n)
    BY <2>3, <2>5
  <2>7. some \in SUBSET (1 .. n)
    BY <2>6 DEF FirstOf
  <2> HIDE DEF some
  <2>8. mode.twapK # 0 /\ ~(Cardinality(some) < mode.twapK) => Max(some) \in 1 .. n
    <3> SUFFICES ASSUME mode.twapK # 0, ~(Cardinality(some) < mode.twapK)
                 PROVE  Max(some) \in 1 .. n
      OBVIOUS
    <3>1. some # {}
      <4>1. Cardinality({}) = 0
        BY FS_EmptySet
      <4> SUFFICES ASSUME some = {}
                   PROVE  FALSE
        OBVIOUS
      <4>2. Cardinality(some) = 0
        BY <4>1
      <4> QED
        BY <1>3, <4>2
    <3>2. Max(some) \in some
      BY <2>7, <3>1, GreatestNat, Zenon
    <3> QED
      BY <2>7, <3>2
  <2>9. next3 \in Nat /\ next3 >= 1
    BY <1>2, <2>3, <2>8
  <2> HIDE DEF next3
  <2>10. close \in SUBSET (1 .. n)
    BY <1>2, <1>3, <2>9 DEF Greater
  <2> HIDE DEF open, all, close
  <2>11. first \in SUBSET (1 .. Len(day)) /\ close \in SUBSET (1 .. Len(day))
    BY <1>2, <2>4, <2>6, <2>7, <2>10
  <2> HIDE DEF first
  <2> QED
    BY <1>1, <1>5, <2>11, InOrderIs, Zenon
<1> QED
  BY <1>4, <1>5

LEMMA Quotient ==
    ASSUME NEW x \in Nat, NEW y \in Nat \ {0}
    PROVE  /\ x \div y \in Nat /\ (x \div y) * y <= x /\ x < (x \div y) * y + y
OBVIOUS

LEMMA ProductOrder ==
    ASSUME NEW x \in Int, NEW y \in Int, NEW z \in Nat, x <= y
    PROVE  x * z <= y * z
OBVIOUS

LEMMA ProductLess ==
    ASSUME NEW x \in Int, NEW y \in Int, NEW z \in Nat, x * z < y * z
    PROVE  x < y
<1> SUFFICES ASSUME y <= x
             PROVE  FALSE
  OBVIOUS
<1>1. y * z <= x * z
  BY ProductOrder
<1> QED
  BY <1>1

LEMMA Twice == \A x \in Nat, y \in Nat \ {0} : x * (2 * y) = 2 * (x * y)
<1> SUFFICES ASSUME NEW x \in Nat, NEW y \in Nat
             PROVE  x * (2 * y) = 2 * (x * y)
  OBVIOUS
<1> QED
  OBVIOUS

(* One turn's arithmetic, with d lots to trade at n times, of which m are  *)
(* traded after i: a is what is left over, the first lot traded ahead set  *)
(* aside where there are fewer lots than times.                            *)
LeadAt(i, d, n) == IF i > 0 /\ d < n THEN 1 ELSE 0

VolumeAt(i, d, n, a, v) == a + 2 * d + (IF i + 1 = n THEN v * n ELSE 0)

LotsAt(i, d, n, a, v) ==
    IF VolumeAt(i, d, n, a, v) >= 2 * n THEN VolumeAt(i, d, n, a, v) \div (2 * n)
    ELSE IF i = 0 THEN 1 ELSE 0

LeftAt(i, d, n, a, v) ==
    IF VolumeAt(i, d, n, a, v) < 2 * n /\ i = 0 THEN 0
    ELSE a + 2 * d - LotsAt(i, d, n, a, v) * (2 * n)

OnLineAt(i, d, n, m, a) ==
    /\ a = 2 * ((i - LeadAt(i, d, n)) * d - (m - LeadAt(i, d, n)) * n)
    /\ 0 <= a /\ a < 2 * n

LEMMA TurnMoves ==
    ASSUME NEW n \in Nat \ {0}, NEW d \in Nat \ {0}, NEW i \in Nat, i < n,
           NEW m \in Nat, m <= d, NEW a \in Nat, NEW v \in Nat,
           OnLineAt(i, d, n, m, a), i = 0 => m = 0 /\ a = 0
    PROVE  /\ LotsAt(i, d, n, a, v) \in Nat /\ LeftAt(i, d, n, a, v) \in Int
           /\ i = 0 => LotsAt(i, d, n, a, v) > 0
           /\ i + 1 < n => /\ m + LotsAt(i, d, n, a, v) <= d
                           /\ OnLineAt(i + 1, d, n, m + LotsAt(i, d, n, a, v),
                                       LeftAt(i, d, n, a, v))
           /\ i + 1 = n => m + LotsAt(i, d, n, a, v) >= d
<1> DEFINE lead  == LeadAt(i, d, n)
           lead2 == LeadAt(i + 1, d, n)
           V     == VolumeAt(i, d, n, a, v)
           lots  == LotsAt(i, d, n, a, v)
           left  == LeftAt(i, d, n, a, v)
<1> SUFFICES /\ lots \in Nat /\ left \in Int /\ (i = 0 => lots > 0)
             /\ i + 1 < n => /\ m + lots <= d
                             /\ left = 2 * (((i + 1) - lead2) * d - ((m + lots) - lead2) * n)
                             /\ 0 <= left /\ left < 2 * n
             /\ i + 1 = n => m + lots >= d
  BY Zenon DEF OnLineAt
<1> a < 2 * n /\ a = 2 * ((i - lead) * d - (m - lead) * n)
  BY DEF OnLineAt
<1> lead \in {0, 1} /\ lead = IF i > 0 /\ d < n THEN 1 ELSE 0
  BY DEF LeadAt
<1> lead2 = IF d < n THEN 1 ELSE 0
  BY DEF LeadAt
<1> V = a + 2 * d + (IF i + 1 = n THEN v * n ELSE 0)
  BY DEF VolumeAt
<1> lots = IF V >= 2 * n THEN V \div (2 * n) ELSE IF i = 0 THEN 1 ELSE 0
  BY DEF LotsAt
<1> left = IF V < 2 * n /\ i = 0 THEN 0 ELSE a + 2 * d - lots * (2 * n)
  BY DEF LeftAt
<1> HIDE DEF lead, lead2, V, lots, left
<1>1. PICK p \in Int : p = i * d
  OBVIOUS
<1>2. PICK q \in Int : q = m * n
  OBVIOUS
<1>3. PICK w \in Nat : w = v * n
  OBVIOUS
<1>4. V \in Nat /\ (i + 1 < n => V = a + 2 * d) /\ (i + 1 = n => V = a + 2 * d + w)
  BY <1>3
<1>5. /\ V \div (2 * n) \in Nat /\ (V \div (2 * n)) * (2 * n) <= V
      /\ V < (V \div (2 * n)) * (2 * n) + 2 * n
  <2>1. 2 * n \in Nat \ {0}
    OBVIOUS
  <2> QED
    BY <1>4, <2>1, Quotient, Zenon
<1>6. lots \in Nat
  BY <1>5
<1>7. PICK r \in Nat : r = lots * n
  <2>1. lots * n \in Int /\ 0 * n <= lots * n /\ 0 * n = 0
    BY ONLY <1>6, ProductOrder, n \in Nat \ {0}
  <2>2. lots * n \in Nat
    BY ONLY <2>1
  <2> QED
    BY ONLY <2>2
<1>8. lots * (2 * n) = 2 * r
  <2>1. lots * (2 * n) = 2 * (lots * n)
    BY ONLY <1>6, Twice, n \in Nat \ {0}
  <2> QED
    BY ONLY <1>7, <2>1
<1>9. left \in Int
  BY <1>8
<1>10. i = 0 => lots > 0
  <2>1. V >= 2 * n => V \div (2 * n) > 0
    <3> SUFFICES ASSUME V >= 2 * n, V \div (2 * n) = 0
                 PROVE  FALSE
      BY <1>5
    <3>1. (V \div (2 * n)) * (2 * n) = 0
      OBVIOUS
    <3> QED
      BY <1>4, <1>5, <3>1
  <2> QED
    BY <2>1
<1>11. (V >= 2 * n \/ i > 0) => /\ 2 * r <= V /\ V < 2 * r + 2 * n
                                /\ left = a + 2 * d - 2 * r
  <2>1. CASE V >= 2 * n
    <3>1. lots = V \div (2 * n)
      BY <2>1
    <3>2. 2 * r <= V /\ V < 2 * r + 2 * n
      BY <1>5, <1>8, <3>1, Zenon
    <3> QED
      BY <1>4, <1>8, <2>1, <3>2
  <2>2. CASE V < 2 * n /\ i > 0
    <3>1. lots = 0
      BY <1>4, <2>2
    <3>2. r = 0
      BY <1>7, <3>1
    <3> QED
      BY <1>4, <1>8, <2>2, <3>2
  <2> QED
    BY <1>4, <2>1, <2>2
<1>12. PICK x \in Int : x = n * d
  OBVIOUS
<1>13. /\ (i + 1) * d = p + d /\ (m + lots) * n = q + r /\ (m + lots - 1) * n = q + r - n
       /\ (i + 1 - 1) * d = p /\ (i - 1) * d = p - d /\ (m - 1) * n = q - n
  BY <1>1, <1>2, <1>6, <1>7
<1>14. (i + 1 <= n => p + d <= x) /\ (i + 1 = n => p + d = x)
  <2>1. i + 1 <= n => (i + 1) * d <= n * d
    BY ProductOrder
  <2> QED
    BY <1>12, <1>13, <2>1
<1>15. \A z \in Int : z * n < x + n => z <= d
  <2> SUFFICES ASSUME NEW z \in Int, z * n < x + n
               PROVE  z <= d
    OBVIOUS
  <2>1. (d + 1) * n = x + n
    BY <1>12
  <2>2. z < d + 1
    BY <2>1, ProductLess
  <2> QED
    BY <2>2
<1>16. \A z \in Int : z * n > x - n => z >= d
  <2>1. ASSUME NEW z \in Int, z * n > x - n
        PROVE  z >= d
    <3>1. PICK y \in Int : y = d - 1
      OBVIOUS
    <3>2. y * n = x - n
      BY <1>12, <3>1
    <3>3. y < z
      BY ONLY <2>1, <3>2, ProductLess, n \in Nat \ {0}, y \in Int, z \in Int, x \in Int
    <3> QED
      BY <3>1, <3>3
  <2> QED
    BY <2>1
<1>17. CASE d >= n
  <2>1. lead = 0 /\ lead2 = 0 /\ a = 2 * (p - q)
    BY <1>1, <1>2, <1>17
  <2>2. V >= 2 * n /\ V >= a + 2 * d
    BY <1>3, <1>4, <1>17
  <2>3. 2 * r <= V /\ V < 2 * r + 2 * n /\ left = a + 2 * d - 2 * r
    BY <1>11, <2>2
  <2>4. ASSUME i + 1 < n
        PROVE  /\ m + lots <= d /\ left = 2 * ((i + 1) * d - (m + lots) * n)
               /\ 0 <= left /\ left < 2 * n
    <3>1. left = 2 * (p + d - (q + r)) /\ 0 <= left /\ left < 2 * n
      BY <1>4, <2>1, <2>3, <2>4
    <3>2. q + r < x + n
      BY ONLY <1>14, <2>4, <3>1, i \in Nat, n \in Nat \ {0}, p \in Int, q \in Int,
              r \in Nat, x \in Int, d \in Nat \ {0}
    <3>3. m + lots <= d
      <4>1. PICK z \in Int : z = m + lots
        BY <1>6
      <4>2. z * n < x + n
        BY ONLY <1>13, <3>2, <4>1, Zenon
      <4>3. z <= d
        BY <1>15, <4>2
      <4> QED
        BY ONLY <4>1, <4>3, SMT
    <3>4. (i + 1) * d = p + d /\ (m + lots) * n = q + r
      BY <1>13
    <3> DEFINE u == (i + 1) * d
               t == (m + lots) * n
    <3>5. u = p + d /\ t = q + r
      BY <3>4
    <3> HIDE DEF u, t
    <3>6. left = 2 * (u - t)
      BY ONLY <3>1, <3>5
    <3> USE DEF u, t
    <3> QED
      BY ONLY <3>1, <3>3, <3>6
  <2>5. ASSUME i + 1 = n
        PROVE  m + lots >= d
    <3>1. q + r > x - n
      <4>1. p + d = x
        BY <1>14, <2>5
      <4> QED
        BY ONLY <1>4, <2>1, <2>2, <2>3, <4>1, n \in Nat \ {0}, p \in Int, q \in Int,
                r \in Nat, x \in Int, d \in Nat \ {0}
    <3>2. m + lots \in Int
      BY <1>6
    <3> QED
      BY <1>13, <1>16, <3>1, <3>2
  <2>6. i + 1 - lead2 = i + 1 /\ m + lots - lead2 = m + lots
    BY <1>6, <2>1
  <2> QED
    BY <1>6, <1>9, <1>10, <2>4, <2>5, <2>6
<1>18. CASE d < n /\ i = 0
  <2>1. i + 1 # n /\ i + 1 < n
    BY <1>18
  <2>2. lots = 1 /\ left = 0 /\ m = 0 /\ lead2 = 1
    BY <1>18, <2>1
  <2>3. (i + 1 - lead2) * d = 0 /\ (m + lots - lead2) * n = 0
    BY <1>18, <2>2
  <2> QED
    BY <1>18, <2>1, <2>2, <2>3
<1>19. CASE d < n /\ i > 0
  <2>1. lead = 1 /\ lead2 = 1 /\ a = 2 * (p - d - q + n)
    BY <1>13, <1>19
  <2>2. 2 * r <= V /\ V < 2 * r + 2 * n /\ left = a + 2 * d - 2 * r
    BY <1>11, <1>19
  <2>3. ASSUME i + 1 < n
        PROVE  /\ m + lots <= d /\ left = 2 * ((i + 1 - 1) * d - (m + lots - 1) * n)
               /\ 0 <= left /\ left < 2 * n
    <3>1. left = 2 * (p - (q + r - n)) /\ 0 <= left /\ left < 2 * n
      BY <1>4, <2>1, <2>2, <2>3
    <3>2. q + r < x + n
      BY ONLY <1>14, <2>3, <3>1, i \in Nat, n \in Nat \ {0}, p \in Int, q \in Int,
              r \in Nat, x \in Int, d \in Nat \ {0}
    <3>3. m + lots <= d
      <4>1. PICK z \in Int : z = m + lots
        BY <1>6
      <4>2. z * n < x + n
        BY ONLY <1>13, <3>2, <4>1, Zenon
      <4>3. z <= d
        BY <1>15, <4>2
      <4> QED
        BY ONLY <4>1, <4>3, SMT
    <3> QED
      BY ONLY <1>13, <3>1, <3>3
  <2>4. ASSUME i + 1 = n
        PROVE  m + lots >= d
    <3>1. q + r > x - n
      <4>1. V >= a + 2 * d /\ p + d = x
        BY <1>3, <1>4, <1>14, <2>4
      <4> QED
        BY ONLY <1>4, <1>19, <2>1, <2>2, <4>1, n \in Nat \ {0}, p \in Int, q \in Int,
                r \in Nat, x \in Int, d \in Nat \ {0}
    <3>2. m + lots \in Int
      BY <1>6
    <3> QED
      BY <1>13, <1>16, <3>1, <3>2
  <2> QED
    BY <1>6, <1>9, <1>10, <2>1, <2>3, <2>4
<1> QED
  BY <1>17, <1>18, <1>19

Loops == [last : Int, target : Int, times : Seq(Nat), skip : Nat, volK : Nat, idx : Nat,
          add : Int, pos : Int, cnt : Nat, list : Seq(Slots)]

(* The slots of a plan in the order of their times.                        *)
Ordered(list) == \A i, j \in 1 .. Len(list) : i <= j => list[i].at <= list[j].at

(* The lots traded so far.                                                 *)
Gap(L) == Size(L.pos - L.last)

(* What the slots made so far are, before the last of them: between the    *)
(* positions, with what dbPosAdd has left over the exact difference        *)
(* between the line and the lots traded.                                   *)
OnLine(L) ==
    /\ Lesser(L.last, L.target) <= L.pos /\ L.pos <= Greater(L.last, L.target)
    /\ L.idx = 0 => L.pos = L.last /\ L.add = 0
    /\ L.idx > 0 => L.list # <<>> /\ L.list[Len(L.list)].pos = L.pos
    /\ L.idx > 0 /\ L.idx = Len(L.times) => L.pos = L.target
    /\ L.idx < Len(L.times) =>
          IF Trade(L) = 0 THEN L.add = 0
          ELSE OnLineAt(L.idx, Size(Trade(L)), Len(L.times), Gap(L), L.add)

ListInTime(L) ==
    /\ InTime(L.times) /\ Ordered(L.list)
    /\ \A i \in 1 .. Len(L.list), j \in L.idx + 1 .. Len(L.times) : L.list[i].at <= L.times[j]

LoopInv(L) == L \in Loops /\ L.idx <= Len(L.times) /\ OnLine(L) /\ ListInTime(L)

LEMMA LoopFields ==
    ASSUME NEW L \in Loops
    PROVE  /\ L.last \in Int /\ L.target \in Int /\ L.times \in Seq(Nat) /\ L.skip \in Nat
           /\ L.volK \in Nat /\ L.idx \in Nat /\ L.add \in Int /\ L.pos \in Int /\ L.cnt \in Nat
           /\ L.list \in Seq(Slots) /\ Len(L.times) \in Nat /\ Trade(L) \in Int
           /\ Size(Trade(L)) \in Nat /\ Gap(L) \in Nat
BY DEF Loops, Trade, Size, Greater, Gap

LEMMA NatTimes == \A x, y \in Nat : x * y \in Nat
<1> SUFFICES ASSUME NEW x \in Nat, NEW y \in Nat
             PROVE  x * y \in Nat
  OBVIOUS
<1>1. 0 * y <= x * y
  BY ProductOrder
<1> QED
  BY <1>1

LEMMA WholeLots ==
    ASSUME NEW x \in Nat, NEW y \in Nat \ {0}, x >= y
    PROVE  x \div y \in Nat \ {0}
<1>1. x \div y \in Nat /\ x < (x \div y) * y + y
  BY Quotient
<1> SUFFICES ASSUME x \div y = 0
             PROVE  FALSE
  BY <1>1
<1>2. (x \div y) * y = 0
  OBVIOUS
<1> QED
  BY <1>1, <1>2

LEMMA LoopStart ==
    ASSUME NEW last \in Int, NEW target \in Int, NEW times \in Seq(Nat), InTime(times),
           NEW skip \in Nat, NEW volK \in Nat
    PROVE  LoopInv(Loop(last, target, times, skip, volK))
<1> DEFINE L == Loop(last, target, times, skip, volK)
<1>1. L \in Loops
  <2>1. <<>> \in Seq(Slots)
    OBVIOUS
  <2> QED
    BY <2>1 DEF Loops, Loop
<1>2. /\ L.idx = 0 /\ L.times = times /\ L.last = last /\ L.target = target /\ L.pos = last
      /\ L.add = 0 /\ L.list = <<>>
  BY DEF Loop
<1> HIDE DEF L
<1>3. Len(times) \in Nat /\ Len(L.list) = 0
  BY <1>2
<1>4. OnLine(L)
  <2>1. Gap(L) = 0
    <3>1. L.pos - L.last = 0
      BY <1>2
    <3> QED
      BY <3>1 DEF Gap, Size, Greater
  <2>2. Lesser(last, target) <= last /\ last <= Greater(last, target)
    BY DEF Lesser, Greater
  <2>3. ASSUME NEW d \in Nat, NEW n \in Nat, 0 < n
        PROVE  OnLineAt(0, d, n, 0, 0)
    BY <2>3 DEF OnLineAt, LeadAt
  <2>4. 0 < Len(times) => OnLineAt(0, Size(Trade(L)), Len(times), 0, 0)
    <3>1. Size(Trade(L)) \in Nat
      BY <1>1, LoopFields
    <3> QED
      BY <1>3, <2>3, <3>1
  <2> QED
    BY <1>2, <2>1, <2>2, <2>4 DEF OnLine
<1>5. ListInTime(L)
  BY <1>2, <1>3 DEF ListInTime, Ordered
<1>6. LoopInv(L)
  BY <1>1, <1>2, <1>3, <1>4, <1>5 DEF LoopInv
<1> QED
  BY <1>6 DEF L

LEMMA TurnFields ==
    ASSUME NEW L \in Loops
    PROVE  /\ Turn(L).last = L.last /\ Turn(L).target = L.target /\ Turn(L).times = L.times
           /\ Turn(L).skip = L.skip /\ Turn(L).volK = L.volK /\ Turn(L).idx = L.idx + 1
           /\ Turn(L).add = AddLeft(L) /\ Turn(L).pos = Moved(L)
           /\ Turn(L).cnt = (IF Pushes(L) THEN 0 ELSE L.cnt + 1)
           /\ Turn(L).list = (IF Pushes(L)
                              THEN Append(L.list, [at |-> L.times[L.idx + 1], pos |-> Moved(L)])
                              ELSE L.list)
           /\ Trade(Turn(L)) = Trade(L)
BY DEF Loops, Turn, Trade

LEMMA LoopChanged ==
    ASSUME NEW L \in Loops, NEW i \in Nat, NEW a \in Int, NEW p \in Int, NEW c \in Nat,
           NEW l \in Seq(Slots)
    PROVE  [L EXCEPT !.idx = i, !.add = a, !.pos = p, !.cnt = c, !.list = l] \in Loops
BY DEF Loops

(* A turn's lots and what is left are whole numbers, ...                   *)
LEMMA TurnNumbers ==
    ASSUME NEW L, LoopInv(L), Turns(L)
    PROVE  /\ Lots(L) \in Nat /\ AddLeft(L) \in Int /\ Moved(L) \in Int
           /\ L.idx = 0 => Lots(L) > 0
           /\ Lesser(L.last, L.target) <= Moved(L) /\ Moved(L) <= Greater(L.last, L.target)
           /\ Lots(L) = 0 => Moved(L) = L.pos
           /\ L.idx + 1 = Len(L.times) => Moved(L) = L.target
           /\ L.idx + 1 < Len(L.times) =>
                 IF Trade(L) = 0 THEN AddLeft(L) = 0
                 ELSE OnLineAt(L.idx + 1, Size(Trade(L)), Len(L.times), Size(Moved(L) - L.last),
                               AddLeft(L))
<1>0. L \in Loops /\ OnLine(L)
  BY DEF LoopInv
<1>a. PICK n, d, i, m, a, v :
         /\ n = Len(L.times) /\ d = Size(Trade(L)) /\ i = L.idx /\ m = Gap(L) /\ a = L.add
         /\ v = L.volK
  OBVIOUS
<1>1. /\ L.last \in Int /\ L.target \in Int /\ L.pos \in Int /\ Trade(L) \in Int
      /\ Trade(L) = L.target - L.last
  BY <1>0, LoopFields DEF Trade
<1>t. v \in Nat /\ i \in Nat /\ a \in Int /\ n \in Nat /\ d \in Nat /\ m \in Nat
  BY <1>0, <1>a, LoopFields
<1>2. i < n /\ n \in Nat \ {0}
  BY <1>a, <1>t DEF Turns
<1>3. Lots(L) = LotsAt(i, d, n, a, v) /\ AddLeft(L) = LeftAt(i, d, n, a, v)
  BY <1>a, Zenon DEF Volume, Unit, Lots, AddLeft, LotsAt, LeftAt, VolumeAt
<1>6. /\ Lesser(L.last, L.target) <= L.pos /\ L.pos <= Greater(L.last, L.target)
      /\ i = 0 => L.pos = L.last /\ a = 0
      /\ IF Trade(L) = 0 THEN a = 0 ELSE OnLineAt(i, d, n, m, a)
  BY <1>0, <1>a, <1>2 DEF OnLine
<1>7. CASE Trade(L) = 0
  <2>1. L.target = L.last /\ L.pos = L.last /\ d = 0 /\ a = 0
    BY <1>a, <1>1, <1>6, <1>7 DEF Size, Greater, Lesser
  <2>2. Moved(L) = L.pos
    BY <1>1, <1>7 DEF Moved
  <2>3. Lesser(L.last, L.target) <= Moved(L) /\ Moved(L) <= Greater(L.last, L.target)
    BY <1>1, <2>1, <2>2 DEF Lesser, Greater
  <2>4. VolumeAt(i, 0, n, 0, v) \in Nat /\ (i + 1 < n => VolumeAt(i, 0, n, 0, v) = 0)
    <3>1. v * n \in Nat
      BY ONLY <1>t, NatTimes
    <3> QED
      BY <1>t, <3>1 DEF VolumeAt
  <2>5. LotsAt(i, 0, n, 0, v) \in Nat /\ (i = 0 => LotsAt(i, 0, n, 0, v) > 0)
    <3> DEFINE V == VolumeAt(i, 0, n, 0, v)
    <3>1. V >= 2 * n => V \div (2 * n) \in Nat \ {0}
      <4>1. 2 * n \in Nat \ {0}
        BY <1>2
      <4>2. V \in Nat
        BY <2>4
      <4> HIDE DEF V
      <4> QED
        BY ONLY <4>1, <4>2, WholeLots
    <3> HIDE DEF V
    <3>2. LotsAt(i, 0, n, 0, v) = IF V >= 2 * n THEN V \div (2 * n) ELSE IF i = 0 THEN 1 ELSE 0
      BY DEF LotsAt, V
    <3> QED
      BY <1>t, <3>1, <3>2
  <2>6. LeftAt(i, 0, n, 0, v) \in Int /\ (i + 1 < n => LeftAt(i, 0, n, 0, v) = 0)
    <3>1. LotsAt(i, 0, n, 0, v) * (2 * n) \in Int
      BY <1>t, <2>5
    <3>2. i + 1 < n => VolumeAt(i, 0, n, 0, v) < 2 * n /\ (i > 0 => LotsAt(i, 0, n, 0, v) = 0)
      BY <1>t, <1>2, <2>4 DEF LotsAt
    <3>3. i + 1 < n /\ i > 0 => LotsAt(i, 0, n, 0, v) * (2 * n) = 0
      BY <1>t, <3>2
    <3>4. 0 + 2 * 0 = 0
      OBVIOUS
    <3> QED
      BY <1>t, <3>1, <3>2, <3>3, <3>4 DEF LeftAt
  <2> QED
    BY <1>a, <1>1, <1>3, <1>7, <2>1, <2>2, <2>3, <2>5, <2>6
<1>8. CASE Trade(L) # 0
  <2>1. d \in Nat \ {0} /\ m <= d /\ (i = 0 => m = 0) /\ a \in Nat
    <3>1. d \in Nat \ {0} /\ m <= d /\ (i = 0 => m = 0)
      BY <1>a, <1>1, <1>6, <1>8 DEF Size, Greater, Lesser, Gap
    <3>2. a \in Nat
      BY <1>t, <1>6, <1>8 DEF OnLineAt
    <3> QED
      BY <3>1, <3>2
  <2>2. /\ Lots(L) \in Nat /\ AddLeft(L) \in Int /\ (i = 0 => Lots(L) > 0)
        /\ i + 1 < n => /\ m + Lots(L) <= d
                        /\ OnLineAt(i + 1, d, n, m + Lots(L), AddLeft(L))
        /\ i + 1 = n => m + Lots(L) >= d
    <3>1. OnLineAt(i, d, n, m, a) /\ (i = 0 => m = 0 /\ a = 0)
      BY <1>6, <1>8, <2>1
    <3> QED
      BY ONLY <1>t, <1>2, <1>3, <2>1, <3>1, TurnMoves
  <2>3. /\ Moved(L) \in Int /\ (Lots(L) = 0 => Moved(L) = L.pos)
        /\ Lesser(L.last, L.target) <= Moved(L) /\ Moved(L) <= Greater(L.last, L.target)
        /\ m + Lots(L) >= d => Moved(L) = L.target
        /\ m + Lots(L) <= d => Size(Moved(L) - L.last) = m + Lots(L)
    <3>1. PICK k \in Nat : k = Lots(L)
      BY <2>2
    <3>2. CASE Trade(L) > 0
      <4>1. Moved(L) = Lesser(L.pos + k, L.target)
        BY <3>1, <3>2 DEF Moved
      <4>2. L.last < L.target /\ L.last <= L.pos /\ L.pos <= L.target
            /\ d = L.target - L.last /\ m = L.pos - L.last
        BY <1>a, <1>1, <1>6, <3>2 DEF Size, Greater, Lesser, Gap
      <4> QED
        BY <1>1, <3>1, <4>1, <4>2 DEF Size, Greater, Lesser
    <3>3. CASE Trade(L) < 0
      <4>1. Moved(L) = Greater(L.pos - k, L.target)
        BY <1>1, <3>1, <3>3 DEF Moved
      <4>2. L.target < L.last /\ L.target <= L.pos /\ L.pos <= L.last
            /\ d = L.last - L.target /\ m = L.last - L.pos
        BY <1>a, <1>1, <1>6, <3>3 DEF Size, Greater, Lesser, Gap
      <4> QED
        BY <1>1, <3>1, <4>1, <4>2 DEF Size, Greater, Lesser
    <3> QED
      BY <1>1, <1>8, <3>2, <3>3
  <2>4. i + 1 < n => OnLineAt(i + 1, d, n, Size(Moved(L) - L.last), AddLeft(L))
    BY <2>2, <2>3
  <2>5. i + 1 = n => Moved(L) = L.target
    BY <2>2, <2>3
  <2> QED
    BY ONLY <1>a, <1>8, <2>2, <2>3, <2>4, <2>5
<1> QED
  BY <1>7, <1>8

LEMMA SlotsAppend ==
    ASSUME NEW s \in Seq(Slots), NEW x \in Slots
    PROVE  /\ Append(s, x) \in Seq(Slots) /\ Len(Append(s, x)) = Len(s) + 1 /\ Len(s) \in Nat
           /\ \A i \in 1 .. Len(s) : Append(s, x)[i] = s[i]
           /\ Append(s, x)[Len(s) + 1] = x /\ Append(s, x) # <<>>
OBVIOUS

LEMMA AtOf ==
    ASSUME NEW s \in Seq(Slots), NEW i \in 1 .. Len(s)
    PROVE  s[i] \in Slots /\ s[i].at \in Nat
<1>1. s[i] \in Slots
  OBVIOUS
<1> QED
  BY <1>1 DEF Slots

(* ... the list is as long as it has to be, ...                            *)
LEMMA TurnList ==
    ASSUME NEW L, LoopInv(L), Turns(L)
    PROVE  /\ Turn(L).list \in Seq(Slots) /\ Turn(L).list # <<>>
           /\ Turn(L).list[Len(Turn(L).list)].pos = Moved(L)
           /\ Ordered(Turn(L).list)
           /\ \A i \in 1 .. Len(Turn(L).list), j \in L.idx + 2 .. Len(L.times) :
                 Turn(L).list[i].at <= L.times[j]
<1>0. L \in Loops /\ OnLine(L) /\ ListInTime(L)
  BY DEF LoopInv
<1>1. /\ L.idx \in Nat /\ Len(L.times) \in Nat /\ L.idx < Len(L.times) /\ L.times \in Seq(Nat)
      /\ L.list \in Seq(Slots) /\ Len(L.list) \in Nat
  BY <1>0, LoopFields DEF Turns
<1>2. /\ Moved(L) \in Int /\ (L.idx = 0 => Lots(L) > 0) /\ Lots(L) \in Nat
      /\ Lots(L) = 0 => Moved(L) = L.pos
  BY TurnNumbers
<1> DEFINE k == L.idx + 1
           x == [at |-> L.times[k], pos |-> Moved(L)]
<1>3. k \in 1 .. Len(L.times) /\ L.times[k] \in Nat
  BY <1>1
<1>4. x \in Slots /\ x.at = L.times[k] /\ x.pos = Moved(L)
  BY <1>2, <1>3 DEF Slots
<1>5. Turn(L).list = IF Pushes(L) THEN Append(L.list, x) ELSE L.list
  BY <1>0, TurnFields
<1>6. /\ \A i, j \in 1 .. Len(L.times) : i <= j => L.times[i] <= L.times[j]
      /\ \A i, j \in 1 .. Len(L.list) : i <= j => L.list[i].at <= L.list[j].at
      /\ \A i \in 1 .. Len(L.list), j \in k .. Len(L.times) : L.list[i].at <= L.times[j]
  BY <1>0 DEF ListInTime, InTime, Ordered
<1> HIDE DEF k, x
<1>7. CASE Pushes(L)
  <2>1. PICK u : u = Append(L.list, x)
    OBVIOUS
  <2>2. /\ u \in Seq(Slots) /\ u # <<>> /\ Len(u) = Len(L.list) + 1 /\ u[Len(L.list) + 1] = x
        /\ \A i \in 1 .. Len(L.list) : u[i] = L.list[i]
    BY <1>1, <1>4, <2>1, SlotsAppend
  <2>3. \A i \in 1 .. Len(u) : \/ i = Len(L.list) + 1 /\ u[i].at = L.times[k]
                               \/ i \in 1 .. Len(L.list) /\ u[i].at = L.list[i].at
    BY <1>1, <1>4, <2>2
  <2>4. ASSUME NEW i \in 1 .. Len(u), NEW j \in 1 .. Len(u), i <= j
        PROVE  u[i].at <= u[j].at
    <3>1. CASE j = Len(L.list) + 1 /\ i = j
      <4>1. u[j].at \in Nat
        BY <2>2, AtOf
      <4> QED
        BY <3>1, <4>1
    <3>2. CASE j = Len(L.list) + 1 /\ i # j
      <4>1. i \in 1 .. Len(L.list) /\ u[i].at = L.list[i].at /\ u[j].at = L.times[k]
        BY <1>1, <2>2, <2>3, <2>4, <3>2
      <4>2. k \in k .. Len(L.times)
        BY <1>3
      <4> QED
        BY <1>6, <4>1, <4>2
    <3>3. CASE j \in 1 .. Len(L.list)
      <4>1. i \in 1 .. Len(L.list)
        BY <1>1, <2>2, <2>4, <3>3
      <4>2. \A e \in 1 .. Len(L.list) : e \in 1 .. Len(u) /\ u[e] = L.list[e]
        BY <1>1, <2>2
      <4> QED
        BY <1>6, <2>4, <3>3, <4>1, <4>2
    <3> QED
      BY <2>3, <3>1, <3>2, <3>3
  <2>5. ASSUME NEW i \in 1 .. Len(u), NEW j \in L.idx + 2 .. Len(L.times)
        PROVE  u[i].at <= L.times[j]
    <3>1. j \in k .. Len(L.times) /\ j \in 1 .. Len(L.times) /\ k <= j
      BY <1>1, <1>3, <2>5 DEF k
    <3> QED
      BY <1>3, <1>6, <2>3, <3>1
  <2>6. u[Len(u)].pos = Moved(L)
    BY <1>4, <2>2
  <2>7. Turn(L).list = u
    BY <1>5, <1>7, <2>1
  <2> QED
    BY <2>2, <2>4, <2>5, <2>6, <2>7 DEF Ordered
<1>8. CASE ~Pushes(L)
  <2>1. Lots(L) = 0 /\ L.idx > 0
    BY <1>1, <1>2, <1>8 DEF Pushes
  <2>2. L.list # <<>> /\ L.list[Len(L.list)].pos = L.pos
    BY <1>0, <2>1 DEF OnLine
  <2>3. ASSUME NEW i \in 1 .. Len(L.list), NEW j \in L.idx + 2 .. Len(L.times)
        PROVE  L.list[i].at <= L.times[j]
    <3>1. j \in k .. Len(L.times)
      BY <1>1, <1>3 DEF k
    <3> QED
      BY <1>6, <3>1
  <2>4. Turn(L).list = L.list
    BY <1>5, <1>8
  <2> QED
    BY <1>0, <1>1, <1>2, <2>1, <2>2, <2>3, <2>4 DEF ListInTime
<1> QED
  BY <1>7, <1>8

(* ... and so the invariant of Create's loop is kept.                      *)
LEMMA LoopTurn ==
    ASSUME NEW L, LoopInv(L), Turns(L)
    PROVE  LoopInv(Turn(L))
<1>0. L \in Loops /\ OnLine(L) /\ ListInTime(L)
  BY DEF LoopInv
<1>1. /\ L.idx \in Nat /\ Len(L.times) \in Nat /\ L.idx < Len(L.times) /\ L.cnt \in Nat
      /\ Trade(L) \in Int
  BY <1>0, LoopFields DEF Turns
<1>2. PICK T : T = Turn(L)
  OBVIOUS
<1>3. /\ T.last = L.last /\ T.target = L.target /\ T.times = L.times /\ T.idx = L.idx + 1
      /\ T.add = AddLeft(L) /\ T.pos = Moved(L) /\ Trade(T) = Trade(L)
  BY <1>0, <1>2, TurnFields
<1>4. /\ T.list \in Seq(Slots) /\ T.list # <<>> /\ T.list[Len(T.list)].pos = Moved(L)
      /\ Ordered(T.list)
      /\ \A i \in 1 .. Len(T.list), j \in L.idx + 2 .. Len(L.times) : T.list[i].at <= L.times[j]
  BY <1>2, TurnList
<1>5. T \in Loops
  <2>1. PICK c \in Nat : c = IF Pushes(L) THEN 0 ELSE L.cnt + 1
    BY <1>1
  <2>2. PICK l \in Seq(Slots) :
           l = IF Pushes(L) THEN Append(L.list, [at |-> L.times[L.idx + 1], pos |-> Moved(L)])
               ELSE L.list
    BY <1>0, <1>2, <1>4, TurnFields
  <2>3. T = [L EXCEPT !.idx = L.idx + 1, !.add = AddLeft(L), !.pos = Moved(L), !.cnt = c, !.list = l]
    BY <1>2, <2>1, <2>2, Zenon DEF Turn
  <2>4. L.idx + 1 \in Nat /\ AddLeft(L) \in Int /\ Moved(L) \in Int
    BY <1>1, TurnNumbers
  <2> QED
    BY <1>0, <2>3, <2>4, LoopChanged
<1>6. /\ Lesser(L.last, L.target) <= Moved(L) /\ Moved(L) <= Greater(L.last, L.target)
      /\ L.idx + 1 = Len(L.times) => Moved(L) = L.target
      /\ L.idx + 1 < Len(L.times) =>
            IF Trade(L) = 0 THEN AddLeft(L) = 0
            ELSE OnLineAt(L.idx + 1, Size(Trade(L)), Len(L.times), Size(Moved(L) - L.last), AddLeft(L))
  BY TurnNumbers
<1>7. OnLine(T)
  <2>1. Gap(T) = Size(Moved(L) - L.last)
    BY <1>3 DEF Gap
  <2>2. T.idx # 0
    BY <1>1, <1>3
  <2> QED
    BY <1>3, <1>4, <1>6, <2>1, <2>2 DEF OnLine
<1>8. ListInTime(T)
  <2>1. T.idx + 1 = L.idx + 2
    BY <1>1, <1>3
  <2> QED
    BY <1>0, <1>3, <1>4, <2>1 DEF ListInTime
<1>9. T.idx <= Len(T.times)
  BY <1>1, <1>3
<1> QED
  BY <1>2, <1>5, <1>7, <1>8, <1>9 DEF LoopInv

(* Being on the line, in lots.                                             *)
LEMMA WithinLot ==
    ASSUME NEW n \in Nat \ {0}, NEW d \in Nat \ {0}, NEW i \in Nat, NEW m \in Nat, NEW a \in Int,
           OnLineAt(i, d, n, m, a)
    PROVE  m * n - i * d < n /\ i * d - m * n < n
<1>1. PICK p \in Int, q \in Int : p = i * d /\ q = m * n
  OBVIOUS
<1>2. (i - 1) * d = p - d /\ (m - 1) * n = q - n /\ (i - 0) * d = p /\ (m - 0) * n = q
  BY <1>1
<1>3. CASE LeadAt(i, d, n) = 1
  <2>1. d < n
    BY <1>3 DEF LeadAt
  <2>2. a = 2 * ((i - 1) * d - (m - 1) * n) /\ 0 <= a /\ a < 2 * n
    BY <1>3, Zenon DEF OnLineAt
  <2>3. a = 2 * ((p - d) - (q - n))
    BY <1>2, <2>2, Zenon
  <2> QED
    BY ONLY <1>1, <2>1, <2>2, <2>3, n \in Nat \ {0}, d \in Nat \ {0}, a \in Int
<1>4. CASE LeadAt(i, d, n) = 0
  <2>1. a = 2 * ((i - 0) * d - (m - 0) * n) /\ 0 <= a /\ a < 2 * n
    BY <1>4, Zenon DEF OnLineAt
  <2>2. a = 2 * (p - q)
    BY <1>2, <2>1, Zenon
  <2> QED
    BY ONLY <1>1, <2>1, <2>2, n \in Nat \ {0}, a \in Int
<1> QED
  BY <1>3, <1>4 DEF LeadAt

LEMMA LoopTracks ==
    ASSUME NEW L, LoopInv(L), Len(L.times) > 0
    PROVE  /\ Size((L.pos - L.last) * Len(L.times) - L.idx * Trade(L)) < Len(L.times)
           /\ L.idx = Len(L.times) => L.pos = L.target
           /\ L.idx > 0 => L.list # <<>> /\ Last(L.list).pos = L.pos
<1>0. L \in Loops /\ OnLine(L) /\ L.idx <= Len(L.times)
  BY DEF LoopInv
<1>1. PICK n, i, m, d, a, t, g :
         /\ n = Len(L.times) /\ i = L.idx /\ m = Gap(L) /\ d = Size(Trade(L)) /\ a = L.add
         /\ t = Trade(L) /\ g = L.pos - L.last
  OBVIOUS
<1>2. /\ n \in Nat \ {0} /\ i \in Nat /\ m \in Nat /\ d \in Nat /\ a \in Int /\ t \in Int /\ g \in Int
      /\ L.last \in Int /\ L.target \in Int /\ L.pos \in Int /\ i <= n
  BY <1>0, <1>1, LoopFields
<1>3. \/ g = m /\ t = d
      \/ g = -m /\ t = -d
      \/ g = 0 /\ t = 0
  <2>1. Lesser(L.last, L.target) <= L.pos /\ L.pos <= Greater(L.last, L.target)
    BY <1>0 DEF OnLine
  <2>2. t = L.target - L.last /\ m = Size(g) /\ d = Size(t)
    BY <1>1 DEF Gap, Trade
  <2>3. CASE t > 0
    <3>1. g >= 0 /\ d = t /\ m = g
      BY <1>1, <1>2, <2>1, <2>2, <2>3 DEF Size, Greater, Lesser
    <3> QED
      BY <3>1
  <2>4. CASE t < 0
    <3>1. g <= 0 /\ d = -t /\ m = -g
      BY <1>1, <1>2, <2>1, <2>2, <2>4 DEF Size, Greater, Lesser
    <3> QED
      BY <1>2, <3>1
  <2>5. CASE t = 0
    <3>1. g = 0
      BY <1>1, <1>2, <2>1, <2>2, <2>5 DEF Greater, Lesser
    <3> QED
      BY <2>5, <3>1
  <2> QED
    BY <1>2, <2>3, <2>4, <2>5
<1>4. i < n /\ t # 0 => m * n - i * d < n /\ i * d - m * n < n
  <2>1. i < n /\ t # 0 => OnLineAt(i, d, n, m, a)
    BY <1>0, <1>1 DEF OnLine
  <2>2. t # 0 => d \in Nat \ {0}
    BY <1>1, <1>2 DEF Size, Greater
  <2> QED
    BY <1>2, <2>1, <2>2, WithinLot
<1>5. Size(g * n - i * t) < n
  <2>1. CASE (i = n /\ g = t) \/ (g = 0 /\ t = 0) \/ (i = 0 /\ g = 0)
    <3>1. g * n - i * t = 0
      BY ONLY <1>2, <2>1
    <3> QED
      BY <1>2, <3>1 DEF Size, Greater
  <2>2. CASE i < n /\ t # 0 /\ g = m /\ t = d
    <3>1. PICK p \in Int, q \in Int : p = i * d /\ q = m * n
      BY <1>2
    <3>2. g * n - i * t = q - p /\ q - p < n /\ p - q < n
      BY <1>4, <2>2, <3>1
    <3> QED
      BY <1>2, <3>1, <3>2 DEF Size, Greater
  <2>3. CASE i < n /\ t # 0 /\ g = -m /\ t = -d
    <3>1. PICK p \in Int, q \in Int : p = i * d /\ q = m * n
      BY <1>2
    <3>2. g * n - i * t = p - q
      <4>1. (-m) * n = -(m * n) /\ i * (-d) = -(i * d)
        BY ONLY <1>2
      <4> QED
        BY <2>3, <3>1, <4>1
    <3>3. q - p < n /\ p - q < n
      BY <1>4, <2>3, <3>1
    <3> QED
      BY <1>2, <3>1, <3>2, <3>3 DEF Size, Greater
  <2>4. i = n => g = t
    BY <1>0, <1>1, <1>2 DEF OnLine, Trade
  <2>5. t = 0 => g = 0
    BY <1>0, <1>1, <1>2 DEF OnLine, Trade, Lesser, Greater
  <2> QED
    BY <1>2, <1>3, <2>1, <2>2, <2>3, <2>4, <2>5
<1>6. L.idx = Len(L.times) => L.pos = L.target
  BY <1>0, <1>1, <1>2 DEF OnLine
<1>7. L.idx > 0 => L.list # <<>> /\ Last(L.list).pos = L.pos
  BY <1>0 DEF OnLine, Last
<1> QED
  BY <1>1, <1>5, <1>6, <1>7

(* What Create leaves is in order as well: its last change is of a         *)
(* position.                                                               *)
LEMMA CreatedIs ==
    ASSUME NEW L, LoopInv(L)
    PROVE  Created(L) \in Seq(Slots) /\ Ordered(Created(L))
<1>0. L \in Loops /\ ListInTime(L)
  BY DEF LoopInv
<1>1. L.list \in Seq(Slots) /\ L.target \in Int /\ Ordered(L.list)
  BY <1>0, LoopFields DEF ListInTime
<1>2. CASE L.list = <<>>
  BY <1>2 DEF Created, Ordered
<1>3. CASE L.list # <<>>
  <2>1. PICK s \in Seq(Slots), k \in Nat \ {0} : s = L.list /\ k = Len(s)
    BY <1>1, <1>3
  <2>2. k \in 1 .. Len(s) /\ s[k] \in Slots
    BY <2>1
  <2>3. PICK x : x = [s[k] EXCEPT !.pos = L.target]
    OBVIOUS
  <2>4. x \in Slots /\ x.at = s[k].at
    BY <1>1, <2>2, <2>3 DEF Slots
  <2>5. PICK u : u = [s EXCEPT ![k] = x]
    OBVIOUS
  <2>6. Created(L) = u
    BY <1>3, <2>1, <2>3, <2>5 DEF Created
  <2>7. /\ u \in Seq(Slots) /\ Len(u) = Len(s)
        /\ \A i \in 1 .. Len(s) : u[i] = IF i = k THEN x ELSE s[i]
    BY <2>1, <2>4, <2>5
  <2>8. \A i \in 1 .. Len(s) : u[i].at = s[i].at
    BY <2>4, <2>7
  <2> QED
    BY <1>1, <2>1, <2>6, <2>7, <2>8 DEF Ordered
<1> QED
  BY <1>2, <1>3

-----------------------------------------------------------------------------
(* The plan under those who execute it (GetTarget, PopTarget).             *)

(* How many are due is well defined: those before the first that is not.   *)
LEMMA DueIs ==
    ASSUME NEW plan \in Seq(Slots), NEW time \in Nat
    PROVE  /\ Due(plan, time) \in 0 .. Len(plan)
           /\ \A i \in 1 .. Due(plan, time) : plan[i].at <= time
           /\ Due(plan, time) < Len(plan) => plan[Due(plan, time) + 1].at > time
<1> DEFINE Is(k) == /\ \A i \in 1 .. k : plan[i].at <= time
                    /\ k < Len(plan) => plan[k + 1].at > time
<1>1. Len(plan) \in Nat /\ \A i \in 1 .. Len(plan) : plan[i].at \in Nat
  BY AtOf
<1>2. \E k \in 0 .. Len(plan) : Is(k)
  <2> DEFINE S == {k \in 1 .. Len(plan) : plan[k].at > time}
  <2>1. CASE S = {}
    <3>1. \A i \in 1 .. Len(plan) : plan[i].at <= time
      BY <1>1, <2>1
    <3> QED
      BY <1>1, <3>1
  <2>2. CASE S # {}
    <3>1. S \subseteq Nat
      OBVIOUS
    <3>2. PICK m \in S : \A y \in S : m <= y
      <4> HIDE DEF S
      <4> QED
        BY <2>2, <3>1, LeastNat
    <3>3. PICK k \in 0 .. Len(plan) : k + 1 = m /\ k < Len(plan)
      <4>1. m \in 1 .. Len(plan)
        BY <3>2
      <4>2. m - 1 \in 0 .. Len(plan) /\ (m - 1) + 1 = m /\ m - 1 < Len(plan)
        BY ONLY <1>1, <4>1
      <4> QED
        BY <4>2
    <3>4. \A i \in 1 .. k : plan[i].at <= time
      <4> SUFFICES ASSUME NEW i \in 1 .. k, ~(plan[i].at <= time)
                   PROVE  FALSE
        OBVIOUS
      <4>1. i \in 1 .. Len(plan) /\ i < m
        BY <1>1, <3>3
      <4>2. i \in S
        BY <1>1, <4>1
      <4> QED
        BY <1>1, <3>2, <4>1, <4>2
    <3>5. plan[k + 1].at > time
      BY <3>2, <3>3
    <3> QED
      BY <3>3, <3>4, <3>5
  <2> QED
    BY <2>1, <2>2
<1>3. Due(plan, time) = CHOOSE k \in 0 .. Len(plan) : Is(k)
  BY DEF Due
<1>4. Due(plan, time) \in 0 .. Len(plan) /\ Is(Due(plan, time))
  <2> HIDE DEF Is
  <2> QED
    BY <1>2, <1>3
<1> QED
  BY <1>4

(* What is left of a plan when slots are taken from its front.             *)
Rest(new, old) ==
    /\ new \in Seq(Slots)
    /\ \E k \in Nat : \A i \in 1 .. Len(new) : i + k \in 1 .. Len(old) /\ new[i] = old[i + k]

LEMMA RestOrdered ==
    ASSUME NEW new, NEW old \in Seq(Slots), Rest(new, old), Ordered(old)
    PROVE  Ordered(new)
<1>1. PICK k \in Nat : \A i \in 1 .. Len(new) : i + k \in 1 .. Len(old) /\ new[i] = old[i + k]
  BY DEF Rest
<1>2. ASSUME NEW i \in 1 .. Len(new), NEW j \in 1 .. Len(new), i <= j
      PROVE  new[i].at <= new[j].at
  <2>1. i + k <= j + k
    BY <1>2
  <2> QED
    BY <1>1, <2>1 DEF Ordered
<1> QED
  BY <1>2 DEF Ordered

LEMMA RestAll == ASSUME NEW s \in Seq(Slots) PROVE Rest(s, s)
<1>1. \A i \in 1 .. Len(s) : i + 0 \in 1 .. Len(s) /\ s[i] = s[i + 0]
  OBVIOUS
<1> QED
  BY <1>1 DEF Rest

LEMMA RestTail ==
    ASSUME NEW s \in Seq(Slots)
    PROVE  Rest(IF s = <<>> THEN <<>> ELSE Tail(s), s)
<1>1. CASE s = <<>>
  BY <1>1, RestAll
<1>2. CASE s # <<>>
  <2>1. Tail(s) \in Seq(Slots)
    BY <1>2
  <2>2. \A i \in 1 .. Len(Tail(s)) : i + 1 \in 1 .. Len(s) /\ Tail(s)[i] = s[i + 1]
    BY <1>2
  <2> QED
    BY <1>2, <2>1, <2>2 DEF Rest
<1> QED
  BY <1>1, <1>2

LEMMA Shifted ==
    \A i, j, k, n \in Nat : 1 <= i /\ i <= n - k + 1 /\ k <= n /\ j + 1 = k =>
                             i + j \in 1 .. n /\ k + i - 1 = i + j
<1> SUFFICES ASSUME NEW i \in Nat, NEW j \in Nat, NEW k \in Nat, NEW n \in Nat,
                    1 <= i, i <= n - k + 1, k <= n, j + 1 = k
             PROVE  i + j \in 1 .. n /\ k + i - 1 = i + j
  BY Zenon
<1>1. 1 <= i + j /\ i + j <= n
  OBVIOUS
<1>2. k + i - 1 = i + j
  OBVIOUS
<1> QED
  BY <1>1, <1>2

(* GetTarget leaves the latest that is due, and nothing else that is.      *)
LEMMA AfterGetIs ==
    ASSUME NEW plan \in Seq(Slots), Ordered(plan), NEW time \in Nat
    PROVE  /\ LatestDue(plan, time) \in 0 .. Len(plan)
           /\ Rest(AfterGet(plan, time), plan)
           /\ LatestDue(plan, time) > 0 =>
                 \A i \in 1 .. Len(AfterGet(plan, time)) :
                    /\ AfterGet(plan, time)[i].at >= plan[LatestDue(plan, time)].at
                    /\ \/ AfterGet(plan, time)[i].at <= plan[LatestDue(plan, time)].at
                       \/ AfterGet(plan, time)[i].at > time
<1>1. PICK n \in Nat, k \in Nat : n = Len(plan) /\ k = LatestDue(plan, time) /\ k <= n
  BY DueIs DEF LatestDue
<1>2. k < n => plan[k + 1].at > time
  BY <1>1, DueIs DEF LatestDue
<1>3. \A i \in 1 .. n : plan[i] \in Slots /\ plan[i].at \in Nat
  BY <1>1, AtOf
<1>4. CASE k = 0
  BY <1>1, <1>4, RestAll DEF AfterGet
<1>5. CASE k > 0
  <2>1. PICK u : u = AfterGet(plan, time)
    OBVIOUS
  <2>2. u = SubSeq(plan, k, n)
    BY <1>1, <1>5, <2>1 DEF AfterGet
  <2>3. u \in Seq(Slots) /\ Len(u) = n - k + 1 /\ \A i \in 1 .. Len(u) : u[i] = plan[k + i - 1]
    BY <1>1, <1>5, <2>2
  <2>4. PICK j \in Nat : j + 1 = k
    <3>1. k - 1 \in Nat /\ (k - 1) + 1 = k
      BY <1>5
    <3> QED
      BY <3>1
  <2>5. \A i \in 1 .. Len(u) : i + j \in 1 .. n /\ u[i] = plan[i + j]
    <3> SUFFICES ASSUME NEW i \in 1 .. Len(u)
                 PROVE  i + j \in 1 .. n /\ u[i] = plan[i + j]
      OBVIOUS
    <3>0. i \in Nat /\ 1 <= i /\ i <= n - k + 1
      BY <1>1, <2>3
    <3>1. i + j \in 1 .. n /\ k + i - 1 = i + j
      BY <1>1, <2>4, <3>0, Shifted, Zenon
    <3> QED
      BY <2>3, <3>1
  <2>6. Rest(u, plan)
    BY <1>1, <2>3, <2>5 DEF Rest
  <2>7. ASSUME NEW i \in 1 .. Len(u)
        PROVE  u[i].at >= plan[k].at /\ (u[i].at <= plan[k].at \/ u[i].at > time)
    <3>1. i + j \in 1 .. n /\ u[i] = plan[i + j] /\ k \in 1 .. n /\ k <= i + j
      BY <1>1, <1>5, <2>4, <2>5
    <3>2. plan[k].at <= plan[i + j].at
      BY <1>1, <3>1 DEF Ordered
    <3>3. CASE i = 1
      <4>1. i + j = k
        BY <2>4, <3>3
      <4>2. u[i].at = plan[k].at /\ plan[k].at \in Nat
        BY <1>3, <3>1, <4>1
      <4> QED
        BY ONLY <4>2
    <3>4. CASE i # 1
      <4>1. k + 1 \in 1 .. n /\ k + 1 <= i + j /\ k < n
        BY <2>4, <3>1, <3>4
      <4>2. plan[k + 1].at <= plan[i + j].at
        BY <1>1, <3>1, <4>1 DEF Ordered
      <4>3. plan[i + j].at \in Nat /\ plan[k + 1].at \in Nat
        BY <1>3, <3>1, <4>1
      <4>4. plan[i + j].at > time
        BY <1>2, <4>1, <4>2, <4>3
      <4>5. plan[i + j].at >= plan[k].at
        BY <1>3, <3>1, <3>2
      <4> QED
        BY <3>1, <4>4, <4>5
    <3> QED
      BY <3>3, <3>4
  <2> QED
    BY <1>1, <2>1, <2>6, <2>7
<1> QED
  BY <1>4, <1>5

-----------------------------------------------------------------------------
(* The state of LoadTarget and of the workers.                             *)

Loads   == [pc : {"idle", "create", "checkout"}, doc : Nat, loop : Loops]
Holding == [pc : {"idle", "tick", "got", "pop"}, time : Nat, slot : Slots, plan : Nat]

(* The documents are used in their order.                                  *)
Counters ==
    /\ clock \in 1 .. MaxClock /\ newest \in 0 .. Len(Docs) /\ stamp \in 0 .. newest
    /\ handed \in Nat

PlansOrdered ==
    /\ cur \in 0 .. Buffers - 1 /\ buf \in [0 .. Buffers - 1 -> Seq(Slots)]
    /\ \A b \in 0 .. Buffers - 1 : Ordered(buf[b])

(* What LoadTarget prepares is of a later document.                        *)
LoadsLater ==
    /\ load \in Loads /\ load.doc \in 0 .. newest
    /\ load.pc # "idle" => stamp < load.doc
    /\ LoopInv(load.loop)

(* What a worker holds is of no later document than the plan in use.       *)
HoldsEarlier == wk \in [Workers -> Holding] /\ \A w \in Workers : wk[w].plan <= stamp

(* The plan in use goes on from the slot that was handed out last.         *)
GoesOn == \A i \in 1 .. Len(Plan) : Plan[i].at >= handed

PlanInv == Counters /\ PlansOrdered /\ LoadsLater /\ HoldsEarlier /\ GotLatest /\ GoesOn

(* The plan in use, typed and in order.                                    *)
LEMMA PlanIs ==
    ASSUME PlansOrdered
    PROVE  Plan \in Seq(Slots) /\ Ordered(Plan) /\ Len(Plan) \in Nat
<1>1. buf[cur] \in Seq(Slots) /\ Ordered(buf[cur])
  BY DEF PlansOrdered
<1> QED
  BY <1>1 DEF Plan

(* Replacing one buffer's plan by one in order.                            *)
LEMMA PlansReplaced ==
    \A b \in 0 .. Buffers - 1, s \in Seq(Slots) :
        PlansOrdered /\ Ordered(s) /\ buf' = [buf EXCEPT ![b] = s] /\ cur' = cur =>
            PlansOrdered' /\ (b = cur => Plan' = s) /\ (b # cur => Plan' = Plan)
<1> SUFFICES ASSUME NEW b \in 0 .. Buffers - 1, NEW s \in Seq(Slots), PlansOrdered, Ordered(s),
                    buf' = [buf EXCEPT ![b] = s], cur' = cur
             PROVE  PlansOrdered' /\ (b = cur => Plan' = s) /\ (b # cur => Plan' = Plan)
  OBVIOUS
<1>1. /\ buf' \in [0 .. Buffers - 1 -> Seq(Slots)]
      /\ \A c \in 0 .. Buffers - 1 : buf'[c] = IF c = b THEN s ELSE buf[c]
  BY DEF PlansOrdered
<1>2. \A c \in 0 .. Buffers - 1 : Ordered(buf'[c])
  BY <1>1 DEF PlansOrdered
<1>3. PlansOrdered'
  BY <1>1, <1>2 DEF PlansOrdered
<1>4. (b = cur => Plan' = s) /\ (b # cur => Plan' = Plan)
  BY <1>1 DEF PlansOrdered, Plan
<1> QED
  BY <1>3, <1>4

(* Taking from the front of the plan keeps what is handed out in order.    *)
LEMMA RestGoesOn ==
    ASSUME PlansOrdered, GoesOn, Rest(Plan', Plan), handed' = handed
    PROVE  GoesOn'
<1>1. PICK k \in Nat : \A i \in 1 .. Len(Plan') : i + k \in 1 .. Len(Plan) /\ Plan'[i] = Plan[i + k]
  BY DEF Rest
<1> QED
  BY <1>1 DEF GoesOn

(* A worker that goes back to its tick holds nothing.                      *)
LEMMA IdleIs == Idle \in Holding /\ Idle.pc = "idle" /\ Idle.plan = 0
BY DEF Idle, NoSlot, Holding, Slots

LEMMA WorkerMoves ==
    \A w \in Workers, x \in Holding :
        HoldsEarlier /\ wk' = [wk EXCEPT ![w] = x] /\ x.plan <= stamp /\ stamp' = stamp =>
            /\ HoldsEarlier' /\ wk'[w] = x
            /\ \A v \in Workers : v # w => wk'[v] = wk[v]
<1> SUFFICES ASSUME NEW w \in Workers, NEW x \in Holding, HoldsEarlier,
                    wk' = [wk EXCEPT ![w] = x], x.plan <= stamp, stamp' = stamp
             PROVE  /\ HoldsEarlier' /\ wk'[w] = x
                    /\ \A v \in Workers : v # w => wk'[v] = wk[v]
  OBVIOUS
<1>1. /\ wk' \in [Workers -> Holding]
      /\ \A v \in Workers : wk'[v] = IF v = w THEN x ELSE wk[v]
  BY DEF HoldsEarlier
<1> QED
  BY <1>1 DEF HoldsEarlier

(* A step that adds nothing to the plan in use, and gives no worker a      *)
(* slot, disturbs no one who holds one.                                    *)
LEMMA GotKept ==
    ASSUME PlansOrdered, GotLatest, Rest(Plan', Plan), stamp' = stamp,
           \A w \in Workers : \/ wk'[w] = wk[w]
                              \/ wk'[w].pc \in {"idle", "tick"}
                              \/ /\ wk[w].pc = "got" /\ wk'[w].slot = wk[w].slot
                                 /\ wk'[w].time = wk[w].time /\ wk'[w].plan = wk[w].plan
    PROVE  GotLatest'
<1>1. PICK k \in Nat : \A i \in 1 .. Len(Plan') : i + k \in 1 .. Len(Plan) /\ Plan'[i] = Plan[i + k]
  BY DEF Rest
<1>2. Plan \in Seq(Slots) /\ DOMAIN Plan = 1 .. Len(Plan)
  BY PlanIs
<1>3. DOMAIN Plan' = 1 .. Len(Plan')
  BY DEF Rest
<1> SUFFICES ASSUME NEW w \in Workers, wk'[w].pc \in {"got", "pop"}, wk'[w].plan = stamp',
                    NEW i \in 1 .. Len(Plan')
             PROVE  Plan'[i].at <= wk'[w].slot.at \/ Plan'[i].at > wk'[w].time
  BY <1>3, Zenon DEF GotLatest
<1>4. /\ wk[w].pc \in {"got", "pop"} /\ wk[w].plan = stamp
      /\ wk'[w].slot = wk[w].slot /\ wk'[w].time = wk[w].time
  <2>1. wk'[w].pc \notin {"idle", "tick"}
    OBVIOUS
  <2> QED
    BY <2>1
<1>5. Plan[i + k].at <= wk[w].slot.at \/ Plan[i + k].at > wk[w].time
  BY <1>1, <1>2, <1>4 DEF GotLatest
<1> QED
  BY <1>1, <1>4, <1>5

(* LoadTarget with nothing begun.                                          *)
LEMMA NoLoadIs ==
    NoLoad \in Loads /\ NoLoad.doc = 0 /\ NoLoad.pc = "idle" /\ LoopInv(NoLoad.loop)
<1>1. <<>> \in Seq(Nat) /\ InTime(<<>>) /\ 0 \in Int /\ 0 \in Nat
  BY DEF InTime
<1>2. LoopInv(Loop(0, 0, <<>>, 0, 0))
  BY ONLY <1>1, LoopStart, Zenon
<1>3. LoopInv(NoLoop) /\ NoLoop \in Loops
  BY <1>2 DEF NoLoop, LoopInv
<1>4. NoLoad \in Loads /\ NoLoad.doc = 0 /\ NoLoad.pc = "idle" /\ NoLoad.loop = NoLoop
  BY <1>3 DEF NoLoad, Loads
<1> QED
  BY <1>3, <1>4

LEMMA PlanInit == Init => PlanInv
<1> SUFFICES ASSUME Init
             PROVE  PlanInv
  OBVIOUS
<1>1. Counters
  BY PlanAssumption DEF Init, Counters
<1>2. <<>> \in Seq(Slots) /\ Ordered(<<>>) /\ 0 \in 0 .. Buffers - 1
  BY PlanAssumption DEF Ordered
<1>3. PlansOrdered /\ Plan = <<>>
  BY <1>2 DEF Init, PlansOrdered, Plan
<1>5. LoadsLater
  BY NoLoadIs DEF Init, LoadsLater
<1>6. HoldsEarlier
  BY IdleIs DEF Init, HoldsEarlier
<1>7. GotLatest /\ GoesOn
  <2>1. DOMAIN Plan = {} /\ 1 .. Len(Plan) = {}
    BY <1>3
  <2> QED
    BY ONLY <2>1, Zenon DEF GotLatest, GoesOn
<1> QED
  BY <1>1, <1>3, <1>5, <1>6, <1>7 DEF PlanInv

(* The clock and the database go on.                                       *)
LEMMA OutsideInv ==
    ASSUME PlanInv, TimePasses \/ Publish
    PROVE  PlanInv'
<1>1. UNCHANGED <<stamp, buf, cur, load, wk, handed>> /\ Plan' = Plan
  BY DEF TimePasses, Publish, Plan
<1>2. Counters' /\ newest' >= newest /\ newest' \in Nat
  BY PlanAssumption DEF PlanInv, Counters, TimePasses, Publish
<1>3. PlansOrdered'
  BY <1>1 DEF PlanInv, PlansOrdered
<1>4. LoadsLater'
  <2>1. \A k \in 0 .. newest : k \in 0 .. newest'
    BY <1>2 DEF PlanInv, Counters
  <2> QED
    BY <1>1, <2>1 DEF PlanInv, LoadsLater
<1>5. HoldsEarlier'
  BY <1>1 DEF PlanInv, HoldsEarlier
<1>6. GotLatest' /\ GoesOn'
  BY <1>1 DEF PlanInv, GotLatest, GoesOn
<1> QED
  BY <1>2, <1>3, <1>4, <1>5, <1>6 DEF PlanInv

(* LoadTarget, whatever the document: a step of it that keeps the plan in  *)
(* use.                                                                    *)
LEMMA LoadKeeps ==
    ASSUME PlanInv, UNCHANGED <<clock, newest, stamp, cur, wk, handed>>, PlansOrdered', LoadsLater',
           Plan' = Plan
    PROVE  PlanInv'
<1>1. Counters' /\ HoldsEarlier'
  BY DEF PlanInv, Counters, HoldsEarlier
<1>2. GotLatest' /\ GoesOn'
  BY DEF PlanInv, GotLatest, GoesOn
<1> QED
  BY <1>1, <1>2 DEF PlanInv

LEMMA LoadNewInv ==
    ASSUME PlanInv, LoadNew
    PROVE  PlanInv'
<1>1. NextBuffer(cur) \in 0 .. Buffers - 1 /\ NextBuffer(cur) # cur
  BY NextIsOther DEF PlanInv, PlansOrdered
<1>2. PlansOrdered' /\ Plan' = Plan
  <2>1. <<>> \in Seq(Slots) /\ Ordered(<<>>)
    BY DEF Ordered
  <2>2. buf' = [buf EXCEPT ![NextBuffer(cur)] = <<>>] /\ cur' = cur /\ PlansOrdered
    BY DEF LoadNew, PlanInv
  <2> QED
    BY ONLY <1>1, <2>1, <2>2, PlansReplaced, Zenon
<1>3. LoadsLater'
  <2>1. newest' = newest /\ stamp' = stamp
    BY DEF LoadNew
  <2>2. CASE UNCHANGED load
    BY <2>1, <2>2 DEF PlanInv, LoadsLater
  <2>3. CASE newest > stamp /\ \E d \in Docs[newest], last \in Positions :
                load' = [pc |-> "create", doc |-> newest,
                         loop |-> Loop(last, d.target, TimeList(d.day[clock], d.mode, clock),
                                       d.skip, d.volK)]
    <3>1. newest \in Nat /\ newest \in 1 .. Len(Docs) /\ stamp < newest /\ clock \in 1 .. MaxClock
          /\ clock \in Nat /\ newest \in 0 .. newest
      <4>1. newest \in 0 .. Len(Docs) /\ stamp \in 0 .. newest /\ clock \in 1 .. MaxClock
            /\ newest > 0
        BY DEF PlanInv, Counters, LoadNew
      <4>2. Len(Docs) \in Nat /\ MaxClock \in Nat
        BY PlanAssumption
      <4> QED
        BY ONLY <2>3, <4>1, <4>2
    <3>2. PICK d \in Docs[newest], last \in Positions :
             load' = [pc |-> "create", doc |-> newest,
                      loop |-> Loop(last, d.target, TimeList(d.day[clock], d.mode, clock),
                                    d.skip, d.volK)]
      BY <2>3
    <3>3. d \in Documents /\ last \in Int
      BY <3>1, PlanAssumption
    <3>4. /\ d.target \in Int /\ d.skip \in Nat /\ d.volK \in Nat /\ d.day[clock] \in Seq(Nat)
          /\ d.mode \in Modes
      BY <3>1, <3>3 DEF Documents
    <3>5. PICK times : times = TimeList(d.day[clock], d.mode, clock)
      OBVIOUS
    <3>6. times \in Seq(Nat) /\ InTime(times)
      BY ONLY <3>1, <3>4, <3>5, TimeListIs
    <3>7. PICK L : L = Loop(last, d.target, times, d.skip, d.volK)
      OBVIOUS
    <3>8. LoopInv(L)
      BY ONLY <3>3, <3>4, <3>6, <3>7, LoopStart
    <3>9. load' = [pc |-> "create", doc |-> newest, loop |-> L]
      BY <3>2, <3>5, <3>7, Zenon
    <3>10. L \in Loops
      BY <3>8 DEF LoopInv
    <3>11. load' \in Loads /\ load'.doc = newest /\ load'.loop = L
      BY <3>1, <3>9, <3>10 DEF Loads
    <3> QED
      BY <2>1, <3>1, <3>8, <3>11, Zenon DEF LoadsLater
  <2> QED
    BY <2>2, <2>3 DEF LoadNew
<1>4. UNCHANGED <<clock, newest, stamp, cur, wk, handed>>
  BY DEF LoadNew
<1> QED
  BY <1>2, <1>3, <1>4, LoadKeeps

LEMMA LoadMoves ==
    ASSUME NEW l \in Loads
    PROVE  /\ \A L \in Loops : /\ [l EXCEPT !.loop = L] \in Loads
                               /\ [l EXCEPT !.loop = L].loop = L
                               /\ [l EXCEPT !.loop = L].doc = l.doc
                               /\ [l EXCEPT !.loop = L].pc = l.pc
           /\ [l EXCEPT !.pc = "checkout"] \in Loads
           /\ [l EXCEPT !.pc = "checkout"].loop = l.loop
           /\ [l EXCEPT !.pc = "checkout"].doc = l.doc
BY DEF Loads

LEMMA CreateTurnInv ==
    ASSUME PlanInv, CreateTurn
    PROVE  PlanInv'
<1>1. PICK L : L = Turn(load.loop)
  OBVIOUS
<1>2. LoopInv(L) /\ L \in Loops
  <2>1. LoopInv(load.loop) /\ Turns(load.loop)
    BY DEF PlanInv, LoadsLater, CreateTurn
  <2>2. LoopInv(L)
    BY <1>1, <2>1, LoopTurn
  <2> QED
    BY <2>2 DEF LoopInv
<1>3. load' = [load EXCEPT !.loop = L]
  BY <1>1 DEF CreateTurn
<1>4. load \in Loads /\ load.doc \in 0 .. newest /\ (load.pc # "idle" => stamp < load.doc)
  BY DEF PlanInv, LoadsLater
<1>5. load' \in Loads /\ load'.loop = L /\ load'.doc = load.doc /\ load'.pc = load.pc
  BY <1>2, <1>3, <1>4, LoadMoves
<1>6. UNCHANGED <<clock, newest, stamp, buf, cur, wk, handed>>
  BY DEF CreateTurn
<1>7. LoadsLater'
  BY <1>2, <1>4, <1>5, <1>6 DEF LoadsLater
<1>8. PlansOrdered' /\ Plan' = Plan
  BY <1>6 DEF PlanInv, PlansOrdered, Plan
<1> QED
  BY <1>6, <1>7, <1>8, LoadKeeps

LEMMA CreateEndInv ==
    ASSUME PlanInv, CreateEnd
    PROVE  PlanInv'
<1>1. NextBuffer(cur) \in 0 .. Buffers - 1 /\ NextBuffer(cur) # cur
  BY NextIsOther DEF PlanInv, PlansOrdered
<1>2. load \in Loads /\ load.doc \in 0 .. newest /\ stamp < load.doc /\ LoopInv(load.loop)
  BY DEF PlanInv, LoadsLater, CreateEnd
<1>3. PlansOrdered' /\ Plan' = Plan
  <2>1. Created(load.loop) \in Seq(Slots) /\ Ordered(Created(load.loop))
    BY <1>2, CreatedIs
  <2>2. buf' = [buf EXCEPT ![NextBuffer(cur)] = Created(load.loop)] /\ cur' = cur /\ PlansOrdered
    BY DEF CreateEnd, PlanInv
  <2> QED
    BY ONLY <1>1, <2>1, <2>2, PlansReplaced, Zenon
<1>4. load' = [load EXCEPT !.pc = "checkout"]
  BY DEF CreateEnd
<1>5. load' \in Loads /\ load'.loop = load.loop /\ load'.doc = load.doc
  BY <1>2, <1>4, LoadMoves
<1>6. UNCHANGED <<clock, newest, stamp, cur, wk, handed>>
  BY DEF CreateEnd
<1>7. LoadsLater'
  BY <1>2, <1>5, <1>6 DEF LoadsLater
<1> QED
  BY <1>3, <1>6, <1>7, LoadKeeps

(* Every worker's slot is of an earlier document now: nothing is said of   *)
(* it any more, and handing out begins anew.                               *)
LEMMA CheckOutInv ==
    ASSUME PlanInv, CheckOut
    PROVE  PlanInv' /\ stamp' # stamp
<1>1. load \in Loads /\ load.doc \in 0 .. newest /\ stamp < load.doc /\ stamp \in 0 .. newest
      /\ newest \in Nat
  BY PlanAssumption DEF PlanInv, LoadsLater, CheckOut, Counters
<1>2. /\ stamp' = load.doc /\ cur' = NextBuffer(cur) /\ load' = NoLoad /\ handed' = 0
      /\ UNCHANGED <<clock, newest, buf, wk>>
  BY DEF CheckOut
<1>3. Counters'
  BY <1>1, <1>2 DEF PlanInv, Counters
<1>4. PlansOrdered'
  <2>1. NextBuffer(cur) \in 0 .. Buffers - 1
    BY NextIsOther DEF PlanInv, PlansOrdered
  <2> QED
    BY <1>2, <2>1 DEF PlanInv, PlansOrdered
<1>5. LoadsLater'
  BY <1>1, <1>2, NoLoadIs DEF LoadsLater
<1>6. \A w \in Workers : wk[w].plan \in Nat /\ wk[w].plan < load.doc
  BY <1>1 DEF PlanInv, HoldsEarlier, Holding
<1>7. HoldsEarlier'
  <2>1. \A w \in Workers : wk[w].plan <= load.doc
    BY <1>1, <1>6
  <2> QED
    BY <1>2, <2>1 DEF PlanInv, HoldsEarlier
<1>8. GotLatest'
  <2>1. \A w \in Workers : wk[w].plan # load.doc
    BY <1>1, <1>6
  <2> QED
    BY <1>2, <2>1, Zenon DEF GotLatest
<1>9. GoesOn'
  <2>1. buf'[cur'] \in Seq(Slots)
    BY <1>4 DEF PlansOrdered
  <2>2. \A i \in 1 .. Len(buf'[cur']) : buf'[cur'][i].at \in Nat
    BY <2>1, AtOf
  <2>3. \A i \in 1 .. Len(Plan') : Plan'[i].at >= handed'
    BY <1>2, <2>2 DEF Plan
  <2> QED
    BY <2>3 DEF GoesOn
<1> QED
  BY <1>1, <1>2, <1>3, <1>4, <1>5, <1>7, <1>8, <1>9 DEF PlanInv

(* A step of a worker that gives it no slot, and takes from the front of   *)
(* the plan at most.                                                       *)
LEMMA WorkerKeeps ==
    ASSUME PlanInv, UNCHANGED <<clock, newest, stamp, cur, load, handed>>, PlansOrdered',
           HoldsEarlier', Rest(Plan', Plan),
           \A w \in Workers : \/ wk'[w] = wk[w]
                              \/ wk'[w].pc \in {"idle", "tick"}
                              \/ /\ wk[w].pc = "got" /\ wk'[w].slot = wk[w].slot
                                 /\ wk'[w].time = wk[w].time /\ wk'[w].plan = wk[w].plan
    PROVE  PlanInv'
<1>1. Counters' /\ LoadsLater'
  BY DEF PlanInv, Counters, LoadsLater
<1>2. GotLatest'
  BY GotKept DEF PlanInv
<1>3. GoesOn'
  BY RestGoesOn DEF PlanInv
<1> QED
  BY <1>1, <1>2, <1>3 DEF PlanInv

(* The plan in use as it was.                                              *)
LEMMA PlansStay ==
    ASSUME PlansOrdered, UNCHANGED <<buf, cur>>
    PROVE  PlansOrdered' /\ Plan' = Plan /\ Rest(Plan', Plan)
<1>1. PlansOrdered' /\ Plan' = Plan
  BY DEF PlansOrdered, Plan
<1> QED
  BY <1>1, PlanIs, RestAll

LEMMA TickInv ==
    ASSUME PlanInv, NEW w \in Workers, Tick(w)
    PROVE  PlanInv'
<1>1. PICK x : x = [Idle EXCEPT !.pc = "tick", !.time = clock]
  OBVIOUS
<1>2. x \in Holding /\ x.pc = "tick" /\ x.plan <= stamp
  <2>1. clock \in Nat /\ stamp \in Nat
    BY PlanAssumption DEF PlanInv, Counters
  <2>2. x = [pc |-> "tick", time |-> clock, slot |-> NoSlot, plan |-> 0]
    BY <1>1 DEF Idle
  <2>3. NoSlot \in Slots
    BY DEF NoSlot, Slots
  <2> QED
    BY <2>1, <2>2, <2>3 DEF Holding
<1>3. wk' = [wk EXCEPT ![w] = x] /\ UNCHANGED <<clock, newest, stamp, buf, cur, load, handed>>
  BY <1>1 DEF Tick
<1>4. HoldsEarlier' /\ wk'[w] = x /\ \A v \in Workers : v # w => wk'[v] = wk[v]
  BY <1>2, <1>3, WorkerMoves DEF PlanInv
<1>5. PlansOrdered' /\ Rest(Plan', Plan)
  BY <1>3, PlansStay DEF PlanInv
<1>6. \A v \in Workers : wk'[v] = wk[v] \/ wk'[v].pc \in {"idle", "tick"}
  BY <1>2, <1>4
<1> QED
  BY <1>3, <1>4, <1>5, <1>6, WorkerKeeps

LEMMA TargetWayInv ==
    ASSUME PlanInv, NEW w \in Workers, TargetWay(w)
    PROVE  PlanInv'
<1>1. UNCHANGED <<clock, newest, stamp, buf, cur, load, handed>> /\ wk[w].pc = "got"
  BY DEF TargetWay
<1>2. PlansOrdered' /\ Rest(Plan', Plan)
  BY <1>1, PlansStay DEF PlanInv
<1>3. wk[w] \in Holding /\ wk[w].plan <= stamp /\ stamp \in Nat
  BY PlanAssumption DEF PlanInv, HoldsEarlier, Counters
<1>4. PICK x \in Holding : /\ wk' = [wk EXCEPT ![w] = x] /\ x.plan <= stamp
                           /\ \/ x.pc = "idle"
                              \/ x.slot = wk[w].slot /\ x.time = wk[w].time /\ x.plan = wk[w].plan
  <2>1. CASE wk' = [wk EXCEPT ![w].pc = "pop"]
    <3>1. PICK x : x = [wk[w] EXCEPT !.pc = "pop"]
      OBVIOUS
    <3>2. x \in Holding /\ x.slot = wk[w].slot /\ x.time = wk[w].time /\ x.plan = wk[w].plan
      BY <1>3, <3>1 DEF Holding
    <3>3. wk' = [wk EXCEPT ![w] = x]
      BY <2>1, <3>1
    <3> QED
      BY <1>3, <3>2, <3>3
  <2>2. CASE wk' = [wk EXCEPT ![w] = Idle]
    <3>1. Idle.plan <= stamp
      BY <1>3, IdleIs
    <3> QED
      BY <2>2, <3>1, IdleIs
  <2> QED
    BY <2>1, <2>2 DEF TargetWay
<1>5. HoldsEarlier' /\ wk'[w] = x /\ \A v \in Workers : v # w => wk'[v] = wk[v]
  BY <1>1, <1>4, WorkerMoves DEF PlanInv
<1>6. \A v \in Workers : \/ wk'[v] = wk[v]
                         \/ wk'[v].pc \in {"idle", "tick"}
                         \/ /\ wk[v].pc = "got" /\ wk'[v].slot = wk[v].slot
                            /\ wk'[v].time = wk[v].time /\ wk'[v].plan = wk[v].plan
  BY <1>1, <1>4, <1>5
<1> QED
  BY <1>1, <1>2, <1>5, <1>6, WorkerKeeps

LEMMA PopTargetInv ==
    ASSUME PlanInv, NEW w \in Workers, PopTarget(w)
    PROVE  PlanInv'
<1>1. /\ UNCHANGED <<clock, newest, stamp, cur, load, handed>>
      /\ wk' = [wk EXCEPT ![w] = Idle]
      /\ buf' = [buf EXCEPT ![cur] = IF Plan = <<>> THEN <<>> ELSE Tail(Plan)]
  BY DEF PopTarget
<1>2. PICK s : s = IF Plan = <<>> THEN <<>> ELSE Tail(Plan)
  OBVIOUS
<1>3. Rest(s, Plan) /\ s \in Seq(Slots) /\ Ordered(s)
  <2>1. Plan \in Seq(Slots) /\ Ordered(Plan)
    BY PlanIs DEF PlanInv
  <2>2. Rest(s, Plan)
    BY <1>2, <2>1, RestTail
  <2>3. s \in Seq(Slots)
    BY <2>2 DEF Rest
  <2> QED
    BY <2>1, <2>2, <2>3, RestOrdered
<1>4. PlansOrdered' /\ Plan' = s
  <2>1. buf' = [buf EXCEPT ![cur] = s] /\ cur' = cur /\ PlansOrdered /\ cur \in 0 .. Buffers - 1
    BY <1>1, <1>2 DEF PlanInv, PlansOrdered
  <2> QED
    BY ONLY <1>3, <2>1, PlansReplaced, Zenon
<1>5. HoldsEarlier' /\ wk'[w] = Idle /\ \A v \in Workers : v # w => wk'[v] = wk[v]
  <2>1. Idle.plan <= stamp
    BY IdleIs, PlanAssumption DEF PlanInv, Counters
  <2> QED
    BY <1>1, <2>1, IdleIs, WorkerMoves DEF PlanInv
<1>6. \A v \in Workers : wk'[v] = wk[v] \/ wk'[v].pc \in {"idle", "tick"}
  BY <1>5, IdleIs
<1> QED
  BY <1>1, <1>3, <1>4, <1>5, <1>6, WorkerKeeps

(* GetTarget hands out no slot from before the last one, and leaves        *)
(* nothing that its tick would rather have had.                            *)
LEMMA GetTargetInv ==
    ASSUME PlanInv, NEW w \in Workers, GetTarget(w)
    PROVE  PlanInv' /\ handed' >= handed
<1>1. /\ UNCHANGED <<clock, newest, stamp, cur, load>> /\ wk[w].pc = "tick"
      /\ buf' = [buf EXCEPT ![cur] = AfterGet(Plan, wk[w].time)]
  BY DEF GetTarget
<1>2. PICK k, s : k = LatestDue(Plan, wk[w].time) /\ s = AfterGet(Plan, wk[w].time)
  OBVIOUS
<1>3. wk[w] \in Holding /\ wk[w].time \in Nat /\ stamp \in Nat /\ handed \in Nat
  <2>1. wk[w] \in Holding /\ stamp \in Nat /\ handed \in Nat
    BY PlanAssumption DEF PlanInv, HoldsEarlier, Counters
  <2> QED
    BY <2>1 DEF Holding
<1>4. Plan \in Seq(Slots) /\ Ordered(Plan) /\ Len(Plan) \in Nat
  BY PlanIs DEF PlanInv
<1>5. /\ k \in 0 .. Len(Plan) /\ Rest(s, Plan)
      /\ k > 0 => \A i \in 1 .. Len(s) : /\ s[i].at >= Plan[k].at
                                         /\ s[i].at <= Plan[k].at \/ s[i].at > wk[w].time
  BY ONLY <1>2, <1>3, <1>4, AfterGetIs
<1>6. s \in Seq(Slots) /\ Ordered(s)
  <2>1. s \in Seq(Slots)
    BY <1>5 DEF Rest
  <2> QED
    BY <1>4, <1>5, <2>1, RestOrdered
<1>7. PlansOrdered' /\ Plan' = s
  <2>1. buf' = [buf EXCEPT ![cur] = s] /\ cur' = cur /\ PlansOrdered /\ cur \in 0 .. Buffers - 1
    BY <1>1, <1>2 DEF PlanInv, PlansOrdered
  <2> QED
    BY ONLY <1>6, <2>1, PlansReplaced, Zenon
<1>8. CASE k = 0
  <2>1. wk' = [wk EXCEPT ![w] = Idle] /\ handed' = handed
    BY <1>2, <1>8 DEF GetTarget
  <2>2. HoldsEarlier' /\ wk'[w] = Idle /\ \A v \in Workers : v # w => wk'[v] = wk[v]
    <3>1. Idle.plan <= stamp
      BY <1>3, IdleIs
    <3> QED
      BY <1>1, <2>1, <3>1, IdleIs, WorkerMoves DEF PlanInv
  <2>3. \A v \in Workers : wk'[v] = wk[v] \/ wk'[v].pc \in {"idle", "tick"}
    BY <2>2, IdleIs
  <2>4. PlanInv'
    BY <1>1, <1>5, <1>7, <2>1, <2>2, <2>3, WorkerKeeps
  <2> QED
    BY <1>3, <2>1, <2>4
<1>9. CASE k > 0
  <2>1. k \in 1 .. Len(Plan) /\ Plan[k] \in Slots /\ Plan[k].at \in Nat
    <3>1. k \in 1 .. Len(Plan)
      BY <1>4, <1>5, <1>9
    <3> QED
      BY <1>4, <3>1, AtOf
  <2>2. PICK x : x = [pc |-> "got", time |-> wk[w].time, slot |-> Plan[k], plan |-> stamp]
    OBVIOUS
  <2>3. x \in Holding /\ x.plan = stamp /\ x.plan <= stamp /\ x.slot = Plan[k] /\ x.time = wk[w].time
    BY <1>3, <2>1, <2>2 DEF Holding
  <2>4. wk' = [wk EXCEPT ![w] = x] /\ handed' = Plan[k].at
    BY <1>2, <1>5, <1>9, <2>2 DEF GetTarget
  <2>5. HoldsEarlier' /\ wk'[w] = x /\ \A v \in Workers : v # w => wk'[v] = wk[v]
    BY <1>1, <2>3, <2>4, WorkerMoves DEF PlanInv
  <2>6. handed' >= handed
    <3>1. Plan[k].at >= handed
      BY <2>1 DEF PlanInv, GoesOn
    <3> QED
      BY <2>4, <3>1
  <2>7. Counters' /\ LoadsLater'
    BY <1>1, <2>1, <2>4 DEF PlanInv, Counters, LoadsLater
  <2>8. GoesOn'
    BY <1>5, <1>7, <1>9, <2>4 DEF GoesOn
  <2>9. GotLatest'
    <3> SUFFICES ASSUME NEW v \in Workers, wk'[v].pc \in {"got", "pop"}, wk'[v].plan = stamp',
                        NEW i \in 1 .. Len(s)
                 PROVE  s[i].at <= wk'[v].slot.at \/ s[i].at > wk'[v].time
      <4>1. DOMAIN Plan' = 1 .. Len(s)
        BY <1>6, <1>7
      <4> QED
        BY <1>7, <4>1, Zenon DEF GotLatest
    <3>1. CASE v = w
      BY <1>5, <1>9, <2>3, <2>5, <3>1
    <3>2. CASE v # w
      <4>1. wk'[v] = wk[v] /\ wk[v].pc \in {"got", "pop"} /\ wk[v].plan = stamp
        BY <1>1, <2>5, <3>2
      <4>2. PICK j \in Nat : i + j \in 1 .. Len(Plan) /\ s[i] = Plan[i + j]
        BY <1>5 DEF Rest
      <4>3. i + j \in DOMAIN Plan
        BY <1>4, <4>2
      <4>4. Plan[i + j].at <= wk[v].slot.at \/ Plan[i + j].at > wk[v].time
        BY <4>1, <4>3, Zenon DEF PlanInv, GotLatest
      <4> QED
        BY <4>1, <4>2, <4>4
    <3> QED
      BY <3>1, <3>2
  <2>10. PlanInv'
    BY <1>7, <2>5, <2>7, <2>8, <2>9 DEF PlanInv
  <2> QED
    BY <2>6, <2>10
<1> QED
  BY <1>5, <1>8, <1>9

-----------------------------------------------------------------------------
LEMMA PlanNext ==
    ASSUME PlanInv, [Next]_vars
    PROVE  PlanInv' /\ (stamp' = stamp => handed' >= handed)
<1>1. handed \in Nat
  BY DEF PlanInv, Counters
<1>2. CASE TimePasses \/ Publish
  <2>1. handed' = handed
    BY <1>2 DEF TimePasses, Publish
  <2> QED
    BY <1>1, <1>2, <2>1, OutsideInv
<1>3. CASE LoadNew
  <2>1. handed' = handed
    BY <1>3 DEF LoadNew
  <2> QED
    BY <1>1, <1>3, <2>1, LoadNewInv
<1>4. CASE CreateTurn
  <2>1. handed' = handed
    BY <1>4 DEF CreateTurn
  <2> QED
    BY <1>1, <1>4, <2>1, CreateTurnInv
<1>5. CASE CreateEnd
  <2>1. handed' = handed
    BY <1>5 DEF CreateEnd
  <2> QED
    BY <1>1, <1>5, <2>1, CreateEndInv
<1>6. CASE CheckOut
  BY <1>6, CheckOutInv
<1>7. ASSUME NEW w \in Workers, Tick(w) \/ TargetWay(w) \/ PopTarget(w)
      PROVE  PlanInv' /\ (stamp' = stamp => handed' >= handed)
  <2>1. handed' = handed
    BY <1>7 DEF Tick, TargetWay, PopTarget
  <2> QED
    BY <1>1, <1>7, <2>1, TickInv, TargetWayInv, PopTargetInv
<1>8. ASSUME NEW w \in Workers, GetTarget(w)
      PROVE  PlanInv' /\ (stamp' = stamp => handed' >= handed)
  BY <1>8, GetTargetInv
<1>9. CASE UNCHANGED vars
  <2>1. Counters' /\ PlansOrdered' /\ LoadsLater' /\ HoldsEarlier'
    BY <1>9 DEF vars, PlanInv, Counters, PlansOrdered, LoadsLater, HoldsEarlier
  <2>2. Plan' = Plan
    BY <1>9 DEF vars, Plan
  <2>3. GotLatest' /\ GoesOn' /\ handed' = handed
    BY <1>9, <2>2 DEF vars, PlanInv, GotLatest, GoesOn
  <2> QED
    BY <1>1, <2>1, <2>3 DEF PlanInv
<1> QED
  BY <1>2, <1>3, <1>4, <1>5, <1>6, <1>7, <1>8, <1>9 DEF Next, LoadTarget, Execute

LEMMA PlanAlways == Spec => []PlanInv
<1>1. PlanInv /\ [Next]_vars => PlanInv'
  BY PlanNext
<1> QED
  BY <1>1, PlanInit, PTL DEF Spec

(* Every variable keeps to its values, whatever the documents: GetTimeList *)
(* gives times of the day only, Create positions that are whole numbers.   *)
THEOREM PlanTypeCorrect == Spec => []TypeOK
<1>1. PlanInv => TypeOK
  <2> SUFFICES ASSUME PlanInv
               PROVE  TypeOK
    OBVIOUS
  <2>1. Counters /\ PlansOrdered
    BY DEF PlanInv
  <2>2. load.pc \in {"idle", "create", "checkout"} /\ load.doc \in 0 .. newest /\ load.loop \in Loops
    BY DEF PlanInv, LoadsLater, Loads
  <2>3. load.loop.list \in Seq(Slots)
    BY <2>2, LoopFields
  <2>4. \A w \in Workers : wk[w] \in Holding
    BY DEF PlanInv, HoldsEarlier
  <2> QED
    BY <2>1, <2>2, <2>3, <2>4 DEF TypeOK, Counters, PlansOrdered, Holding
<1> QED
  BY <1>1, PlanAlways, PTL

(* What Create plans keeps to the straight line from the position it found *)
(* to the target, for any two positions, any number of times and any       *)
(* m_dbVolK: what it rounds away at one time it makes up for at the next.  *)
THEOREM TracksAlways == Spec => []Tracks
<1>1. PlanInv => Tracks
  <2>1. PlanInv => LoopInv(load.loop)
    BY DEF PlanInv, LoadsLater
  <2>2. LoopInv(load.loop) => Len(load.loop.times) \in Nat
    BY LoopFields DEF LoopInv
  <2>3. ASSUME LoopInv(load.loop), Len(load.loop.times) > 0
        PROVE  LET L == load.loop
                   n == Len(L.times)
               IN  /\ Size((L.pos - L.last) * n - L.idx * Trade(L)) < n
                   /\ L.idx = n => L.pos = L.target
                   /\ L.idx > 0 => L.list # <<>> /\ Last(L.list).pos = L.pos
    BY <2>3, LoopTracks
  <2> QED
    BY <2>1, <2>3, Zenon DEF Tracks
<1> QED
  BY <1>1, PlanAlways, PTL

(* A worker holds the latest slot that its tick's time makes due, although *)
(* others take from the same plan and LoadTarget replaces it meanwhile.    *)
THEOREM GotLatestAlways == Spec => []GotLatest
<1>1. PlanInv => GotLatest
  BY DEF PlanInv
<1> QED
  BY <1>1, PlanAlways, PTL

(* No plan is executed backwards, however many workers there are and in    *)
(* whatever order their ticks come: GetTimeList sorts the times, Create    *)
(* keeps them in order, and what GetTarget hands out is the first of what  *)
(* it leaves.                                                              *)
THEOREM NeverBackAlways == Spec => NeverBack
<1>1. PlanInv /\ [Next]_vars => [stamp' = stamp => handed' >= handed]_handed
  BY PlanNext
<1> QED
  BY <1>1, PlanAlways, PTL DEF Spec, NeverBack
=============================================================================
