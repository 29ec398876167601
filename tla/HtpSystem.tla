----------------------------- MODULE HtpSystem -----------------------------
(***************************************************************************)
(* What CHtpSystem derives from its clocks: the network time of the moment *)
(* (GetTime), and the calendar day of a tick that carries its time of day  *)
(* only (TimeStand).                                                       *)
(***************************************************************************)
EXTENDS TimeCalc

(* GetTime(CTP_TIME_NET): the time the NTP server gave last, and the       *)
(* milliseconds counted since.                                             *)
Elapsed(ms) == [minute |-> ms \div 60000, second |-> (ms % 60000) \div 1000, ms |-> ms % 1000]

NetTime(synced, ms) == Carry(synced, Elapsed(ms))

(* TimeStand: a tick's day, from the hour of its time of day and the time  *)
(* the NTP server gave last (CTP_TIME_NATURE), which is not counted on.    *)
(* The tick is refused when the hours are more than one apart, and until   *)
(* there are both a network time and a trading day.                        *)
Stands(nature, trading, hour) ==
    /\ nature.date.year >= 2000
    /\ trading.year >= 2000
    /\ hour - nature.hour \in {-23, -1, 0, 1, 23}

StandDate(nature, hour) ==
    IF hour - nature.hour = 23 THEN PrevDay(nature.date)
    ELSE IF hour - nature.hour = -23 THEN NextDay(nature.date)
    ELSE nature.date
=============================================================================
