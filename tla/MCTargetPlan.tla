---------------------------- MODULE MCTargetPlan ----------------------------
(***************************************************************************)
(* Documents for TargetPlan: a first plan, then one of many, with every    *)
(* mode of GetTimeList and distances to the target of 0 to 4 lots.         *)
(*                                                                         *)
(* The clock counts minutes from 23:55 on Friday, the 28th of February     *)
(* 2025; the trading day is Monday, the 3rd of March.  Plans are made      *)
(* before and after the midnight that ends both week and month.            *)
(***************************************************************************)
EXTENDS TargetPlan, HtpSystem, TradeTimes

Friday == Date(2025, 2, 28)
Monday == Date(2025, 3, 3)

Synced == Clock(Friday, 23, 55, 0, 0)

Hours == <<Session(2359, 2400), Session(1, 3), Session(900, 901)>>

DaysAfter(d) == CHOOSE n \in 0 .. 3 :
    d = <<Friday, NextDay(Friday), PrevDay(Monday), Monday>>[n + 1]

Minutes(t) == (DaysAfter(t.date) * 24 + t.hour - 23) * 60 + t.minute - 55

DayAt(k) ==
    LET now   == NetTime(Synced, k * 60000)
        times == TradingDay(Hours, 60000, -100, now, now, Monday)
    IN  [i \in DOMAIN times |-> Minutes(times[i])]

Day == [k \in 1 .. MaxClock |-> DayAt(k)]

Mode(pre, open, twap, some, close) ==
    [preOpen |-> pre, openK |-> open, twapAD |-> twap, twapK |-> some, closeK |-> close]

First  == {[target |-> 1, skip |-> 0, volK |-> 1, day |-> Day, mode |-> Mode(FALSE, 0, TRUE, 0, 0)]}
Second == {[target |-> t, skip |-> s, volK |-> k, day |-> Day, mode |-> m] :
              t \in {-3, 1, 4}, s \in {0, 2}, k \in {0, 1, 2},
              m \in {Mode(TRUE, 3, FALSE, 2, 2), Mode(FALSE, 0, TRUE, 0, 0), Mode(FALSE, 0, FALSE, 1, 0)}}

MCDocs == <<First, Second>>
MCPositions == {0, 1}
=============================================================================
