----------------------------- MODULE TradeTimes -----------------------------
(***************************************************************************)
(* The times at which an instrument may be traded on a trading day, as     *)
(* GetTimeList lays them out from the hours of its product: the call       *)
(* auction, then every freq milliseconds of each session.  A trading day   *)
(* begins on the evening before, or on Friday; the hours carry no date, so *)
(* each session is given one by what the time of the moment is.            *)
(***************************************************************************)
EXTENDS TimeCalc, Sequences, SequencesExt

CONSTANT MaxNodes  \* bound: the times of a session

ASSUME NodesAssumption == MaxNodes \in Nat

(* LoadTimeTD: a session's hours and minutes; 24:00 is 23:59:59.999.       *)
OfDay(h, m, s, l) == Clock(Date(0, 0, 0), h, m, s, l)

Limit(hm) ==
    IF hm > 2359 THEN OfDay(23, 59, 59, 999) ELSE OfDay(hm \div 100, hm % 100, 0, 0)

Session(from, to) == [start |-> Limit(from), end |-> Limit(to)]

(* The parts of freq, and of what m_dbTimeAdj (in hundredths) makes of it. *)
(* The hours are computed (ctmFreq.m_nHour) and never added.               *)
Span(ms) == [minute |-> (ms % 3600000) \div 60000,
             second |-> (ms % 60000) \div 1000,
             ms     |-> ms % 1000]

Shift(freq, adj) == (freq * (IF adj > 0 THEN adj ELSE 100 + adj)) \div 100

-----------------------------------------------------------------------------
(* Before the trading day's own date: the night before it, or a day that   *)
(* is free.                                                                *)
Eve(now, day) == EarlierDate(now.date, day)

(* The call auction is dated by itself, whatever the hour of now.          *)
Auction(hours, now, day) ==
    LET open == PrevMinute(PrevMinute(PrevMinute(hours[1].start)))
    IN  [open EXCEPT !.date = IF Eve(now, day) THEN now.date ELSE PrevDay(now.date)]

(* The date of a session that starts at the given hour.                    *)
SessionDate(hour, now, day) ==
    IF hour > 20
    THEN IF Eve(now, day) /\ now.hour >= 6 THEN now.date ELSE PrevDay(now.date)
    ELSE IF hour < 6
    THEN IF Eve(now, day) /\ now.hour >= 6 THEN NextDay(now.date) ELSE now.date
    ELSE day

InHours(t, session) == HMS(t) >= HMS(session.start) /\ HMS(t) < HMS(session.end)

(* The session's times: the loop stops at the first that is not in it.     *)
Nodes(session, freq, adj, now, day) ==
    LET first == Carry([session.start EXCEPT !.date = SessionDate(session.start.hour, now, day)],
                       Span(Shift(freq, adj)))
        node[k \in Nat] == IF k = 0 THEN first ELSE Carry(node[k - 1], Span(freq))
        count == CHOOSE n \in 0 .. MaxNodes :
                    /\ \A k \in 0 .. n - 1 : InHours(node[k], session)
                    /\ ~InHours(node[n], session)
    IN  [k \in 1 .. count |-> node[k - 1]]

(* vecTimeDay; empty where GetTimeList fails.  start is the document's     *)
(* orderTime, or now: it decides nothing else.                             *)
TradingDay(hours, freq, adj, now, start, day) ==
    IF freq < 100 \/ EarlierDate(day, now.date) \/ EarlierDate(day, start.date) THEN <<>>
    ELSE <<Auction(hours, now, day)>>
            \o FlattenSeq([i \in DOMAIN hours |-> Nodes(hours[i], freq, adj, now, day)])
=============================================================================
