----------------------------- MODULE MarketData -----------------------------
(***************************************************************************)
(* One instrument's ticks on their way through CMdThread                   *)
(* (src/HCTP/CMdThread.cpp): to CTdThread::OnTick, which lets them trigger *)
(* trades, and to ThreadLineK, which sums them up in K-lines.              *)
(*                                                                         *)
(* Three threads: spi of CMdThread takes a tick, hands it to OnTick and    *)
(* queues it for ThreadLineK; spi of CTdThread is told of changes of the   *)
(* instrument's status; ThreadLineK calculates and saves K-lines and once  *)
(* a minute (LineKWay) invents a tick for an instrument that is silent, so *)
(* that its last K-line is saved.  A restart goes on from the saved one.   *)
(*                                                                         *)
(* A K-line has four bars: of the minute, the hour, the day, and for the   *)
(* settlement.  Of a bar only the volume is kept; prices go along.         *)
(***************************************************************************)
EXTENDS Integers, Sequences

CONSTANTS
    HourLen,   \* the minutes of an hour: 60
    DayLen,    \* the hours of a day: 24
    Begin,     \* the minute the instance starts in
    MaxTime,   \* bound: the last minute of the instance
    MaxVolume, \* bound: the volume traded
    MaxQueue,  \* bound: ticks waiting for ThreadLineK
    MaxEvents, \* bound: changes of status and crashes
    Silent,    \* minutes of silence before a tick is invented: 10
    Invented,  \* minutes it lies after the last one: 3
    Period,    \* a LineKWay follows the last one within so many minutes
    UnsetTimes \* HTP_TICKSTATUS_UNSETTIMES: 4

ASSUME MarketAssumption ==
    /\ HourLen \in Nat /\ DayLen \in Nat \ {0}
    /\ Begin \in Nat /\ MaxTime \in Nat
    /\ MaxVolume \in Nat /\ MaxQueue \in Nat /\ MaxEvents \in Nat
    /\ Silent \in Nat /\ 2 * Silent <= HourLen
    /\ Invented \in 1 .. Silent - 1
    /\ Period \in Nat \ {0}
    /\ UnsetTimes \in Nat \ {0}

VARIABLES
    now,      \* external: the clock
    market,   \* external: the last tick of the exchange
    mapTick,  \* CMdThread's m_mapTick: the last tick taken, or NoTick
    md,       \* spi of CMdThread: where it is in OnRtnDepthMarketData
    cqLineKTick, \* m_cqLineKTick, the ticks for ThreadLineK
    lineK,    \* m_mapLineK, or NoLineK
    backup,   \* the copy in CTdThread
    cqLineK,  \* m_cqLineK, the K-lines to save
    db,       \* external: the newest K-line saved, or NoLineK
    th,       \* ThreadLineK: [pc, tick (the copied one), swept (last LineKWay)]
    status,   \* CTdThread's m_mapStatus
    tickCnt,  \* CTdThread's m_mapTickCnt, counted no further than UnsetTimes + 1
    td,       \* spi of CTdThread: in the midst of a change of status, or "idle"
    events,   \* history: changes of status and crashes, for MaxEvents
    fresh,    \* history: calls of OnTick since the last change of status ended
    crossed,  \* history: a change of status ended during the call of OnTick
    missed,   \* history: LineKWay has marked mapTick, but not copied it
    unsaved   \* history: of the K-lines queued the last one was not saved as the newest

spiVars  == <<mapTick, md, cqLineKTick>>
lineVars == <<lineK, backup, cqLineK, db, th, unsaved>>
gateVars == <<status, tickCnt, td, fresh, crossed>>
vars == <<now, market, spiVars, lineVars, gateVars, events, missed>>

(* A tick: its minute, the volume traded until then, and a tick of m_mapTick *)
(* whether LineKWay has marked it as closed.                               *)
Tick(t, v) == [t |-> t, v |-> v]
Taken(tick) == [t |-> tick.t, v |-> tick.v, closed |-> FALSE]
NoTick == [t |-> -1, v |-> 0, closed |-> FALSE]

-----------------------------------------------------------------------------
(* K-lines: [t, vol, sum, from, extra, last, odd].  vol is the Volume of   *)
(* each bar (the total volume when it last changed) and sum its            *)
(* prcVolumeSum.  The rest is history: what the bar's volume should be     *)
(* counted from, what it counts beyond that after a restart, the volume of *)
(* the last tick, and the bars whose beginning was misjudged.              *)
MINUTE == 0
HOUR == 1
DAY == 2
SETTLE == 3
Types == MINUTE .. SETTLE
Zero == [y \in Types |-> 0]
NoLineK == [t |-> -1, vol |-> Zero, sum |-> Zero, from |-> Zero, extra |-> Zero,
            last |-> 0, odd |-> {}]

MinuteOf(t) == t % HourLen
HourOf(t) == (t \div HourLen) % DayLen
Apart(a, b) == IF a > b THEN a - b ELSE b - a

(* LINEK_ISLASTTICK, within a day: minutes and hours are compared, not     *)
(* times; a K-line that is new has none.                                   *)
Changed(y, a, b) ==
    IF a = -1 THEN y # SETTLE
    ELSE \/ y = MINUTE /\ MinuteOf(a) # MinuteOf(b)
         \/ y = HOUR /\ HourOf(a) # HourOf(b)

(* A bar goes on counting from the last tick of the minute before.         *)
Adjoining(a, b) ==
    /\ Apart(HourOf(a), HourOf(b)) \in {0, 1, DayLen - 1}
    /\ Apart(MinuteOf(a), MinuteOf(b)) \in {1, HourLen - 1}

(* What the two should say.                                                *)
TrulyChanged(y, a, b) ==
    \/ y = MINUTE /\ a # b
    \/ y = HOUR /\ a \div HourLen # b \div HourLen
TrulyAdjoining(a, b) == b = a + 1

(* Mutant: the saved K-line is not gone on from.                           *)
Loaded_New(k, tick) ==
    LET new  == {y \in Types : Changed(y, -1, tick.t)}
        Start(f, x) == [y \in Types |-> IF y \in new THEN x ELSE f[y]]
    IN [t |-> tick.t, vol |-> Start(Zero, tick.v), sum |-> Zero,
        from |-> Start(Zero, tick.v), extra |-> Zero, last |-> tick.v, odd |-> {}]

(* The newest K-line saved, if there is one.                               *)
LoadLineK(k) == IF db # NoLineK THEN db ELSE k

(* What follows LoadLineK: the bars that the tick does not belong to start *)
(* over from it (Init with bZeroMode), the others go on.                   *)
Loaded(k, tick) ==
    LET base == LoadLineK(k)
        new  == {y \in Types : Changed(y, base.t, tick.t)}
        Start(f, x) == [y \in Types |-> IF y \in new THEN x ELSE f[y]]
    IN [t    |-> tick.t,
        vol  |-> Start(base.vol, tick.v),
        sum  |-> Start(base.sum, 0),
        from |-> Start(base.from, tick.v),
        extra |-> Start(base.extra, 0),
        last |-> tick.v,
        odd  |-> {y \in Types \ new : \/ y \in base.odd
                                      \/ base.t # -1 /\ TrulyChanged(y, base.t, tick.t)}]

(* Mutant: every bar goes on counting from the tick before.                *)
Carried_Always(y, a, b) == TRUE

(* The bar goes on counting from the tick before, not from this one.       *)
Carried(y, a, b) == ~Changed(y, a, b) \/ Adjoining(a, b)

(* One turn of CalcLineK's loop, for the bar y.                            *)
SumAfter(k, y, tick) ==
    (IF Changed(y, k.t, tick.t) THEN 0 ELSE k.sum[y])
        + (IF Carried(y, k.t, tick.t) THEN tick.v - k.vol[y] ELSE 0)
FromAfter(k, y, tick) ==
    IF ~TrulyChanged(y, k.t, tick.t) THEN k.from[y]
    ELSE IF TrulyAdjoining(k.t, tick.t) THEN k.last ELSE tick.v
(* A bar counts on from the Volume it keeps: after a restart that is still *)
(* the one saved, less than the last tick's if the only tick since belongs *)
(* to the same bar (CalcLineK loads the K-line with it and sums nothing).  *)
ExtraAfter(k, y, tick) ==
    IF ~Changed(y, k.t, tick.t) THEN k.extra[y]
    ELSE IF Adjoining(k.t, tick.t) THEN k.last - k.vol[y] ELSE 0
OddAfter(k, y, tick) ==
    IF Changed(y, k.t, tick.t)
    THEN Adjoining(k.t, tick.t) # TrulyAdjoining(k.t, tick.t)
    ELSE y \in k.odd \/ TrulyChanged(y, k.t, tick.t)

(* Mutants: a tick with less volume than the bars' is counted; the bar of  *)
(* the minute does not check it.                                           *)
Refuses_Never(k, y, tick) == FALSE
Refuses_NotMinute(k, y, tick) == y # MINUTE /\ k.vol[y] > tick.v /\ tick.v > 0

(* "KV!": the bar has seen more volume than the tick.                      *)
Refuses(k, y, tick) == k.vol[y] > tick.v /\ tick.v > 0

(* The loop ends at the first bar that refuses the tick.                   *)
Reached(k, tick) == {y \in Types : \A z \in MINUTE .. y : ~Refuses(k, z, tick)}

Calculated(k, tick) ==
    LET S == Reached(k, tick) IN
    [t    |-> IF S = Types THEN tick.t ELSE k.t,
     vol  |-> [y \in Types |-> IF y \in S THEN tick.v ELSE k.vol[y]],
     sum  |-> [y \in Types |-> IF y \in S THEN SumAfter(k, y, tick) ELSE k.sum[y]],
     from |-> [y \in Types |-> IF y \in S THEN FromAfter(k, y, tick) ELSE k.from[y]],
     extra |-> [y \in Types |-> IF y \in S THEN ExtraAfter(k, y, tick) ELSE k.extra[y]],
     last |-> IF S = Types THEN tick.v ELSE k.last,
     odd  |-> {y \in Types : IF y \in S THEN OddAfter(k, y, tick) ELSE y \in k.odd}]

-----------------------------------------------------------------------------
(* Something has been traded before.                                       *)
Init ==
    /\ now = Begin
    /\ market = Tick(Begin, 1)
    /\ mapTick = NoTick
    /\ md = "idle"
    /\ cqLineKTick = <<>>
    /\ lineK = NoLineK /\ backup = NoLineK /\ cqLineK = <<>> /\ db = NoLineK
    /\ th = [pc |-> "drain", tick |-> NoTick, swept |-> Begin]
    /\ status = "none" /\ tickCnt = 0 /\ td = "idle"
    /\ events = 0 /\ fresh = 0 /\ crossed = FALSE /\ missed = FALSE /\ unsaved = FALSE

(* Time passes; a turn of ThreadLineK takes it less than Period minutes.   *)
Clock ==
    /\ now < MaxTime /\ now < th.swept + Period
    /\ now' = now + 1
    /\ UNCHANGED <<market, spiVars, lineVars, gateVars, events, missed>>

-----------------------------------------------------------------------------
(* spi of CMdThread.                                                       *)

(* The feed sends a new tick, repeats its last one (after a subscription), *)
(* or sends one that another has overtaken.                                *)
Feed ==
    {Tick(now, v) : v \in {market.v, market.v + 1} \cap 0 .. MaxVolume} \cup {market}
    \cup {Tick(now, v) : v \in {mapTick.v - 1} \cap 1 .. MaxVolume}

(* "TV!": a tick with less volume than the last one taken is dropped.      *)
OnRtnDepthMarketData(tick) ==
    /\ md = "idle" /\ Len(cqLineKTick) < MaxQueue
    /\ market' = IF tick.v < market.v THEN market ELSE tick
    /\ IF mapTick.v > tick.v THEN UNCHANGED <<mapTick, md, missed>>
       ELSE mapTick' = Taken(tick) /\ md' = "call" /\ missed' = FALSE
    /\ UNCHANGED <<now, cqLineKTick, lineVars, gateVars, events>>

(* OnTick counts the tick; the first ones after a change are not trusted.  *)
CountTick ==
    /\ md = "call"
    /\ tickCnt' = IF tickCnt > UnsetTimes THEN tickCnt ELSE tickCnt + 1
    /\ fresh' = IF fresh = UnsetTimes THEN fresh ELSE fresh + 1
    /\ crossed' = FALSE
    /\ md' = IF tickCnt + 1 < UnsetTimes THEN "push" ELSE "check"
    /\ UNCHANGED <<now, market, mapTick, cqLineKTick, lineVars, status, td, events, missed>>

StatusOf(tick) == IF tick.closed THEN "closed" ELSE "continuous"

(* The last of them tells the status.                                      *)
CheckCnt ==
    /\ md = "check"
    /\ md' = IF tickCnt = UnsetTimes THEN "set" ELSE "compare"
    /\ UNCHANGED <<now, market, mapTick, cqLineKTick, lineVars, gateVars, events, missed>>

SetStatus ==
    /\ md = "set"
    /\ status' = StatusOf(mapTick)
    /\ md' = "compare"
    /\ UNCHANGED <<now, market, mapTick, cqLineKTick, lineVars, tickCnt, td, fresh,
                   crossed, events, missed>>

(* The tick goes to ThreadAlgo, or is one of another status: count anew.   *)
Trusts == md = "compare" /\ status = StatusOf(mapTick)

CompareStatus ==
    /\ md = "compare"
    /\ tickCnt' = IF Trusts THEN tickCnt ELSE 0
    /\ md' = "push"
    /\ UNCHANGED <<now, market, mapTick, cqLineKTick, lineVars, status, td, fresh,
                   crossed, events, missed>>

PushTick ==
    /\ md = "push"
    /\ cqLineKTick' = Append(cqLineKTick, Tick(mapTick.t, mapTick.v))
    /\ md' = "idle"
    /\ UNCHANGED <<now, market, mapTick, lineVars, gateVars, events, missed>>

Md == \/ \E tick \in Feed : OnRtnDepthMarketData(tick)
      \/ CountTick \/ CheckCnt \/ SetStatus \/ CompareStatus \/ PushTick

-----------------------------------------------------------------------------
(* spi of CTdThread: OnRtnInstrumentStatus sets the status, then clears    *)
(* the count and forgets the tick.                                         *)

StatusSet(s) ==
    /\ td = "idle" /\ events < MaxEvents
    /\ status' = s /\ td' = "clear" /\ events' = events + 1
    /\ UNCHANGED <<now, market, spiVars, lineVars, tickCnt, fresh, crossed, missed>>

(* Mutant: the count is not cleared.                                       *)
StatusClear_Kept ==
    /\ td = "clear"
    /\ td' = "idle" /\ fresh' = 0
    /\ crossed' = (md \notin {"idle", "call", "push"} \/ crossed)
    /\ UNCHANGED <<now, market, spiVars, lineVars, status, tickCnt, events, missed>>

StatusClear ==
    /\ td = "clear"
    /\ td' = "idle" /\ tickCnt' = 0 /\ fresh' = 0
    /\ crossed' = (md \notin {"idle", "call", "push"} \/ crossed)
    /\ UNCHANGED <<now, market, spiVars, lineVars, status, events, missed>>

OnRtnInstrumentStatus ==
    (\E s \in {"closed", "continuous"} : StatusSet(s)) \/ StatusClear

-----------------------------------------------------------------------------
(* ThreadLineK.                                                            *)

(* CalcLineK: the K-line is loaded the first time, and if it is not the    *)
(* same as its copy; it is pushed when its minute is over.                 *)
CalcLineK ==
    LET tick  == Head(cqLineKTick)
        loads == lineK = NoLineK \/ lineK # backup
        full  == Reached(lineK, tick) = Types
    IN
    /\ th.pc = "drain" /\ cqLineKTick # <<>>
    /\ cqLineKTick' = Tail(cqLineKTick)
    /\ lineK' = IF loads THEN Loaded(lineK, tick) ELSE Calculated(lineK, tick)
    /\ backup' = IF loads \/ full THEN lineK' ELSE backup
    /\ cqLineK' = IF /\ ~loads
                     /\ MINUTE \in Reached(lineK, tick) /\ Changed(MINUTE, lineK.t, tick.t)
                  THEN Append(cqLineK, lineK) ELSE cqLineK
    /\ UNCHANGED <<now, market, mapTick, md, db, th, unsaved, gateVars, events, missed>>

(* OnLineK saves the K-lines pushed.  LoadLineK will find the last of them, *)
(* but inserts may fail or REN_MARKET be off, and SysTime, which it sorts  *)
(* by, is in whole seconds: it may find another one or that of before.     *)
OnLineK ==
    /\ th.pc = "drain" /\ cqLineKTick = <<>>
    /\ db' \in {db} \cup {cqLineK[i] : i \in DOMAIN cqLineK}
    /\ unsaved' = (cqLineK # <<>> /\ db' # cqLineK[Len(cqLineK)])
    /\ cqLineK' = <<>>
    /\ th' = [th EXCEPT !.pc = "rest"]
    /\ UNCHANGED <<now, market, spiVars, lineK, backup, gateVars, events, missed>>

(* Not a minute since the last LineKWay.                                   *)
Rest ==
    /\ th.pc = "rest" /\ now < th.swept + Period
    /\ th' = [th EXCEPT !.pc = "drain"]
    /\ UNCHANGED <<now, market, spiVars, lineK, backup, cqLineK, db, unsaved, gateVars, events,
                   missed>>

(* Mutant: the minutes of an hour are not compared round the clock.        *)
Overdue_Far(tick) == Apart(MinuteOf(now), MinuteOf(tick.t)) > HourLen - Silent

(* The tick is old, as far as the minutes tell.                            *)
Overdue(tick) == Apart(MinuteOf(now), MinuteOf(tick.t)) \in Silent .. HourLen - Silent

(* LineKWay copies the last tick if it is old and not marked ...           *)
LineKWay ==
    /\ th.pc = "rest" /\ now > th.swept
    /\ th' = IF mapTick # NoTick /\ ~mapTick.closed /\ Overdue(mapTick)
             THEN [pc |-> "mark", tick |-> Tick(mapTick.t, mapTick.v), swept |-> now]
             ELSE [th EXCEPT !.pc = "drain", !.swept = now]
    /\ UNCHANGED <<now, market, spiVars, lineK, backup, cqLineK, db, unsaved, gateVars, events,
                   missed>>

(* ... marks the last tick, whichever it is now ...                        *)
MarkTick ==
    /\ th.pc = "mark"
    /\ mapTick' = [mapTick EXCEPT !.closed = TRUE]
    /\ missed' = (Tick(mapTick.t, mapTick.v) # th.tick)
    /\ th' = [th EXCEPT !.pc = "invent"]
    /\ UNCHANGED <<now, market, md, cqLineKTick, lineK, backup, cqLineK, db, unsaved, gateVars,
                   events>>

(* ... and queues the copy with a later time.                              *)
InventTick ==
    /\ th.pc = "invent"
    /\ cqLineKTick' = Append(cqLineKTick, Tick(th.tick.t + Invented, th.tick.v))
    /\ th' = [th EXCEPT !.pc = "drain", !.tick = NoTick]
    /\ UNCHANGED <<now, market, mapTick, md, lineK, backup, cqLineK, db, unsaved, gateVars, events,
                   missed>>

ThreadLineK == CalcLineK \/ OnLineK \/ Rest \/ LineKWay \/ MarkTick \/ InventTick

(* The program ends and is started again.                                  *)
Crash ==
    /\ events < MaxEvents /\ events' = events + 1
    /\ mapTick' = NoTick /\ md' = "idle" /\ cqLineKTick' = <<>>
    /\ lineK' = NoLineK /\ backup' = NoLineK /\ cqLineK' = <<>>
    /\ th' = [pc |-> "drain", tick |-> NoTick, swept |-> now]
    /\ status' = "none" /\ tickCnt' = 0 /\ td' = "idle"
    /\ fresh' = 0 /\ crossed' = FALSE /\ missed' = FALSE /\ unsaved' = FALSE
    /\ UNCHANGED <<now, market, db>>

Next == Clock \/ Md \/ OnRtnInstrumentStatus \/ ThreadLineK \/ Crash

(* Time passes, spi ends what it has begun, and ThreadLineK runs, faster   *)
(* than the ticks come: it finds the queue empty again and again.          *)
Fairness ==
    /\ WF_vars(Clock) /\ WF_vars(ThreadLineK) /\ SF_vars(OnLineK)
    /\ WF_vars(CountTick \/ CheckCnt \/ SetStatus \/ CompareStatus \/ PushTick)

Spec == Init /\ [][Next]_vars /\ Fairness

-----------------------------------------------------------------------------
(* Properties.                                                             *)

LineKs == [t : Nat \cup {-1}, vol : [Types -> Nat], sum : [Types -> Nat],
           from : [Types -> Nat], extra : [Types -> Int], last : Nat, odd : SUBSET Types]

(* The shape of the state; no bar counts a negative volume.                *)
TypeOK ==
    /\ now \in Nat /\ market \in [t : Nat, v : Nat]
    /\ mapTick \in [t : Nat, v : Nat, closed : BOOLEAN] \cup {NoTick}
    /\ md \in {"idle", "call", "check", "set", "compare", "push"}
    /\ md # "idle" => mapTick # NoTick
    /\ cqLineKTick \in Seq([t : Nat, v : Nat])
    /\ lineK \in LineKs /\ backup \in LineKs /\ db \in LineKs /\ cqLineK \in Seq(LineKs)
    /\ th \in [pc : {"drain", "rest", "mark", "invent"}, swept : Nat,
               tick : [t : Nat, v : Nat] \cup {NoTick}]
    /\ th.pc \in {"mark", "invent"} => th.tick \in [t : Nat, v : Nat]
    /\ status \in {"none", "closed", "continuous"} /\ td \in {"idle", "clear"}
    /\ tickCnt \in 0 .. UnsetTimes + 1 /\ fresh \in 0 .. UnsetTimes
    /\ events \in 0 .. MaxEvents /\ crossed \in BOOLEAN /\ missed \in BOOLEAN
    /\ unsaved \in BOOLEAN

(* The volume of every bar is what was traded since the last tick of the   *)
(* minute before or, after a gap, since the bar's first tick, unless the   *)
(* clock's face misled the code (k.odd) -- through invented ticks, refused *)
(* ones and restarts, with the one error that restarts bring: a bar that   *)
(* starts over with the second tick after one counts, beyond that, what    *)
(* was traded between the saved K-line and the first tick (k.extra).       *)
Exact(k) == \A y \in Types \ k.odd : k.sum[y] = k.vol[y] - k.from[y] + k.extra[y]
BarsExact == Exact(lineK) /\ Exact(db) /\ \A i \in DOMAIN cqLineK : Exact(cqLineK[i])

(* A K-line is never left half calculated: it is the copy CTdThread keeps, *)
(* so that a difference means somebody else wrote it.                      *)
NeverHalfDone == lineK = backup

(* Since a change of status was completed (the count cleared), a tick      *)
(* triggers trades only when OnTick has been called at least UnsetTimes    *)
(* times, except in the call that was past its count when the change was   *)
(* completed (crossed): that one compares with the new status, but trusts  *)
(* a count of before (CTdThread.cpp OnTick takes no lock).                 *)
TrustedTicks == Trusts => fresh = UnsetTimes \/ crossed

(* What a restart goes on from never loses volume again.                   *)
NewestLast == [][\A y \in Types : db'.vol[y] >= db.vol[y]]_vars

(* The K-line of an instrument that falls silent is saved, unless LineKWay *)
(* marked a tick it had not copied or the database did not take it.        *)
LastLineSaved ==
    \A t \in Begin .. MaxTime - Silent - Period :
        (now < t + Silent /\ mapTick.t = t /\ lineK.t = t)
            ~> (db.t >= t \/ lineK = NoLineK \/ missed \/ unsaved)
=============================================================================
