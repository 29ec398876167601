---------------------------- MODULE PositionBook ----------------------------
(***************************************************************************)
(* The positions of one instrument (src/HCTP/CTdThread.cpp): longs and     *)
(* shorts, of today and of yesterday, and what TargetWay makes of them.    *)
(* It chooses for each order whether it opens, closes today's or closes    *)
(* yesterday's position; the fills come back through two books, one moved  *)
(* by orders that ended and one by trades.  Two exchanges keep yesterday's *)
(* positions in a record of their own (SHFE, INE), the others do not.      *)
(*                                                                         *)
(* TdCore has the interleavings of the threads, lost reports and the loops *)
(* around TargetWay.  Here a callback is one step, and so is TargetWay     *)
(* with the CheckDoing before it; reports are late but not lost.           *)
(***************************************************************************)
EXTENDS Integers, SequencesExt

CONSTANTS
    Accounts,  \* what the account may hold at first
    Targets,   \* target positions
    MaxOnce,   \* nMaxOnce
    LongMax,   \* nLongPosMax
    ShortMax,  \* nShortPosMax
    MaxRef     \* bound: orders created

Sides == {"long", "short"}
Flags == {"open", "today", "yesterday"}     \* CombOffsetFlag

Holding == [Sides -> [td : Nat, yd : Nat]]

ASSUME BookAssumption ==
    /\ Accounts \subseteq Holding
    /\ Targets \subseteq Int
    /\ MaxOnce \in Nat \ {0} /\ MaxRef \in Nat
    /\ LongMax \in Int /\ ShortMax \in Int

VARIABLES
    apart,    \* CTP_EXID_ISSHFE or CTP_EXID_ISINE
    posORD,   \* m_mapPositionORD, see Book
    posTRD,   \* m_mapPositionTRD
    order,    \* by OrderRef: the order, what HTP knows and what is true of it
    account,  \* external: the account's positions
    stream,   \* external: reports on their way
    goal,     \* history: the target TargetWay settled last, see TargetWay
    blind     \* history: TargetWay decided on a partial fill it did not see

vars == <<apart, posORD, posTRD, order, account, stream, goal, blind>>

(* A side of a book: Position and TodayPosition of the record of today,    *)
(* Position of the record of yesterday.                                    *)
Book == [Sides -> [pos : Int, today : Int, hist : Int]]

(* vol, rem, traded: volume, rest of it in the last report, trades stored. *)
(* rep: no report yet, hanging, or ended (and booked).                     *)
(* cxl: not to be cancelled, or to be cancelled and reopened or dropped.   *)
(* st, left: at the exchange.                                              *)
NewOrder(dir, flag, vol) ==
    [dir |-> dir, flag |-> flag, vol |-> vol, rem |-> vol, traded |-> 0,
     rep |-> "none", cxl |-> "no", st |-> "queued", left |-> vol]

Refs == DOMAIN order
Lesser(a, b) == IF a < b THEN a ELSE b
Sum(S, f(_)) == SumFunction([x \in S |-> f(x)])
Signed(dir, n) == IF dir = "buy" THEN n ELSE -n

-----------------------------------------------------------------------------
(* The books.                                                              *)

(* PositionUpdate's PosiDirection: what an order opens or closes.          *)
SideOf(dir, flag) ==
    IF (dir = "buy") <=> (flag = "open") THEN "long" ELSE "short"

(* PositionWay storing the answer to the query of positions.               *)
Loaded(sep, acc) ==
    [s \in Sides |->
        IF sep THEN [pos |-> acc[s].td, today |-> acc[s].td, hist |-> acc[s].yd]
        ELSE [pos |-> acc[s].td + acc[s].yd, today |-> acc[s].td, hist |-> 0]]

(* PositionWay reading one side.                                           *)
Read(b) == [td |-> b.today, yd |-> IF apart THEN b.hist ELSE b.pos - b.today]

Opened(b, n) == [b EXCEPT !.pos = @ + n, !.today = @ + n]

(* What PositionUpdate finds to close: min(.., Volume).                    *)
Closable(b, flag, n) ==
    IF flag = "today" THEN Lesser(b.pos, n)
    ELSE IF apart THEN Lesser(b.hist, n)
    ELSE Lesser(b.pos - b.today, n)

(* Mutant: today's position is lowered, although yesterday's was closed.   *)
ClosedYd_Today(b, n) ==
    IF apart THEN [b EXCEPT !.hist = @ - n] ELSE [b EXCEPT !.pos = @ - n, !.today = @ - n]

ClosedYd(b, n) ==
    IF apart THEN [b EXCEPT !.hist = @ - n] ELSE [b EXCEPT !.pos = @ - n]

ClosedTd(b, n) == [b EXCEPT !.pos = @ - n, !.today = @ - n]

(* PositionUpdate.                                                         *)
Moved(b, flag, n) ==
    IF flag = "open" THEN Opened(b, n)
    ELSE IF flag = "today" THEN ClosedTd(b, Closable(b, flag, n))
    ELSE ClosedYd(b, Closable(b, flag, n))

Update(book, o, n) ==
    [book EXCEPT ![SideOf(o.dir, o.flag)] = Moved(@, o.flag, n)]

(* PositionUpdate returns true.                                            *)
Fits(book, o, n) ==
    o.flag = "open" \/ Closable(book[SideOf(o.dir, o.flag)], o.flag, n) = n

-----------------------------------------------------------------------------
(* What TargetWay sees.                                                    *)

Hanging(r) == order[r].rep = "hang"

(* ScanGD: what hangs of the orders that open or close a side.             *)
Pending(s, flag) ==
    Sum({r \in Refs : Hanging(r) /\ order[r].flag = flag
                         /\ SideOf(order[r].dir, flag) = s},
        LAMBDA r : order[r].rem)

PendingDir(dir) ==
    Sum({r \in Refs : Hanging(r) /\ order[r].dir = dir}, LAMBDA r : order[r].rem)

(* Mutant: what is being closed of yesterday's position still counts.      *)
Valid_NoYd(s) ==
    [td |-> Read(posORD[s]).td - Pending(s, "today"), yd |-> Read(posORD[s]).yd]

(* GetPosValid: what no hanging order is closing.                          *)
Valid(s) ==
    [td |-> Read(posORD[s]).td - Pending(s, "today"),
     yd |-> Read(posORD[s]).yd - Pending(s, "yesterday")]

ValidPos(s) == Valid(s).td + Valid(s).yd

GetPosValid == \A s \in Sides : ValidPos(s) >= 0

(* CompareORTD.  TodayPosition is not compared.                            *)
CompareORTD ==
    \A s \in Sides : /\ posORD[s].pos = posTRD[s].pos
                     /\ apart => posORD[s].hist = posTRD[s].hist

(* HaveDoing: an order was not reported yet or is being cancelled.         *)
HaveDoing == \E r \in Refs : \/ order[r].rep = "none"
                             \/ order[r].rep = "hang" /\ order[r].cxl # "no"

BCanOpen == ValidPos("long") <= LongMax /\ ValidPos("short") <= ShortMax

(* Mutant: the sells that hang to open are forgotten.                      *)
NDoAll_NoOS(tgt) == tgt - ValidPos("long") + ValidPos("short") - Pending("long", "open")

NDoAll(tgt) == tgt - ValidPos("long") + ValidPos("short")
                   - Pending("long", "open") + Pending("short", "open")

Turned(n) == \/ n > 0 /\ PendingDir("sell") > 0
             \/ n < 0 /\ PendingDir("buy") > 0

-----------------------------------------------------------------------------
(* TARGET_LOOP.                                                            *)

(* Mutant: an order takes the whole volume.                                *)
Portions_Whole(n) == IF n > 0 THEN <<n>> ELSE <<>>

(* At most nMaxOnce an order.                                              *)
Portions(n) == [i \in 1 .. (n + MaxOnce - 1) \div MaxOnce |-> Lesser(MaxOnce, n - (i - 1) * MaxOnce)]

(* Of n, what closes the opposite position: yesterday's first.             *)
ToClose(opp, n) ==
    LET yd == Lesser(n, IF opp.yd > 0 THEN opp.yd ELSE 0)
    IN  [yesterday |-> yd, today |-> Lesser(n - yd, IF opp.td > 0 THEN opp.td ELSE 0)]

(* The orders for n lots, n # 0.                                           *)
OrdersFor(n) ==
    LET dir == IF n > 0 THEN "buy" ELSE "sell"
        all == IF n > 0 THEN n ELSE -n
        close == ToClose(Valid(SideOf(dir, "today")), all)
        open == IF BCanOpen THEN all - close.yesterday - close.today ELSE 0
        Make(flag, v) == [i \in DOMAIN Portions(v) |-> NewOrder(dir, flag, Portions(v)[i])]
    IN  Make("yesterday", close.yesterday) \o Make("today", close.today) \o Make("open", open)

(* References that reopened orders will need.                              *)
Reserved == Cardinality({r \in Refs : order[r].cxl = "reopen" /\ order[r].rep # "done"})

(* What a hanging order has filled is neither pending nor in posORD.       *)
PartUnseen == \E r \in Refs : Hanging(r) /\ order[r].rem < order[r].vol

(* A target is due and no order is under way.  goal.open tells whether     *)
(* opening was allowed.                                                    *)
TargetWay(tgt) ==
    LET n == NDoAll(tgt)
    IN  /\ ~HaveDoing /\ CompareORTD /\ GetPosValid
        /\ blind' = (blind \/ PartUnseen)
        /\ \/ /\ n = 0
              /\ goal' = [on |-> TRUE, pos |-> tgt, open |-> BCanOpen]
              /\ UNCHANGED order
           \/ \* the target turned round: drop what hangs for 5 s
              /\ Turned(n)
              /\ \E D \in SUBSET {r \in Refs : Hanging(r)} :
                    order' = [r \in Refs |-> IF r \in D THEN [order[r] EXCEPT !.cxl = "drop"]
                                             ELSE order[r]]
              /\ goal' = [goal EXCEPT !.on = FALSE]
           \/ /\ n # 0 /\ ~Turned(n)
              /\ Len(order) + Reserved + Len(OrdersFor(n)) <= MaxRef
              /\ order' = order \o OrdersFor(n)
              /\ goal' = [on |-> TRUE, pos |-> tgt, open |-> BCanOpen]
        /\ UNCHANGED <<apart, posORD, posTRD, account, stream>>

(* An order hangs for too long, at the end of TargetWay or at a tick       *)
(* without a target: it is cancelled and will be reopened.                 *)
CancelWay(r) ==
    /\ Hanging(r) /\ order[r].cxl = "no"
    /\ Len(order) + Reserved < MaxRef
    /\ order' = [order EXCEPT ![r].cxl = "reopen"]
    /\ UNCHANGED <<apart, posORD, posTRD, account, stream, goal, blind>>

-----------------------------------------------------------------------------
(* The exchange.                                                           *)

Report(kind, r, n) == [kind |-> kind, ref |-> r, n |-> n]

Live(r) == order[r].st = "live"

(* A close is covered by what no other order is closing.                   *)
Covered(o) ==
    LET s == SideOf(o.dir, o.flag)
        used == Sum({q \in Refs : Live(q) /\ order[q].flag = o.flag
                                     /\ SideOf(order[q].dir, o.flag) = s},
                    LAMBDA q : order[q].left)
    IN  o.flag # "open" =>
            o.vol + used <= (IF o.flag = "today" THEN account[s].td ELSE account[s].yd)

(* ThreadTrading sends the oldest order queued.                            *)
Insert(r) ==
    /\ order[r].st = "queued"
    /\ \A q \in 1 .. r - 1 : order[q].st # "queued"
    /\ IF Covered(order[r])
       THEN /\ order' = [order EXCEPT ![r].st = "live"]
            /\ stream' = Append(stream, Report("queueing", r, order[r].vol))
       ELSE /\ order' = [order EXCEPT ![r].st = "ended"]
            /\ stream' = Append(stream, Report("error", r, 0))
    /\ UNCHANGED <<apart, posORD, posTRD, account, goal, blind>>

Fill(r, n) ==
    LET o == order[r]
        s == SideOf(o.dir, o.flag)
    IN  /\ Live(r) /\ n \in 1 .. o.left
        /\ order' = [order EXCEPT ![r].left = @ - n,
                                  ![r].st = IF n = o.left THEN "ended" ELSE "live"]
        /\ account' =
              IF o.flag = "open" THEN [account EXCEPT ![s].td = @ + n]
              ELSE IF o.flag = "today" THEN [account EXCEPT ![s].td = @ - n]
              ELSE [account EXCEPT ![s].yd = @ - n]
        /\ stream' = stream \o <<Report(IF n = o.left THEN "all" ELSE "part", r, o.left - n),
                                 Report("trade", r, n)>>
        /\ UNCHANGED <<apart, posORD, posTRD, goal, blind>>

Cancelled(r) ==
    /\ Live(r) /\ order[r].cxl # "no"
    /\ order' = [order EXCEPT ![r].st = "ended"]
    /\ stream' = Append(stream, Report("canceled", r, order[r].left))
    /\ UNCHANGED <<apart, posORD, posTRD, account, goal, blind>>

-----------------------------------------------------------------------------
(* The CTP thread.                                                         *)

(* OrderWay: an order that hangs on, one that is all traded.               *)
OrderHangs(m) ==
    /\ m.kind \in {"queueing", "part"}
    /\ order' = [order EXCEPT ![m.ref].rep = "hang", ![m.ref].rem = m.n]
    /\ UNCHANGED <<posORD, posTRD>>

OrderTraded(m) ==
    /\ m.kind = "all"
    /\ order' = [order EXCEPT ![m.ref].rep = "done", ![m.ref].rem = 0]
    /\ posORD' = Update(posORD, order[m.ref], order[m.ref].vol)
    /\ UNCHANGED posTRD

(* OrderWay: a cancelled order's fills are booked and its rest reopened.   *)
OrderCanceled(m) ==
    LET o == order[m.ref]
        filled == o.vol - m.n
        done == [order EXCEPT ![m.ref].rep = "done", ![m.ref].rem = m.n]
    IN  /\ m.kind = "canceled"
        /\ posORD' = Update(posORD, o, filled)
        /\ order' = IF o.cxl = "reopen" /\ Fits(posORD, o, filled)
                    THEN Append(done, NewOrder(o.dir, o.flag, m.n)) ELSE done
        /\ UNCHANGED posTRD

(* OnRspOrderInsert: the order is forgotten.                               *)
OrderRefused(m) ==
    /\ m.kind = "error"
    /\ order' = [order EXCEPT ![m.ref].rep = "done"]
    /\ UNCHANGED <<posORD, posTRD>>

(* TradeWay.                                                               *)
Trade(m) ==
    /\ m.kind = "trade"
    /\ order' = [order EXCEPT ![m.ref].traded = @ + m.n]
    /\ posTRD' = Update(posTRD, order[m.ref], m.n)
    /\ UNCHANGED posORD

Callback ==
    /\ stream # <<>>
    /\ LET m == Head(stream)
       IN  OrderHangs(m) \/ OrderTraded(m) \/ OrderCanceled(m) \/ OrderRefused(m) \/ Trade(m)
    /\ stream' = Tail(stream)
    /\ UNCHANGED <<apart, account, goal, blind>>

-----------------------------------------------------------------------------
Init ==
    /\ apart \in BOOLEAN
    /\ account \in Accounts
    /\ posORD = Loaded(apart, account) /\ posTRD = posORD
    /\ order = <<>> /\ stream = <<>>
    /\ goal = [on |-> FALSE, pos |-> 0, open |-> FALSE]
    /\ blind = FALSE

Exchange == \E r \in Refs : Insert(r) \/ Cancelled(r) \/ \E n \in 1 .. order[r].left : Fill(r, n)

Next ==
    \/ \E tgt \in Targets : TargetWay(tgt)
    \/ \E r \in Refs : CancelWay(r)
    \/ Exchange
    \/ Callback

Spec == Init /\ [][Next]_vars

-----------------------------------------------------------------------------
(* Properties.                                                             *)

TypeOK ==
    /\ apart \in BOOLEAN
    /\ posORD \in Book /\ posTRD \in Book
    /\ account \in Holding
    /\ Len(order) <= MaxRef
    /\ \A r \in Refs : LET o == order[r] IN
          /\ o.dir \in {"buy", "sell"} /\ o.flag \in Flags /\ o.vol \in 1 .. MaxOnce
          /\ o.left \in 0 .. o.vol /\ o.rem \in o.left .. o.vol /\ o.traded \in 0 .. o.vol
          /\ o.rep \in {"none", "hang", "done"} /\ o.cxl \in {"no", "reopen", "drop"}
          /\ o.st \in {"queued", "live", "ended"}
    /\ \A i \in DOMAIN stream : stream[i].ref \in Refs
    /\ goal.on \in BOOLEAN /\ goal.open \in BOOLEAN
    /\ blind \in BOOLEAN

(* What the orders' fills changed on a side, today's or yesterday's: n is  *)
(* how much of an order counts.                                            *)
Change(s, flag, n(_)) ==
    Sum({r \in Refs : order[r].flag = flag /\ SideOf(order[r].dir, flag) = s}, n)

Filled(r)    == order[r].vol - order[r].left
Unbooked(r)  == IF order[r].rep = "done" THEN 0 ELSE Filled(r)
Untraded(r)  == Filled(r) - order[r].traded

Lags(book, n(_)) ==
    \A s \in Sides :
        /\ Read(book[s]).td = account[s].td - Change(s, "open", n) + Change(s, "today", n)
        /\ Read(book[s]).yd = account[s].yd + Change(s, "yesterday", n)

(* Both books tell today's and yesterday's longs and shorts exactly: they  *)
(* differ from the account by the fills of orders not ended and by the     *)
(* trades not reported, whichever the exchange, and never cut short.       *)
BooksFollow == Lags(posORD, Unbooked) /\ Lags(posTRD, Untraded)

(* What an order still leads to: its rest, unless it ends without it.      *)
Open(r) ==
    IF order[r].st # "ended" \/ (order[r].cxl = "reopen" /\ order[r].rep # "done")
    THEN order[r].left ELSE 0

Free(s) == [td |-> account[s].td - Change(s, "today", Open),
            yd |-> account[s].yd - Change(s, "yesterday", Open)]

(* No more is being closed than the account holds of the kind, today's or  *)
(* yesterday's, so no close is refused: whatever fills, cancels and        *)
(* reopens are on their way.                                               *)
ClosesCovered == ~blind => \A s \in Sides : Free(s).td >= 0 /\ Free(s).yd >= 0

(* The net position to which fills and open orders lead.                   *)
Exposed ==
    account["long"].td + account["long"].yd - account["short"].td - account["short"].yd
      + Sum(Refs, LAMBDA r : Signed(order[r].dir, Open(r)))

(* A settled target is what the orders lead to, and stays it through fills *)
(* and reopens.  With a position over its limit no more than closing is    *)
(* done, but all of that.                                                  *)
TargetKept ==
    (goal.on /\ ~blind) =>
        \/ Exposed = goal.pos
        \/ /\ ~goal.open
           /\ Exposed < goal.pos => Free("short") = [td |-> 0, yd |-> 0]
           /\ Exposed > goal.pos => Free("long") = [td |-> 0, yd |-> 0]
=============================================================================
