------------------------------- MODULE TdCore -------------------------------
(***************************************************************************)
(* The trading core of CTdThread (src/HCTP/CTdThread.cpp) for one          *)
(* instrument: how a target position becomes orders, how their reports     *)
(* become positions, and how hanging orders are cancelled and reopened.    *)
(*                                                                         *)
(* Four program threads and the broker act on the shared state:            *)
(*   ThreadAlgo     ticks: CheckDoing, GetTarget, TargetWay, CancelWay     *)
(*   ThreadFlash    AuctionWay: the same TargetWay, driven by time         *)
(*   ThreadTrading  sends the queued orders and cancels                    *)
(*   the CTP thread (spi) runs OnRtnOrder, OnRtnTrade, OnErrRtnOrderInsert *)
(*                  and the answers to ThreadTime's queries                *)
(* One action is one critical section or one call whose effect another     *)
(* thread can see; a test whose outcome depends on the clock (an order is  *)
(* 5 s, 60 s, 300 s old) may go either way once its stamp is set.          *)
(*                                                                         *)
(* Targets are never negative, so the account holds longs of today only:   *)
(* a buy opens and a sell closes.                                          *)
(***************************************************************************)
EXTENDS Integers, SequencesExt, HtpManage

CONSTANTS
    Scenarios,  \* the days there may be: [slots: the plan's target positions in
                \* order of time, faults: what may go wrong (see FaultNames),
                \* turns: the turns of TARGET_LOOP after which TargetWay gives
                \* up (50), orders, cancels: bounds on the orders created and
                \* on the cancels decided by ScanGD and by the exchange]
    Lot,        \* nMaxOnce: the largest volume of one order
    Workers,    \* the threads that call TargetWay, among "algo", "auction"
    MaxRef      \* bound: orders created in any scenario

FaultNames == {"partial", "exchange", "reject", "offline", "risk", "send", "slow"}

ASSUME CoreAssumption ==
    /\ Scenarios \subseteq [slots : Seq(Nat), faults : SUBSET FaultNames,
                            turns : Nat \ {0}, orders : 0 .. MaxRef, cancels : Nat]
    /\ Lot \in Nat \ {0}
    /\ Workers \subseteq {"algo", "auction"}
    /\ MaxRef \in Nat

VARIABLES
    plan,      \* CTarget of the instrument: [queue, due], the targets not popped
               \* and how many of them have come due; scn is the scenario
    order,     \* the orders created, by OrderRef: [side, vol]
    hts,       \* m_htpManage: OrderRef -> entry
    mapOrder,  \* m_mapOrder: OrderRef -> last report stored
    mapTrade,  \* m_mapTrade: the trades stored, <<OrderRef, TradeID>>
    posORD,    \* m_mapPositionORD, the long position
    posTRD,    \* m_mapPositionTRD
    cqOrder,   \* m_cqOrderTD: OrderRefs to send
    cqAction,  \* m_cqActionTD: OrderRefs to cancel
    noReopen,  \* m_mapCROP: the OrderRefs marked false
    syn,       \* m_mapSynPosORD, m_mapSynPosTRD, ThreadTime: [ord, trd, wait]
    worker,    \* the threads in TargetWay: their place and local variables
    trader,    \* ThreadTrading: [pc, ref, ok]
    spi,       \* the CTP thread: [pc, msg, ref]
    online,    \* m_bStatus[CTPST_LOGINON]
    link,      \* external: the connection to the front
    exch,      \* external: OrderRef -> the order at the exchange
    deals,     \* external: the trades made, as TradeMsg
    rtn,       \* external: private stream on its way to spi
    answers,   \* external: query answers on their way to spi
    cancels,   \* history: cancels decided
    short      \* history: PositionUpdate found less than it was to close

queues == <<order, cqOrder, cqAction, noReopen>>
books  == <<mapOrder, mapTrade, posORD, posTRD, short>>
ext    == <<link, exch, deals, rtn, answers>>
vars   == <<plan, queues, hts, books, syn, worker, trader, spi, online, ext,
            cancels>>

Refs == 1 .. MaxRef
Fault(name) == name \in plan.scn.faults

(* OrderStatus of a report: Unknown comes first and without an OrderSysID. *)
Reported  == {"unknown", "queueing", "part", "all", "canceled"}
Final     == {"all", "canceled"}
NoReport  == [st |-> "none", rem |-> 0]

NoWork == [pc |-> "idle", tgt |-> 0, side |-> "buy", todo |-> <<>>, ref |-> 0,
           cset |-> {}, ctx |-> "none"]
Quiet  == [pc |-> "idle", msg |-> NoReport, ref |-> 0]

NoOrder == [st |-> "none", done |-> 0, cxl |-> FALSE]

Sum(S, f(_)) == SumFunction([x \in S |-> f(x)])
Least(S) == CHOOSE r \in S : \A q \in S : r <= q
Smaller(a, b) == IF a < b THEN a ELSE b
Signed(r, n) == IF order[r].side = "buy" THEN n ELSE 0 - n

Init ==
    /\ plan \in {[scn |-> s, queue |-> s.slots, due |-> 0] : s \in Scenarios}
    /\ order = <<>>
    /\ hts = [r \in Refs |-> NoEntry]
    /\ mapOrder = [r \in Refs |-> NoReport]
    /\ mapTrade = {}
    /\ posORD = 0 /\ posTRD = 0
    /\ cqOrder = <<>> /\ cqAction = <<>>
    /\ noReopen = {}
    /\ syn = [ord |-> FALSE, trd |-> FALSE, wait |-> "no"]
    /\ worker = [t \in Workers |-> NoWork]
    /\ trader = [pc |-> "orders", ref |-> 0, ok |-> TRUE]
    /\ spi = Quiet
    /\ online = TRUE /\ link = TRUE
    /\ exch = [r \in Refs |-> NoOrder]
    /\ deals = <<>> /\ rtn = <<>> /\ answers = <<>>
    /\ cancels = 0 /\ short = FALSE

-----------------------------------------------------------------------------
(* Pending orders and positions.                                           *)

(* Mutant: an order being cancelled no longer counts.                      *)
Pending_NotCancelling(r) ==
    /\ Hanging(hts[r]) /\ hts[r].st < CCL_DOING
    /\ mapOrder[r].st \in {"queueing", "part"}

(* ScanGD: the orders whose remaining volume counts as still to come.      *)
Pending(r) == Hanging(hts[r]) /\ mapOrder[r].st \in {"queueing", "part"}
PendingVol(side) ==
    Sum({r \in 1 .. Len(order) : Pending(r) /\ order[r].side = side},
        LAMBDA r : mapOrder[r].rem)

(* ScanGD with a time limit: any of those that carry the ORDED stamp may   *)
(* be old enough.  The scenario bounds how many are chosen.               *)
Expired == {E \in SUBSET {r \in 1 .. Len(order) : Pending(r) /\ CanExpire(hts[r])} :
                cancels + Cardinality(E) <= plan.scn.cancels}

(* GetPosValid: longs that no pending close has claimed.                   *)
Available == posORD - PendingVol("sell")

(* PositionUpdate: a close takes what there is and reports the excess.     *)
Moved(pos, side, v) == IF side = "buy" THEN pos + v ELSE pos - Smaller(pos, v)
Lacks(pos, side, v) == side = "sell" /\ pos < v

(* Mutants: pending buys are left out of what is to come; the order is not *)
(* split.                                                                  *)
NDoAll_NoPending(tgt) == tgt - Available
Split_Whole(n) == <<n>>

(* TargetWay's loop: nDo in orders of at most nMaxOnce, until all is done  *)
(* or the turns are used up.                                               *)
MaxTurns == plan.scn.turns
Reach == MaxTurns * Lot
Turns(n) == Smaller(MaxTurns, (n + Lot - 1) \div Lot)
Split(n) == [i \in 1 .. Turns(n) |-> Smaller(Lot, n - (i - 1) * Lot)]

(* TargetWay's nDoAll.                                                     *)
NDoAll(tgt) == tgt - Available - PendingVol("buy")

-----------------------------------------------------------------------------
(* The plan.  GetTarget takes everything due, keeps the latest at the      *)
(* front and returns it; PopTarget removes whatever is in front.           *)
SlotDue ==
    /\ plan.due < Len(plan.queue)
    /\ plan' = [plan EXCEPT !.due = @ + 1]
    /\ UNCHANGED <<queues, hts, books, syn, worker, trader, spi, online, ext, cancels>>

AfterGet == [plan EXCEPT !.queue = SubSeq(@, plan.due, Len(@)), !.due = 1]
AfterPop == IF plan.queue = <<>> THEN plan
            ELSE [plan EXCEPT !.queue = Tail(@), !.due = IF @ = 0 THEN 0 ELSE @ - 1]

-----------------------------------------------------------------------------
(* ThreadAlgo and AuctionWay.                                              *)
Goto(t, w) == worker' = [worker EXCEPT ![t] = w]

(* m_lockTarget is taken with the first step of TargetWay and given back   *)
(* by PopTarget or an early return.                                        *)
Holding(t) == \/ worker[t].pc \in {"compared", "push", "stamp", "late", "pop"}
              \/ worker[t].pc \in {"cancel", "mark"} /\ worker[t].ctx # "scan"
LockFree == \A t \in Workers : ~Holding(t)

Blockers == {r \in 1 .. Len(order) : Blocking(hts[r])}

(* A tick of the instrument.  An order without a reply for 300 s (fault    *)
(* "slow") asks ThreadTime to query orders and trades; after 600 s Stop    *)
(* logs out, which the fault "offline" allows at any time.                 *)
CheckDoing(t) ==
    /\ t = "algo" /\ worker[t].pc = "idle"
    /\ Goto(t, [NoWork EXCEPT !.pc = IF Blockers = {} THEN "get" ELSE "scan"])
    /\ \/ UNCHANGED syn
       \/ /\ Fault("slow")
          /\ Blockers # {} /\ Waiting(hts[Least(Blockers)])
          /\ syn' = [syn EXCEPT !.ord = TRUE, !.trd = TRUE]
    /\ UNCHANGED <<plan, queues, hts, books, trader, spi, online, ext, cancels>>

(* GetTarget: ThreadAlgo on a tick, AuctionWay straight from its timer.    *)
GetTarget(t) ==
    /\ worker[t].pc = (IF t = "algo" THEN "get" ELSE "idle")
    /\ \/ /\ plan.due > 0
          /\ plan' = AfterGet
          /\ Goto(t, [NoWork EXCEPT !.pc = "ready", !.tgt = plan.queue[plan.due]])
       \/ /\ plan.due = 0 /\ t = "algo"
          /\ Goto(t, [NoWork EXCEPT !.pc = "scan"])
          /\ UNCHANGED plan
    /\ UNCHANGED <<queues, hts, books, syn, trader, spi, online, ext, cancels>>

(* ScanGD of what is old enough, then CancelWay for each.                  *)
Scan(t, base, ctx, otherwise) ==
    \E E \in Expired :
        /\ cancels' = cancels + Cardinality(E)
        /\ Goto(t, IF E = {} THEN otherwise
                   ELSE [base EXCEPT !.pc = "cancel", !.cset = E, !.ctx = ctx])

(* Without a target ThreadAlgo cancels and reopens what hangs for 60 s.    *)
ScanIdle(t) ==
    /\ worker[t].pc = "scan"
    /\ Scan(t, NoWork, "scan", NoWork)
    /\ UNCHANGED <<plan, queues, hts, books, syn, trader, spi, online, ext>>

(* Orders hang on the other side of what has to be done.                   *)
Turned(nDoAll) == \/ nDoAll > 0 /\ PendingVol("sell") > 0
                  \/ nDoAll < 0 /\ PendingVol("buy") > 0

(* TargetWay takes m_lockTarget and gives up when trading is disabled or    *)
(* when the two position books differ, which asks ThreadTime to query.     *)
CompareORTD(t) ==
    /\ worker[t].pc = "ready" /\ LockFree
    /\ \/ /\ Fault("risk")
          /\ Goto(t, NoWork)
          /\ UNCHANGED syn
       \/ /\ posORD # posTRD
          /\ syn' = [syn EXCEPT !.ord = TRUE, !.trd = TRUE]
          /\ Goto(t, NoWork)
       \/ /\ posORD = posTRD
          /\ Goto(t, [worker[t] EXCEPT !.pc = "compared"])
          /\ UNCHANGED syn
    /\ UNCHANGED <<plan, queues, hts, books, trader, spi, online, ext, cancels>>

(* TargetWay's choice.  GetPosValid reads orders and positions under       *)
(* m_lockPOS_GD, which OrderWay holds until a reopened order is stamped.   *)
TargetWay(t) ==
    LET w == worker[t]
        nDoAll == NDoAll(w.tgt)
        nDoVolAll == IF nDoAll > 0 THEN nDoAll ELSE 0 - nDoAll
    IN
    /\ w.pc = "compared" /\ spi.pc # "stamp"
    /\ \/ \* GetPosValid fails: more is being closed than there is
          /\ Available < 0
          /\ Goto(t, NoWork)
          /\ UNCHANGED cancels
       \/ \* nothing to do
          /\ Available >= 0 /\ nDoAll = 0
          /\ Goto(t, [w EXCEPT !.pc = "pop"])
          /\ UNCHANGED cancels
       \/ \* the target turned round: cancel what hangs for 5 s, keep the target
          /\ Available >= 0 /\ Turned(nDoAll)
          /\ Scan(t, w, "turn", NoWork)
       \/ \* orders to create
          /\ Available >= 0 /\ nDoAll # 0 /\ ~Turned(nDoAll)
          /\ Goto(t, [w EXCEPT !.pc = "push",
                        !.side = IF nDoAll > 0 THEN "buy" ELSE "sell",
                        !.todo = Split(nDoVolAll),
                        !.ctx = IF nDoVolAll > Reach THEN "cut" ELSE "none"])
          /\ UNCHANGED cancels
    /\ UNCHANGED <<plan, queues, hts, books, syn, trader, spi, online, ext>>

(* One turn of TARGET_LOOP: the order goes to the queue first ...          *)
PushOrder(t) ==
    /\ worker[t].pc = "push" /\ Len(order) < plan.scn.orders
    /\ order' = Append(order, [side |-> worker[t].side, vol |-> Head(worker[t].todo)])
    /\ cqOrder' = Append(cqOrder, Len(order'))
    /\ Goto(t, [worker[t] EXCEPT !.pc = "stamp", !.todo = Tail(@), !.ref = Len(order')])
    /\ UNCHANGED <<plan, hts, books, cqAction, noReopen, syn, trader, spi, online,
                   ext, cancels>>

(* Mutant: a loop that gave up is taken for one that is done.              *)
AfterStamp_Done(w) ==
    IF w.todo # <<>> THEN [w EXCEPT !.pc = "push", !.ref = 0]
    ELSE [w EXCEPT !.pc = "late", !.ref = 0]

(* When the turns are used up before all is ordered, TargetWay gives up:   *)
(* the target stays in the plan and the rest is up to the next tick.       *)
AfterStamp(w) ==
    IF w.todo # <<>> THEN [w EXCEPT !.pc = "push", !.ref = 0]
    ELSE IF w.ctx = "cut" THEN NoWork ELSE [w EXCEPT !.pc = "late", !.ref = 0]

(* ... and is entered in the table after.                                  *)
StampNew(t) ==
    /\ worker[t].pc = "stamp"
    /\ hts' = [hts EXCEPT ![worker[t].ref] = SetStatus(@, ORD_NEW)]
    /\ Goto(t, AfterStamp(worker[t]))
    /\ UNCHANGED <<plan, queues, books, syn, trader, spi, online, ext, cancels>>

(* After the new orders TargetWay cancels and reopens what hangs for 5 s.  *)
ScanLate(t) ==
    /\ worker[t].pc = "late"
    /\ Scan(t, worker[t], "late", [worker[t] EXCEPT !.pc = "pop"])
    /\ UNCHANGED <<plan, queues, hts, books, syn, trader, spi, online, ext>>

(* Where a worker goes after a cancel of its list.                         *)
AfterCancel(w) ==
    IF w.cset # {} THEN [w EXCEPT !.pc = "cancel", !.ref = 0]
    ELSE IF w.ctx = "late" THEN [w EXCEPT !.pc = "pop", !.ref = 0] ELSE NoWork

(* Mutant: an order already being cancelled is not skipped.                *)
MayCancel_Again(e) == e.orded

(* CancelWay's early returns: being cancelled already, or younger than 5 s *)
(* (no ORDED stamp reads as age 0).                                        *)
MayCancel(e) == e.st < CCL_DOING /\ e.orded

(* CancelWay's tests, for the first order of the list.  An order priced at *)
(* the limit is kept, unless the target turned round.                      *)
CancelCheck(t) ==
    /\ worker[t].pc = "cancel"
    /\ \E r \in worker[t].cset :
          LET rest == [worker[t] EXCEPT !.cset = @ \ {r}] IN
          /\ \A q \in worker[t].cset : r <= q
          /\ \/ MayCancel(hts[r]) /\ Goto(t, [rest EXCEPT !.pc = "mark", !.ref = r])
             \/ /\ ~MayCancel(hts[r]) \/ worker[t].ctx # "turn"
                /\ Goto(t, AfterCancel(rest))
    /\ UNCHANGED <<plan, queues, hts, books, syn, trader, spi, online, ext, cancels>>

(* CancelWay's writes: the table, m_mapCROP, the action queue.             *)
CancelMark(t) ==
    LET w == worker[t] IN
    /\ w.pc = "mark"
    /\ hts' = [hts EXCEPT ![w.ref] = SetStatus(@, CCL_DOING)]
    /\ noReopen' = IF w.ctx = "turn" THEN noReopen \cup {w.ref} ELSE noReopen \ {w.ref}
    /\ cqAction' = Append(cqAction, w.ref)
    /\ Goto(t, AfterCancel(w))
    /\ UNCHANGED <<plan, order, cqOrder, books, syn, trader, spi, online, ext, cancels>>

(* PopTarget, and the end of m_lockTarget.                                 *)
PopTarget(t) ==
    /\ worker[t].pc = "pop"
    /\ plan' = AfterPop
    /\ Goto(t, NoWork)
    /\ UNCHANGED <<queues, hts, books, syn, trader, spi, online, ext, cancels>>

(* What a worker does between two ticks.                                   *)
Proceed(t) == \/ GetTarget(t) \/ ScanIdle(t) \/ CompareORTD(t) \/ TargetWay(t)
              \/ PushOrder(t) \/ StampNew(t) \/ ScanLate(t) \/ CancelCheck(t)
              \/ CancelMark(t) \/ PopTarget(t)

-----------------------------------------------------------------------------
(* The broker.  It accepts what can be executed, fills it, cancels on      *)
(* request (or by itself, fault "exchange"), and reports each change on    *)
(* the private stream, which is subscribed QUICK: what is sent while the   *)
(* link is down is gone.                                                   *)
OrderMsg(r, st, rem) == [kind |-> "order", ref |-> r, st |-> st, id |-> 0, n |-> rem]
TradeMsg(r, id, v)   == [kind |-> "trade", ref |-> r, st |-> "none", id |-> id, n |-> v]
ErrorMsg(r)          == [kind |-> "error", ref |-> r, st |-> "none", id |-> 0, n |-> 0]
DownMsg              == [kind |-> "down", ref |-> 0, st |-> "none", id |-> 0, n |-> 0]

Emit(ms) == rtn' = IF link THEN rtn \o ms ELSE rtn

Live(r) == exch[r].st = "live"
Left(r) == order[r].vol - exch[r].done
Held == Sum(1 .. Len(order), LAMBDA r : Signed(r, exch[r].done))
Closable == Held - Sum({r \in 1 .. Len(order) : Live(r) /\ order[r].side = "sell"}, Left)

(* Every order starts with a report of unknown status.                     *)
Accept(r) ==
    /\ order[r].side = "buy" \/ order[r].vol <= Closable
    /\ exch' = [exch EXCEPT ![r].st = "live"]
    /\ Emit(<<OrderMsg(r, "unknown", order[r].vol), OrderMsg(r, "queueing", order[r].vol)>>)

Reject(r) ==
    /\ Fault("reject") \/ (order[r].side = "sell" /\ order[r].vol > Closable)
    /\ exch' = [exch EXCEPT ![r].st = "rejected"]
    /\ Emit(<<ErrorMsg(r)>>)

Fill(r, n) ==
    LET done == exch[r].done + n
        st == IF done = order[r].vol THEN "all" ELSE "part"
        deal == TradeMsg(r, Len(deals) + 1, n)
    IN
    /\ Live(r) /\ n \in 1 .. Left(r)
    /\ n = Left(r) \/ Fault("partial")
    /\ exch' = [exch EXCEPT ![r].done = done, ![r].st = IF st = "all" THEN "all" ELSE "live"]
    /\ deals' = Append(deals, deal)
    /\ Emit(<<OrderMsg(r, st, order[r].vol - done), deal>>)
    /\ UNCHANGED <<plan, queues, hts, books, syn, worker, trader, spi, online,
                   link, answers, cancels>>

Cancel(r) ==
    /\ Live(r)
    /\ exch' = [exch EXCEPT ![r].st = "canceled"]
    /\ Emit(<<OrderMsg(r, "canceled", Left(r))>>)
    /\ UNCHANGED <<plan, queues, hts, books, syn, worker, trader, spi, online,
                   link, deals, answers>>

CancelRequested(r) == exch[r].cxl /\ Cancel(r) /\ UNCHANGED cancels

ExchangeCancels(r) ==
    /\ Fault("exchange") /\ cancels < plan.scn.cancels
    /\ Cancel(r)
    /\ cancels' = cancels + 1

(* The API drops the link; spi learns of it after what it already received. *)
Disconnect ==
    /\ Fault("offline") /\ link /\ online
    /\ link' = FALSE
    /\ rtn' = Append(rtn, DownMsg)
    /\ answers' = <<>>
    /\ UNCHANGED <<plan, queues, hts, books, syn, worker, trader, spi, online,
                   exch, deals, cancels>>

(* The API reconnects and ThreadTime logs in again.                        *)
Relogin ==
    /\ ~link /\ ~online
    /\ link' = TRUE /\ online' = TRUE
    /\ UNCHANGED <<plan, queues, hts, books, syn, worker, trader, spi, exch, deals,
                   rtn, answers, cancels>>

-----------------------------------------------------------------------------
(* ThreadTrading: all queued orders, then all queued cancels.              *)
TakeOrder ==
    LET r == Head(cqOrder) IN
    /\ cqOrder # <<>>
    /\ trader.pc = "orders" \/ (trader.pc = "actions" /\ cqAction = <<>>)
    /\ cqOrder' = Tail(cqOrder)
    /\ \/ \* TradDoing returns false before it tries: the entry is deleted
          /\ ~online \/ Fault("risk")
          /\ hts' = [hts EXCEPT ![r] = NoEntry]
          /\ trader' = [trader EXCEPT !.pc = "orders"]
       \/ /\ online
          /\ hts' = [hts EXCEPT ![r] = SetStatus(@, ORD_DOING)]
          /\ trader' = [trader EXCEPT !.pc = "insert", !.ref = r]
    /\ UNCHANGED <<plan, order, cqAction, noReopen, books, syn, worker, spi, online,
                   ext, cancels>>

ReqOrderInsert ==
    /\ trader.pc = "insert"
    /\ \/ /\ ~link \/ Fault("send")
          /\ trader' = [trader EXCEPT !.pc = "sent", !.ok = FALSE]
          /\ UNCHANGED <<exch, rtn>>
       \/ /\ link
          /\ trader' = [trader EXCEPT !.pc = "sent", !.ok = TRUE]
          /\ Accept(trader.ref) \/ Reject(trader.ref)
    /\ UNCHANGED <<plan, queues, hts, books, syn, worker, spi, online, link, deals,
                   answers, cancels>>

(* The stamp after the call, whatever came back meanwhile.                 *)
StampDone(e) == SetStatus(e, ORD_DONE)

OrderSent ==
    /\ trader.pc = "sent"
    /\ hts' = [hts EXCEPT ![trader.ref] = IF trader.ok THEN StampDone(@) ELSE NoEntry]
    /\ trader' = [pc |-> "orders", ref |-> 0, ok |-> TRUE]
    /\ UNCHANGED <<plan, queues, books, syn, worker, spi, online, ext, cancels>>

(* Off line the thread returns, for good.                                  *)
TakeAction ==
    LET r == Head(cqAction) IN
    /\ cqAction # <<>>
    /\ trader.pc = "actions" \/ (trader.pc = "orders" /\ cqOrder = <<>>)
    /\ cqAction' = Tail(cqAction)
    /\ IF online
       THEN /\ hts' = [hts EXCEPT ![r] = SetStatus(@, CCL_DOING)]
            /\ trader' = [trader EXCEPT !.pc = "action", !.ref = r]
       ELSE /\ trader' = [trader EXCEPT !.pc = "ended"]
            /\ UNCHANGED hts
    /\ UNCHANGED <<plan, order, cqOrder, noReopen, books, syn, worker, spi, online,
                   ext, cancels>>

(* A cancel that cannot be sent leaves the entry at CCL_DOING.             *)
ReqOrderAction ==
    /\ trader.pc = "action"
    /\ \/ /\ ~link \/ Fault("send")
          /\ trader' = [pc |-> "actions", ref |-> 0, ok |-> TRUE]
          /\ UNCHANGED exch
       \/ /\ link
          /\ trader' = [trader EXCEPT !.pc = "acted"]
          /\ exch' = [exch EXCEPT ![trader.ref].cxl = TRUE]
    /\ UNCHANGED <<plan, queues, hts, books, syn, worker, spi, online, link, deals,
                   rtn, answers, cancels>>

ActionSent ==
    /\ trader.pc = "acted"
    /\ hts' = [hts EXCEPT ![trader.ref] = SetStatus(@, CCL_DONE)]
    /\ trader' = [pc |-> "actions", ref |-> 0, ok |-> TRUE]
    /\ UNCHANGED <<plan, queues, books, syn, worker, spi, online, ext, cancels>>

Trading == TakeOrder \/ ReqOrderInsert \/ OrderSent \/ TakeAction \/ ReqOrderAction
           \/ ActionSent

-----------------------------------------------------------------------------
(* The CTP thread.  OrderWay stores a report that is not older than a      *)
(* final one; the final ones go on under m_lockPOS_GD.                     *)
StoreOrder(m) ==
    IF mapOrder[m.ref].st \in Final
    THEN UNCHANGED <<hts, mapOrder, spi>>
    ELSE /\ mapOrder' = [mapOrder EXCEPT ![m.ref] = [st |-> m.st, rem |-> m.n]]
         /\ hts' = [hts EXCEPT ![m.ref] =
                        SetStatus(@, IF m.st = "part" THEN TRADED_PART ELSE ORDED)]
         /\ spi' = IF m.st \in Final
                   THEN [pc |-> "final", msg |-> [st |-> m.st, rem |-> m.n], ref |-> m.ref]
                   ELSE Quiet

(* Mutant: a trade is applied as often as it is reported.                  *)
NewTrade_Always(m) == TRUE

(* TradeWay drops the trades it has: reports and query answers overlap.    *)
NewTrade(m) == <<m.ref, m.id>> \notin mapTrade

StoreTrade(m) ==
    IF NewTrade(m)
    THEN /\ mapTrade' = mapTrade \cup {<<m.ref, m.id>>}
         /\ posTRD' = Moved(posTRD, order[m.ref].side, m.n)
         /\ short' = (short \/ Lacks(posTRD, order[m.ref].side, m.n))
    ELSE UNCHANGED <<mapTrade, posTRD, short>>

(* One callback, up to the lock.                                           *)
Receive(m) ==
    \/ /\ m.kind = "order"
       /\ StoreOrder(m)
       /\ UNCHANGED <<mapTrade, posORD, posTRD, short, online>>
    \/ /\ m.kind = "trade"
       /\ StoreTrade(m)
       /\ UNCHANGED <<hts, mapOrder, posORD, spi, online>>
    \/ \* OnRspOrderInsert, OnErrRtnOrderInsert
       /\ m.kind = "error"
       /\ hts' = [hts EXCEPT ![m.ref] = NoEntry]
       /\ UNCHANGED <<books, spi, online>>
    \/ \* OnFrontDisconnected
       /\ m.kind = "down"
       /\ online' = FALSE
       /\ UNCHANGED <<hts, books, spi>>

OnRtn ==
    /\ spi.pc = "idle" /\ rtn # <<>>
    /\ rtn' = Tail(rtn)
    /\ Receive(Head(rtn))
    /\ UNCHANGED <<plan, queues, syn, worker, trader, link, exch, deals,
                   answers, cancels>>

OnRspQry ==
    /\ spi.pc = "idle" /\ answers # <<>>
    /\ answers' = Tail(answers)
    /\ Receive(Head(answers))
    /\ UNCHANGED <<plan, queues, syn, worker, trader, link, exch, deals,
                   rtn, cancels>>

(* All traded: the whole volume enters the order book of positions.        *)
AllTraded ==
    LET r == spi.ref IN
    /\ spi.pc = "final" /\ spi.msg.st = "all"
    /\ hts' = [hts EXCEPT ![r] = NoEntry]
    /\ posORD' = Moved(posORD, order[r].side, order[r].vol)
    /\ short' = (short \/ Lacks(posORD, order[r].side, order[r].vol))
    /\ spi' = Quiet
    /\ UNCHANGED <<plan, queues, mapOrder, mapTrade, posTRD, syn, worker, trader,
                   online, ext, cancels>>

(* Mutants: a cancelled order's fills are forgotten; the whole order is    *)
(* sent again instead of what is left of it.                               *)
FilledOf_None(r, rem) == 0
ReopenVol_All(r, rem) == order[r].vol

(* What a cancelled order has filled, and what is sent again.              *)
FilledOf(r, rem) == IF rem > 0 /\ rem # order[r].vol THEN order[r].vol - rem ELSE 0
ReopenVol(r, rem) == rem

(* Cancelled: book what was filled and queue a new order for the rest,     *)
(* unless the cancel said not to or the book could not be updated.         *)
OrderCanceled ==
    LET r == spi.ref
        filled == FilledOf(r, spi.msg.rem)
        lacks  == Lacks(posORD, order[r].side, filled)
        reopen == r \notin noReopen /\ ~lacks
    IN
    /\ spi.pc = "final" /\ spi.msg.st = "canceled"
    /\ reopen => Len(order) < plan.scn.orders
    /\ hts' = [hts EXCEPT ![r] = NoEntry]
    /\ posORD' = Moved(posORD, order[r].side, filled) /\ short' = (short \/ lacks)
    /\ IF reopen
       THEN /\ order' = Append(order, [side |-> order[r].side,
                                       vol |-> ReopenVol(r, spi.msg.rem)])
            /\ cqOrder' = Append(cqOrder, Len(order'))
            /\ spi' = [spi EXCEPT !.pc = "stamp", !.ref = Len(order')]
       ELSE /\ spi' = Quiet
            /\ UNCHANGED <<order, cqOrder>>
    /\ UNCHANGED <<plan, cqAction, noReopen, mapOrder, mapTrade, posTRD, syn, worker,
                   trader, online, ext, cancels>>

ReopenStamp ==
    /\ spi.pc = "stamp"
    /\ hts' = [hts EXCEPT ![spi.ref] = SetStatus(@, ORD_NEW)]
    /\ spi' = Quiet
    /\ UNCHANGED <<plan, queues, books, syn, worker, trader, online, ext, cancels>>

Spi == OnRtn \/ OnRspQry \/ AllTraded \/ OrderCanceled \/ ReopenStamp

-----------------------------------------------------------------------------
(* ThreadTime's synchronisation: query, wait a while, forget the request.  *)
(* The broker answers with what it has when it gets the query; the API     *)
(* refuses a query while another one is unanswered.                        *)
Sent == {r \in 1 .. Len(order) : exch[r].st \in {"live", "all", "canceled"}}

QryOrder(r) ==
    OrderMsg(r, IF ~Live(r) THEN exch[r].st ELSE IF exch[r].done = 0 THEN "queueing" ELSE "part",
             Left(r))

(* The same in the order of their references.                              *)
InOrder(S) == {s \in [1 .. Cardinality(S) -> S] : \A i, j \in DOMAIN s : i < j => s[i] < s[j]}

Ask(ms) == answers' = IF answers = <<>> /\ link THEN ms ELSE answers

ReqQryOrder ==
    /\ syn.wait = "no" /\ syn.ord /\ online
    /\ \E s \in InOrder(Sent) : Ask([i \in DOMAIN s |-> QryOrder(s[i])])
    /\ syn' = [syn EXCEPT !.wait = "ord"]
    /\ UNCHANGED <<plan, queues, hts, books, worker, trader, spi, online, link, exch,
                   deals, rtn, cancels>>

ReqQryTrade ==
    /\ syn.wait = "no" /\ syn.trd /\ online
    /\ Ask(deals)
    /\ syn' = [syn EXCEPT !.wait = "trd"]
    /\ UNCHANGED <<plan, queues, hts, books, worker, trader, spi, online, link, exch,
                   deals, rtn, cancels>>

(* What was asked for again during the wait is forgotten too.              *)
EraseSyn ==
    /\ syn.wait # "no"
    /\ syn' = IF syn.wait = "ord" THEN [syn EXCEPT !.ord = FALSE, !.wait = "no"]
              ELSE [syn EXCEPT !.trd = FALSE, !.wait = "no"]
    /\ UNCHANGED <<plan, queues, hts, books, worker, trader, spi, online, ext, cancels>>

ThreadTime == ReqQryOrder \/ ReqQryTrade \/ EraseSyn

-----------------------------------------------------------------------------
Broker(r) == CancelRequested(r) \/ ExchangeCancels(r) \/ \E n \in 1 .. Left(r) : Fill(r, n)

Next ==
    \/ SlotDue
    \/ \E t \in Workers : CheckDoing(t) \/ Proceed(t)
    \/ Trading \/ Spi \/ ThreadTime
    \/ \E r \in 1 .. Len(order) : Broker(r)
    \/ Disconnect \/ Relogin

(* Every program thread keeps running, ticks keep coming, the API delivers *)
(* the private stream and the answers alike, the broker in the end fills   *)
(* or cancels what it holds, and the link comes back.                      *)
Fairness ==
    /\ WF_vars(SlotDue)
    /\ \A t \in Workers : WF_vars(CheckDoing(t) \/ Proceed(t))
    /\ WF_vars(Trading) /\ WF_vars(ThreadTime)
    /\ WF_vars(OnRtn \/ AllTraded \/ OrderCanceled \/ ReopenStamp) /\ WF_vars(OnRspQry)
    /\ WF_vars(\E r \in 1 .. Len(order) : Broker(r))
    /\ WF_vars(Relogin)

Spec == Init /\ [][Next]_vars /\ Fairness

-----------------------------------------------------------------------------
(* Properties.                                                             *)

(* The shape of the state.                                                 *)
TypeOK ==
    /\ plan.scn \in Scenarios /\ plan.queue \in Seq(Nat) /\ plan.due \in 0 .. Len(plan.queue)
    /\ Len(order) <= MaxRef
    /\ \A r \in 1 .. Len(order) : order[r].side \in {"buy", "sell"} /\ order[r].vol \in 1 .. Lot
    /\ hts \in [Refs -> Entry]
    /\ \A r \in Refs : mapOrder[r].st \in Reported \cup {"none"} /\ mapOrder[r].rem \in 0 .. Lot
    /\ mapTrade \subseteq Refs \X (1 .. Len(deals))
    /\ posORD \in Nat /\ posTRD \in Nat
    /\ {cqOrder[i] : i \in DOMAIN cqOrder} \cup {cqAction[i] : i \in DOMAIN cqAction}
            \cup noReopen \subseteq Refs
    /\ \A t \in Workers : worker[t].ctx \in {"none", "cut", "scan", "turn", "late"}
    /\ trader.pc \in {"orders", "insert", "sent", "actions", "action", "acted", "ended"}
    /\ spi.pc \in {"idle", "final", "stamp"}
    /\ \A r \in Refs : exch[r].st \in {"none", "live", "all", "canceled", "rejected"}

(* The orders a report of which is still being handled by spi.             *)
Handling(r) == spi.pc = "final" /\ spi.ref = r
Booked(r) == mapOrder[r].st \in Final /\ ~Handling(r)

(* What the account will hold when all that is under way is done: what it  *)
(* holds, the rest of every order queued, being inserted or at the         *)
(* exchange, the rest of every cancelled order that HTP has yet to reopen, *)
(* and the orders TargetWay is still creating.                             *)
Unsent == {cqOrder[i] : i \in DOMAIN cqOrder} \cup
          (IF trader.pc = "insert" THEN {trader.ref} ELSE {})
ToReopen == {r \in 1 .. Len(order) : exch[r].st = "canceled" /\ ~Booked(r)}
AtExchange == {r \in 1 .. Len(order) : Live(r)}
Todo(t) == LET n == SumFunction(worker[t].todo) IN
           IF worker[t].side = "buy" THEN n ELSE 0 - n
Committed == Held + Sum(Unsent \cup AtExchange \cup ToReopen, LAMBDA r : Signed(r, Left(r)))
                  + Sum(Workers, Todo)

(* As long as no second target has come due, the exposure stays exactly    *)
(* the first through splitting, partial fills, cancels, reopens and        *)
(* repeated reports: what is left is never lost and never ordered twice.   *)
(* A target beyond the turns of TARGET_LOOP is left out here and in        *)
(* NeverOver: it takes TargetWay several ticks (see TargetMet, TargetHeld).*)
DueSlots == Len(plan.scn.slots) - Len(plan.queue) + plan.due
AtOnce == plan.scn.slots[1] <= Reach
ExposureKept ==
    order # <<>> /\ DueSlots = 1 /\ AtOnce => Committed = plan.scn.slots[1]

(* Each trade and each finished order enters its position book exactly     *)
(* once, although the private stream and the query answers repeat them; a  *)
(* close that finds too little leaves the book above the account.          *)
TradesBooked == Sum({i \in DOMAIN deals : <<deals[i].ref, i>> \in mapTrade},
                    LAMBDA i : Signed(deals[i].ref, deals[i].n))
OrdersBooked == Sum({r \in 1 .. Len(order) : Booked(r)},
                    LAMBDA r : Signed(r, order[r].vol - mapOrder[r].rem))
BookedOnce ==
    /\ posTRD >= TradesBooked /\ posORD >= OrdersBooked
    /\ ~short => posTRD = TradesBooked /\ posORD = OrdersBooked

(* When every order has ended and every report is handled, the two books   *)
(* agree with each other and with the broker, so that CompareORTD lets     *)
(* the next target pass, unless a report is lost or a close was cut short. *)
Ended(r) == exch[r].st \in {"all", "canceled", "rejected"}
Silent == spi.pc = "idle" /\ rtn = <<>> /\ answers = <<>>
BooksAgree ==
    (~Fault("offline") /\ ~short /\ Silent /\ \A r \in 1 .. Len(order) : Ended(r) \/ r \in Unsent)
        => posORD = Held /\ posTRD = Held

(* An order is cancelled at most once: one entry in the queue, none once   *)
(* ThreadTrading has taken it, none once the request went out.             *)
CancelOnce ==
    /\ \A i, j \in DOMAIN cqAction : cqAction[i] = cqAction[j] => i = j
    /\ \A i \in DOMAIN cqAction :
            /\ ~exch[cqAction[i]].cxl
            /\ trader.pc \in {"action", "acted"} => trader.ref # cqAction[i]
    /\ \A t \in Workers : worker[t].pc = "mark" =>
            /\ worker[t].ref \notin {cqAction[i] : i \in DOMAIN cqAction}
            /\ ~exch[worker[t].ref].cxl

(* HTP's own view of the exposure, as GetPosValid computes it, is exact    *)
(* once every order sent has been acknowledged and none is known as partly *)
(* filled (whose fills are in neither table), whatever fills are under way *)
(* and whatever else failed, as long as no close was cut short.            *)
View == Available + PendingVol("buy")
Acknowledged ==
    /\ Unsent = {} /\ trader.pc # "sent" /\ spi.pc = "idle"
    /\ \A r \in Sent : Booked(r) \/ mapOrder[r].st = "queueing"
    /\ ToReopen = {}
Exposed == Held + Sum(AtExchange, LAMBDA r : Signed(r, Left(r)))
ViewExact == ~short /\ Acknowledged => View = Exposed

(* Whenever TargetWay settles a target and every order sent is             *)
(* acknowledged, the orders it creates (or that it needs none) lead to the *)
(* target, or as far towards it as the turns of TARGET_LOOP go, whatever   *)
(* fills are under way and whatever failed before, as long as no close was *)
(* cut short.                                                              *)
InReach(n) == IF n > Reach THEN Reach ELSE IF n < 0 - Reach THEN 0 - Reach ELSE n
TargetMet ==
    [][\A t \in Workers :
           (/\ ~short /\ Acknowledged
            /\ worker[t].pc = "compared" /\ worker'[t].pc \in {"push", "pop"})
               => Todo(t)' = InReach(worker[t].tgt - Exposed)]_vars

(* "Cleared from the manager in time": an order whose end is booked has no *)
(* entry in m_htpManage.                                                   *)
ClearedInTime == \A r \in 1 .. Len(order) : Booked(r) => hts[r] = NoEntry

(* Lost links, lost reports and repeated queries never make HTP order more *)
(* than the target, as long as the plan has only one that is due.          *)
NeverOver == DueSlots = 1 /\ AtOnce => Committed <= plan.scn.slots[1]

(* "Off line no order is placed": once the link is back, what is queued    *)
(* for the broker is sent.                                                 *)
TradingResumes == [](cqOrder # <<>> => <>(cqOrder = <<>>))

(* The plan's last target is held in the end, for good, unless a target is *)
(* settled while an order is partly filled or not acknowledged, or an      *)
(* entry that should have been cleared blocks the instrument.              *)
SettlesBlind == \E t \in Workers : worker[t].pc = "compared" /\ ~Acknowledged
TargetHeld ==
    <>SettlesBlind \/ <>[]~ClearedInTime \/ <>[](Held = plan.scn.slots[Len(plan.scn.slots)])
=============================================================================
