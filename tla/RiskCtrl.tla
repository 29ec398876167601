------------------------------ MODULE RiskCtrl ------------------------------
(***************************************************************************)
(* CRiskThread (src/HCTP/CRiskThread.cpp) for one instrument, with those   *)
(* who share it: ThreadTrading checks every order and counts those sent    *)
(* (CTdThread.cpp, TradDoing), the CTP thread counts cancels and queues    *)
(* cancelled orders again (OrderWay), the market data thread clears the    *)
(* minute (CMdThread.cpp), ThreadTime loads what the risk document says    *)
(* and saves the counters (CMongoDB.cpp LoadRiskCtrl, UpdateTask), and a   *)
(* restarted program reads the counters back (LoadRiskCnt).                *)
(*                                                                         *)
(* No lock spans two of these steps: an order is checked, sent and counted *)
(* in three, and a document takes effect in three (ENABLE, LIMIT, CTRL).   *)
(***************************************************************************)
EXTENDS Integers

CONSTANTS
    Docs,         \* risk documents: [en, lim, ctrl]
    Default,      \* m_stLimit of a new process
    MaxOrder,     \* bound: orders created from targets
    MaxUnchecked, \* bound: orders sent while the instrument has no control
    MaxCrash      \* bound: crashes

Counts   == [day : Nat, cancel : Nat, min : Nat]
Controls == {"free", "noopen", "stop"}

ASSUME RiskAssumption ==
    /\ Docs \subseteq [en : BOOLEAN, lim : Counts, ctrl : Controls]
    /\ Default \in Counts
    /\ MaxOrder \in Nat /\ MaxUnchecked \in Nat /\ MaxCrash \in Nat

VARIABLES
    enable,  \* m_bEnable: REN_GLOBAL and REN_TDRADE
    limit,   \* m_stLimit
    ctrl,    \* m_mapRiskCtrl of the instrument, "none" if it has no entry
    cnt,     \* m_mapRiskCnt of the instrument
    db,      \* the instrument's counters in the newest task document, or NoEntry
    doc,     \* ThreadTime in LoadRiskCtrl: [pc, lim, ctrl]
    queue,   \* the number of orders in m_cqOrderTD
    trader,  \* ThreadTrading: "idle", "checked", "sent"
    booted,  \* LoadRiskCnt has run; targets and ticks come after it
    live,    \* external: orders at the exchange
    made,    \* history: orders created from targets, for MaxOrder
    crashes, \* history: for MaxCrash
    fact,    \* history: what cnt should count: sent, ended, sent this minute
    exempt,  \* history: [day, min], orders that passed without a control
    lost,    \* history: the part of fact this process cannot know of
    saved,   \* history: the part of fact that was counted and is in db
    late     \* history: orders sent since the risk rules block them

rules == <<enable, limit, ctrl>>
hist  == <<made, crashes, fact, exempt, lost, saved>>
vars  == <<rules, cnt, db, doc, queue, trader, booted, live, hist, late>>

Zero  == [day |-> 0, cancel |-> 0, min |-> 0]
NoDoc == [pc |-> "idle", lim |-> Zero, ctrl |-> "free"]

(* The newest task document does not have the instrument, or there is none. *)
NoEntry == [day |-> -1, cancel |-> -1, min |-> -1]

Init ==
    /\ enable = FALSE /\ limit = Default /\ ctrl = "none"
    /\ cnt = Zero /\ db = NoEntry
    /\ doc = NoDoc
    /\ queue = 0 /\ trader = "idle" /\ booted = FALSE /\ live = 0
    /\ made = 0 /\ crashes = 0 /\ late = 0
    /\ fact = Zero /\ lost = Zero /\ saved = Zero /\ exempt = [day |-> 0, min |-> 0]

-----------------------------------------------------------------------------
(* Orders.                                                                 *)

(* TargetWay, when trading is enabled.                                     *)
NewOrder ==
    /\ booted /\ enable /\ made < MaxOrder
    /\ queue' = queue + 1 /\ made' = made + 1
    /\ UNCHANGED <<rules, cnt, db, doc, trader, booted, live, crashes, fact, exempt, lost,
                   saved>>

(* Mutant: the limit of the day is not looked at.                          *)
WithinLimits_NoDay(c, l) == ~(c.min > l.min) /\ ~(c.cancel > l.cancel)

(* Check's three comparisons: a counter refuses once it is above its limit. *)
WithinLimits(c, l) == ~(c.min > l.min) /\ ~(c.cancel > l.cancel) /\ ~(c.day > l.day)

(* Mutant: stop trading stops openings only.                               *)
Passes_StopOpens(open) ==
    /\ ctrl \in {"noopen", "stop"} => ~open
    /\ WithinLimits(cnt, limit)

(* Check for an instrument that has a control.                             *)
Passes(open) ==
    /\ ctrl # "stop"
    /\ ctrl = "noopen" => ~open
    /\ WithinLimits(cnt, limit)

(* Check.  Prices out of range and volumes above nOrderVolMax are refused  *)
(* whatever the counters say.                                              *)
Check(open) ==
    /\ trader = "idle" /\ queue > 0
    /\ queue' = queue - 1
    /\ \/ \* refused: the order is dropped
          UNCHANGED <<trader, exempt>>
       \/ /\ ctrl # "none" /\ Passes(open)
          /\ trader' = "checked"
          /\ UNCHANGED exempt
       \/ \* no control, no limits
          /\ ctrl = "none" /\ exempt.day < MaxUnchecked
          /\ trader' = "checked"
          /\ exempt' = [day |-> exempt.day + 1, min |-> exempt.min + 1]
    /\ UNCHANGED <<rules, cnt, db, doc, booted, live, made, crashes, fact, lost, saved>>

(* Mutant: the minute is not counted.                                      *)
Counted_DayOnly(c) == [c EXCEPT !.day = @ + 1]

Counted(c) == [c EXCEPT !.day = @ + 1, !.min = @ + 1]

(* ReqOrderInsert: sent, or off line, or refused by the API.               *)
Insert ==
    /\ trader = "checked"
    /\ \/ /\ trader' = "sent" /\ live' = live + 1
          /\ fact' = [fact EXCEPT !.day = @ + 1, !.min = @ + 1]
       \/ /\ trader' = "idle"
          /\ UNCHANGED <<live, fact>>
    /\ UNCHANGED <<rules, cnt, db, doc, queue, booted, made, crashes, exempt, lost, saved>>

(* The counters after the call.                                            *)
Count ==
    /\ trader = "sent"
    /\ cnt' = Counted(cnt)
    /\ trader' = "idle"
    /\ UNCHANGED <<rules, db, doc, queue, booted, live, hist>>

(* Mutant: a cancel takes back the order's count.                          *)
CancelCounted_Back(c) == [c EXCEPT !.day = @ - 1]

CancelCounted(c) == [c EXCEPT !.cancel = @ + 1]
EndedFact == fact' = [fact EXCEPT !.cancel = @ + 1]

(* A cancelled order is counted and, unless it must not be, queued again,  *)
(* trading enabled or not.  During the start-up nothing is counted before  *)
(* the session runs, LoadRiskCnt overwrites what is counted then, and      *)
(* there is no tick to queue a new order at.                               *)
Cancelled ==
    /\ live > 0 /\ live' = live - 1
    /\ \/ /\ ~booted
          /\ UNCHANGED <<cnt, fact, queue>>
       \/ /\ cnt' = CancelCounted(cnt) /\ EndedFact
          /\ queue' \in IF booted THEN {queue, queue + 1} ELSE {queue}
    /\ UNCHANGED <<rules, db, doc, trader, booted, made, crashes, exempt, lost, saved>>

(* A rejected order counts as cancelled, once or twice: OnRspOrderInsert   *)
(* and OnErrRtnOrderInsert may both come.                                  *)
Rejected ==
    /\ booted /\ live > 0 /\ live' = live - 1
    /\ cnt' \in {CancelCounted(cnt), CancelCounted(CancelCounted(cnt))} /\ EndedFact
    /\ UNCHANGED <<rules, db, doc, queue, trader, booted, made, crashes, exempt, lost, saved>>

Filled ==
    /\ live > 0 /\ live' = live - 1
    /\ UNCHANGED <<rules, cnt, db, doc, queue, trader, booted, hist>>

(* The market data thread at the end of a minute.                          *)
NewMinute ==
    /\ booted
    /\ cnt' = [cnt EXCEPT !.min = 0]
    /\ fact' = [fact EXCEPT !.min = 0]
    /\ exempt' = [exempt EXCEPT !.min = IF trader = "checked" THEN @ ELSE 0]
    /\ lost' = [lost EXCEPT !.min = 0]
    /\ saved' = [saved EXCEPT !.min = 0]
    /\ UNCHANGED <<rules, db, doc, queue, trader, booted, live, made, crashes>>

-----------------------------------------------------------------------------
(* ThreadTime, the database and restarts.                                  *)

(* LoadRiskCtrl, in the order it writes.                                   *)
LoadEnable(d) ==
    /\ booted /\ doc.pc = "idle"
    /\ enable' = d.en
    /\ doc' = [pc |-> "day", lim |-> d.lim, ctrl |-> d.ctrl]
    /\ UNCHANGED <<limit, ctrl, cnt, db, queue, trader, booted, live, hist>>

(* The limits, field by field.                                             *)
LoadLimit ==
    /\ \/ /\ doc.pc = "day" /\ doc' = [doc EXCEPT !.pc = "cancel"]
          /\ limit' = [limit EXCEPT !.day = doc.lim.day]
       \/ /\ doc.pc = "cancel" /\ doc' = [doc EXCEPT !.pc = "min"]
          /\ limit' = [limit EXCEPT !.cancel = doc.lim.cancel]
       \/ /\ doc.pc = "min" /\ doc' = [doc EXCEPT !.pc = "ctrl"]
          /\ limit' = [limit EXCEPT !.min = doc.lim.min]
    /\ UNCHANGED <<enable, ctrl, cnt, db, queue, trader, booted, live, hist>>

LoadCtrl ==
    /\ doc.pc = "ctrl"
    /\ ctrl' = doc.ctrl
    /\ doc' = NoDoc
    /\ UNCHANGED <<enable, limit, cnt, db, queue, trader, booted, live, hist>>

(* A document without LIMIT or CTRL, without this instrument, or with a    *)
(* field that is missing or of another type: the rest is not read, and not *)
(* tried again, for its SysTime is known.                                  *)
LoadStops ==
    /\ doc.pc # "idle"
    /\ doc' = NoDoc
    /\ UNCHANGED <<rules, cnt, db, queue, trader, booted, live, hist>>

(* The database reads bFollow through Ctrl, which enters an instrument     *)
(* that has no control with one that stops nothing.                        *)
FollowLookup ==
    /\ booted /\ ctrl = "none"
    /\ ctrl' = "free"
    /\ UNCHANGED <<enable, limit, cnt, db, doc, queue, trader, booted, live, hist>>

Short(a, b) == IF a > b THEN a - b ELSE 0
Minus(a, b) == [day |-> Short(a.day, b.day), cancel |-> Short(a.cancel, b.cancel),
                min |-> Short(a.min, b.min)]

(* What the counters should count now: all but what is lost and the order  *)
(* that is not counted yet.                                                *)
OneSent == IF trader = "sent" THEN 1 ELSE 0
ToCount == Minus(Minus(fact, lost), [day |-> OneSent, cancel |-> 0, min |-> OneSent])

(* ThreadTime inserts a task document, when there is a plan: UpdateTask    *)
(* writes the counters of the instruments of the plan and of no other.     *)
SaveTask ==
    /\ booted
    /\ \/ db' = cnt /\ saved' = ToCount
       \/ db' = NoEntry /\ saved' = Zero
    /\ UNCHANGED <<rules, cnt, doc, queue, trader, booted, live, made, crashes, fact, exempt, lost>>

(* The process dies and is started again: it knows nothing.                *)
Crash ==
    /\ crashes < MaxCrash
    /\ crashes' = crashes + 1
    /\ enable' = FALSE /\ limit' = Default /\ ctrl' = "none"
    /\ cnt' = Zero /\ doc' = NoDoc
    /\ queue' = 0 /\ trader' = "idle" /\ booted' = FALSE
    /\ lost' = fact
    /\ UNCHANGED <<db, live, made, fact, exempt, saved>>

(* Mutant: the counters of the last run are not read.                      *)
FromDb_Zero(d) == Zero

FromDb(d) == d

(* LoadRiskCnt reads the newest task document.  If it fails or does not    *)
(* find the instrument there main, which ignores the result, goes on with  *)
(* the counters as they are.                                               *)
LoadRiskCnt ==
    /\ ~booted /\ booted' = TRUE
    /\ \/ UNCHANGED <<cnt, lost>>
       \/ db # NoEntry /\ cnt' = FromDb(db) /\ lost' = Minus(fact, saved)
    /\ UNCHANGED <<rules, db, doc, queue, trader, live, made, crashes, fact, exempt, saved>>

-----------------------------------------------------------------------------
Trading  == NewOrder \/ (\E open \in BOOLEAN : Check(open)) \/ Insert \/ Count
Reports  == Cancelled \/ Rejected \/ Filled
Document == (\E d \in Docs : LoadEnable(d)) \/ LoadLimit \/ LoadCtrl \/ LoadStops
            \/ FollowLookup
Restart  == Crash \/ LoadRiskCnt

(* The rules block orders: by the switch, or because what really happened, *)
(* less what this process cannot know of, is above a limit.                *)
Blocked == \/ ctrl = "stop"
           \/ ctrl # "none" /\ ~WithinLimits(Minus(fact, lost), limit)

(* History: how many orders were sent since the rules began to block.      *)
Lateness == late' = IF ~Blocked' THEN 0
                    ELSE IF Blocked /\ live' > live THEN late + 1 ELSE late

Next == /\ Trading \/ Reports \/ NewMinute \/ Document \/ SaveTask \/ Restart
        /\ Lateness

Spec == Init /\ [][Next]_vars

-----------------------------------------------------------------------------
(* Properties.                                                             *)

TypeOK ==
    /\ enable \in BOOLEAN /\ booted \in BOOLEAN
    /\ limit \in Counts /\ cnt \in Counts /\ db \in Counts \cup {NoEntry}
    /\ fact \in Counts /\ lost \in Counts /\ saved \in Counts
    /\ ctrl \in Controls \cup {"none"}
    /\ doc \in [pc : {"idle", "day", "cancel", "min", "ctrl"}, lim : Counts, ctrl : Controls]
    /\ exempt \in [day : Nat, min : Nat]
    /\ queue \in Nat /\ live \in Nat /\ made \in Nat /\ crashes \in Nat /\ late \in Nat
    /\ trader \in {"idle", "checked", "sent"}

(* The counters keep up with the account, through minutes, saves, crashes  *)
(* and restarts.  They miss only the order ThreadTrading has just sent     *)
(* and, after a crash, what was not in the newest task document; if that   *)
(* does not have the instrument or is not read, all of before the crash.   *)
CountsKept == /\ cnt.day + lost.day + OneSent >= fact.day
              /\ cnt.min + lost.min + OneSent >= fact.min
              /\ cnt.cancel + lost.cancel >= fact.cancel

(* Once the rules block orders, by whatever thread made them so, at most   *)
(* one order still goes out: the one already checked.                      *)
AtMostOneLate == late <= 1

(* The most any document, or a new process, allows.                        *)
Limits == {Default} \cup {d.lim : d \in Docs}

(* A day's orders never exceed the largest limit by more than one, but for *)
(* those sent without a control and those a crash made HTP forget.         *)
DayBudget == \E l \in Limits : fact.day <= l.day + 1 + exempt.day + lost.day

(* The same of a minute's orders, with the minute cleared by another       *)
(* thread between an order's check, its call and its count.                *)
MinuteBudget == \E l \in Limits : fact.min <= l.min + 1 + exempt.min + lost.min
=============================================================================
