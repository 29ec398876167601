# HTP: a verification project

HTP (`src/HCTP`) is an automatic futures trading program for the CTP
interface of the Chinese exchanges. It reads *target positions* from a
database, turns them into orders while the market moves, follows what becomes
of the orders, and cancels and reopens those that hang. This directory holds
TLA+ modules that model the parts in which a mistake costs money, the TLC
configurations that check them on small instances, and proofs checked with
TLAPS. Line numbers refer to the files in `src/HCTP`.

## The system

| Component | State | Operations | Talks to |
|---|---|---|---|
| Cycle queue, `CCycleQueue.h` | ring of slots, read and write index | `Push`, `Front`, `Pop` | every pair of threads |
| Order table, `CHtpManage` in `CMyData` | per order: highest status reached, first time of each status | `SetStatus`, `Delete`, `HaveDoing`, `GetOrderGD`, `GetStatus` | all threads of `CTdThread` |
| Trading core, `CTdThread` | queues of orders and cancels, last report of every order, trades, two position books (from orders and from trades), reopen marks, synchronisation requests | `ThreadAlgo`, `AuctionWay`, `ThreadTrading`, `ThreadTime`, `ThreadFlash`, the CTP callbacks | everything below |
| Target plan, `CTargetCtrl` | per instrument a list of (time, position); two buffers | `Create`, `GetTarget`, `PopTarget`, `CheckOut` | `ThreadTime` writes, `ThreadAlgo` and `ThreadFlash` read |
| Risk control, `CRiskThread` | switches, limits, per instrument controls and counters | `Check`, counter references | `ThreadTrading` checks and counts, CTP thread counts cancels, market data clears the minute, `ThreadTime` loads and saves |
| Market data, `CMdThread` | ticks, K-lines | `OnRtnDepthMarketData`, `ThreadTick`, `ThreadLineK` | calls back into `CTdThread::OnTick` |
| Database, `CMongoDB` | connections, pending documents | `LoadTarget`, `LoadRiskCtrl`, `LoadRiskCnt`, `UpdateTask`, `On...` | called by every thread |
| Session, `CTdThread::Start`, login callbacks | `m_eStatus`, `m_bStatus` | the retry loop of initialisation, relogin | CTP; the books, by the snapshot of positions |
| Main, `HCTP.cpp` | | start-up order, trading hours, limits of the system counters | |
| Calendar, `CTimeCalc` | | the next and the previous day, hour and minute, the order of dates | plan, system services |
| System services, `CHtpSystem` | the NTP server's last answer and the milliseconds since | `GetTime`, `TimeStand` | plan, market data |
| Log, files, TCP wrappers | | input and output | |

Threads: `ThreadAlgo` is driven by ticks, `AuctionWay` by `ThreadFlash`'s timer
in the minutes of a call auction; both call `TargetWay`. `ThreadTrading` is the
only one that sends orders and cancels. The CTP library runs all callbacks on
one thread. `ThreadTime` loads documents, saves counters, logs in again and
sends the queries that synchronise orders and trades.

What is hard here: four threads that share maps under many small locks, so that
a decision is made on one lock section and carried out in another; reports that
overtake the call they answer; partial fills whose two reports (order, trade)
arrive one after the other; lost reports and the queries that repeat them;
cancel-and-reopen loops; limits read by one thread and moved by another; a
start-up that polls one variable which every callback overwrites; times of day
that carry no date; and restarts that continue from what was saved. `PROJECT.json` lists these hazards
at their lines with the properties that cover them.

What makes each component correct:

- queue: order, no duplicates, a known loss when full;
- order table with the trading core: the volume on its way to the account is
  always what the target asks for, neither lost nor ordered twice; an order is
  cancelled once; an entry goes when its order ends;
- position books: each fill is booked once in each; they differ from the account
  by exactly what is on its way;
- risk control: a limit is exceeded by one order at most, whatever changes it,
  and the counters survive a restart but for what was not saved or not read;
- plan: it follows the straight line to the target, a worker gets the latest
  slot that is due, never an older one than before, and the plan in use is not
  touched while the next one is prepared;
- session: trading starts only after everything it needs was received, a lost
  login comes back, and the books are wrong at most about orders that were filled
  while HTP could not hear of them;
- market data: a bar counts every lot once, through gaps, restarts and ticks that
  HTP invented, with one error after a restart; no tick of before a change of status
  triggers a trade, but for one window;
- calendar: stepping and adding a span are exact across hours, midnight, months
  and years, and the sessions of a trading day are dated in their order;
- which order closes what: the books tell today's and yesterday's longs and
  shorts apart, no close claims more than there is, and the orders lead to the
  target.

## Modules

| Module | What it models |
|---|---|
| `CycleQueue` | `CCycleQueue<T>` with its drain loop: `Push`, `Front`, `Pop`, `Handle`, one action per lock section. Elements are tickets 1, 2, 3, ... |
| `LossyFifo` | what the queue promises: a FIFO with an atomic `Take` that may drop exactly `Skip` of its oldest elements when nearly full |
| `CycleQueueProofs` | theorems about `CycleQueue` |
| `HtpManage` | the order table's entries and the predicates on them, pure operators |
| `TdCore` | the trading core for one instrument, with the broker |
| `MCTdCore` | plans for `TdCore` |
| `TdCoreProofs` | theorems about `TdCore` |
| `PositionBook` | positions of one instrument: longs and shorts, today's and yesterday's, the two books, what `TargetWay` closes and opens |
| `MCPositionBook` | accounts and targets for `PositionBook` |
| `SumLemmas` | sums over finite sets, for any module whose totals are sums |
| `PositionBookProofs` | theorems about `PositionBook` |
| `TdSession` | start-up, login and relogin, with the connection and the broker |
| `MCTdSession` | an order for `TdSession` |
| `TdSessionProofs` | theorems about `TdSession` |
| `MarketData` | one instrument's ticks on their way to `OnTick` and into K-lines |
| `MarketDataProofs` | theorems about `MarketData` |
| `TimeCalc` | the calendar, pure operators |
| `HtpSystem` | the network time and the day of a tick, pure operators |
| `TradeTimes` | the times of a trading day (`GetTimeList` up to the choice among them), pure operators |
| `TargetCreate` | how a plan is made: `GetTimeList`, `Create`, operators |
| `TargetPlan` | the plan of one instrument between `ThreadTime`, which replaces it, and those who execute it |
| `TargetPlanProofs` | theorems about `TargetPlan` and about the three modules of times |
| `MCTargetPlan` | documents for `TargetPlan`, with all modes |
| `RiskCtrl` | risk control for one instrument with all who share its state |
| `MCRiskCtrl` | documents with small limits for `RiskCtrl` |
| `RiskCtrlProofs` | theorems about `RiskCtrl` |

### TdCore

The state is the code's maps and queues (the comment of each variable names
it), the place of each thread, and an external broker: the link, the orders at
the exchange, the private stream and the query answers on their way. One action
is one critical section or one call whose effect another thread can see:

- `ThreadAlgo`: `CheckDoing`, `GetTarget`, `CompareORTD`, `TargetWay` (the
  decision under `m_lockPOS_GD`), `PushOrder` and `StampNew` (the two effects of
  one turn of `TARGET_LOOP`, in the code's order), `ScanLate`, `CancelCheck` and
  `CancelMark` (the test and the writes of `CancelWay`), `PopTarget`, `ScanIdle`;
- `AuctionWay`: the same from `GetTarget` on;
- `ThreadTrading`: `TakeOrder`, `ReqOrderInsert`, `OrderSent`, `TakeAction`,
  `ReqOrderAction`, `ActionSent`; the call and the stamps before and after it
  are separate, because reports may come in between;
- CTP thread: `OnRtn` and `OnRspQry` up to the lock (`StoreOrder`,
  `StoreTrade`), then `AllTraded` or `OrderCanceled`, then `ReopenStamp`;
- `ThreadTime`: `ReqQryOrder`, `ReqQryTrade`, `EraseSyn`;
- broker: `Accept`, `Reject`, `Fill`, `CancelRequested`, `ExchangeCancels`,
  `Disconnect`, `Relogin`.

`TARGET_LOOP` gives up after `MaxTurns` turns, 50 in the code; the scenario gives a
smaller number. It has then created `Reach` lots (`Split`), `TargetWay` returns false, so that the target stays in the
plan (`ctx` is `"cut"`, `AfterStamp`), and the rest is ordered at a later tick. That
tick may find the first orders between their report and its booking, so
`ExposureKept` and `NeverOver` speak of targets within reach (`AtOnce`) only;
`TargetMet` says of every other target that a decision goes as far towards it as its
turns allow, and `TargetHeld` that it is held in the end.

Two actions take several lock sections of the code at once: `CancelMark` (576, 586-588,
589: the entry's mark, whether to reopen, the queue) and `StoreOrder` (774-785: the
report, and with it the pending volume, and the entry's stamp). What other threads do
between these is not told apart from what they do before or after.

Time is abstracted: a test whose outcome depends on an age (5 s, 60 s, 300 s)
may go either way once its stamp is set. Prices are left out; the test of
`CancelWay` that keeps an order priced at the limit is a choice. Targets are not
negative, so the account holds longs of today and a sell closes.

A *scenario* is a plan with what may go wrong on its day: `partial` fills, cancels
by the `exchange`, `reject`ed orders, `offline`, refusals by `risk` control,
failures of the API's `send`, and replies that are so `slow` that HTP
synchronises. It also says after how many turns `TARGET_LOOP`
gives up, and bounds the orders created and the cancels decided. TLC runs
a set of scenarios at once; `Init` chooses one. `short` is history: a close was
booked that `PositionUpdate` found less for in its book than was closed.

### PositionBook

`TdCore` follows every lock section for an account that holds longs of today;
`PositionBook` takes a callback, and `TargetWay` with the `CheckDoing` before it,
as one step, and follows the positions in full. `apart` is the exchange: SHFE
and INE report yesterday's positions in a record of their own, elsewhere they
are what `Position` exceeds `TodayPosition` by. `posORD` and `posTRD` hold the
fields of those records that decide something; `Loaded` and `Read` are the two
uses of `PositionWay`, `Update` is `PositionUpdate`, `Valid` is `GetPosValid`,
`OrdersFor` is `TARGET_LOOP`. `order` keeps for each reference the order, what
HTP knows of it, and (`st`, `left`) what is true at the exchange. The broker
honours the flag of a close and refuses one that the account does not cover.
Left out: prices, `CTPST_RUNING`, closes without a day, which HTP never sends,
and the end of `TARGET_LOOP` after 50 turns, which `TdCore` has.

### TargetCreate and TargetPlan

`TimeList` chooses times from a given list of the day's times, mode after mode as
`GetTimeList` does; `Turn` is one turn of `Create`'s loop. A lot is counted as 2n
units, n the number of times, so that the sums `Create` makes in doubles are
exact; `m_dbVolK` is given in halves, `m_dbVolPowK` is taken to be positive and
`m_dbVolK` not negative. `InOrder` is the sort at the end of `GetTimeList`: the k-th
time is the least that k of the chosen ones do not exceed.

`TargetPlan`'s state: `clock` (HTP's network time), `newest` (external, the
documents in the database), `stamp` (`m_llTimeStamp`), `buf` and `cur` (the
buffers `m_MapTarget` and `m_chID`), `load` (`ThreadTime` in `LoadTarget`), `wk` (the
threads that execute). `LoadNew`, `CreateTurn`, `CreateEnd` and `CheckOut` are
`LoadTarget`; `Tick`, `GetTarget`, `TargetWay` and `PopTarget` a worker's turn.
Two simplifications: a worker's time is the network clock when its tick came, where the
code takes the tick's own time as `TimeStand` dates it (`HtpSystem` has that, with
`TicksDatedRight`); and finding the buffer and using the plan in it are one step,
where the code keeps a pointer to the plan after it has left the lock. The buffer is
cleared (`CMongoDB.cpp` 816) when three more plans have been put in use, so this
matters to a worker that is held up for three loads. A missing instrument or a failing `GetTimeList`
shows as an empty plan. Left out: `TargetID`, a label on orders, and the progress
of `GetTaskRatio`.

The list of the day's times is not invented: `MCTargetPlan` gives, for each moment
a plan may be made at, what `TradeTimes!TradingDay` computes with `TimeCalc` from
the product's hours. `orderTime` only decides whether `GetTimeList` fails.

### TdSession

Two loops and a callback thread share `m_eStatus`. `Start` reads it (`Again`,
`Backup`, `Expire`), then overwrites it with `CTPST_BUSY` (`Request`) or
`CTPST_FAILED` (`MarkFailed`): these are separate actions, since a callback may
write in between. `OnRsp` is an answer callback, `OnRtn` the connection
callbacks and the private stream; one answer in several parts is one action.
After `Finish`, `ThreadTime` authenticates and logs in again, and `Stop` logs out.
`Start`'s reads of `m_eStatus` at 108, 116 and 117 are one (`Backup`).
The broker keeps what a connection may do; a lost connection takes requests and
answers with it, and the private stream is subscribed QUICK, so reports of that
time are gone. `m_bStatus` starts with arbitrary values: the constructor's loop
(`CTdThread.cpp` 35) writes past the end of another array in its stead. Orders of
an earlier session may be filled at any moment; `spoilt` collects those about
which the snapshot and the reports cannot agree, because HTP stores reports from
before `CTPST_RUNING` without booking them.

### MarketData

The spi thread of `CMdThread` is `OnRtnDepthMarketData` (with the drop of ticks that
go back in volume) and `OnTick`'s steps, which read and write `m_mapStatus` and
`m_mapTickCnt` while the trading spi changes them (`StatusSet`, `StatusClear`).
`ThreadLineK` is `CalcLineK` (with `LoadLineK`), `OnLineK`, and `LineKWay` in its
three steps: copy, mark, queue the copy. A `Crash` loses all but the database.
A bar has its volume; `from`, `last`, `odd` and `extra` are history: what the sum
should be counted from, the bars whose beginning the code judged by minute and hour
numbers alone and misjudged (two ticks exactly a day or an hour apart), and what a
bar counts too much after a restart (see the weaknesses below). `BarsExact` leaves out
the first kind of bar and states the second: the sum is exact but for `extra`, which
is not 0 only of a bar that starts over with the second tick after a restart, from
the minute before. Three windows are left out of the other properties, each by name:
`crossed`, a change of status completed while `OnTick` is past its count; `missed`, a
tick that `LineKWay` marks and did not copy; `unsaved`, a K-line that the database did
not take (`REN_MARKET` off, a failing insert) or that `LoadLineK` does not find first,
because it sorts by seconds. Left out:
prices, CFFEX's hours for the settlement bar, the change of the trading day, and
`ThreadTick`'s storing of ticks.

### RiskCtrl

`Check`, `Insert` and `Count` are the three steps of `TradDoing`; `LoadEnable`,
`LoadLimit` (field by field) and `LoadCtrl` the three parts of a document, of which a
malformed one may miss the later ones (`LoadStops`); `FollowLookup` is the database's
read of `bFollow` through `Ctrl` (`CMongoDB.cpp` 470), which gives an instrument
without a control one that stops nothing; `Cancelled` and `Rejected` count on
the CTP thread; `NewMinute` is the market data thread's.

`SaveTask`, `Crash` and `LoadRiskCnt` are the persistence, with its two ways to
forget. `UpdateTask` writes the instruments of the plan and no other
(`CTdThread.cpp` 1238), and a restart reads the newest document only, which may thus
not have the instrument (`NoEntry`) although an older one had. And `LoadRiskCnt` may fail
or find nothing; `main` ignores its result (`HCTP.cpp` 135) and goes on with zeros.
History variables hold what really happened: `fact` is what the counters should count,
`saved` the part of it that is in the newest document, `lost` what a restarted
process cannot know of: all but `saved` if the document was read, else everything;
`exempt` the orders that passed because the instrument had no control, `late` the
orders sent since the rules began to block. The properties therefore say what HTP
keeps to, given what it can know: a failing load really gives an instrument its
budget a second time.

## Runs

| Run | Configuration | Shows |
|---|---|---|
| `queue` | `CycleQueue.cfg`: 4 slots, 2 skipped, 14 pushes | `Contiguous`, `LossPerOverflow`, `InOrderOnce`, `EveryElementLeaves`, `ImplementsFifo` |
| `core_fill` | `CoreFill.cfg`: target 3 in lots of 2 with partial fills and exchange cancels; target 1 taken back to 0; target 3 with one turn of `TARGET_LOOP` at a time | `ExposureKept`, `BooksAgree`, and in the end `TargetHeld` |
| `core_faults` | `CoreFaults.cfg`: target 2 turned to 1 with partial fills and exchange cancels; target 2 with all other faults, with one cancel; most of them with two | `BookedOnce`, `NeverOver`, `CancelOnce`, `ViewExact`, `TargetMet` |
| `book` | `PositionBook.cfg`: two accounts, targets -1 and 3, lots of 2, four orders, limits of 2, both kinds of exchange | `BooksFollow`, `ClosesCovered`, `TargetKept` |
| `plan` | `TargetPlan.cfg`: two documents, two workers, two buffers, three sessions across a weekend and the end of February | `Tracks`, `GotLatest`, `NeverBack`, `CurrentUntouched` |
| `risk` | `RiskCtrl.cfg`: 2 orders, limits of 0 and 1, one crash | `CountsKept`, `AtMostOneLate`, `DayBudget`, `MinuteBudget` |
| `session` | `Session.cfg`: two exchanges, one order of two lots, one retry, two troubles of any kind | `Initialised`, `BooksExact`, `StartEnds`, `LogsBackIn` |
| `market` | `MarketData.cfg`: hours of 4 minutes, minutes 94 to 97, two lots, one restart or change of status | `BarsExact`, `NeverHalfDone`, `TrustedTicks`, `NewestLast`, `LastLineSaved` |
| `two_triggers` | `TwoTriggers.cfg` | `ExposureKept` is violated with two callers of `TargetWay` |
| `popped_undone` | `PoppedUndone.cfg`: one worker | `PopsTriggered` is violated |
| `offline_cancel` | `OfflineCancel.cfg` | `TradingResumes` is violated |
| `heartbeat` | `HeartBeat.cfg` | `AlwaysBackIn` is violated |

Every property of a passing run has a mutant in `PROJECT.json`: a plausible
mistake in one definition that makes TLC refute the property.

Why the bounds are enough. The queue's behaviour depends on the distance of two
indices modulo the capacity: 14 pushes are three laps of 4 slots with several
overflows, and the theorems hold for all sizes. In `TdCore` a target of 3 with
lots of 2 gives a split with a remainder; three order references let an order be
cancelled and reopened while another one lives; two slots of different
direction reach the turn-round. Two turns (`MaxTurns`) suffice for these targets; in the
scenario with one, a lot of three is left to a second call, and the third reference is
for a second call that decides before the first order shows. All faults together are
run with one cancel; with a second one either partial fills or the synchronisation
(`slow`) is left out, which keeps the run within minutes, and the theorems have no such
limit. The scenarios' bounds limit creation and cancellation only: an action that needs a further reference waits, and liveness
is checked only where no behaviour reaches the bound before its goal. In
`RiskCtrl` limits of 0 and 1 are exceeded by the first and second order, and each
of the two may be cancelled and queued again, so that more are sent: every branch is
reached. One document lowers the day's limit and stops trading. `MaxUnchecked` bounds the orders of an instrument without a control,
which the code does not bound.

In `PositionBook` the accounts hold a long position of both days that is over the
limit of 2, and a short one of both days with a long at once; four orders
suffice for a close of each kind and two that open, or for closing, a cancel and
the order reopened. In `TargetPlan` two buffers stand for the code's four: the
second load then reuses a buffer that the workers have used, which takes four
loads otherwise. The first document gives a plan of single lots, the second is
one of 54 (three targets, two distances between slots, three adjustments of the
last volume, three combinations of modes). The clock runs from 23:55 on Friday,
28 February 2025, through midnight and into the sessions of the trading day,
Monday, 3 March: plans are made before and after the midnight that ends both
week and month, before, among and after their times.

In `TdSession` two exchanges are what a skipped query needs to go unnoticed by the
next; an order of two lots can be filled partly; one retry distinguishes a first
from a last failure, and two troubles let a second fault hit the recovery from
the first. In `MarketData` the four minutes span the end of an hour and of a
day (minute 96 is hour 24 of 4 minutes each), with the minutes on both sides of it;
`HourLen` 4 keeps `Silent` and `Invented` (10 and 3 minutes of 60) at 2 and 1;
a queue of one tick lets the next be taken while one waits; the theorems hold
for all these constants.

Fairness. `TdCore!Fairness`: each program thread is a loop that a timer wakes at
least every second, hence weak fairness of each; ticks keep coming while the
market is open, hence fairness of `CheckDoing`; the broker in the end fills or
cancels what it holds, and the link comes back. `TdSession!Fairness`: the same of
`Start`'s loop and `ThreadTime`, the broker answers what it got, the API delivers
and reconnects. `MarketData!Fairness`: the clock, the callbacks that have begun and
`ThreadLineK`; strong fairness of `OnLineK` says that the thread calculates faster
than ticks come, so that it finds its queue empty again and again. No fairness is
assumed of faults. `CycleQueue` assumes only that the consumer loops; `RiskCtrl`,
`PositionBook` and `TargetPlan` assume nothing, and have no liveness property.

Deadlock is checked in the passing core runs and in the risk and plan runs.
`queue` and `book` disable the check, since producers and orders stop at the bound;
so do `session`, where HTP may give up and fall silent, `market`, whose clock ends,
and runs that look for one violation.

The core decides well only on what it can see. `ViewExact` and `TargetMet` are
claimed when every order is acknowledged and none is known as partly filled, and
as long as no close was cut short (`short`, below); `TargetHeld` unless a target is settled otherwise. `PositionBook`'s properties on
targets (`ClosesCovered`, `TargetKept`) are claimed until `TargetWay` decides while
an order is partly filled (`blind`). `CompareORTD` is meant to exclude such a
decision, and mostly does: the trades of the partial fill are in one book only.
But it does not see a fill whose trade is still on its way, nor a partial fill
offset by an order whose last trade is on its way: both books then lag by the
same volume, the totals agree, and TLC finds a close that exceeds the account as
soon as the condition is weakened to fills without their trades. `BooksFollow`
holds regardless.

## What the violated runs show

- `two_triggers`: `m_lockTarget` covers `TargetWay`, not the `CheckDoing` and
  `GetTarget` before it. With both callers at work an order is created twice.
- `popped_undone`: `PopTarget` takes the front of whatever plan is current. A plan
  loaded between a worker's `GetTarget` and its `PopTarget` loses its first slot
  before its time; if it has one slot only, its target is never traded.
- `offline_cancel`: a cancel taken while off line makes `ThreadTrading` return;
  after the relogin queued orders wait for ever.
- `heartbeat`: `OnHeartBeatWarning` clears `CTPST_FRONTON` and `CTPST_LOGINON` of a
  connection that stays. Only `OnFrontConnected` sets the first again and
  `ThreadTime` logs in only while it is set, so HTP stays logged out.

Further weaknesses met while modelling have no run of their own; they are conditions
of the properties above, which name them:

- A partial report lowers the pending volume at once (`CTdThread.cpp` 775), while the
  position moves only when the order ends. In between the filled lot is counted
  nowhere; a smaller target is then taken for reached and popped (`Acknowledged`,
  `SettlesBlind`, `blind`).
- `SetStatus` creates an entry that does not exist. A stamp made after the order's
  last report (1360) brings a deleted entry back, and nothing will delete it
  again; `HaveDoing` blocks the instrument and after ten minutes stops the session
  (`ClearedInTime`, which `TargetHeld` excepts).
- A frequency of whole hours keeps `GetTimeList` at the same time for ever
  (`WholeHoursStandStill`), two hours after the NTP server's last answer the network
  time's minute exceeds 59 (`NetTimeBreaks`), and a plan made after the midnight
  before the trading day dates the call auction a day late (`AuctionDated`).
- `PositionUpdate` takes what a record has and forgets the rest of a close. Orders that
  the exchange cancels are created anew, on both sides, when a buy and a sell end
  between `CheckDoing` and `TargetWay`: they are in nobody's list while `TargetWay`
  decides, which may then create a second close. Covered at the exchange by a partly
  filled buy, it closes more than `m_mapPositionORD` has of orders that have ended; that
  book stays above the account for good, as does the other one when the report of the
  buy's trade was lost off line (`short`, in a scenario of targets 1, 3, 0, 0, lots of
  2 and seven orders, larger than the runs; the proof of `BooksAgree` came upon it).
- `CancelWay` tests the order's entry (548) and marks it (576) in two lock sections.
  `ThreadAlgo`'s scan of orders idle for 60 s (1455-1471) takes no `m_lockTarget`, so
  `AuctionWay`'s scan in `TargetWay` may be past the same test: the cancel is queued
  twice, which 553 says does not happen. The exchange refuses the second one. `CancelOnce`
  is therefore claimed of `ThreadAlgo` alone.
- After a restart the first tick only loads the saved K-line; the bars it belongs to keep
  the saved volume (`CMdThread.cpp` 363-369). If the second tick starts such a bar over,
  from the minute before, the new bar counts from that volume (426): a new hour gets what
  was traded in the hour before since the last save, the time HTP was down included,
  although the comment at 425 says that nothing from outside is added. `BarsExact` says
  by how much (`extra`).
- A failing `LoadRiskCnt`, or a newest task document without the instrument, gives an
  instrument its budget a second time (`lost`).
- `LineKWay` may mark a newer tick than the one it copied, whose K-line is then saved
  only by a later tick (`missed`).

## Proofs

All proofs hold for every value of the constants that satisfies the named
assumptions of the module.

`CycleQueueProofs` (`CapacityAssumption`: 0 < Skip < Capacity): `TypeCorrect`;
`ContiguousAlways` and `LossAlways` from an inductive invariant that adds to
`Contiguous` the relation of the consumer's copy to the tickets still in the
ring; `HandledInOrder` as an action property from the same invariant: every step that
handles an element (`count` changes) handles a later one than all before;
`RefinesFifo`, the safety part of the refinement of `LossyFifo` under the mapping
of `ImplementsFifo`.

`RiskCtrlProofs` proves the same kind of facts about `RiskCtrl` for every set of
documents, every default limit, and any number of orders, minutes, saves and
crashes, from `RiskAssumption` alone:

* `TypeCorrect`: `TypeOK` is inductive by itself.
* `CountsAlways`: `CountsKept`. It is not inductive: that `LoadRiskCnt` may put saved
  counters in the place of the present ones needs `SavedKept`, that the newest document
  has no less than what was to be counted when it was written, and `RestartIdle`, that
  no order is under way before `LoadRiskCnt`. Where the load fails `lost` is everything
  of before the crash.
* `AtMostOneLateAlways`: `AtMostOneLate`. `LateInv` adds that a late order is past
  its check. The step that matters is `CheckOpen`: by `CountsKept` a check looks at
  counters no smaller than the facts, so an order that passes finds rules that do
  not block, whatever another thread wrote in between.
* `DayBudgetAlways`: `DayBudget`. `DayInv` bounds the counters, in memory and in the
  database, by one above a known limit, and by the limit itself while an order is
  between its check and its count. Limits are written field by field and may stop half
  way, so `LimitKnown` says of each field that it is some document's, not of all.
* `MinuteBudgetAlways`: `MinuteBudget`. The counters do not bound it, because a restart
  may read back an earlier minute. `MinuteInv` therefore bounds the orders themselves,
  and those of them that are saved, which is what a restart starts from.

`PositionBookProofs`, from `BookAssumption` alone, for any accounts, targets, lots,
limits and number of orders, on both kinds of exchange: `TypeCorrect`,
`BooksFollowAlways`, `ClosesCoveredAlways`, `TargetKeptAlways`. `IInv` says

* of each order how far it got (`OrderOK`), and of the reports on their way that they
  fit their orders, the last one ending (`StreamAt`), and that the trades booked and on
  their way account for every fill (`TradesAt`);
* of both books that they are the account corrected by totals over the orders
  (`BookAt`): what is out to close is missing from them, and so is, or is not yet, what
  a fill has moved;
* that what is active goes one way (`OneWayAt`): `TargetWay` closes before it opens,
  and a new target waits until nothing is under way;
* that the exchange covers the closes it holds (`CoveredAt`), that no more is out to
  close than there is (`FreeAt`), and that the orders lead to the target, or nothing
  is left to close on the side that could bring it nearer (`GoalAt`), the latter two as
  long as HTP has booked what it decides on (`~blind`).

Every total is a sum over all orders of what counts of each (`Tot`), so a step that
alters one order changes a total by what that order changes. There is one lemma
per action, and the three properties follow from `IInv` alone.

`SumLemmas` has what these totals and those of `TdCoreProofs` and `TdSessionProofs`
need: a sum without elements, with one more, with one changed, of two functions
added, of sequences one after the other. The sums are
`SumFunction` of the community modules, a fold chosen to satisfy a recursion over the
subsets. The library's induction theorems take an operator, which no prover here
can instantiate; `NatSets` therefore states induction for a set of numbers (from the
well-foundedness of `<`), and the function that the fold chooses is shown to exist by
induction on the size of its domain, with the set of the sizes in the predicate's place.

`MarketDataProofs`, from `MarketAssumption` alone, for any hours, clock, restarts and
ticks: `TypeCorrect`, `BarsExactAlways`, `NeverHalfDoneAlways`, `TrustedTicksAlways`,
`NewestLastAlways`. The accepted ticks have no less volume than the last one taken,
so along the way (database, K-line, queue, `mapTick`) volumes never fall; before
the first calculation the queue's head is the least. The bars of a K-line are
therefore level, or no tick to come is refused, so that the loop of `CalcLineK`
ends at the first bar or at none, and the copy stays equal. In `BarsExactAlways` a bar
that starts over counts from the volume it keeps, and `extra` is what that lacks of the
last tick's. For the ticks, `GateInv` relates the count to the number of calls since
the last change; `TrustedTicksAlways` has the exception of `TrustedTicks` (`crossed`).

`TdSessionProofs`, from `SessionAssumption` alone: any number of exchanges, any finite
set of orders with any volumes, and all faults.

* `InitialisedAlways`: `Initialised`, by `InitInv`. `Start` counts whatever answer it finds
  for the step it waits for; the invariant says why this does no harm. At most one
  query is outstanding, because the API refuses a second one, order queries are
  made in the order of the exchanges, and each status that `Start` may find implies
  that the answers before it were received (`Before`, `Received`).
* `BooksExactAlways`: `BooksExact`, by `SessionInv`. Each book is written as a sum over the
  orders of what it took of each (`Books`). Until the answer to the query of the
  position is in `m_eStatus`, or `Start` goes by it, this may be anything up to what was
  filled and stored; from then on it is, of every order that no fault has spoilt,
  exactly what is stored (`Loose`, `Booked`). It therefore does no harm that what is
  reported before HTP runs is stored and not booked: the snapshot holds it,
  because all queries are over by then (`Turn`). What is stored is in turn what is
  filled: an answer tells of an order not spoilt just that (`Answered`), and once spi
  has the trades, or `Start` the orders of an exchange, what is missing there is on
  its way to a running HTP (`HeardTrades`, `HeardOrders`). With nothing on the way each
  term is off by nothing unless the order is spoilt or, in the book of orders,
  filled in part.
* `SessionTypeCorrect`: `TypeOK`, from the same invariant: that no book falls below zero
  or exceeds all volumes together comes from the sums.

`TdCoreProofs`, for any scenarios, lots, number of orders and all faults: the first
and the last two theorems with `ThreadAlgo` alone in `TargetWay` (`Workers` is at most, or
is, `{"algo"}`), the others from `CoreAssumption` alone, with `AuctionWay` or without.

* `CancelOnceAlways`. It needs a single worker: the test of `CancelWay` and its writes
  are apart, and with `AuctionWay` too both threads may pass the test before either
  writes (TLC finds it in 17 states). A cancel is refused when the entry is at
  `CCL_DOING` or carries no `ORDED` stamp, but entries are also deleted, by the end of
  an order, by errors and by refusals, and late stamps bring them back. `CoreInv` says
  why none of this lets a second cancel pass: reports are of orders the broker has
  accepted or refused (`Reports`), so only an accepted order is ever `ORDED`
  (`Stamped`); an entry of such an order is deleted only once its final report is
  stored, after which no report stamps it again (`Barred`); an order waits for the
  broker once (`WaitsOnce`), so that no refusal deletes the entry of an accepted one.
* `CoreTypeCorrect`: `TypeOK`, from `TypeInv` and `World`, on which the others rest. No
  part of the state keeps its range by itself: that a fill leaves something, that a
  trade stored has an order, that a volume reported is at most the order's, depends on
  what others did. `World` relates the broker's record of an order (`Kept`), the
  trades, the messages on their way (`Tells`) and HTP's own records (`Stored`,
  `AtHand`, `Deals`).
* `BookedOnceAlways`: `BookedOnce`, by `OnceInv`: each book is the sum of what it
  should have booked, of each trade stored and of each order whose end is booked. A
  step alters one term of one of the sums. Where a close was cut short the book is
  above the sum.
* `BooksAgreeAlways`: `BooksAgree`. On a link that never failed every trade and every
  end is stored or on its way (`Delivered`), so nothing on its way means everything is
  stored; what the broker filled is the sum of its trades (`Accounted`).
* `ViewExactAlways`: `ViewExact`. `ViewInv` follows each order from hand to hand
  (`Seen`): who has not handed it to the broker, who has heard of it, whether its
  end is booked or waits to be reopened. Once all is acknowledged each order then
  counts in HTP's view for what it counts at the exchange (`Counted`); the sums agree
  term by term.
* `TargetMetAlways`: `TargetMet`. The orders `TARGET_LOOP` splits a volume into have
  that volume together, or all that its turns allow (`SplitSum`), a worker settles only with nothing left to
  create (`Bare`), and what it decides leads its view to the target (`Meets`), which
  is the exposure.
* `NeverOverAlways`: `NeverOver`, and `ExposureKeptAlways`: `ExposureKept`, of a first
  target within `Reach` (`AtOnce`), without the faults that lose an order (`Harmless`: rejections, risk control, refused calls, lost
  links). The run `two_triggers` shows that both need the single worker. What is
  committed is rewritten as one sum over the orders (`CommittedShares`): an order counts
  for its volume while somebody is going to execute it (`Open`), for its fills
  afterwards. Every step leaves every order `Steady`, that is, opens none again and
  closes it only by its last fill or a fault (`AllSteady`), except the end of a
  cancelled order, which gives up its rest to the order it is reopened as
  (`CanceledTotal`), and `TARGET_LOOP`'s turn, which moves a volume from the list to the
  queue (`PushTotal`). `StageInv` adds how far the first target is: not settled and
  nothing ordered (`NotYet`), its orders being created (`Creating`), or behind
  (`Settled`), in both with no more committed than the target (`Within`); it also
  says that no cancel forbids a reopening, because the target cannot turn round.

`TargetPlanProofs`, from `PlanAssumption` alone: any workers, positions and clock,
any number of buffers above one, and any documents, whatever times of the day,
in whatever order, and settings of the modes they bring.

* `CurrentUntouchedAlways`. `LoadTarget` clears and fills the next buffer while
  workers take from the one in use; the proof needs that the indices stay in range
  and that the next one is another (`NextIsOther`).
* `TracksAlways`: `Tracks`, by the invariant of `Create`'s loop (`LoopInv`). `OnLine` says
  that what `dbPosAdd` has left over is exactly the difference between the line and
  the lots traded, less the lot traded ahead where there are fewer lots than
  times, and lies between 0 and a lot. `TurnMoves` is the arithmetic of one turn, a
  division with remainder; it follows that the position never passes the target
  before the last turn and meets it there, `m_dbVolK` or not.
* `GotLatestAlways` and `NeverBackAlways`: `GotLatest` and `NeverBack`, by `PlanInv`. Both
  rest on the order of the plan. The list that `GetTimeList` sorts is in order
  (`InOrderIs`, `TimeListIs`), `Create` keeps it so (`TurnList`), and `GetTarget` and
  `PopTarget` take from the front (`Rest`). The plan in use then goes on from the slot
  handed out last (`GoesOn`), and a slot held by a worker is either of an earlier
  document (`HoldsEarlier`: `CheckOut` puts a later one in use, `LoadsLater`), or the
  best that its plan had for the tick, and taking more away changes nothing.
* `PlanTypeCorrect`: `TypeOK`, from the same invariant.

It also holds the theorems about times: `NextDay` and `PrevDay` are inverse and `NextDay` is the next date of
the calendar, with none between; minutes step back over hours although
`PrevHour` sets the minute; a span of less than an hour is added exactly over
every border (`CarryExact`), hence the session's times lie the frequency apart
(modulo an hour) and the network time is exact for an hour; a tick within an hour of
the NTP server's last answer is dated right, and taken exactly when there are a network
time and a trading day (`TicksDatedRight`); sessions are dated in
their order, whenever a plan is made; and the three deviations above. The
calendar's theorems need no temporal reasoning, but TLC sees a few dates only.

Only model-checked is

- liveness (`EveryElementLeaves`, `TargetHeld`, `StartEnds`, `LogsBackIn`,
  `LastLineSaved`, the fairness part of `ImplementsFifo`), which is out of the prover's
  reach.

Every invariant and every safety property of the passing runs is a theorem.

## Not modelled

The log, files and the TCP wrappers keep no state that other components decide
on. The database's documents are formatting, except for the risk documents and
counters, the target documents, the K-lines and the trading hours. Prices, profit
and statistics decide no control flow of the modelled parts, except where a
choice stands for them. The concurrent insertion into the risk maps
(`CRiskThread.cpp` 38-44, 55-60) is undefined behaviour and left out. Of the market
connection's own login (`CMdThread::Start`) nothing is modelled: it is the trading
one without its queries. The exchanges' clocks (`CHtpSystem`) only correct the
displayed time.

The repository has some 76200 lines of C and C++, but all except about 8700 of
them are headers and wrappers of the CTP, MongoDB, JSON and HPSocket libraries
(`src/HCTP/LIBWin`) and the CTP test program: the modules map the program's own
lines, not those.

## Plan

Done: the queue, the order table, the trading core for longs of today, risk
control, the plan with its calendar, the position book, the session and the market
data, in order of what they mean for the account. What is left:

1. An abstract specification of the trading core (an exposure that moves to the
   target in force) that `TdCore` without partial fills implements.
2. Start-up in `PositionBook`: the books of all four positions from a snapshot, of
   which `TdSession` has the longs.
