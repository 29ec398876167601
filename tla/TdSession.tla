----------------------------- MODULE TdSession -----------------------------
(***************************************************************************)
(* Start-up, login and relogin of CTdThread (src/HCTP/CTdThread.cpp), and  *)
(* what they do to the two position books.                                 *)
(*                                                                         *)
(* Start polls m_eStatus, which the callbacks of the CTP thread (spi) set: *)
(* it repeats the last step after a time-out or a failure, and goes on to  *)
(* the next request after an answer.  Its read of the status and its write *)
(* of CTPST_BUSY are separate steps: what a callback writes in between is  *)
(* lost.  Once running, ThreadTime logs in again after a loss of the link  *)
(* and after the logout by which Stop makes a silent session start over.   *)
(*                                                                         *)
(* Buy orders of an earlier session may still hang at the exchanges and be *)
(* filled, a lot at a time, whenever the broker likes.  Their reports, the *)
(* query answers and the position snapshot reach the books in any order.   *)
(***************************************************************************)
EXTENDS Integers, Sequences, FiniteSets, Functions

CONSTANTS
    Exchanges,  \* CTP_EXID_ENDF: the exchanges are 0 .. Exchanges - 1
    Orders,     \* the orders that hang when the program starts
    Exid,       \* [Orders -> 0 .. Exchanges - 1]
    Vol,        \* [Orders -> Nat]
    MaxTry,     \* nTryTimes at which Start still goes on: 5
    Faults,     \* what may go wrong: see FaultNames
    MaxTrouble, \* bound: faults, logouts and early time-outs in a behaviour
    MaxAsked    \* bound: requests and answers under way when ThreadTime logs in

FaultNames == {"down", "beat", "error", "refuse", "logout", "late"}

ASSUME SessionAssumption ==
    /\ Exchanges \in Nat \ {0}
    /\ Orders # {} /\ IsFiniteSet(Orders)
    /\ Exid \in [Orders -> 0 .. Exchanges - 1]
    /\ Vol \in [Orders -> Nat \ {0}]
    /\ MaxTry \in Nat
    /\ Faults \subseteq FaultNames
    /\ MaxTrouble \in Nat
    /\ MaxAsked \in Nat

VARIABLES
    eStatus,   \* m_eStatus, shared by Start and spi
    start,     \* Start: [pc, step (its eStatus), qry (eOrderQry), tries]
    flag,      \* m_bStatus: [fronton, loginon, running]
    mapOrder,  \* m_mapOrder: order -> the filled volume last reported, -1 for none
    mapTrade,  \* m_mapTrade: the trades stored, <<order, n>>
    posORD,    \* m_mapPositionORD, the long position
    posTRD,    \* m_mapPositionTRD
    logging,   \* ThreadTime has sent the authentication and will send the login
    link,      \* external: the connection, "off" until the API is started
    broker,    \* external: what this connection may do, [auth, login]
    done,      \* external: order -> the volume filled
    reqs,      \* external: requests on their way to the broker
    answers,   \* external: answers on their way to spi
    rtn,       \* external: private stream and connection events for spi
    trouble,   \* history: how much has gone wrong, for MaxTrouble
    got,       \* history: the requests spi has had a good answer to
    spoilt,    \* history: the orders that the start-up may have got wrong
    warned     \* history: a heartbeat warning since the last connection

books == <<mapOrder, mapTrade, posORD, posTRD>>
wires == <<reqs, answers, rtn>>
ext   == <<link, broker, done, wires>>
hist  == <<trouble, got, spoilt, warned>>
vars  == <<eStatus, start, flag, books, logging, ext, hist>>

Held == SumFunction(done)
Volume(S) == SumFunction([o \in S |-> Vol[o]])
On(e) == {o \in Orders : Exid[o] = e}

-----------------------------------------------------------------------------
(* The steps of Start and the request each makes: <<name, exchange>>.      *)
Names == {"auth", "login", "confirm", "instruments", "rates", "account",
          "trades", "position", "logout", "none"}
AskOrders(e) == <<"orders", e>>
Ask(name) == <<name, 0>>
OrderQueries == {AskOrders(e) : e \in 0 .. Exchanges - 1}
Queries == {Ask(n) : n \in {"instruments", "rates", "account", "trades", "position"}}
               \cup OrderQueries
Requests == {Ask(n) : n \in Names} \cup OrderQueries

Status == {"init", "fronton", "frontoff", "onauthen", "loginon", "loginoff",
           "confirm", "ongetid", "oncmsrate", "onaccount", "onqryorder",
           "onqrytrade", "onqryposition", "busy", "failed", "runing"}

(* Mutant: the trades are not queried after the orders.                    *)
RequestOf_NoTrades(step, qry) ==
    CASE step = "fronton"    -> Ask("auth")
      [] step = "onauthen"   -> Ask("login")
      [] step = "loginon"    -> Ask("confirm")
      [] step = "confirm"    -> Ask("instruments")
      [] step = "ongetid"    -> Ask("rates")
      [] step = "oncmsrate"  -> Ask("account")
      [] step \in {"onaccount", "onqryorder"} ->
            IF qry < Exchanges THEN AskOrders(qry) ELSE Ask("position")
      [] OTHER               -> Ask("none")

RequestOf(step, qry) ==
    CASE step = "fronton"    -> Ask("auth")
      [] step = "onauthen"   -> Ask("login")
      [] step = "loginon"    -> Ask("confirm")
      [] step = "confirm"    -> Ask("instruments")
      [] step = "ongetid"    -> Ask("rates")
      [] step = "oncmsrate"  -> Ask("account")
      [] step \in {"onaccount", "onqryorder"} ->
            IF qry < Exchanges THEN AskOrders(qry) ELSE Ask("trades")
      [] step = "onqrytrade" -> Ask("position")
      [] OTHER               -> Ask("none")

(* The status each answer sets.                                            *)
StatusAfter(name) ==
    CASE name = "auth"        -> "onauthen"
      [] name = "login"       -> "loginon"
      [] name = "logout"      -> "loginoff"
      [] name = "confirm"     -> "confirm"
      [] name = "instruments" -> "ongetid"
      [] name = "rates"       -> "oncmsrate"
      [] name = "account"     -> "onaccount"
      [] name = "orders"      -> "onqryorder"
      [] name = "trades"      -> "onqrytrade"
      [] name = "position"    -> "onqryposition"

(* m_bStatus is never initialised (the constructor's loop writes one entry *)
(* past its end): its flags may start with any value.                      *)
Init ==
    /\ eStatus = "init"
    /\ start = [pc |-> "poll", step |-> "init", qry |-> 0, tries |-> 0]
    /\ flag \in [fronton : BOOLEAN, loginon : BOOLEAN, running : BOOLEAN]
    /\ mapOrder = [o \in Orders |-> -1] /\ mapTrade = {}
    /\ posORD = 0 /\ posTRD = 0
    /\ logging = FALSE
    /\ link = "off" /\ broker = [auth |-> FALSE, login |-> FALSE]
    /\ done = [o \in Orders |-> 0]
    /\ reqs = <<>> /\ answers = <<>> /\ rtn = <<>>
    /\ trouble = 0 /\ got = {} /\ spoilt = {} /\ warned = FALSE

-----------------------------------------------------------------------------
(* The API.  It refuses what cannot be sent: without a connection, or a    *)
(* query while another one is unanswered.                                  *)
Outstanding == {reqs[i] : i \in DOMAIN reqs} \cup {answers[i].req : i \in DOMAIN answers}
Accepts(req) ==
    /\ link = "up"
    /\ req \in Queries => Outstanding \cap Queries = {}

Trouble(fault) == fault \in Faults /\ trouble < MaxTrouble /\ trouble' = trouble + 1

Send(req) ==
    \/ Accepts(req) /\ reqs' = Append(reqs, req) /\ UNCHANGED trouble
    \/ ~Accepts(req) /\ UNCHANGED <<reqs, trouble>>
    \/ Accepts(req) /\ Trouble("refuse") /\ UNCHANGED reqs

-----------------------------------------------------------------------------
(* Start.                                                                  *)

(* Something the step at hand waits for is still to come.                  *)
Underway == reqs # <<>> \/ answers # <<>> \/ link # "up"
                \/ \E i \in DOMAIN rtn : rtn[i].kind = "up"

(* nTimeOut runs out, as it must when nothing is under way.                *)
Expire ==
    /\ start.pc = "poll" /\ eStatus = "busy"
    /\ start' = [start EXCEPT !.pc = "expired"]
    /\ IF Underway THEN Trouble("late") ELSE UNCHANGED trouble
    /\ UNCHANGED <<eStatus, flag, books, logging, ext, got, spoilt, warned>>

(* What a callback has set meanwhile is overwritten.                       *)
MarkFailed ==
    /\ start.pc = "expired"
    /\ eStatus' = "failed"
    /\ start' = [start EXCEPT !.pc = "poll"]
    /\ UNCHANGED <<flag, books, logging, ext, hist>>

(* Mutants: a failure is not counted; it is counted but never the last.    *)
Again_Uncounted ==
    /\ start.pc = "poll" /\ eStatus = "failed"
    /\ start' = [start EXCEPT !.pc = "go"]
    /\ UNCHANGED <<eStatus, flag, books, logging, ext, hist>>

Again_NoLimit ==
    /\ start.pc = "poll" /\ eStatus = "failed"
    /\ start' = [start EXCEPT !.tries = @ + 1, !.pc = "go"]
    /\ UNCHANGED <<eStatus, flag, books, logging, ext, hist>>

(* The last step failed: once more, MaxTry times.                          *)
Again ==
    /\ start.pc = "poll" /\ eStatus = "failed"
    /\ start' = [start EXCEPT !.tries = @ + 1,
                              !.pc = IF start.tries + 1 > MaxTry THEN "gaveup" ELSE "go"]
    /\ UNCHANGED <<eStatus, flag, books, logging, ext, hist>>

QryAfter(s, qry) == IF s = "onqryorder" THEN qry + 1 ELSE qry

(* The last step succeeded: remember its status as the step to make.       *)
Backup ==
    /\ start.pc = "poll" /\ eStatus \notin {"busy", "failed"}
    /\ start' = [pc |-> "go", step |-> eStatus, tries |-> 0,
                 qry |-> QryAfter(eStatus, start.qry)]
    /\ UNCHANGED <<eStatus, flag, books, logging, ext, hist>>

(* Mark the status busy and make the step's request; a status without one  *)
(* (the front is off) only waits.                                          *)
Request ==
    LET req == RequestOf(start.step, start.qry) IN
    /\ start.pc = "go" /\ start.step # "onqryposition"
    /\ eStatus' = "busy"
    /\ start' = [start EXCEPT !.pc = "poll"]
    /\ IF req = Ask("none") THEN UNCHANGED <<reqs, trouble>> ELSE Send(req)
    /\ link' = IF start.step = "init" /\ link = "off" THEN "down" ELSE link
    /\ UNCHANGED <<flag, books, logging, broker, done, answers, rtn, got, spoilt, warned>>

(* The end of Start: CTPST_RUNING, and the threads that trade.             *)
Finish ==
    /\ start.pc = "go" /\ start.step = "onqryposition"
    /\ eStatus' = "runing"
    /\ start' = [start EXCEPT !.pc = "ended"]
    /\ flag' = [flag EXCEPT !.running = TRUE]
    /\ UNCHANGED <<books, logging, ext, hist>>

Start == Expire \/ MarkFailed \/ Again \/ Backup \/ Request \/ Finish

-----------------------------------------------------------------------------
(* The broker.  An answer carries what it knew when it got the request.    *)
Answer(req, err) ==
    [req |-> req, err |-> err,
     done |-> IF req \in OrderQueries \cup {Ask("trades"), Ask("position")}
              THEN done ELSE [o \in Orders |-> 0]]

Allowed(name) ==
    CASE name = "auth"  -> TRUE
      [] name = "login" -> broker.auth /\ ~broker.login
      [] OTHER          -> broker.login

(* Partly filled orders are those no later report tells apart from the     *)
(* snapshot.                                                               *)
Partly(o) == done[o] \in 1 .. Vol[o] - 1
SpoiltBy(req) ==
    IF req \in OrderQueries
    THEN (spoilt \ On(req[2])) \cup {o \in On(req[2]) : Partly(o)}
    ELSE spoilt

BrokerAnswers ==
    LET req == Head(reqs)
        name == req[1]
    IN
    /\ reqs # <<>>
    /\ reqs' = Tail(reqs)
    /\ \/ /\ Allowed(name)
          /\ broker' = [auth  |-> broker.auth \/ name = "auth",
                        login |-> (broker.login \/ name = "login") /\ name # "logout"]
          /\ answers' = Append(answers, Answer(req, 0))
          /\ spoilt' = SpoiltBy(req)
          /\ UNCHANGED trouble
       \/ /\ ~Allowed(name)
          /\ answers' = Append(answers, Answer(req, IF name = "login" /\ broker.login
                                                    THEN 60 ELSE 1))
          /\ UNCHANGED <<broker, spoilt, trouble>>
       \/ /\ Allowed(name) /\ Trouble("error")
          /\ answers' = Append(answers, Answer(req, 1))
          /\ UNCHANGED <<broker, spoilt>>
    /\ UNCHANGED <<eStatus, start, flag, books, logging, link, done, rtn, got, warned>>

(* The private stream is subscribed QUICK: it carries what happens between *)
(* the login and the loss of the connection.                               *)
Stream == link = "up" /\ broker.login
Message(kind, o) == [kind |-> kind, order |-> o, n |-> done[o]]
Event(kind) == [kind |-> kind, order |-> CHOOSE o \in Orders : TRUE, n |-> 0]

Known(e) == AskOrders(e) \in got
                \/ \E i \in DOMAIN answers : answers[i].req = AskOrders(e) /\ answers[i].err = 0

Fill(o) ==
    /\ done[o] < Vol[o]
    /\ done' = [done EXCEPT ![o] = @ + 1]
    /\ rtn' = IF Stream THEN rtn \o <<Message("order", o)', Message("trade", o)'>> ELSE rtn
    /\ spoilt' = IF Known(Exid[o]) /\ (start.pc # "ended" \/ ~Stream)
                 THEN spoilt \cup {o} ELSE spoilt
    /\ UNCHANGED <<eStatus, start, flag, books, logging, link, broker, reqs, answers,
                   trouble, got, warned>>

Connect ==
    /\ link = "down"
    /\ link' = "up" /\ broker' = [auth |-> FALSE, login |-> FALSE]
    /\ rtn' = Append(rtn, Event("up"))
    /\ UNCHANGED <<eStatus, start, flag, books, logging, done, reqs, answers, hist>>

(* Nothing on its way to or from the broker survives.                      *)
Disconnect ==
    /\ link = "up" /\ Trouble("down")
    /\ link' = "down" /\ broker' = [auth |-> FALSE, login |-> FALSE]
    /\ reqs' = <<>> /\ answers' = <<>>
    /\ rtn' = Append(rtn, Event("down"))
    /\ UNCHANGED <<eStatus, start, flag, books, logging, done, got, spoilt, warned>>

(* Nothing was received for a while; the connection stays.                 *)
HeartBeat ==
    /\ link = "up" /\ Trouble("beat")
    /\ rtn' = Append(rtn, Event("beat"))
    /\ UNCHANGED <<eStatus, start, flag, books, logging, link, broker, done, reqs,
                   answers, got, spoilt, warned>>

-----------------------------------------------------------------------------
(* The CTP thread: one callback at a time.                                 *)

(* OrderWay goes on with a report unless a final one is stored.            *)
NewReport(o) == mapOrder[o] # Vol[o]

(* OrderWay: the whole volume of an order that is filled enters the book,  *)
(* if HTP is running.  n is the filled volume, for some orders.            *)
OrderWay(S, n) ==
    LET new == {o \in S : NewReport(o)} IN
    /\ mapOrder' = [o \in Orders |-> IF o \in new THEN n[o] ELSE mapOrder[o]]
    /\ posORD' = posORD + (IF flag.running
                           THEN Volume({o \in new : n[o] = Vol[o]}) ELSE 0)
    /\ UNCHANGED <<mapTrade, posTRD>>

(* Mutant: a stored trade is booked again.                                 *)
NewTrades_Always(T) == T

(* TradeWay goes on with the trades not stored yet.                        *)
NewTrades(T) == T \ mapTrade

TradeWay(T) ==
    /\ mapTrade' = mapTrade \cup T
    /\ posTRD' = posTRD + (IF flag.running THEN Cardinality(NewTrades(T)) ELSE 0)
    /\ UNCHANGED <<mapOrder, posORD>>

TradesOf(n) == UNION {{<<o, k>> : k \in 1 .. n[o]} : o \in Orders}

(* PositionWay: both books become the snapshot, of which there is no       *)
(* record when nothing is held.                                            *)
PositionWay(total) ==
    /\ posTRD' = IF total > 0 THEN total ELSE posTRD
    /\ posORD' = IF total > 0 THEN total ELSE posORD
    /\ UNCHANGED <<mapOrder, mapTrade>>

(* A negative answer: a login refused as a second one counts as a login.   *)
OnRspError(a) ==
    /\ a.err # 0
    /\ eStatus' = "failed"
    /\ flag' = IF a.req[1] = "login" THEN [flag EXCEPT !.loginon = a.err = 60] ELSE flag
    /\ UNCHANGED <<books, got>>

OnRspGood(a) ==
    LET name == a.req[1] IN
    /\ a.err = 0
    /\ eStatus' = StatusAfter(name)
    /\ flag' = IF name \in {"login", "logout"} THEN [flag EXCEPT !.loginon = name = "login"]
               ELSE flag
    /\ got' = got \cup {a.req}
    /\ \/ name = "orders" /\ OrderWay(On(a.req[2]), a.done)
       \/ name = "trades" /\ TradeWay(TradesOf(a.done))
       \/ name = "position" /\ PositionWay(SumFunction(a.done))
       \/ name \notin {"orders", "trades", "position"} /\ UNCHANGED books

(* The API calls OnFrontConnected before it hands out answers.             *)
OnRsp ==
    /\ answers # <<>> /\ \A i \in DOMAIN rtn : rtn[i].kind # "up"
    /\ answers' = Tail(answers)
    /\ OnRspError(Head(answers)) \/ OnRspGood(Head(answers))
    /\ UNCHANGED <<start, logging, link, broker, done, reqs, rtn, trouble, spoilt, warned>>

OnFrontConnected ==
    /\ Head(rtn).kind = "up"
    /\ flag' = [flag EXCEPT !.fronton = TRUE]
    /\ eStatus' = "fronton"
    /\ warned' = FALSE
    /\ UNCHANGED books

OnFrontDisconnected ==
    /\ Head(rtn).kind = "down"
    /\ flag' = [flag EXCEPT !.fronton = FALSE, !.loginon = FALSE]
    /\ eStatus' = "frontoff"
    /\ UNCHANGED <<books, warned>>

OnHeartBeatWarning ==
    /\ Head(rtn).kind = "beat"
    /\ flag' = [flag EXCEPT !.fronton = FALSE, !.loginon = FALSE]
    /\ eStatus' = "failed"
    /\ warned' = TRUE
    /\ UNCHANGED books

OnRtnOrder ==
    LET m == Head(rtn) IN
    /\ m.kind = "order"
    /\ OrderWay({m.order}, [o \in {m.order} |-> m.n])
    /\ UNCHANGED <<flag, eStatus, warned>>

OnRtnTrade ==
    LET m == Head(rtn) IN
    /\ m.kind = "trade"
    /\ TradeWay({<<m.order, m.n>>})
    /\ UNCHANGED <<flag, eStatus, warned>>

OnRtn ==
    /\ rtn # <<>>
    /\ rtn' = Tail(rtn)
    /\ \/ OnFrontConnected \/ OnFrontDisconnected \/ OnHeartBeatWarning
       \/ OnRtnOrder \/ OnRtnTrade
    /\ UNCHANGED <<start, logging, link, broker, done, reqs, answers, trouble, got, spoilt>>

-----------------------------------------------------------------------------
(* ThreadTime, every ten seconds: authenticate and log in again.           *)

(* Mutant: only a session that was never lost is logged in again.          *)
MustLogIn_FrontOff == ~flag.loginon /\ ~flag.fronton

MustLogIn == ~flag.loginon /\ flag.fronton

ThreadTime ==
    /\ start.pc = "ended"
    /\ \/ /\ ~logging /\ MustLogIn
          /\ Len(reqs) + Len(answers) < MaxAsked
          /\ Send(Ask("auth"))
       \/ logging /\ Send(Ask("login"))
    /\ logging' = ~logging
    /\ UNCHANGED <<eStatus, start, flag, books, link, broker, done, answers, rtn,
                   got, spoilt, warned>>

(* Stop, which HaveDoing calls for an order silent for ten minutes.        *)
Stop ==
    /\ start.pc = "ended" /\ flag.loginon /\ Accepts(Ask("logout"))
    /\ Trouble("logout")
    /\ reqs' = Append(reqs, Ask("logout"))
    /\ UNCHANGED <<eStatus, start, flag, books, logging, link, broker, done, answers,
                   rtn, got, spoilt, warned>>

-----------------------------------------------------------------------------
Next ==
    \/ Start
    \/ BrokerAnswers \/ \E o \in Orders : Fill(o)
    \/ Connect \/ Disconnect \/ HeartBeat
    \/ OnRsp \/ OnRtn
    \/ ThreadTime \/ Stop

(* The threads of the program run, the broker answers, the API delivers    *)
(* and reconnects.                                                         *)
Fairness ==
    /\ WF_vars(Start) /\ WF_vars(ThreadTime)
    /\ WF_vars(BrokerAnswers) /\ WF_vars(OnRsp) /\ WF_vars(OnRtn)
    /\ WF_vars(Connect)

Spec == Init /\ [][Next]_vars /\ Fairness

-----------------------------------------------------------------------------
(* Properties.                                                             *)

(* The shape of the state.                                                 *)
TypeOK ==
    /\ eStatus \in Status
    /\ start \in [pc : {"poll", "expired", "go", "ended", "gaveup"}, step : Status,
                  qry : 0 .. Exchanges, tries : 0 .. MaxTry + 1]
    /\ flag \in [fronton : BOOLEAN, loginon : BOOLEAN, running : BOOLEAN]
    /\ \A o \in Orders : mapOrder[o] \in -1 .. Vol[o] /\ done[o] \in 0 .. Vol[o]
    /\ mapTrade \subseteq TradesOf(Vol)
    /\ posORD \in Nat /\ posTRD \in Nat
    /\ logging \in BOOLEAN
    /\ link \in {"off", "down", "up"} /\ broker \in [auth : BOOLEAN, login : BOOLEAN]
    /\ Outstanding \subseteq Requests
    /\ \A i \in DOMAIN rtn : rtn[i].kind \in {"up", "down", "beat", "order", "trade"}
    /\ trouble \in 0 .. MaxTrouble
    /\ got \subseteq Requests /\ spoilt \subseteq Orders /\ warned \in BOOLEAN

(* HTP starts to trade only when the account, the orders of every          *)
(* exchange, the trades and the position have been received, whatever was  *)
(* lost, repeated or refused on the way.                                   *)
Initialised ==
    start.pc = "ended" => flag.running /\ Queries \cup {Ask("confirm")} \subseteq got

(* Once HTP is running and every report is handled, the books are off by   *)
(* no more than the orders filled while HTP started or could not hear of   *)
(* it, and those partly filled (the book of orders moves at their end).    *)
Off(pos) == IF pos > Held THEN pos - Held ELSE Held - pos
BooksExact ==
    start.pc = "ended" /\ rtn = <<>> =>
        /\ Off(posTRD) <= Volume(spoilt)
        /\ Off(posORD) <= Volume(spoilt \cup {o \in Orders : Partly(o)})

(* Start ends: HTP runs, or gives up.                                      *)
StartEnds == <>(start.pc \in {"ended", "gaveup"})

(* Whatever ends a login, HTP is logged in again in the end, if no         *)
(* heartbeat warning came since the last connection.                       *)
LogsBackIn == <>(start.pc = "gaveup") \/ <>[]flag.loginon \/ <>[]warned

(* "Log in after the line was dropped", whatever it was dropped for.       *)
AlwaysBackIn == <>(start.pc = "gaveup") \/ <>[]flag.loginon
=============================================================================
