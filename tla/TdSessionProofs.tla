-------------------------- MODULE TdSessionProofs --------------------------
(***************************************************************************)
(* Proofs for any number of exchanges, orders, faults and repetitions:     *)
(* that Start reaches CTPST_RUNING only with everything received, and that *)
(* the books agree with what is filled once the reports are handled.       *)
(*                                                                         *)
(* InitInv follows the queries, of which one is under way at a time. Turn  *)
(* adds when the last of them are made, Heard what the reports, answers    *)
(* and books that are stored or under way say of what is filled.           *)
(***************************************************************************)
EXTENDS TdSession, SumLemmas, TLAPS

Pcs == {"poll", "expired", "go", "ended", "gaveup"}
Sent == Requests \ {Ask("none")}
Answers == [req : Sent, err : {0, 1, 60}, done : [Orders -> Int]]

(* The part of the shape that the argument needs.                          *)
Shape ==
    /\ eStatus \in Status
    /\ start \in [pc : Pcs, step : Status, qry : Nat, tries : Nat]
    /\ flag \in [fronton : BOOLEAN, loginon : BOOLEAN, running : BOOLEAN]
    /\ reqs \in Seq(Sent) /\ answers \in Seq(Answers)
    /\ done \in [Orders -> Int]

(* Of the queries at most one is without an answer that spi has handled.   *)
OneQuery ==
    /\ \A i, j \in DOMAIN reqs : reqs[i] \in Queries /\ reqs[j] \in Queries => i = j
    /\ \A i, j \in DOMAIN answers :
           answers[i].req \in Queries /\ answers[j].req \in Queries => i = j
    /\ \A i \in DOMAIN reqs, j \in DOMAIN answers :
           ~(reqs[i] \in Queries /\ answers[j].req \in Queries)

(* The query of orders under way is the one Start is at; when its answer   *)
(* is in m_eStatus, none is under way.                                     *)
OrdersInTurn ==
    /\ start.qry <= Exchanges
    /\ \A e \in 0 .. Exchanges - 1 : AskOrders(e) \in Outstanding => e = start.qry
    /\ eStatus = "onqryorder" => Outstanding \cap OrderQueries = {}
    /\ eStatus = "onqryorder" /\ start.pc = "poll" =>
           start.qry < Exchanges /\ AskOrders(start.qry) \in got
    /\ \A e \in 0 .. Exchanges - 1 : e < start.qry => AskOrders(e) \in got

(* What has been received when a status is set, ...                        *)
UpToAccount == {Ask(n) : n \in {"confirm", "instruments", "rates", "account"}}
Received(s) ==
    CASE s = "confirm"   -> {Ask("confirm")}
      [] s = "ongetid"   -> {Ask(n) : n \in {"confirm", "instruments"}}
      [] s = "oncmsrate" -> {Ask(n) : n \in {"confirm", "instruments", "rates"}}
      [] s \in {"onaccount", "onqryorder"} -> UpToAccount
      [] s = "onqrytrade" -> UpToAccount \cup OrderQueries \cup {Ask("trades")}
      [] s = "onqryposition" -> Queries \cup {Ask("confirm")}
      [] OTHER -> {}

(* ... and before a request is made.                                       *)
Before(name) ==
    CASE name = "instruments" -> Received("confirm")
      [] name = "rates"       -> Received("ongetid")
      [] name = "account"     -> Received("oncmsrate")
      [] name = "orders"      -> Received("onaccount")
      [] name = "trades"      -> UpToAccount \cup OrderQueries
      [] name = "position"    -> Received("onqrytrade")
      [] OTHER                -> {}

InOrder ==
    /\ Received(eStatus) \subseteq got
    /\ Received(start.step) \subseteq got
    /\ \A req \in Outstanding : Before(req[1]) \subseteq got

Ended == start.pc = "ended" => flag.running /\ start.step = "onqryposition"

InitInv == Shape /\ OneQuery /\ OrdersInTurn /\ InOrder /\ Ended

-----------------------------------------------------------------------------
(* Requests.                                                               *)

(* The queries are requests, and those of orders differ from the others.   *)
LEMMA RequestsAre ==
    /\ Queries \subseteq Sent /\ OrderQueries \subseteq Queries
    /\ \A n \in {"auth", "login", "logout"} : Ask(n) \in Sent \ Queries
    /\ \A e, f : AskOrders(e) = AskOrders(f) => e = f
    /\ \A e \in 0 .. Exchanges - 1 : AskOrders(e) \in OrderQueries
    /\ \A e : AskOrders(e)[1] = "orders"
    /\ \A n : Ask(n)[1] = n /\ (Ask(n) \in OrderQueries => n = "orders")
    /\ \A req \in Sent : req[1] = "orders" => req \in OrderQueries
<1>1. \A e, f : AskOrders(e) = AskOrders(f) => e = f
  BY DEF AskOrders
<1>2. \A e : AskOrders(e)[1] = "orders"
  BY DEF AskOrders
<1>3. \A n : Ask(n)[1] = n
  BY DEF Ask
<1>4. \A req \in OrderQueries : req[1] = "orders"
  BY <1>2 DEF OrderQueries
<1>5. \A n \in Names : n # "orders"
  BY DEF Names
<1>6. \A n \in {"instruments", "rates", "account", "trades", "position",
                "auth", "login", "logout"} :
          n \in Names /\ n # "none"
  BY DEF Names
<1>7. \A req \in Queries : \/ req \in OrderQueries
                           \/ \E n \in {"instruments", "rates", "account", "trades", "position"} :
                                  req = Ask(n)
  BY DEF Queries
<1>8. Queries \subseteq Sent
  BY <1>3, <1>4, <1>6, <1>7 DEF Sent, Requests
<1>9. \A n \in {"auth", "login", "logout"} : Ask(n) \in Sent \ Queries
  BY <1>3, <1>4, <1>6, <1>7 DEF Sent, Requests
<1>10. \A req \in Sent : req[1] = "orders" => req \in OrderQueries
  BY <1>3, <1>5 DEF Sent, Requests
<1>11. OrderQueries \subseteq Queries
  BY DEF Queries
<1> QED
  BY <1>1, <1>2, <1>3, <1>4, <1>8, <1>9, <1>10, <1>11 DEF OrderQueries

(* The request of a step asks for what comes next.                         *)
LEMMA RequestOfIs ==
    ASSUME NEW step \in Status, NEW qry \in Nat, qry <= Exchanges,
           NEW req, req = RequestOf(step, qry), req # Ask("none")
    PROVE  /\ req \in Sent
           /\ req \in OrderQueries => req = AskOrders(qry)
           /\ Before(req[1]) \subseteq
                  Received(step) \cup (IF qry = Exchanges THEN OrderQueries ELSE {})
<1> USE SessionAssumption
<1>1. CASE step \in {"onaccount", "onqryorder"} /\ qry < Exchanges
  <2>1. req = AskOrders(qry) /\ qry \in 0 .. Exchanges - 1
    BY <1>1 DEF RequestOf
  <2>2. req \in OrderQueries /\ req[1] = "orders"
    BY <2>1, RequestsAre
  <2>3. Before("orders") = UpToAccount /\ Received(step) = UpToAccount
    BY <1>1 DEF Before, Received
  <2> QED
    BY <2>1, <2>2, <2>3, RequestsAre
<1>2. CASE step \in {"onaccount", "onqryorder"} /\ ~(qry < Exchanges)
  <2>1. req = Ask("trades") /\ qry = Exchanges
    BY <1>2 DEF RequestOf
  <2>2. Before("trades") = UpToAccount \cup OrderQueries /\ Received(step) = UpToAccount
    BY <1>2 DEF Before, Received
  <2>3. req \in Sent
    BY <2>1, RequestsAre DEF Queries
  <2> QED
    BY <2>1, <2>2, <2>3, RequestsAre
<1>3. CASE step \in {"fronton", "onauthen", "loginon", "confirm", "ongetid", "oncmsrate",
                     "onqrytrade"}
  <2>1. \E n \in {"auth", "login", "confirm", "instruments", "rates", "account", "position"} :
            req = Ask(n) /\ Before(n) \subseteq Received(step)
    BY <1>3 DEF RequestOf, Before, Received
  <2>2. \A n \in {"auth", "login", "confirm", "instruments", "rates", "account", "position"} :
            n \in Names /\ n # "none" /\ n # "orders"
    BY DEF Names
  <2> QED
    BY <2>1, <2>2, RequestsAre DEF Sent, Requests
<1>4. CASE step \notin {"onaccount", "onqryorder", "fronton", "onauthen", "loginon", "confirm",
                        "ongetid", "oncmsrate", "onqrytrade"}
  BY <1>4 DEF RequestOf
<1> QED
  BY <1>1, <1>2, <1>3, <1>4

(* A good answer completes what its status stands for.                     *)
LEMMA GoodIs ==
    ASSUME NEW req \in Sent
    PROVE  /\ StatusAfter(req[1]) \in Status
           /\ Received(StatusAfter(req[1])) \subseteq Before(req[1]) \cup {req}
           /\ StatusAfter(req[1]) = "onqryorder" => req \in OrderQueries
<1>1. CASE req \in OrderQueries
  <2>1. req[1] = "orders"
    BY <1>1, RequestsAre DEF OrderQueries
  <2> QED
    BY <1>1, <2>1 DEF StatusAfter, Status, Received, Before
<1>2. CASE req \notin OrderQueries
  <2>1. PICK n \in Names : req = Ask(n) /\ n # "none"
    BY <1>2 DEF Sent, Requests
  <2>2. req[1] = n
    BY <2>1, RequestsAre
  <2>3. n \in {"auth", "login", "confirm", "instruments", "rates", "account", "trades",
               "position", "logout"}
    BY <2>1 DEF Names
  <2>4. StatusAfter(n) \in Status /\ StatusAfter(n) # "onqryorder"
    BY <2>3 DEF StatusAfter, Status
  <2>5. CASE n = "position"
    BY <2>1, <2>2, <2>4, <2>5 DEF StatusAfter, Received, Before, Queries, UpToAccount
  <2>6. CASE n = "trades"
    BY <2>1, <2>2, <2>4, <2>6 DEF StatusAfter, Received, Before
  <2>7. CASE n \in {"confirm", "instruments", "rates", "account"}
    <3>1. CASE n = "confirm"
      BY <2>1, <2>2, <2>4, <3>1 DEF StatusAfter, Received, Before
    <3>2. CASE n = "instruments"
      BY <2>1, <2>2, <2>4, <3>2 DEF StatusAfter, Received, Before
    <3>3. CASE n = "rates"
      BY <2>1, <2>2, <2>4, <3>3 DEF StatusAfter, Received, Before
    <3>4. CASE n = "account"
      BY <2>1, <2>2, <2>4, <3>4 DEF StatusAfter, Received, Before, UpToAccount
    <3> QED
      BY <2>7, <3>1, <3>2, <3>3, <3>4
  <2>8. CASE n \in {"auth", "login", "logout"}
    BY <2>1, <2>2, <2>4, <2>8 DEF StatusAfter, Received, Before
  <2> QED
    BY <2>3, <2>5, <2>6, <2>7, <2>8
<1> QED
  BY <1>1, <1>2

-----------------------------------------------------------------------------
(* What is under way.                                                      *)

(* What is under way are requests and answers to requests.                 *)
LEMMA UnderwayAre ==
    ASSUME Shape
    PROVE  /\ \A i \in DOMAIN reqs : reqs[i] \in Sent /\ reqs[i] \in Outstanding
           /\ \A i \in DOMAIN answers : /\ answers[i] \in Answers /\ answers[i].req \in Sent
                                        /\ answers[i].req \in Outstanding
           /\ Outstanding \subseteq Sent
<1>1. reqs \in Seq(Sent) /\ answers \in Seq(Answers)
  BY DEF Shape
<1>2. \A i \in DOMAIN reqs : reqs[i] \in Sent
  BY <1>1
<1>3. \A i \in DOMAIN answers : answers[i] \in Answers
  BY <1>1
<1>4. \A a \in Answers : a.req \in Sent
  BY DEF Answers
<1> QED
  BY <1>2, <1>3, <1>4 DEF Outstanding

(* What is appended is at the end.                                         *)
LEMMA AppendIs ==
    ASSUME NEW S, NEW q \in Seq(S), NEW x \in S
    PROVE  /\ Append(q, x) \in Seq(S) /\ DOMAIN q \subseteq DOMAIN Append(q, x)
           /\ Len(q) + 1 \in DOMAIN Append(q, x) /\ Append(q, x)[Len(q) + 1] = x
           /\ \A i \in DOMAIN q : Append(q, x)[i] = q[i]
           /\ \A i \in DOMAIN Append(q, x) : i \in DOMAIN q \/ i = Len(q) + 1
<1>1. /\ Append(q, x) \in Seq(S) /\ Len(Append(q, x)) = Len(q) + 1 /\ Len(q) \in Nat
      /\ DOMAIN q = 1 .. Len(q)
      /\ \A i \in 1 .. Len(q) : Append(q, x)[i] = q[i]
      /\ Append(q, x)[Len(q) + 1] = x
  OBVIOUS
<1>2. DOMAIN Append(q, x) = 1 .. Len(q) + 1
  BY <1>1
<1> QED
  BY <1>1, <1>2

(* Only what is left is in the tail.                                       *)
LEMMA TailIs ==
    ASSUME NEW S, NEW q \in Seq(S), q # <<>>
    PROVE  /\ Tail(q) \in Seq(S) /\ 1 \in DOMAIN q /\ Head(q) = q[1]
           /\ \A i \in DOMAIN Tail(q) : i + 1 \in DOMAIN q /\ i + 1 # 1 /\ Tail(q)[i] = q[i + 1]
                                        /\ i \in Nat
           /\ \A i \in DOMAIN q : i = 1 \/ (i - 1 \in DOMAIN Tail(q) /\ Tail(q)[i - 1] = q[i])
<1>1. /\ Tail(q) \in Seq(S) /\ Len(q) \in Nat /\ Len(q) > 0
      /\ DOMAIN q = 1 .. Len(q) /\ Head(q) = q[1]
  OBVIOUS
<1>2. Len(Tail(q)) = Len(q) - 1 /\ \A i \in 1 .. Len(q) - 1 : Tail(q)[i] = q[i + 1]
  BY <1>1
<1>3. DOMAIN Tail(q) = 1 .. Len(q) - 1
  BY <1>1, <1>2
<1> QED
  BY <1>1, <1>2, <1>3

(* A request that the API accepts is under way, and the only query then.   *)
LEMMA SendIs ==
    ASSUME Shape, OneQuery, NEW req \in Sent, Accepts(req), reqs' = Append(reqs, req),
           answers' = answers
    PROVE  /\ reqs' \in Seq(Sent) /\ OneQuery'
           /\ Outstanding' = Outstanding \cup {req}
           /\ req \in Queries => Outstanding \cap Queries = {}
<1>1. reqs \in Seq(Sent)
  BY DEF Shape
<1>2. req \in Queries => Outstanding \cap Queries = {}
  BY DEF Accepts
<1> DEFINE last == Len(reqs) + 1
<1>3. /\ reqs' \in Seq(Sent) /\ DOMAIN reqs \subseteq DOMAIN reqs'
      /\ last \in DOMAIN reqs' /\ reqs'[last] = req
      /\ \A i \in DOMAIN reqs : reqs'[i] = reqs[i]
      /\ \A i \in DOMAIN reqs' : i \in DOMAIN reqs \/ i = last
  BY <1>1, AppendIs
<1> HIDE DEF last
<1>4. Outstanding' = Outstanding \cup {req}
  BY <1>3 DEF Outstanding
<1>5. OneQuery'
  <2>1. \A i \in DOMAIN reqs : reqs[i] \in Outstanding
    BY UnderwayAre
  <2>2. \A i \in DOMAIN answers : answers[i].req \in Outstanding
    BY UnderwayAre
  <2> QED
    BY <1>2, <1>3, <2>1, <2>2 DEF OneQuery
<1> QED
  BY <1>2, <1>3, <1>4, <1>5

(* The broker turns the first request into the last answer.                *)
LEMMA MovedIs ==
    ASSUME Shape, OneQuery, reqs # <<>>, reqs' = Tail(reqs),
           NEW err \in {0, 1, 60}, answers' = Append(answers, Answer(Head(reqs), err))
    PROVE  /\ reqs' \in Seq(Sent) /\ answers' \in Seq(Answers) /\ OneQuery'
           /\ Outstanding' \subseteq Outstanding
<1>1. reqs \in Seq(Sent) /\ answers \in Seq(Answers) /\ done \in [Orders -> Int]
  BY DEF Shape
<1> DEFINE new == Answer(Head(reqs), err)
           last == Len(answers) + 1
<1>2. /\ reqs' \in Seq(Sent) /\ 1 \in DOMAIN reqs /\ Head(reqs) = reqs[1]
      /\ \A i \in DOMAIN reqs' : i + 1 \in DOMAIN reqs /\ i + 1 # 1 /\ reqs'[i] = reqs[i + 1]
                                 /\ i \in Nat
  BY <1>1, TailIs
<1>3. Head(reqs) \in Sent /\ Head(reqs) \in Outstanding
  BY <1>2, UnderwayAre
<1>4. new \in Answers /\ new.req = Head(reqs)
  BY <1>1, <1>3 DEF Answer, Answers
<1> HIDE DEF new
<1>5. /\ answers' \in Seq(Answers) /\ last \in DOMAIN answers' /\ answers'[last] = new
      /\ \A i \in DOMAIN answers : answers'[i] = answers[i]
      /\ \A i \in DOMAIN answers' : i \in DOMAIN answers \/ i = last
  BY <1>1, <1>4, AppendIs DEF new
<1> HIDE DEF last
<1>6. Outstanding' \subseteq Outstanding
  BY <1>2, <1>3, <1>4, <1>5 DEF Outstanding
<1>7. \A i, j \in DOMAIN reqs' : reqs'[i] \in Queries /\ reqs'[j] \in Queries => i = j
  BY <1>2 DEF OneQuery
<1>8. \A i, j \in DOMAIN answers' :
          answers'[i].req \in Queries /\ answers'[j].req \in Queries => i = j
  BY <1>2, <1>4, <1>5 DEF OneQuery
<1>9. \A i \in DOMAIN reqs', j \in DOMAIN answers' :
          ~(reqs'[i] \in Queries /\ answers'[j].req \in Queries)
  <2> SUFFICES ASSUME NEW i \in DOMAIN reqs', NEW j \in DOMAIN answers',
                      reqs'[i] \in Queries, answers'[j].req \in Queries
               PROVE  FALSE
    OBVIOUS
  <2>1. i + 1 \in DOMAIN reqs /\ i + 1 # 1 /\ reqs[i + 1] \in Queries
    BY <1>2
  <2>2. CASE j \in DOMAIN answers
    BY <1>5, <2>1, <2>2 DEF OneQuery
  <2>3. CASE j = last
    BY <1>2, <1>4, <1>5, <2>1, <2>3 DEF OneQuery
  <2> QED
    BY <1>5, <2>2, <2>3
<1> QED
  BY <1>2, <1>5, <1>6, <1>7, <1>8, <1>9 DEF OneQuery

(* An answered query leaves none under way.                                *)
LEMMA HandledIs ==
    ASSUME Shape, OneQuery, answers # <<>>, answers' = Tail(answers), reqs' = reqs
    PROVE  /\ answers' \in Seq(Answers) /\ OneQuery' /\ Outstanding' \subseteq Outstanding
           /\ Head(answers) \in Answers /\ Head(answers).req \in Outstanding
           /\ Head(answers).req \in Queries => Outstanding' \cap Queries = {}
<1>1. answers \in Seq(Answers)
  BY DEF Shape
<1>2. /\ answers' \in Seq(Answers) /\ 1 \in DOMAIN answers /\ Head(answers) = answers[1]
      /\ \A i \in DOMAIN answers' : /\ i + 1 \in DOMAIN answers /\ i + 1 # 1
                                    /\ answers'[i] = answers[i + 1] /\ i \in Nat
  BY <1>1, TailIs
<1>3. Head(answers) \in Answers /\ Head(answers).req \in Outstanding
  BY <1>2, UnderwayAre
<1>4. Outstanding' \subseteq Outstanding
  BY <1>2 DEF Outstanding
<1>5. \A i, j \in DOMAIN answers' :
          answers'[i].req \in Queries /\ answers'[j].req \in Queries => i = j
  BY <1>2 DEF OneQuery
<1>6. OneQuery'
  BY <1>2, <1>5 DEF OneQuery
<1>7. Head(answers).req \in Queries => Outstanding' \cap Queries = {}
  BY <1>2 DEF OneQuery, Outstanding
<1> QED
  BY <1>2, <1>3, <1>4, <1>6, <1>7

-----------------------------------------------------------------------------
(* The invariant.                                                          *)

(* What is under way may dwindle and what has been received may grow.      *)
LEMMA OrderKept ==
    ASSUME OrdersInTurn, InOrder, Outstanding' \subseteq Outstanding, got \subseteq got',
           UNCHANGED <<eStatus, start>>
    PROVE  OrdersInTurn' /\ InOrder'
  BY DEF OrdersInTurn, InOrder

(* A status that says nothing of a query may be set at any time.           *)
LEMMA StatusKept ==
    ASSUME OrdersInTurn, InOrder, UNCHANGED <<Outstanding, got>>,
           Received(eStatus') = {}, eStatus' # "onqryorder",
           start'.qry = start.qry, start'.step = start.step
    PROVE  OrdersInTurn' /\ InOrder'
  BY DEF OrdersInTurn, InOrder

(* The statuses that say nothing of what has been received.                *)
LEMMA NothingReceived ==
    \A s \in {"init", "fronton", "frontoff", "busy", "failed", "runing", "onauthen", "loginon",
              "loginoff"} : Received(s) = {} /\ s \in Status /\ s # "onqryorder"
  BY DEF Received, Status

(* Every step keeps InitInv.                                               *)
LEMMA InitInvStep ==
    ASSUME InitInv, [Next]_vars
    PROVE  InitInv'
<1> USE DEF InitInv
<1>0. /\ start \in [pc : Pcs, step : Status, qry : Nat, tries : Nat]
      /\ flag \in [fronton : BOOLEAN, loginon : BOOLEAN, running : BOOLEAN]
      /\ eStatus \in Status /\ MaxTry \in Nat /\ Exchanges \in Nat \ {0}
  BY SessionAssumption DEF Shape
<1>1. CASE Expire
  <2>1. /\ start' = [start EXCEPT !.pc = "expired"]
        /\ UNCHANGED <<eStatus, flag, reqs, answers, done, got>>
    BY <1>1 DEF Expire, ext, wires
  <2>2. /\ start' \in [pc : Pcs, step : Status, qry : Nat, tries : Nat]
        /\ start'.pc = "expired" /\ start'.qry = start.qry /\ start'.step = start.step
    BY <1>0, <2>1 DEF Pcs
  <2>3. Shape' /\ OneQuery' /\ Outstanding' = Outstanding /\ Ended'
    BY <2>1, <2>2 DEF Shape, OneQuery, Outstanding, Ended
  <2>4. OrdersInTurn' /\ InOrder'
    BY <2>1, <2>2, <2>3 DEF OrdersInTurn, InOrder
  <2> QED
    BY <2>3, <2>4
<1>2. CASE MarkFailed
  <2>1. /\ start' = [start EXCEPT !.pc = "poll"] /\ eStatus' = "failed"
        /\ UNCHANGED <<flag, reqs, answers, done, got>>
    BY <1>2 DEF MarkFailed, ext, wires, hist
  <2>2. /\ start' \in [pc : Pcs, step : Status, qry : Nat, tries : Nat]
        /\ start'.pc = "poll" /\ start'.qry = start.qry /\ start'.step = start.step
    BY <1>0, <2>1 DEF Pcs
  <2>3. Shape' /\ OneQuery' /\ Outstanding' = Outstanding /\ Ended'
    BY <2>1, <2>2, NothingReceived DEF Shape, OneQuery, Outstanding, Ended
  <2> QED
    BY <2>1, <2>2, <2>3, StatusKept, NothingReceived
<1>3. CASE Again
  <2>1. /\ start' = [start EXCEPT !.tries = @ + 1,
                              !.pc = IF start.tries + 1 > MaxTry THEN "gaveup" ELSE "go"]
        /\ eStatus = "failed" /\ eStatus' = "failed"
        /\ UNCHANGED <<flag, reqs, answers, done, got>>
    BY <1>3 DEF Again, ext, wires, hist
  <2>2. /\ start' \in [pc : Pcs, step : Status, qry : Nat, tries : Nat]
        /\ start'.pc # "ended" /\ start'.qry = start.qry /\ start'.step = start.step
    <3>1. PICK t : t = start.tries + 1
      OBVIOUS
    <3>2. PICK p \in {"gaveup", "go"} : start' = [start EXCEPT !.tries = t, !.pc = p]
      BY <2>1, <3>1
    <3>3. t \in Nat /\ p \in Pcs /\ p # "ended"
      BY <1>0, <3>1 DEF Pcs
    <3> QED
      BY <1>0, <3>2, <3>3
  <2>3. Shape' /\ OneQuery' /\ Outstanding' = Outstanding /\ Ended'
    BY <2>1, <2>2 DEF Shape, OneQuery, Outstanding, Ended
  <2> QED
    BY <2>1, <2>2, <2>3, StatusKept, NothingReceived
<1>4. CASE Backup
  <2>1. /\ start' = [pc |-> "go", step |-> eStatus, tries |-> 0,
                     qry |-> QryAfter(eStatus, start.qry)]
        /\ start.pc = "poll"
        /\ UNCHANGED <<eStatus, flag, reqs, answers, done, got>>
    BY <1>4 DEF Backup, ext, wires, hist
  <2>2. /\ start' \in [pc : Pcs, step : Status, qry : Nat, tries : Nat]
        /\ start'.pc = "go" /\ start'.step = eStatus
        /\ start'.qry = IF eStatus = "onqryorder" THEN start.qry + 1 ELSE start.qry
    BY <1>0, <2>1 DEF Pcs, QryAfter
  <2>3. Shape' /\ OneQuery' /\ Outstanding' = Outstanding /\ Ended'
    BY <2>1, <2>2 DEF Shape, OneQuery, Outstanding, Ended
  <2>4. InOrder'
    BY <2>1, <2>2, <2>3 DEF InOrder
  <2>5. CASE eStatus # "onqryorder"
    <3>1. start'.qry = start.qry /\ start'.pc # "poll" /\ eStatus' # "onqryorder" /\ got' = got
      BY <2>1, <2>2, <2>5
    <3>2. start'.qry <= Exchanges
      BY <3>1 DEF OrdersInTurn
    <3>3. \A e \in 0 .. Exchanges - 1 : AskOrders(e) \in Outstanding' => e = start'.qry
      BY <2>3, <3>1 DEF OrdersInTurn
    <3>4. \A e \in 0 .. Exchanges - 1 : e < start'.qry => AskOrders(e) \in got'
      BY <3>1 DEF OrdersInTurn
    <3> QED
      BY <2>3, <2>4, <3>1, <3>2, <3>3, <3>4 DEF OrdersInTurn
  <2>6. CASE eStatus = "onqryorder"
    <3>1. /\ start'.qry = start.qry + 1 /\ start.qry \in Nat
          /\ start.qry < Exchanges /\ AskOrders(start.qry) \in got
          /\ Outstanding \cap OrderQueries = {}
      BY <1>0, <2>1, <2>2, <2>6 DEF OrdersInTurn
    <3>2. \A e \in 0 .. Exchanges - 1 : AskOrders(e) \notin Outstanding
      BY <3>1, RequestsAre
    <3>3. \A e \in 0 .. Exchanges - 1 : e < start.qry + 1 => AskOrders(e) \in got
      BY <3>1 DEF OrdersInTurn
    <3>4. start'.pc # "poll" /\ start'.qry <= Exchanges
      BY <1>0, <2>2, <3>1
    <3>5. /\ \A e \in 0 .. Exchanges - 1 : AskOrders(e) \notin Outstanding'
          /\ \A e \in 0 .. Exchanges - 1 : e < start'.qry => AskOrders(e) \in got'
          /\ Outstanding' \cap OrderQueries = {}
      BY <2>1, <2>3, <3>1, <3>2, <3>3
    <3> QED
      BY <2>3, <2>4, <3>4, <3>5 DEF OrdersInTurn
  <2> QED
    BY <2>3, <2>4, <2>5, <2>6
<1>5. CASE Request
  <2> DEFINE req == RequestOf(start.step, start.qry)
  <2>1. /\ start' = [start EXCEPT !.pc = "poll"] /\ eStatus' = "busy"
        /\ UNCHANGED <<flag, answers, done, got>>
        /\ reqs' = reqs \/ (req # Ask("none") /\ Accepts(req) /\ reqs' = Append(reqs, req))
    BY <1>5 DEF Request, Send
  <2>2. /\ start' \in [pc : Pcs, step : Status, qry : Nat, tries : Nat]
        /\ start'.pc = "poll" /\ start'.qry = start.qry /\ start'.step = start.step
    BY <1>0, <2>1 DEF Pcs
  <2>3. CASE reqs' = reqs
    <3>1. Shape' /\ OneQuery' /\ Outstanding' = Outstanding /\ Ended'
      BY <2>1, <2>2, <2>3, NothingReceived DEF Shape, OneQuery, Outstanding, Ended
    <3> QED
      BY <2>1, <2>2, <3>1, StatusKept, NothingReceived
  <2>4. CASE req # Ask("none") /\ Accepts(req) /\ reqs' = Append(reqs, req)
    <3>1. start.step \in Status /\ start.qry \in Nat /\ start.qry <= Exchanges
      BY <1>0 DEF OrdersInTurn
    <3>2. /\ req \in Sent
          /\ req \in OrderQueries => req = AskOrders(start.qry)
          /\ Before(req[1]) \subseteq
                 Received(start.step) \cup (IF start.qry = Exchanges THEN OrderQueries ELSE {})
      BY <2>4, <3>1, RequestOfIs
    <3> HIDE DEF req
    <3>3. /\ reqs' \in Seq(Sent) /\ OneQuery'
          /\ Outstanding' = Outstanding \cup {req}
      BY <2>1, <2>4, <3>2, SendIs
    <3>4. Shape' /\ Ended'
      BY <2>1, <2>2, <3>3, NothingReceived DEF Shape, Ended
    <3>5. start.qry = Exchanges => OrderQueries \subseteq got
      BY <1>0 DEF OrdersInTurn, OrderQueries
    <3>6. Before(req[1]) \subseteq got
      BY <3>2, <3>5 DEF InOrder
    <3>7. InOrder'
      BY <2>1, <2>2, <3>3, <3>6, NothingReceived DEF InOrder
    <3>8. \A e \in 0 .. Exchanges - 1 : AskOrders(e) \in Outstanding' => e = start.qry
      BY <3>2, <3>3, RequestsAre DEF OrdersInTurn
    <3>9. OrdersInTurn'
      BY <2>1, <2>2, <3>8 DEF OrdersInTurn
    <3> QED
      BY <3>3, <3>4, <3>7, <3>9
  <2> QED
    BY <2>1, <2>3, <2>4
<1>6. CASE Finish
  <2>1. /\ start' = [start EXCEPT !.pc = "ended"] /\ eStatus' = "runing"
        /\ flag' = [flag EXCEPT !.running = TRUE]
        /\ start.step = "onqryposition"
        /\ UNCHANGED <<reqs, answers, done, got>>
    BY <1>6 DEF Finish, ext, wires, hist
  <2>2. /\ start' \in [pc : Pcs, step : Status, qry : Nat, tries : Nat]
        /\ start'.pc = "ended" /\ start'.qry = start.qry /\ start'.step = start.step
    BY <1>0, <2>1 DEF Pcs
  <2>3. flag' \in [fronton : BOOLEAN, loginon : BOOLEAN, running : BOOLEAN] /\ flag'.running
    BY <1>0, <2>1
  <2>4. Shape' /\ OneQuery' /\ Outstanding' = Outstanding /\ Ended'
    BY <2>1, <2>2, <2>3, NothingReceived DEF Shape, OneQuery, Outstanding, Ended
  <2> QED
    BY <2>1, <2>2, <2>4, StatusKept, NothingReceived
<1>7. CASE BrokerAnswers
  <2>1. /\ reqs # <<>> /\ reqs' = Tail(reqs) /\ UNCHANGED <<eStatus, start, flag, done, got>>
        /\ \E err \in {0, 1, 60} : answers' = Append(answers, Answer(Head(reqs), err))
    BY <1>7 DEF BrokerAnswers
  <2>2. /\ reqs' \in Seq(Sent) /\ answers' \in Seq(Answers) /\ OneQuery'
        /\ Outstanding' \subseteq Outstanding
    BY <2>1, MovedIs
  <2>3. Shape' /\ Ended'
    BY <2>1, <2>2 DEF Shape, Ended
  <2> QED
    BY <2>1, <2>2, <2>3, OrderKept
<1>8. ASSUME NEW o \in Orders, Fill(o)
      PROVE  InitInv'
  <2>1. /\ UNCHANGED <<eStatus, start, flag, reqs, answers, got>>
        /\ done' = [done EXCEPT ![o] = @ + 1]
    BY <1>8 DEF Fill
  <2>2. done' \in [Orders -> Int]
    BY <2>1 DEF Shape
  <2>3. Shape' /\ OneQuery' /\ Outstanding' = Outstanding /\ Ended'
    BY <2>1, <2>2 DEF Shape, OneQuery, Outstanding, Ended
  <2> QED
    BY <2>1, <2>3, OrderKept
<1>9. CASE Connect \/ HeartBeat \/ UNCHANGED vars
  <2>1. UNCHANGED <<eStatus, start, flag, reqs, answers, done, got>>
    BY <1>9 DEF Connect, HeartBeat, vars, ext, wires, hist
  <2>2. Shape' /\ OneQuery' /\ Outstanding' = Outstanding /\ Ended'
    BY <2>1 DEF Shape, OneQuery, Outstanding, Ended
  <2> QED
    BY <2>1, <2>2, OrderKept
<1>10. CASE Disconnect
  <2>1. UNCHANGED <<eStatus, start, flag, done, got>> /\ reqs' = <<>> /\ answers' = <<>>
    BY <1>10 DEF Disconnect
  <2>2. Shape' /\ OneQuery' /\ Outstanding' = {} /\ Ended'
    BY <2>1 DEF Shape, OneQuery, Outstanding, Ended
  <2> QED
    BY <2>1, <2>2, OrderKept
<1>11. CASE OnRsp
  <2> DEFINE a == Head(answers)
  <2>1. /\ answers # <<>> /\ answers' = Tail(answers) /\ UNCHANGED <<start, done, reqs>>
        /\ OnRspError(a) \/ OnRspGood(a)
    BY <1>11 DEF OnRsp
  <2>2. /\ answers' \in Seq(Answers) /\ OneQuery' /\ Outstanding' \subseteq Outstanding
        /\ a \in Answers /\ a.req \in Outstanding /\ a.req \in Sent
        /\ a.req \in Queries => Outstanding' \cap Queries = {}
    BY <2>1, HandledIs DEF Answers
  <2> HIDE DEF a
  <2>3. CASE OnRspError(a)
    <3>1. eStatus' = "failed" /\ got' = got
      BY <2>3 DEF OnRspError
    <3>2. /\ flag' \in [fronton : BOOLEAN, loginon : BOOLEAN, running : BOOLEAN]
          /\ flag'.running = flag.running
      BY <1>0, <2>3 DEF OnRspError
    <3>3. Shape' /\ Ended'
      BY <2>1, <2>2, <3>1, <3>2, NothingReceived DEF Shape, Ended
    <3>4. OrdersInTurn' /\ InOrder'
      BY <2>1, <2>2, <3>1, NothingReceived DEF OrdersInTurn, InOrder
    <3> QED
      BY <2>2, <3>3, <3>4
  <2>4. CASE OnRspGood(a)
    <3>1. eStatus' = StatusAfter(a.req[1]) /\ got' = got \cup {a.req}
      BY <2>4 DEF OnRspGood
    <3>2. /\ flag' \in [fronton : BOOLEAN, loginon : BOOLEAN, running : BOOLEAN]
          /\ flag'.running = flag.running
      BY <1>0, <2>4 DEF OnRspGood
    <3>3. /\ eStatus' \in Status
          /\ Received(eStatus') \subseteq Before(a.req[1]) \cup {a.req}
          /\ eStatus' = "onqryorder" => a.req \in OrderQueries
      BY <2>2, <3>1, GoodIs
    <3>4. Shape' /\ Ended'
      BY <2>1, <2>2, <3>2, <3>3 DEF Shape, Ended
    <3>5. InOrder'
      BY <2>1, <2>2, <3>1, <3>3 DEF InOrder
    <3>6. eStatus' = "onqryorder" => /\ Outstanding' \cap OrderQueries = {}
                                     /\ start.qry < Exchanges /\ AskOrders(start.qry) \in got'
      <4> SUFFICES ASSUME eStatus' = "onqryorder"
                   PROVE  /\ Outstanding' \cap OrderQueries = {}
                          /\ start.qry < Exchanges /\ AskOrders(start.qry) \in got'
        OBVIOUS
      <4>1. PICK e \in 0 .. Exchanges - 1 : a.req = AskOrders(e)
        BY <3>3 DEF OrderQueries
      <4>2. e = start.qry
        BY <2>2, <4>1 DEF OrdersInTurn
      <4>3. Outstanding' \cap OrderQueries = {}
        BY <2>2, <3>3, RequestsAre
      <4> QED
        BY <1>0, <3>1, <4>1, <4>2, <4>3
    <3>7. OrdersInTurn'
      BY <2>1, <2>2, <3>1, <3>6 DEF OrdersInTurn
    <3> QED
      BY <2>2, <3>4, <3>5, <3>7
  <2> QED
    BY <2>1, <2>3, <2>4
<1>12. CASE OnRtn
  <2>1. /\ UNCHANGED <<start, reqs, answers, done, got>>
        /\ eStatus' = eStatus \/ eStatus' \in {"fronton", "frontoff", "failed"}
    BY <1>12 DEF OnRtn, OnFrontConnected, OnFrontDisconnected, OnHeartBeatWarning, OnRtnOrder,
                 OnRtnTrade
  <2>2. /\ flag' \in [fronton : BOOLEAN, loginon : BOOLEAN, running : BOOLEAN]
        /\ flag'.running = flag.running
    BY <1>0, <1>12 DEF OnRtn, OnFrontConnected, OnFrontDisconnected, OnHeartBeatWarning, OnRtnOrder,
                 OnRtnTrade
  <2>3. eStatus' \in Status
    BY <1>0, <2>1, NothingReceived
  <2>4. Shape' /\ OneQuery' /\ Outstanding' = Outstanding /\ Ended'
    BY <2>1, <2>2, <2>3 DEF Shape, OneQuery, Outstanding, Ended
  <2> QED
    BY <2>1, <2>4, OrderKept, StatusKept, NothingReceived
<1>13. CASE ThreadTime \/ Stop
  <2>1. /\ UNCHANGED <<eStatus, start, flag, answers, done, got>>
        /\ \/ reqs' = reqs
           \/ \E n \in {"auth", "login", "logout"} :
                  Accepts(Ask(n)) /\ reqs' = Append(reqs, Ask(n))
    BY <1>13 DEF ThreadTime, Stop, Send
  <2>2. CASE reqs' = reqs
    <3>1. Shape' /\ OneQuery' /\ Outstanding' = Outstanding /\ Ended'
      BY <2>1, <2>2 DEF Shape, OneQuery, Outstanding, Ended
    <3> QED
      BY <2>1, <3>1, OrderKept
  <2>3. ASSUME NEW n \in {"auth", "login", "logout"}, Accepts(Ask(n)),
               reqs' = Append(reqs, Ask(n))
        PROVE  InitInv'
    <3>1. PICK req : req = Ask(n)
      OBVIOUS
    <3>2. /\ req \in Sent /\ Accepts(req) /\ reqs' = Append(reqs, req)
          /\ req \notin OrderQueries /\ req[1] = n
      BY <2>3, <3>1, RequestsAre
    <3>3. /\ reqs' \in Seq(Sent) /\ OneQuery'
          /\ Outstanding' = Outstanding \cup {req}
      BY <2>1, <3>2, SendIs
    <3>4. Shape' /\ Ended'
      BY <2>1, <3>3 DEF Shape, Ended
    <3>5. Before(n) = {}
      BY DEF Before
    <3>6. InOrder'
      BY <2>1, <3>2, <3>3, <3>5 DEF InOrder
    <3>7. OrdersInTurn'
      BY <2>1, <3>2, <3>3, RequestsAre DEF OrdersInTurn
    <3> QED
      BY <3>3, <3>4, <3>6, <3>7
  <2> QED
    BY <2>1, <2>2, <2>3
<1> QED
  BY <1>1, <1>2, <1>3, <1>4, <1>5, <1>6, <1>7, <1>8, <1>9, <1>10, <1>11, <1>12, <1>13
  DEF Next, Start

(* InitInv holds when the program starts.                                  *)
LEMMA InitInvInit ==
    ASSUME Init
    PROVE  InitInv
<1> USE DEF Init, SessionAssumption
<1>1. start \in [pc : Pcs, step : Status, qry : Nat, tries : Nat]
  BY DEF Pcs, Status
<1>2. reqs \in Seq(Sent) /\ answers \in Seq(Answers) /\ done \in [Orders -> Int]
  OBVIOUS
<1>3. Shape
  BY <1>1, <1>2 DEF Shape, Status
<1>4. Outstanding = {} /\ OneQuery
  BY DEF Outstanding, OneQuery
<1>5. OrdersInTurn
  BY <1>4, SessionAssumption DEF OrdersInTurn
<1>6. InOrder /\ Ended
  BY <1>4, NothingReceived DEF InOrder, Ended
<1> QED
  BY <1>3, <1>4, <1>5, <1>6 DEF InitInv

(* Start reaches CTPST_RUNING and starts the threads that trade only after *)
(* a good answer to the confirmation and to every query, whatever is       *)
(* lost, repeated, refused, answered late or overwritten on the way.       *)
THEOREM InitialisedAlways == Spec => []Initialised
<1>1. InitInv => Initialised
  BY DEF InitInv, Ended, InOrder, Initialised, Received
<1> QED
  BY <1>1, InitInvInit, InitInvStep, PTL DEF Spec

-----------------------------------------------------------------------------
(* What the books take from what is stored.                                *)

(* What a book takes of each order from the trades stored, ...             *)
Count(M) == [o \in Orders |-> Cardinality({k \in 1 .. Vol[o] : <<o, k>> \in M})]

(* ... and from the reports stored.                                        *)
Whole(m) == [o \in Orders |-> IF m[o] = Vol[o] THEN Vol[o] ELSE 0]

(* A book is what it took of each order: at most what the order had filled *)
(* at a snapshot and what was stored, and outside X just what is stored.   *)
Booked(pos, st, d, X) ==
    \E c \in [Orders -> Nat] :
        /\ pos = SumFunction(c)
        /\ \A o \in Orders : c[o] <= d[o] + st[o] /\ (o \notin X => c[o] = st[o])

-----------------------------------------------------------------------------
(* Books.                                                                  *)

(* The orders are finitely many, and their volumes are numbers.            *)
LEMMA FinOrders == IsFiniteSet(Orders) /\ Vol \in [Orders -> Nat] /\ Vol \in [Orders -> Int]
BY SessionAssumption

(* A book stays what it is while orders fill and more of them are          *)
(* excepted.                                                               *)
LEMMA BookedKept ==
    ASSUME NEW pos, NEW st \in [Orders -> Nat], NEW d \in [Orders -> Int],
           NEW e \in [Orders -> Int], NEW X, NEW Y,
           Booked(pos, st, d, X), \A o \in Orders : d[o] <= e[o],
           \A o \in Orders : o \in X => o \in Y
    PROVE  Booked(pos, st, e, Y)
<1>1. PICK c \in [Orders -> Nat] :
          /\ pos = SumFunction(c)
          /\ \A o \in Orders : c[o] <= d[o] + st[o] /\ (o \notin X => c[o] = st[o])
  BY DEF Booked
<1>2. \A o \in Orders : c[o] <= e[o] + st[o] /\ (o \notin Y => c[o] = st[o])
  BY <1>1
<1> QED
  BY <1>1, <1>2 DEF Booked

(* A report of what is stored already changes nothing outside X, ...       *)
LEMMA BookedStill ==
    ASSUME NEW pos, NEW st \in [Orders -> Nat], NEW new \in [Orders -> Nat],
           NEW d \in [Orders -> Int], NEW X,
           Booked(pos, st, d, X), \A o \in Orders : st[o] <= new[o],
           \A o \in Orders \ X : new[o] = st[o]
    PROVE  Booked(pos, new, d, X)
<1>1. PICK c \in [Orders -> Nat] :
          /\ pos = SumFunction(c)
          /\ \A o \in Orders : c[o] <= d[o] + st[o] /\ (o \notin X => c[o] = st[o])
  BY DEF Booked
<1>2. \A o \in Orders : c[o] <= d[o] + new[o] /\ (o \notin X => c[o] = new[o])
  BY <1>1
<1> QED
  BY <1>1, <1>2 DEF Booked

(* ... and what is stored while HTP runs moves the book by as much.        *)
LEMMA BookedMoves ==
    ASSUME NEW pos, NEW st \in [Orders -> Nat], NEW new \in [Orders -> Nat],
           NEW d \in [Orders -> Int], NEW X, NEW n \in Int,
           Booked(pos, st, d, X), \A o \in Orders : st[o] <= new[o],
           SumFunction(new) = SumFunction(st) + n
    PROVE  Booked(pos + n, new, d, X)
<1>1. PICK c \in [Orders -> Nat] :
          /\ pos = SumFunction(c)
          /\ \A o \in Orders : c[o] <= d[o] + st[o] /\ (o \notin X => c[o] = st[o])
  BY DEF Booked
<1>2. PICK f : f = [o \in Orders |-> new[o] - st[o]]
  OBVIOUS
<1>3. PICK k : k = [o \in Orders |-> c[o] + f[o]]
  OBVIOUS
<1>4. f \in [Orders -> Int] /\ \A o \in Orders : f[o] = new[o] - st[o] /\ f[o] >= 0
  BY <1>2
<1>5. k \in [Orders -> Nat] /\ \A o \in Orders : k[o] = c[o] + f[o]
  BY <1>3, <1>4
<1>6. \A o \in Orders : new[o] = st[o] + f[o]
  BY <1>4
<1>7. Adds(Orders, st, f, new) /\ Adds(Orders, c, f, k)
  BY <1>4, <1>5, <1>6, FinOrders DEF Adds
<1>8. /\ SumFunction(new) = SumFunction(st) + SumFunction(f)
      /\ SumFunction(k) = SumFunction(c) + SumFunction(f)
  BY <1>7, SumPlus
<1>9. SumFunction(new) \in Int /\ SumFunction(st) \in Int /\ SumFunction(f) \in Int
  BY <1>4, FinOrders, SumType
<1>10. SumFunction(f) = n
  <2>1. \A x, y, z \in Int : x = y + n /\ x = y + z => z = n
    OBVIOUS
  <2> QED
    BY ONLY <1>8, <1>9, <2>1, SumFunction(new) = SumFunction(st) + n, Zenon
<1>11. pos + n = SumFunction(k)
  BY <1>1, <1>8, <1>10
<1>12. \A o \in Orders : k[o] <= d[o] + new[o] /\ (o \notin X => k[o] = new[o])
  BY <1>1, <1>4, <1>5
<1> QED
  BY <1>5, <1>11, <1>12 DEF Booked

(* A snapshot that agrees with what is stored outside X.                   *)
LEMMA BookedSnapshot ==
    ASSUME NEW pos, NEW st \in [Orders -> Nat], NEW d \in [Orders -> Int], NEW X,
           NEW s \in [Orders -> Nat], NEW Y,
           Booked(pos, st, d, X), \A o \in Orders : s[o] <= d[o],
           \A o \in Orders \ Y : s[o] = d[o] /\ st[o] = d[o]
    PROVE  Booked(IF SumFunction(s) > 0 THEN SumFunction(s) ELSE pos, st, d, Y)
<1>1. PICK c \in [Orders -> Nat] :
          /\ pos = SumFunction(c)
          /\ \A o \in Orders : c[o] <= d[o] + st[o] /\ (o \notin X => c[o] = st[o])
  BY DEF Booked
<1>2. CASE SumFunction(s) > 0
  <2>1. \A o \in Orders : s[o] <= d[o] + st[o] /\ (o \notin Y => s[o] = st[o])
    OBVIOUS
  <2> QED
    BY <1>2, <2>1 DEF Booked
<1>3. CASE ~(SumFunction(s) > 0)
  <2>1. SumFunction(s) \in Nat /\ \A o \in Orders : s[o] <= SumFunction(s)
    BY FinOrders, SumNat
  <2>2. \A o \in Orders : s[o] = 0
    BY <1>3, <2>1
  <2>3. \A o \in Orders : c[o] <= d[o] + st[o] /\ (o \notin Y => c[o] = st[o])
    BY <1>1, <2>2
  <2> QED
    BY <1>1, <1>3, <2>3 DEF Booked
<1> QED
  BY <1>2, <1>3

(* A book differs from what is filled by no more than the volume of X.     *)
LEMMA BookedOff ==
    ASSUME NEW pos, NEW st \in [Orders -> Nat], NEW d \in [Orders -> Nat],
           NEW X \in SUBSET Orders,
           Booked(pos, st, d, X), \A o \in Orders : st[o] <= Vol[o] /\ d[o] <= Vol[o],
           \A o \in Orders \ X : st[o] = d[o]
    PROVE  /\ pos \in Nat /\ SumFunction(d) \in Nat /\ Volume(X) \in Nat
           /\ pos <= SumFunction(d) + Volume(X) /\ SumFunction(d) <= pos + Volume(X)
<1>1. PICK c \in [Orders -> Nat] :
          /\ pos = SumFunction(c)
          /\ \A o \in Orders : c[o] <= d[o] + st[o] /\ (o \notin X => c[o] = st[o])
  BY DEF Booked
<1>2. PICK h : h = [o \in X |-> Vol[o]]
  OBVIOUS
<1>3. PICK g : g = [o \in Orders |-> IF o \in X THEN Vol[o] ELSE 0]
  OBVIOUS
<1>4. /\ h \in [X -> Nat] /\ g \in [Orders -> Nat]
      /\ \A o \in X : h[o] = g[o] /\ g[o] = Vol[o]
      /\ \A o \in Orders \ X : g[o] = 0
  BY <1>2, <1>3, FinOrders
<1>5. Supports(Orders, X, g, h)
  BY <1>4, FinOrders DEF Supports
<1>6. SumFunction(g) = Volume(X)
  BY <1>2, <1>5, SumSupport DEF Volume
<1>7. PICK p, q : p = [o \in Orders |-> d[o] + g[o]] /\ q = [o \in Orders |-> c[o] + g[o]]
  OBVIOUS
<1>8. /\ p \in [Orders -> Nat] /\ \A o \in Orders : p[o] = d[o] + g[o]
      /\ q \in [Orders -> Nat] /\ \A o \in Orders : q[o] = c[o] + g[o]
  BY <1>4, <1>7
<1>9. Adds(Orders, d, g, p) /\ Adds(Orders, c, g, q)
  BY <1>4, <1>8, FinOrders DEF Adds
<1>10. /\ SumFunction(p) = SumFunction(d) + SumFunction(g)
       /\ SumFunction(q) = SumFunction(c) + SumFunction(g)
  BY <1>9, SumPlus
<1>11. \A o \in Orders : c[o] <= p[o] /\ d[o] <= q[o]
  <2> SUFFICES ASSUME NEW o \in Orders PROVE c[o] <= p[o] /\ d[o] <= q[o]
    OBVIOUS
  <2>1. c[o] \in Nat /\ d[o] \in Nat /\ st[o] \in Nat /\ Vol[o] \in Nat
    BY FinOrders
  <2>2. CASE o \in X
    BY <1>1, <1>4, <1>8, <2>1, <2>2
  <2>3. CASE o \notin X
    BY <1>1, <1>4, <1>8, <2>1, <2>3
  <2> QED
    BY <2>2, <2>3
<1>12. SumFunction(c) <= SumFunction(p) /\ SumFunction(d) <= SumFunction(q)
  <2>1. /\ c \in [Orders -> Int] /\ d \in [Orders -> Int]
        /\ p \in [Orders -> Int] /\ q \in [Orders -> Int]
    BY <1>8
  <2> QED
    BY <1>11, <2>1, FinOrders, SumMonotonic
<1>13. SumFunction(c) \in Nat /\ SumFunction(d) \in Nat /\ SumFunction(g) \in Nat
  BY <1>4, FinOrders, SumNat
<1> QED
  BY <1>1, <1>6, <1>10, <1>12, <1>13

-----------------------------------------------------------------------------
(* Trades.                                                                 *)

(* The trades up to a volume of each order.                                *)
LEMMA TradesAre ==
    \A n \in [Orders -> Int] : \A t : t \in TradesOf(n) <=>
        \E o \in Orders : \E k \in 1 .. n[o] : t = <<o, k>>
BY DEF TradesOf

(* More volume, more trades.                                               *)
LEMMA TradesMore ==
    ASSUME NEW n \in [Orders -> Int], NEW m \in [Orders -> Int], \A o \in Orders : n[o] <= m[o]
    PROVE  \A t \in TradesOf(n) : t \in TradesOf(m)
<1>1. \A o \in Orders : \A k \in 1 .. n[o] : k \in 1 .. m[o]
  <2> SUFFICES ASSUME NEW o \in Orders, NEW k \in 1 .. n[o]
               PROVE  k \in 1 .. m[o]
    OBVIOUS
  <2>1. n[o] \in Int /\ m[o] \in Int /\ n[o] <= m[o]
    OBVIOUS
  <2> QED
    BY <2>1
<1> QED
  BY <1>1, TradesAre

(* There are finitely many trades.                                         *)
LEMMA FinTrades == IsFiniteSet(TradesOf(Vol))
<1>1. PICK n : n = SumFunction(Vol)
  OBVIOUS
<1>2. n \in Nat /\ \A o \in Orders : Vol[o] <= n
  BY <1>1, FinOrders, SumNat
<1>3. PICK T : T = Orders \X (1 .. n)
  OBVIOUS
<1>4. IsFiniteSet(1 .. n)
  BY <1>2, FS_Interval
<1>5. IsFiniteSet(T)
  BY <1>3, <1>4, FinOrders, FS_Product
<1>6. \A o \in Orders : \A k \in 1 .. Vol[o] : k \in 1 .. n
  BY <1>2, FinOrders
<1>7. TradesOf(Vol) \in SUBSET T
  BY <1>3, <1>6, FinOrders, TradesAre
<1> QED
  BY <1>5, <1>7, FS_Subset

(* An order is counted with at most its volume.                            *)
LEMMA CountIs ==
    ASSUME NEW M
    PROVE  /\ Count(M) \in [Orders -> Nat]
           /\ \A o \in Orders : Count(M)[o] <= Vol[o]
<1> SUFFICES ASSUME NEW o \in Orders
             PROVE  LET K == {k \in 1 .. Vol[o] : <<o, k>> \in M}
                    IN  Cardinality(K) \in Nat /\ Cardinality(K) <= Vol[o]
  BY DEF Count
<1>1. PICK v, W : v = Vol[o] /\ W = 1 .. v
  OBVIOUS
<1>2. v \in Nat
  BY <1>1, FinOrders
<1>3. IsFiniteSet(W) /\ Cardinality(W) = v
  BY <1>1, <1>2, FS_Interval
<1>4. {k \in 1 .. Vol[o] : <<o, k>> \in M} \in SUBSET W
  BY <1>1
<1> QED
  BY <1>3, <1>4, <1>1, FS_Subset, FS_CardinalityType

(* An order of which the trades up to d are stored is counted with d.      *)
LEMMA CountUpTo ==
    ASSUME NEW M, NEW o \in Orders, NEW d \in 0 .. Vol[o],
           \A k \in 1 .. Vol[o] : <<o, k>> \in M <=> k <= d
    PROVE  Count(M)[o] = d
<1>1. Vol[o] \in Nat
  BY FinOrders
<1>2. {k \in 1 .. Vol[o] : <<o, k>> \in M} = 1 .. d
  BY <1>1
<1>3. d \in Nat /\ Cardinality(1 .. d) = d
  BY <1>1, FS_Interval
<1> QED
  BY <1>2, <1>3 DEF Count

(* More stored trades count for more.                                      *)
LEMMA CountMore ==
    ASSUME NEW M, NEW N, \A t \in M : t \in N
    PROVE  \A o \in Orders : Count(M)[o] <= Count(N)[o]
<1> SUFFICES ASSUME NEW o \in Orders
             PROVE  Count(M)[o] <= Count(N)[o]
  OBVIOUS
<1>1. PICK K, L : /\ K = {k \in 1 .. Vol[o] : <<o, k>> \in M}
                  /\ L = {k \in 1 .. Vol[o] : <<o, k>> \in N}
  OBVIOUS
<1>2. PICK v, W : v = Vol[o] /\ W = 1 .. v
  OBVIOUS
<1>3. v \in Nat /\ IsFiniteSet(W)
  BY <1>2, FinOrders, FS_Interval
<1>4. K \in SUBSET L /\ L \in SUBSET W
  BY <1>1, <1>2
<1>5. Cardinality(K) <= Cardinality(L)
  BY <1>3, <1>4, FS_Subset
<1> QED
  BY <1>1, <1>5 DEF Count

(* One more trade counts for one.                                          *)
LEMMA CountAdd ==
    ASSUME NEW M, NEW t \in TradesOf(Vol), t \notin M
    PROVE  SumFunction(Count(M \cup {t})) = SumFunction(Count(M)) + 1
<1>1. PICK o \in Orders : \E k \in 1 .. Vol[o] : t = <<o, k>>
  BY FinOrders, TradesAre
<1>2. PICK k \in 1 .. Vol[o] : t = <<o, k>>
  BY <1>1
<1>3. PICK f, g : f = Count(M) /\ g = Count(M \cup {t})
  OBVIOUS
<1>4. f \in [Orders -> Nat] /\ g \in [Orders -> Nat]
  BY <1>3, CountIs
<1>5. \A p \in Orders \ {o} : g[p] = f[p]
  <2> SUFFICES ASSUME NEW p \in Orders \ {o}
               PROVE  {j \in 1 .. Vol[p] : <<p, j>> \in M \cup {t}}
                          = {j \in 1 .. Vol[p] : <<p, j>> \in M}
    BY <1>3 DEF Count
  <2> QED
    BY <1>2
<1>6. g[o] = f[o] + 1
  <2>1. PICK K, L : /\ K = {j \in 1 .. Vol[o] : <<o, j>> \in M}
                    /\ L = {j \in 1 .. Vol[o] : <<o, j>> \in M \cup {t}}
    OBVIOUS
  <2>2. L = K \cup {k} /\ k \notin K
    BY <1>2, <2>1
  <2>3. PICK v, W : v = Vol[o] /\ W = 1 .. v
    OBVIOUS
  <2>4. v \in Nat /\ IsFiniteSet(W) /\ K \in SUBSET W
    BY <2>1, <2>3, FinOrders, FS_Interval
  <2>5. IsFiniteSet(K)
    BY <2>4, FS_Subset
  <2>6. Cardinality(L) = Cardinality(K) + 1
    BY <2>2, <2>5, FS_AddElement
  <2> QED
    BY <1>3, <2>1, <2>6 DEF Count
<1>7. SumFunction(g) = SumFunction(f) + (g[o] - f[o])
  <2>1. f \in [Orders -> Int] /\ g \in [Orders -> Int]
    BY <1>4
  <2> QED
    BY <1>5, <2>1, FinOrders, SumChange
<1>8. SumFunction(f) \in Nat /\ f[o] \in Nat
  BY <1>4, FinOrders, SumNat
<1> QED
  BY <1>3, <1>6, <1>7, <1>8

(* Trades stored count for those among them that are new.                  *)
LEMMA CountMoves ==
    ASSUME NEW M, NEW T, T \subseteq TradesOf(Vol)
    PROVE  /\ SumFunction(Count(M \cup T)) = SumFunction(Count(M)) + Cardinality(T \ M)
           /\ Cardinality(T \ M) \in Nat
<1>1. PICK N : N = T \ M
  OBVIOUS
<1>2. N \in SUBSET TradesOf(Vol) /\ M \cup T = M \cup N
  BY <1>1
<1>3. IsFiniteSet(N)
  BY <1>2, FinTrades, FS_Subset
<1> DEFINE F == {U \in SUBSET N :
                     SumFunction(Count(M \cup U)) = SumFunction(Count(M)) + Cardinality(U)}
<1>4. SumFunction(Count(M)) \in Nat
  BY FinOrders, CountIs, SumNat
<1>5. {} \in F
  <2>1. M \cup {} = M
    OBVIOUS
  <2> QED
    BY <1>4, <2>1, FS_EmptySet
<1>6. \A U \in SUBSET N : \A t \in N \ U : U \in F => U \cup {t} \in F
  <2> SUFFICES ASSUME NEW U \in SUBSET N, NEW t \in N \ U, U \in F
               PROVE  U \cup {t} \in F
    OBVIOUS
  <2>1. SumFunction(Count(M \cup U)) = SumFunction(Count(M)) + Cardinality(U)
    OBVIOUS
  <2>2. t \in TradesOf(Vol) /\ t \notin M \cup U
    BY <1>1, <1>2
  <2>3. SumFunction(Count((M \cup U) \cup {t})) = SumFunction(Count(M \cup U)) + 1
    BY <2>2, CountAdd
  <2>4. (M \cup U) \cup {t} = M \cup (U \cup {t})
    OBVIOUS
  <2>5. IsFiniteSet(U)
    BY <1>3, FS_Subset
  <2>6. Cardinality(U \cup {t}) = Cardinality(U) + 1 /\ Cardinality(U) \in Nat
    BY <2>5, FS_AddElement, FS_CardinalityType
  <2>7. SumFunction(Count(M \cup (U \cup {t}))) = SumFunction(Count(M)) + Cardinality(U \cup {t})
    <3>1. PICK w, x, y, z : /\ w = SumFunction(Count(M \cup U)) /\ x = SumFunction(Count(M))
                             /\ y = Cardinality(U) /\ z = Cardinality(U \cup {t})
      OBVIOUS
    <3>2. w = x + y /\ z = y + 1 /\ x \in Nat /\ y \in Nat
      BY <1>4, <2>1, <2>6, <3>1
    <3>3. SumFunction(Count(M \cup (U \cup {t}))) = w + 1
      BY <2>3, <2>4, <3>1
    <3>4. w + 1 = x + z
      BY ONLY <3>2
    <3> QED
      BY <3>1, <3>3, <3>4
  <2>8. U \cup {t} \in SUBSET N
    OBVIOUS
  <2> QED
    BY <2>7, <2>8
<1>7. N \in F
  <2> HIDE DEF F
  <2> QED
    BY <1>3, <1>5, <1>6, FinSets, Zenon
<1> QED
  BY <1>1, <1>2, <1>3, <1>7, FS_CardinalityType

(* The volumes of the orders that are filled now are what is new.          *)
LEMMA WholeMoves ==
    ASSUME NEW m, NEW new, NEW E \in SUBSET Orders,
           \A o \in E : m[o] # Vol[o] /\ new[o] = Vol[o],
           \A o \in Orders \ E : new[o] = Vol[o] <=> m[o] = Vol[o]
    PROVE  /\ SumFunction(Whole(new)) = SumFunction(Whole(m)) + Volume(E)
           /\ Volume(E) \in Nat
           /\ \A o \in Orders : Whole(m)[o] <= Whole(new)[o]
<1>1. PICK f, g : f = Whole(m) /\ g = Whole(new)
  OBVIOUS
<1>2. PICK h : h = [o \in E |-> Vol[o]]
  OBVIOUS
<1>3. PICK v : v = [o \in Orders |-> IF o \in E THEN Vol[o] ELSE 0]
  OBVIOUS
<1>4. /\ f \in [Orders -> Nat] /\ g \in [Orders -> Nat] /\ v \in [Orders -> Nat] /\ h \in [E -> Nat]
      /\ \A o \in Orders : f[o] = IF m[o] = Vol[o] THEN Vol[o] ELSE 0
      /\ \A o \in Orders : g[o] = IF new[o] = Vol[o] THEN Vol[o] ELSE 0
      /\ \A o \in Orders : v[o] = IF o \in E THEN Vol[o] ELSE 0
      /\ \A o \in E : h[o] = Vol[o]
  BY <1>1, <1>2, <1>3, FinOrders DEF Whole
<1>5. \A o \in Orders : g[o] = f[o] + v[o] /\ f[o] <= g[o]
  <2> SUFFICES ASSUME NEW o \in Orders PROVE g[o] = f[o] + v[o] /\ f[o] <= g[o]
    OBVIOUS
  <2>1. Vol[o] \in Nat
    BY FinOrders
  <2>2. CASE o \in E
    BY <1>4, <2>1, <2>2
  <2>3. CASE o \notin E
    BY <1>4, <2>1, <2>3
  <2> QED
    BY <2>2, <2>3
<1>6. Adds(Orders, f, v, g)
  BY <1>4, <1>5, FinOrders DEF Adds
<1>7. Supports(Orders, E, v, h)
  BY <1>4, FinOrders DEF Supports
<1>8. SumFunction(v) = Volume(E)
  BY <1>2, <1>7, SumSupport DEF Volume
<1>9. SumFunction(v) \in Nat
  BY <1>4, FinOrders, SumNat
<1> QED
  BY <1>1, <1>5, <1>6, <1>8, <1>9, SumPlus

(* An order enters the book of orders with its whole volume or not at all. *)
LEMMA WholeIs ==
    ASSUME NEW m
    PROVE  /\ Whole(m) \in [Orders -> Nat]
           /\ \A o \in Orders : Whole(m)[o] = IF m[o] = Vol[o] THEN Vol[o] ELSE 0
           /\ \A o \in Orders : Whole(m)[o] <= Vol[o]
BY FinOrders DEF Whole

-----------------------------------------------------------------------------
(* Queues as the sets of what is in them.                                  *)
LEMMA RangeAppend ==
    ASSUME NEW S, NEW q \in Seq(S), NEW x \in S
    PROVE  /\ Append(q, x) \in Seq(S)
           /\ \A y : y \in Range(Append(q, x)) <=> y \in Range(q) \/ y = x
<1>1. PICK p : p = Append(q, x)
  OBVIOUS
<1>2. /\ p \in Seq(S) /\ DOMAIN q \subseteq DOMAIN p
      /\ Len(q) + 1 \in DOMAIN p /\ p[Len(q) + 1] = x
      /\ \A i \in DOMAIN q : p[i] = q[i]
      /\ \A i \in DOMAIN p : i \in DOMAIN q \/ i = Len(q) + 1
  BY <1>1, AppendIs
<1>3. \A y : y \in Range(p) <=> y \in Range(q) \/ y = x
  BY <1>2 DEF Range
<1> QED
  BY <1>1, <1>2, <1>3

(* The rest of a queue holds all but its head.                             *)
LEMMA RangeTail ==
    ASSUME NEW S, NEW q \in Seq(S), q # <<>>
    PROVE  /\ Tail(q) \in Seq(S) /\ Head(q) \in S
           /\ \A y : y \in Range(q) <=> y \in Range(Tail(q)) \/ y = Head(q)
<1>1. PICK p : p = Tail(q)
  OBVIOUS
<1>2. /\ p \in Seq(S) /\ 1 \in DOMAIN q /\ Head(q) = q[1]
      /\ \A i \in DOMAIN p : i + 1 \in DOMAIN q /\ p[i] = q[i + 1]
      /\ \A i \in DOMAIN q : i = 1 \/ (i - 1 \in DOMAIN p /\ p[i - 1] = q[i])
  BY <1>1, TailIs
<1>3. \A y : y \in Range(q) <=> y \in Range(p) \/ y = Head(q)
  BY <1>2 DEF Range
<1>4. Head(q) \in S
  BY <1>2
<1> QED
  BY <1>1, <1>2, <1>3, <1>4

(* Two messages are put at the end.                                        *)
LEMMA RangeTwo ==
    ASSUME NEW S, NEW q \in Seq(S), NEW x \in S, NEW z \in S
    PROVE  /\ q \o <<x, z>> \in Seq(S)
           /\ \A y : y \in Range(q \o <<x, z>>) <=> y \in Range(q) \/ y = x \/ y = z
<1>1. PICK p, n : p = q \o <<x, z>> /\ n = Len(q)
  OBVIOUS
<1>2. p \in Seq(S) /\ n \in Nat /\ Len(p) = n + 2
  BY <1>1
<1>3. \A i \in 1 .. n : p[i] = q[i]
  BY <1>1
<1>4. p[n + 1] = x /\ p[n + 2] = z
  BY <1>1
<1>5. DOMAIN p = 1 .. n + 2 /\ DOMAIN q = 1 .. n
  BY <1>1, <1>2
<1>6. \A i \in 1 .. n + 2 : i \in 1 .. n \/ i = n + 1 \/ i = n + 2
  BY <1>2
<1>7. n + 1 \in 1 .. n + 2 /\ n + 2 \in 1 .. n + 2 /\ \A i \in 1 .. n : i \in 1 .. n + 2
  BY <1>2
<1>8. \A y : y \in Range(p) <=> y \in Range(q) \/ y = x \/ y = z
  BY <1>3, <1>4, <1>5, <1>6, <1>7 DEF Range
<1> QED
  BY <1>1, <1>2, <1>8

(* What is in a queue is of the kind that it carries.                      *)
LEMMA RangeIn ==
    ASSUME NEW S, NEW q \in Seq(S)
    PROVE  \A y \in Range(q) : y \in S
<1>1. \A i \in DOMAIN q : q[i] \in S
  OBVIOUS
<1> QED
  BY <1>1 DEF Range

-----------------------------------------------------------------------------
(* The private stream and the events of the connection.                   *)
Kinds == {"up", "down", "beat", "order", "trade"}
Messages == [kind : Kinds, order : Orders, n : Int]

(* The messages that report, ...                                           *)
Reports == {"order", "trade"}

(* ... and what a set of messages tells.                                   *)
Tells(R, kind, o, n) == \E m \in R : m.kind = kind /\ m.order = o /\ m.n = n

(* The answer to the query of the position is in m_eStatus, or Start goes  *)
(* by it: from then on a book is off only by the spoilt orders.            *)
Snapped == eStatus = "onqryposition" \/ start.step = "onqryposition"
Loose == IF Snapped THEN spoilt ELSE Orders

(* Start has the orders of the exchange.                                   *)
Past(e) == e < start.qry \/ (e = start.qry /\ eStatus = "onqryorder" /\ start.pc = "poll")

(* No query is under way once the position is there, and Start ends next;  *)
(* the trades and the position are asked for after the last exchange.      *)
Turn ==
    /\ Snapped => Outstanding \cap Queries = {}
    /\ start.step = "onqryposition" => start.pc \in {"go", "ended"}
    /\ {Ask("trades"), Ask("position")} \cap (Outstanding \cup got) # {} => start.qry = Exchanges

(* What is stored of an order is filled.                                   *)
Filled ==
    /\ mapOrder \in [Orders -> Int] /\ spoilt \subseteq Orders
    /\ \A o \in Orders : done[o] \in 0 .. Vol[o] /\ mapOrder[o] \in -1 .. done[o]
    /\ mapTrade \subseteq TradesOf(done)

(* What is on its way tells of volume that is filled.                      *)
Wires ==
    /\ rtn \in Seq(Messages)
    /\ \A m \in Range(rtn) : m.kind \in Reports => m.n \in 1 .. done[m.order]
    /\ \A a \in Range(answers) : \A o \in Orders : a.done[o] \in 0 .. done[o]

(* Of the orders that are not spoilt an answer tells just what is filled,  *)
(* and that of their exchange finds them filled or not, but not partly.    *)
Answered ==
    \A a \in Range(answers) : a.err = 0 => \A o \in Orders \ spoilt :
        /\ a.req = AskOrders(Exid[o]) => a.done[o] = done[o] /\ ~Partly(o)
        /\ a.req \in {Ask("trades"), Ask("position")} => a.done[o] = done[o]

(* Once spi has the trades, each lot of an order not spoilt is stored, or  *)
(* HTP runs and its trade is on the way.                                   *)
HeardTrades ==
    Ask("trades") \in got => \A o \in Orders \ spoilt : \A k \in 1 .. Vol[o] :
        k <= done[o] => \/ <<o, k>> \in mapTrade
                        \/ start.pc = "ended" /\ Tells(Range(rtn), "trade", o, k)

(* Once Start has the orders of an exchange, those not spoilt are stored   *)
(* as they are, or HTP runs and the report of their end is on the way.     *)
HeardOrders ==
    \A o \in Orders \ spoilt : Past(Exid[o]) =>
        /\ start.pc # "ended" => ~Partly(o) /\ mapOrder[o] = done[o]
        /\ start.pc = "ended" /\ done[o] = Vol[o] =>
               mapOrder[o] = Vol[o] \/ Tells(Range(rtn), "order", o, Vol[o])

(* What each book took of the orders; the snapshot brings it in line.      *)
Books ==
    /\ Booked(posTRD, Count(mapTrade), done, Loose)
    /\ Booked(posORD, Whole(mapOrder), done, Loose)

Heard == Filled /\ Wires /\ Answered /\ HeardTrades /\ HeardOrders /\ Books

(* An order of which all trades are stored is counted with its volume.     *)
LEMMA CountDone ==
    ASSUME Shape, Filled, NEW o \in Orders,
           \A k \in 1 .. Vol[o] : k <= done[o] => <<o, k>> \in mapTrade
    PROVE  Count(mapTrade)[o] = done[o]
<1>1. done[o] \in 0 .. Vol[o] /\ mapTrade \subseteq TradesOf(done) /\ done \in [Orders -> Int]
  BY DEF Filled, Shape
<1>2. \A k \in 1 .. Vol[o] : <<o, k>> \in mapTrade => k <= done[o]
  <2> SUFFICES ASSUME NEW k \in 1 .. Vol[o], <<o, k>> \in mapTrade
               PROVE  k <= done[o]
    OBVIOUS
  <2>1. <<o, k>> \in TradesOf(done)
    BY <1>1
  <2>2. PICK p \in Orders : \E j \in 1 .. done[p] : <<o, k>> = <<p, j>>
    BY <1>1, <2>1, TradesAre
  <2>3. PICK j \in 1 .. done[p] : <<o, k>> = <<p, j>>
    BY <2>2
  <2>4. o = p /\ k = j /\ done[o] \in Int
    BY <1>1, <2>3
  <2> QED
    BY <2>3, <2>4
<1> QED
  BY <1>1, <1>2, CountUpTo

(* The parts of a message.                                                 *)
LEMMA MessageIs == \A m \in Messages : m.kind \in Kinds /\ m.order \in Orders /\ m.n \in Int
BY DEF Messages

(* A step that reports nothing, and forgets no report.                     *)
Quiet ==
    /\ UNCHANGED <<mapOrder, mapTrade, posORD, posTRD, done, spoilt>>
    /\ \A a \in Range(answers') : a \in Range(answers)
    /\ rtn' \in Seq(Messages)
    /\ \A m : m.kind \in Reports => (m \in Range(rtn') <=> m \in Range(rtn))
    /\ \A e \in 0 .. Exchanges - 1 : Past(e)' => Past(e)
    /\ Snapped' => Snapped
    /\ Ask("trades") \in got' => Ask("trades") \in got
    /\ start.pc = "ended" => start'.pc = "ended"

(* Such a step keeps what has been heard.                                  *)
LEMMA QuietKeeps ==
    ASSUME Heard, Quiet, Shape
    PROVE  Heard'
<1>1. UNCHANGED <<mapOrder, mapTrade, posORD, posTRD, done, spoilt>>
  BY DEF Quiet
<1>2. Filled'
  BY <1>1 DEF Heard, Filled
<1>3. \A m \in Range(rtn) : m.kind \in Reports => m.n \in 1 .. done[m.order]
  BY DEF Heard, Wires
<1>4. Wires'
  <2>1. \A m \in Range(rtn') : m.kind \in Reports => m.n \in 1 .. done'[m.order]
    BY <1>1, <1>3 DEF Quiet
  <2>2. \A a \in Range(answers') : \A o \in Orders : a.done[o] \in 0 .. done'[o]
    BY <1>1 DEF Quiet, Heard, Wires
  <2> QED
    BY <2>1, <2>2 DEF Quiet, Wires
<1>5. Answered'
  <2>1. \A o : Partly(o)' <=> Partly(o)
    BY <1>1 DEF Partly
  <2> QED
    BY <1>1, <2>1 DEF Quiet, Heard, Answered
<1>6. \A o, k : /\ Tells(Range(rtn), "trade", o, k) <=> Tells(Range(rtn'), "trade", o, k)
                /\ Tells(Range(rtn), "order", o, k) <=> Tells(Range(rtn'), "order", o, k)
  BY DEF Quiet, Tells, Reports
<1>7. HeardTrades'
  BY <1>1, <1>6 DEF Quiet, Heard, HeardTrades
<1>8. HeardOrders'
  <2> SUFFICES ASSUME NEW o \in Orders \ spoilt, Past(Exid[o])'
               PROVE  /\ start'.pc # "ended" => ~Partly(o)' /\ mapOrder'[o] = done'[o]
                      /\ start'.pc = "ended" /\ done'[o] = Vol[o] =>
                             mapOrder'[o] = Vol[o] \/ Tells(Range(rtn'), "order", o, Vol[o])
    BY <1>1 DEF HeardOrders
  <2>1. Past(Exid[o])
    BY SessionAssumption DEF Quiet
  <2>2. /\ start.pc # "ended" => ~Partly(o) /\ mapOrder[o] = done[o]
        /\ start.pc = "ended" /\ done[o] = Vol[o] =>
               mapOrder[o] = Vol[o] \/ Tells(Range(rtn), "order", o, Vol[o])
    BY <2>1 DEF Heard, HeardOrders
  <2>3. ~Partly(o)' <=> ~Partly(o)
    BY <1>1 DEF Partly
  <2>4. start.pc = "ended" => start'.pc = "ended"
    BY DEF Quiet
  <2> QED
    BY <1>1, <1>6, <2>2, <2>3, <2>4
<1>9. Books'
  <2>1. Booked(posTRD, Count(mapTrade), done, Loose) /\ Booked(posORD, Whole(mapOrder), done, Loose)
    BY DEF Heard, Books
  <2>2. \A o \in Orders : o \in Loose => o \in Loose'
    BY <1>1 DEF Quiet, Loose
  <2>3. done \in [Orders -> Int] /\ \A o \in Orders : done[o] <= done[o]
    BY DEF Shape
  <2>4. /\ Booked(posTRD, Count(mapTrade), done, Loose')
        /\ Booked(posORD, Whole(mapOrder), done, Loose')
    BY <2>1, <2>2, <2>3, CountIs, WholeIs, BookedKept
  <2> QED
    BY <1>1, <2>4 DEF Books
<1> QED
  BY <1>2, <1>4, <1>5, <1>7, <1>8, <1>9 DEF Heard

-----------------------------------------------------------------------------
(* The requests differ by their names.                                     *)
LEMMA AsksDiffer ==
    /\ \A n, m : Ask(n) = Ask(m) => n = m
    /\ \A e : \A n \in Names : AskOrders(e) # Ask(n)
    /\ Ask("trades") \in Queries /\ Ask("position") \in Queries
    /\ "trades" \in Names /\ "position" \in Names /\ "none" \in Names
<1>1. "orders" \notin Names
  BY DEF Names
<1> QED
  BY <1>1 DEF Ask, AskOrders, Queries, Names

(* The trades are asked for after the orders, the position after the       *)
(* trades.                                                                 *)
LEMMA RequestTurn ==
    ASSUME NEW step, NEW qry \in Nat
    PROVE  /\ RequestOf(step, qry) = Ask("trades") => ~(qry < Exchanges)
           /\ RequestOf(step, qry) = Ask("position") => step = "onqrytrade"
<1>1. \A n, m : Ask(n) = Ask(m) => n = m
  BY AsksDiffer
<1>2. AskOrders(qry) # Ask("trades") /\ AskOrders(qry) # Ask("position")
  BY AsksDiffer
<1>3. CASE step \in {"onaccount", "onqryorder"}
  BY <1>1, <1>2, <1>3 DEF RequestOf
<1>4. CASE step = "onqrytrade"
  BY <1>1, <1>4 DEF RequestOf
<1>5. CASE step \notin {"onaccount", "onqryorder", "onqrytrade"}
  BY <1>1, <1>5 DEF RequestOf
<1> QED
  BY <1>3, <1>4, <1>5

(* A step that makes no query, and moves Start on by none, keeps Turn.     *)
LEMMA TurnKept ==
    ASSUME Turn, \A req \in Outstanding' : req \in Outstanding \/ req \notin Queries,
           \A req \in got' : req \in got \/ req \in Outstanding,
           start'.qry = start.qry, start'.step = start.step,
           start.pc \in {"go", "ended"} =>
               start'.pc \in {"go", "ended"} \/ start.step # "onqryposition",
           Snapped' => Snapped
    PROVE  Turn'
<1>1. Snapped' => Outstanding' \cap Queries = {}
  BY DEF Turn
<1>2. start'.step = "onqryposition" => start'.pc \in {"go", "ended"}
  BY DEF Turn
<1>3. {Ask("trades"), Ask("position")} \cap (Outstanding' \cup got') # {} => start'.qry = Exchanges
  BY AsksDiffer DEF Turn
<1> QED
  BY <1>1, <1>2, <1>3 DEF Turn

(* Once the trades or the position are asked for, Start has the orders of  *)
(* all exchanges; with the position it has the trades, too.                *)
LEMMA Turned ==
    ASSUME InitInv, Turn,
           \/ Ask("trades") \in Outstanding \cup got
           \/ Ask("position") \in Outstanding \cup got
           \/ Snapped
    PROVE  /\ start.qry = Exchanges /\ \A o \in Orders : Past(Exid[o]) /\ AskOrders(Exid[o]) \in got
           /\ Ask("position") \in Outstanding \/ Snapped => Ask("trades") \in got
<1>1. Snapped => Ask("trades") \in got /\ Ask("position") \in got
  <2>1. Received("onqryposition") = Queries \cup {Ask("confirm")}
    BY DEF Received
  <2> QED
    BY <2>1, AsksDiffer DEF Snapped, InitInv, InOrder
<1>2. start.qry = Exchanges
  BY <1>1 DEF Turn
<1>3. \A o \in Orders : Exid[o] \in 0 .. Exchanges - 1 /\ Exid[o] < Exchanges
  BY SessionAssumption
<1>4. \A o \in Orders : Past(Exid[o]) /\ AskOrders(Exid[o]) \in got
  BY <1>2, <1>3 DEF Past, InitInv, OrdersInTurn
<1>5. Ask("position") \in Outstanding => Ask("trades") \in got
  <2>1. Before("position") = UpToAccount \cup OrderQueries \cup {Ask("trades")}
    BY DEF Before, Received
  <2>2. Ask("position")[1] = "position"
    BY DEF Ask
  <2> QED
    BY <2>1, <2>2 DEF InitInv, InOrder
<1> QED
  BY <1>1, <1>2, <1>4, <1>5

(* What Start and ThreadTime do reports nothing.                           *)
LEMMA StartQuiet ==
    ASSUME InitInv, Turn, Heard, Start \/ ThreadTime \/ Stop \/ UNCHANGED vars
    PROVE  Turn' /\ Quiet
<1> USE DEF InitInv
<1>0. /\ start \in [pc : Pcs, step : Status, qry : Nat, tries : Nat]
      /\ rtn \in Seq(Messages) /\ Exchanges \in Nat
      /\ start.qry \in Nat
  BY SessionAssumption DEF Shape, Heard, Wires
<1>1. ASSUME UNCHANGED <<mapOrder, mapTrade, posORD, posTRD, done, spoilt, answers, rtn, got>>,
             start'.qry = start.qry, start'.step = start.step,
             eStatus' # "onqryorder" \/ start'.pc # "poll"
                 \/ (eStatus = "onqryorder" /\ start.pc = "poll"),
             eStatus' = "onqryposition" => eStatus = "onqryposition",
             start.pc = "ended" => start'.pc = "ended"
      PROVE  Quiet
  <2>1. \A e \in 0 .. Exchanges - 1 : Past(e)' => Past(e)
    BY <1>1 DEF Past
  <2>2. Snapped' => Snapped
    BY <1>1 DEF Snapped
  <2> QED
    BY <1>0, <1>1, <2>1, <2>2 DEF Quiet
<1>2. CASE Expire
  <2>1. /\ start' = [start EXCEPT !.pc = "expired"] /\ start.pc = "poll"
        /\ UNCHANGED <<eStatus, mapOrder, mapTrade, posORD, posTRD, done, spoilt, reqs, answers,
                       rtn, got>>
    BY <1>2 DEF Expire, ext, wires, books
  <2>2. start'.qry = start.qry /\ start'.step = start.step /\ start'.pc = "expired"
    BY <1>0, <2>1
  <2>3. Quiet
    BY <1>1, <2>1, <2>2
  <2>4. Outstanding' = Outstanding /\ (Snapped' => Snapped)
    BY <2>1, <2>2 DEF Outstanding, Snapped
  <2> QED
    BY <2>1, <2>2, <2>3, <2>4, TurnKept
<1>3. CASE MarkFailed
  <2>1. /\ start' = [start EXCEPT !.pc = "poll"] /\ start.pc = "expired" /\ eStatus' = "failed"
        /\ UNCHANGED <<mapOrder, mapTrade, posORD, posTRD, done, spoilt, reqs, answers, rtn, got>>
    BY <1>3 DEF MarkFailed, ext, wires, books, hist
  <2>2. start'.qry = start.qry /\ start'.step = start.step /\ start'.pc = "poll"
    BY <1>0, <2>1
  <2>3. Quiet
    BY <1>1, <2>1, <2>2
  <2>4. Outstanding' = Outstanding /\ (Snapped' => Snapped)
    BY <2>1, <2>2 DEF Outstanding, Snapped
  <2> QED
    BY <2>1, <2>2, <2>3, <2>4, TurnKept
<1>4. CASE Again
  <2>1. /\ start' = [start EXCEPT !.tries = @ + 1,
                              !.pc = IF start.tries + 1 > MaxTry THEN "gaveup" ELSE "go"]
        /\ start.pc = "poll" /\ eStatus' = "failed" /\ eStatus = "failed"
        /\ UNCHANGED <<mapOrder, mapTrade, posORD, posTRD, done, spoilt, reqs, answers, rtn, got>>
    BY <1>4 DEF Again, ext, wires, books, hist
  <2>2. start'.qry = start.qry /\ start'.step = start.step
    <3>1. PICK t : t = start.tries + 1
      OBVIOUS
    <3>2. PICK p : start' = [start EXCEPT !.tries = t, !.pc = p]
      BY <2>1, <3>1
    <3> QED
      BY <1>0, <3>2
  <2>3. Quiet
    BY <1>1, <2>1, <2>2
  <2>4. Outstanding' = Outstanding /\ (Snapped' => Snapped)
    BY <2>1, <2>2 DEF Outstanding, Snapped
  <2> QED
    BY <2>1, <2>2, <2>3, <2>4, TurnKept
<1>5. CASE Backup
  <2>1. /\ start' = [pc |-> "go", step |-> eStatus, tries |-> 0,
                     qry |-> QryAfter(eStatus, start.qry)]
        /\ start.pc = "poll"
        /\ UNCHANGED <<eStatus, mapOrder, mapTrade, posORD, posTRD, done, spoilt, reqs, answers,
                       rtn, got>>
    BY <1>5 DEF Backup, ext, wires, books, hist
  <2>2. /\ start'.pc = "go" /\ start'.step = eStatus
        /\ start'.qry = IF eStatus = "onqryorder" THEN start.qry + 1 ELSE start.qry
    BY <2>1 DEF QryAfter
  <2>3. Outstanding' = Outstanding /\ (Snapped' => Snapped)
    BY <2>1, <2>2 DEF Outstanding, Snapped
  <2>4. \A e \in 0 .. Exchanges - 1 : Past(e)' => Past(e)
    BY <1>0, <2>1, <2>2 DEF Past
  <2>5. Quiet
    BY <1>0, <2>1, <2>3, <2>4 DEF Quiet
  <2>6. eStatus = "onqryorder" => start.qry # Exchanges
    BY <1>0, <2>1 DEF OrdersInTurn
  <2>7. Turn'
    BY <2>1, <2>2, <2>3, <2>6 DEF Turn
  <2> QED
    BY <2>5, <2>7
<1>6. CASE Request
  <2> DEFINE req == RequestOf(start.step, start.qry)
  <2>1. /\ start' = [start EXCEPT !.pc = "poll"] /\ start.pc = "go" /\ eStatus' = "busy"
        /\ start.step # "onqryposition"
        /\ UNCHANGED <<mapOrder, mapTrade, posORD, posTRD, done, spoilt, answers, rtn, got>>
        /\ reqs' = reqs \/ (req # Ask("none") /\ Accepts(req) /\ reqs' = Append(reqs, req))
    BY <1>6 DEF Request, Send, books
  <2>2. start'.qry = start.qry /\ start'.step = start.step /\ start'.pc = "poll"
    BY <1>0, <2>1
  <2>3. Quiet
    BY <1>1, <2>1, <2>2
  <2>4. ~Snapped'
    BY <2>1, <2>2 DEF Snapped
  <2>5. CASE reqs' = reqs
    <3>1. Outstanding' = Outstanding
      BY <2>1, <2>5 DEF Outstanding
    <3> QED
      BY <2>1, <2>2, <2>3, <2>4, <3>1, TurnKept
  <2>6. CASE req # Ask("none") /\ Accepts(req) /\ reqs' = Append(reqs, req)
    <3>1. start.step \in Status /\ start.qry \in Nat /\ start.qry <= Exchanges
      BY <1>0 DEF OrdersInTurn
    <3>2. req \in Sent
      BY <2>6, <3>1, RequestOfIs
    <3>3. /\ req = Ask("trades") => start.qry = Exchanges
          /\ req = Ask("position") => Ask("trades") \in got
      <4>1. Received("onqrytrade") = UpToAccount \cup OrderQueries \cup {Ask("trades")}
        BY DEF Received
      <4>2. start.step = "onqrytrade" => Ask("trades") \in got
        BY <4>1 DEF InOrder
      <4> QED
        BY <1>0, <3>1, <4>2, RequestTurn
    <3> HIDE DEF req
    <3>4. Outstanding' = Outstanding \cup {req}
      BY <2>1, <2>6, <3>2, SendIs
    <3>5. {Ask("trades"), Ask("position")} \cap (Outstanding' \cup got') # {} =>
              start'.qry = Exchanges
      BY <2>1, <2>2, <3>3, <3>4 DEF Turn
    <3>6. Turn'
      BY <2>1, <2>2, <2>4, <3>5 DEF Turn
    <3> QED
      BY <2>3, <3>6
  <2> QED
    BY <2>1, <2>5, <2>6
<1>7. CASE Finish
  <2>1. /\ start' = [start EXCEPT !.pc = "ended"] /\ start.pc = "go" /\ eStatus' = "runing"
        /\ UNCHANGED <<mapOrder, mapTrade, posORD, posTRD, done, spoilt, reqs, answers, rtn, got>>
    BY <1>7 DEF Finish, ext, wires, books, hist
  <2>2. start'.qry = start.qry /\ start'.step = start.step /\ start'.pc = "ended"
    BY <1>0, <2>1
  <2>3. Quiet
    BY <1>1, <2>1, <2>2
  <2>4. Outstanding' = Outstanding /\ (Snapped' => Snapped)
    BY <2>1, <2>2 DEF Outstanding, Snapped
  <2> QED
    BY <2>1, <2>2, <2>3, <2>4, TurnKept
<1>8. CASE ThreadTime \/ Stop
  <2>1. /\ UNCHANGED <<eStatus, start, mapOrder, mapTrade, posORD, posTRD, done, spoilt, answers,
                       rtn, got>>
        /\ \/ reqs' = reqs
           \/ \E n \in {"auth", "login", "logout"} :
                  Accepts(Ask(n)) /\ reqs' = Append(reqs, Ask(n))
    BY <1>8 DEF ThreadTime, Stop, Send, books
  <2>2. Quiet
    BY <1>1, <2>1
  <2>3. Snapped' => Snapped
    BY <2>1 DEF Snapped
  <2>4. \A req \in Outstanding' : req \in Outstanding \/ req \notin Queries
    <3>1. CASE reqs' = reqs
      BY <2>1, <3>1 DEF Outstanding
    <3>2. ASSUME NEW n \in {"auth", "login", "logout"}, Accepts(Ask(n)),
                 reqs' = Append(reqs, Ask(n))
          PROVE  \A req \in Outstanding' : req \in Outstanding \/ req \notin Queries
      <4>1. PICK r : r = Ask(n)
        OBVIOUS
      <4>2. r \in Sent /\ r \notin Queries
        BY <3>2, <4>1, RequestsAre
      <4>3. Outstanding' = Outstanding \cup {r}
        BY <2>1, <3>2, <4>1, <4>2, SendIs
      <4> QED
        BY <4>2, <4>3
    <3> QED
      BY <2>1, <3>1, <3>2
  <2> QED
    BY <2>1, <2>2, <2>3, <2>4, TurnKept
<1>9. CASE UNCHANGED vars
  <2>1. UNCHANGED <<eStatus, start, mapOrder, mapTrade, posORD, posTRD, done, spoilt, reqs,
                    answers, rtn, got>>
    BY <1>9 DEF vars, ext, wires, hist, books
  <2>2. Quiet
    BY <1>1, <2>1
  <2>3. Outstanding' = Outstanding /\ (Snapped' => Snapped)
    BY <2>1 DEF Outstanding, Snapped
  <2> QED
    BY <2>1, <2>2, <2>3, TurnKept
<1> QED
  BY <1>2, <1>3, <1>4, <1>5, <1>6, <1>7, <1>8, <1>9 DEF Start

-----------------------------------------------------------------------------
(* What comes and goes with the connection are no reports.                 *)
LEMMA LinkQuiet ==
    ASSUME InitInv, Turn, Heard, Connect \/ Disconnect \/ HeartBeat
    PROVE  Turn' /\ Quiet
<1>1. rtn \in Seq(Messages)
  BY DEF Heard, Wires
<1>2. ASSUME NEW kind \in {"up", "down", "beat"}
      PROVE  Event(kind) \in Messages /\ Event(kind).kind \notin Reports
  <2>1. (CHOOSE o \in Orders : TRUE) \in Orders
    BY SessionAssumption
  <2> QED
    BY <2>1 DEF Event, Messages, Kinds, Reports
<1>3. PICK kind \in {"up", "down", "beat"} :
          /\ UNCHANGED <<eStatus, start, mapOrder, mapTrade, posORD, posTRD, done, spoilt, got>>
          /\ rtn' = Append(rtn, Event(kind))
          /\ UNCHANGED <<reqs, answers>> \/ (reqs' = <<>> /\ answers' = <<>>)
  BY DEF Connect, Disconnect, HeartBeat, books, hist
<1>4. PICK x : x = Event(kind)
  OBVIOUS
<1>5. x \in Messages /\ x.kind \notin Reports /\ rtn' = Append(rtn, x)
  BY <1>2, <1>3, <1>4
<1>6. /\ rtn' \in Seq(Messages)
      /\ \A m : m.kind \in Reports => (m \in Range(rtn') <=> m \in Range(rtn))
  BY <1>1, <1>5, RangeAppend
<1>7. \A a \in Range(answers') : a \in Range(answers)
  BY <1>3 DEF Range
<1>8. /\ \A req \in Outstanding' : req \in Outstanding
      /\ Snapped' => Snapped
      /\ \A e \in 0 .. Exchanges - 1 : Past(e)' => Past(e)
  BY <1>3 DEF Outstanding, Snapped, Past
<1>9. Quiet
  BY <1>3, <1>6, <1>7, <1>8 DEF Quiet
<1>10. Turn'
  BY <1>3, <1>8, TurnKept
<1> QED
  BY <1>9, <1>10

(* What an answer carries.                                                 *)
LEMMA AnswerIs ==
    ASSUME NEW req, NEW err
    PROVE  /\ Answer(req, err).req = req /\ Answer(req, err).err = err
           /\ req \in OrderQueries \cup {Ask("trades"), Ask("position")} =>
                  Answer(req, err).done = done
           /\ req \notin OrderQueries \cup {Ask("trades"), Ask("position")} =>
                  \A o \in Orders : Answer(req, err).done[o] = 0
BY DEF Answer

(* The answer to the query of orders settles which orders of the exchange  *)
(* are spoilt; nothing is said of them before spi has it.                  *)
LEMMA BrokerKeeps ==
    ASSUME InitInv, Turn, Heard, BrokerAnswers
    PROVE  Turn' /\ Heard'
<1> USE DEF InitInv
<1>1. /\ UNCHANGED <<eStatus, start, mapOrder, mapTrade, posORD, posTRD, done, rtn, got>>
      /\ reqs # <<>> /\ reqs' = Tail(reqs)
      /\ \E err \in {0, 1, 60} : /\ answers' = Append(answers, Answer(Head(reqs), err))
                                 /\ spoilt' = IF err = 0 THEN SpoiltBy(Head(reqs)) ELSE spoilt
  BY DEF BrokerAnswers, books
<1>2. PICK err \in {0, 1, 60} : /\ answers' = Append(answers, Answer(Head(reqs), err))
                                /\ spoilt' = IF err = 0 THEN SpoiltBy(Head(reqs)) ELSE spoilt
  BY <1>1
<1>3. PICK req, new : req = Head(reqs) /\ new = Answer(req, err)
  OBVIOUS
<1>4. reqs \in Seq(Sent) /\ answers \in Seq(Answers) /\ done \in [Orders -> Int]
  BY DEF Shape
<1>5. req \in Sent /\ req \in Outstanding
  <2>1. req \in Sent /\ 1 \in DOMAIN reqs /\ req = reqs[1]
    BY <1>1, <1>3, <1>4, TailIs
  <2> QED
    BY <2>1 DEF Outstanding
<1>6. new \in Answers
  BY <1>3, <1>4, <1>5 DEF Answer, Answers
<1>7. /\ new.req = req /\ new.err = err
      /\ req \in OrderQueries \cup {Ask("trades"), Ask("position")} => new.done = done
      /\ req \notin OrderQueries \cup {Ask("trades"), Ask("position")} =>
             \A o \in Orders : new.done[o] = 0
  BY <1>3, AnswerIs
<1>8. \A a : a \in Range(answers') <=> a \in Range(answers) \/ a = new
  BY <1>2, <1>3, <1>4, <1>6, RangeAppend
<1>9. Outstanding' \subseteq Outstanding
  BY <1>1, <1>2, MovedIs
<1>10. Turn'
  <2>1. Snapped' => Snapped
    BY <1>1 DEF Snapped
  <2> QED
    BY <1>1, <1>9, <2>1, TurnKept
<1>11. /\ mapOrder \in [Orders -> Int] /\ spoilt \subseteq Orders
       /\ \A o \in Orders : done[o] \in 0 .. Vol[o] /\ mapOrder[o] \in -1 .. done[o]
       /\ mapTrade \subseteq TradesOf(done)
  BY DEF Heard, Filled
<1>12. Wires'
  <2>1. \A o \in Orders : done[o] \in 0 .. done[o] /\ 0 \in 0 .. done[o]
    BY <1>11, FinOrders
  <2>2. \A o \in Orders : new.done[o] \in 0 .. done[o]
    BY <1>7, <2>1
  <2> QED
    BY <1>1, <1>8, <2>2 DEF Heard, Wires
<1>13. /\ \A o : Partly(o)' <=> Partly(o)
       /\ \A e : Past(e)' <=> Past(e)
       /\ Snapped' <=> Snapped
  BY <1>1 DEF Partly, Past, Snapped
<1>14. CASE err # 0 \/ req \notin OrderQueries
  <2>1. spoilt' = spoilt
    BY <1>2, <1>3, <1>14 DEF SpoiltBy
  <2>2. Filled' /\ HeardTrades' /\ HeardOrders'
    BY <1>1, <1>13, <2>1 DEF Heard, Filled, HeardTrades, HeardOrders
  <2>3. Books'
    BY <1>1, <1>13, <2>1 DEF Heard, Books, Loose
  <2>4. \A o \in Orders : new.err = 0 => new.req # AskOrders(Exid[o])
    BY <1>7, <1>14, SessionAssumption, RequestsAre
  <2>5. Answered'
    BY <1>1, <1>7, <1>8, <1>13, <2>1, <2>4 DEF Heard, Answered
  <2> QED
    BY <1>10, <1>12, <2>2, <2>3, <2>5 DEF Heard
<1>15. CASE err = 0 /\ req \in OrderQueries
  <2>1. PICK e \in 0 .. Exchanges - 1 : req = AskOrders(e)
    BY <1>15 DEF OrderQueries
  <2>2. spoilt' = (spoilt \ On(e)) \cup {o \in On(e) : Partly(o)}
    BY <1>2, <1>3, <1>15, <2>1 DEF SpoiltBy, AskOrders
  <2>3. \A o \in Orders : o \in On(e) <=> Exid[o] = e
    BY DEF On
  <2>4. spoilt' \subseteq Orders /\ (\A o \in Orders \ spoilt' : Exid[o] = e => ~Partly(o))
        /\ (\A o \in Orders \ spoilt' : Exid[o] # e => o \notin spoilt)
    <3>1. On(e) \subseteq Orders
      BY DEF On
    <3> QED
      BY <1>11, <2>2, <2>3, <3>1
  <2>5. ~Snapped
    BY <1>5, <1>15, RequestsAre DEF Turn
  <2>6. e = start.qry /\ Exchanges \in Nat /\ start.qry # Exchanges
    <3>1. e = start.qry
      BY <1>5, <2>1 DEF OrdersInTurn
    <3> QED
      BY <3>1, SessionAssumption
  <2>7. ~Past(e)
    BY <1>5, <1>15, <2>6 DEF Past, OrdersInTurn
  <2>8. Ask("trades") \notin got
    BY <2>6 DEF Turn
  <2>9. Filled' /\ HeardTrades'
    BY <1>1, <1>11, <2>4, <2>8 DEF Filled, HeardTrades
  <2>10. HeardOrders'
    BY <1>1, <1>13, <2>4, <2>7 DEF Heard, HeardOrders
  <2>11. Books'
    BY <1>1, <1>13, <2>5 DEF Heard, Books, Loose
  <2>12. Answered'
    <3>1. \A a \in Range(answers) : a.req \notin Queries
      <4> SUFFICES ASSUME NEW i \in DOMAIN answers
                   PROVE  answers[i].req \notin Queries
        BY DEF Range
      <4>1. 1 \in DOMAIN reqs /\ req = reqs[1] /\ req \in Queries
        BY <1>1, <1>3, <1>4, <1>15, TailIs, RequestsAre
      <4> QED
        BY <4>1 DEF OneQuery
    <3>2. \A o \in Orders : AskOrders(Exid[o]) \in Queries
      BY SessionAssumption, RequestsAre
    <3>3. req # Ask("trades") /\ req # Ask("position")
      BY <2>1, AsksDiffer
    <3>4. \A o \in Orders : new.req = AskOrders(Exid[o]) => Exid[o] = e
      BY <1>7, <2>1, RequestsAre
    <3>5. new.done = done
      BY <1>7, <1>15
    <3>6. \A o \in Orders \ spoilt' :
              /\ new.req = AskOrders(Exid[o]) => new.done[o] = done[o] /\ ~Partly(o)
              /\ new.req \notin {Ask("trades"), Ask("position")}
      BY <1>7, <2>4, <3>3, <3>4, <3>5
    <3>7. \A a \in Range(answers) : a.req \notin {Ask("trades"), Ask("position")}
                                    /\ \A o \in Orders : a.req # AskOrders(Exid[o])
      BY <3>1, <3>2, AsksDiffer
    <3> QED
      BY <1>1, <1>8, <1>13, <3>6, <3>7 DEF Answered
  <2> QED
    BY <1>10, <1>12, <2>9, <2>10, <2>11, <2>12 DEF Heard
<1> QED
  BY <1>2, <1>14, <1>15

(* A filled lot is told on the private stream, or its order is spoilt, if  *)
(* the answer to the query of its exchange is on its way or handled.       *)
LEMMA FillKeeps ==
    ASSUME InitInv, Turn, Heard, NEW o \in Orders, Fill(o)
    PROVE  Turn' /\ Heard'
<1> USE DEF InitInv
<1>1. /\ UNCHANGED <<eStatus, start, mapOrder, mapTrade, posORD, posTRD, reqs, answers, got>>
      /\ done[o] < Vol[o] /\ done' = [done EXCEPT ![o] = @ + 1]
      /\ rtn' = IF Stream THEN rtn \o <<Message("order", o)', Message("trade", o)'>> ELSE rtn
      /\ spoilt' = IF Known(Exid[o]) /\ (start.pc # "ended" \/ ~Stream)
                   THEN spoilt \cup {o} ELSE spoilt
  BY DEF Fill, books
<1>2. done \in [Orders -> Int] /\ rtn \in Seq(Messages)
  BY DEF Shape, Heard, Wires
<1>3. /\ done' \in [Orders -> Int] /\ done'[o] = done[o] + 1
      /\ \A p \in Orders \ {o} : done'[p] = done[p]
  BY <1>1, <1>2
<1>4. /\ mapOrder \in [Orders -> Int] /\ spoilt \subseteq Orders
      /\ \A p \in Orders : done[p] \in 0 .. Vol[p] /\ mapOrder[p] \in -1 .. done[p]
      /\ mapTrade \subseteq TradesOf(done)
  BY DEF Heard, Filled
<1>5. \A p \in Orders : /\ done'[p] \in 0 .. Vol[p] /\ done[p] <= done'[p]
                        /\ Vol[p] \in Nat /\ done[p] \in Nat
  <2> SUFFICES ASSUME NEW p \in Orders
               PROVE  /\ done'[p] \in 0 .. Vol[p] /\ done[p] <= done'[p]
                      /\ Vol[p] \in Nat /\ done[p] \in Nat
    OBVIOUS
  <2>1. done[p] \in 0 .. Vol[p] /\ Vol[p] \in Nat
    BY <1>4, FinOrders
  <2> QED
    BY <1>1, <1>3, <2>1
<1>6. spoilt' \subseteq Orders /\ spoilt \subseteq spoilt'
  BY <1>1, <1>4
<1>7. Filled'
  <2>1. mapTrade \subseteq TradesOf(done')
    <3>1. \A t \in TradesOf(done) : t \in TradesOf(done')
      BY <1>2, <1>3, <1>5, TradesMore
    <3> QED
      BY <1>4, <3>1
  <2>2. \A p \in Orders : mapOrder[p] \in -1 .. done'[p]
    BY <1>3, <1>4, <1>5
  <2> QED
    BY <1>1, <1>4, <1>5, <1>6, <2>1, <2>2 DEF Filled
<1>8. PICK m, t : /\ m = [kind |-> "order", order |-> o, n |-> done[o] + 1]
                  /\ t = [kind |-> "trade", order |-> o, n |-> done[o] + 1]
  OBVIOUS
<1>9. m = Message("order", o)' /\ t = Message("trade", o)'
  BY <1>3, <1>8 DEF Message
<1>10. /\ m \in Messages /\ m.kind = "order" /\ m.order = o /\ m.n = done'[o]
       /\ t \in Messages /\ t.kind = "trade" /\ t.order = o /\ t.n = done'[o]
  <2>1. done[o] + 1 \in Int
    BY <1>2
  <2> QED
    BY <1>3, <1>8, <2>1 DEF Messages, Kinds
<1>11. /\ rtn' \in Seq(Messages)
       /\ \A x : x \in Range(rtn') <=> x \in Range(rtn) \/ (Stream /\ (x = m \/ x = t))
  <2>1. CASE Stream
    <3>1. rtn' = rtn \o <<m, t>>
      BY <1>1, <1>9, <2>1
    <3> QED
      BY <1>2, <1>10, <2>1, <3>1, RangeTwo
  <2>2. CASE ~Stream
    BY <1>1, <1>2, <2>2
  <2> QED
    BY <2>1, <2>2
<1>12. Wires'
  <2>1. \A p \in Orders : \A k \in 1 .. done[p] : k \in 1 .. done'[p]
    BY <1>3, <1>5
  <2>2. \A p \in Orders : \A k \in 0 .. done[p] : k \in 0 .. done'[p]
    BY <1>3, <1>5
  <2>3. done'[o] \in 1 .. done'[o]
    BY <1>3, <1>5
  <2>4. \A x \in Range(rtn) : x.order \in Orders
    BY <1>2, RangeIn, MessageIs
  <2>5. \A x \in Range(rtn') : x.kind \in Reports => x.n \in 1 .. done'[x.order]
    BY <1>10, <1>11, <2>1, <2>3, <2>4 DEF Heard, Wires
  <2>6. \A a \in Range(answers') : \A p \in Orders : a.done[p] \in 0 .. done'[p]
    BY <1>1, <2>2 DEF Heard, Wires
  <2> QED
    BY <1>11, <2>5, <2>6 DEF Wires
<1>13. /\ \A e : Past(e)' <=> Past(e)
       /\ Snapped' <=> Snapped
       /\ \A p \in Orders \ {o} : Partly(p)' <=> Partly(p)
       /\ Outstanding' = Outstanding
  BY <1>1, <1>3 DEF Past, Snapped, Partly, Outstanding
<1>14. Turn'
  BY <1>1, <1>13, TurnKept
<1>15. Exid[o] \in 0 .. Exchanges - 1
  BY SessionAssumption
<1>16. o \notin spoilt' /\ Known(Exid[o]) =>
           /\ start.pc = "ended" /\ Stream /\ m \in Range(rtn') /\ t \in Range(rtn')
           /\ Outstanding \cap Queries = {}
  <2>1. start.pc = "ended" => Snapped
    BY DEF Ended, Snapped
  <2> QED
    BY <1>1, <1>11, <2>1 DEF Turn
<1>17. \A p, k : /\ Tells(Range(rtn), "trade", p, k) => Tells(Range(rtn'), "trade", p, k)
                 /\ Tells(Range(rtn), "order", p, k) => Tells(Range(rtn'), "order", p, k)
  BY <1>11 DEF Tells
<1>18. Answered'
  <2> SUFFICES ASSUME NEW a \in Range(answers), a.err = 0, NEW p \in Orders \ spoilt'
               PROVE  /\ a.req = AskOrders(Exid[p]) => a.done[p] = done'[p] /\ ~Partly(p)'
                      /\ a.req \in {Ask("trades"), Ask("position")} => a.done[p] = done'[p]
    BY <1>1 DEF Answered
  <2>1. PICK i \in DOMAIN answers : a = answers[i]
    BY DEF Range
  <2>2. a.req \in Outstanding
    BY <2>1 DEF Outstanding
  <2>3. CASE p # o
    <3>1. p \in Orders \ spoilt
      BY <1>6
    <3> QED
      BY <1>3, <1>13, <2>3, <3>1 DEF Heard, Answered
  <2>4. CASE p = o
    <3>1. a.req = AskOrders(Exid[o]) => Known(Exid[o]) /\ a.req \in Queries
      BY <1>15, <2>1, RequestsAre DEF Known
    <3>2. a.req \in {Ask("trades"), Ask("position")} => Known(Exid[o]) /\ a.req \in Queries
      <4>1. a.req \in {Ask("trades"), Ask("position")} => AskOrders(Exid[o]) \in got
        BY <2>2, Turned
      <4> QED
        BY <4>1, AsksDiffer DEF Known
    <3> QED
      BY <1>16, <2>2, <2>4, <3>1, <3>2
  <2> QED
    BY <2>3, <2>4
<1>19. HeardTrades'
  <2> SUFFICES ASSUME Ask("trades") \in got, NEW p \in Orders \ spoilt', NEW k \in 1 .. Vol[p],
                      k <= done'[p]
               PROVE  \/ <<p, k>> \in mapTrade
                      \/ start.pc = "ended" /\ Tells(Range(rtn'), "trade", p, k)
    BY <1>1 DEF HeardTrades
  <2>1. p \in Orders \ spoilt
    BY <1>6
  <2>2. CASE k <= done[p]
    BY <1>17, <2>1, <2>2 DEF Heard, HeardTrades
  <2>3. CASE ~(k <= done[p])
    <3>1. p = o /\ k = done'[o]
      BY <1>3, <1>5, <2>3
    <3>2. Known(Exid[o])
      BY Turned DEF Known
    <3>3. start.pc = "ended" /\ t \in Range(rtn')
      BY <1>16, <3>1, <3>2
    <3> QED
      BY <1>10, <3>1, <3>3 DEF Tells
  <2> QED
    BY <2>2, <2>3
<1>20. HeardOrders'
  <2> SUFFICES ASSUME NEW p \in Orders \ spoilt', Past(Exid[p])
               PROVE  /\ start.pc # "ended" => ~Partly(p)' /\ mapOrder[p] = done'[p]
                      /\ start.pc = "ended" /\ done'[p] = Vol[p] =>
                             mapOrder[p] = Vol[p] \/ Tells(Range(rtn'), "order", p, Vol[p])
    BY <1>1, <1>13 DEF HeardOrders
  <2>1. p \in Orders \ spoilt
    BY <1>6
  <2>2. CASE p # o
    BY <1>3, <1>13, <1>17, <2>1, <2>2 DEF Heard, HeardOrders
  <2>3. CASE p = o
    <3>1. AskOrders(Exid[o]) \in got
      BY <1>15, <2>3 DEF Past, OrdersInTurn
    <3>2. Known(Exid[o])
      BY <3>1 DEF Known
    <3>3. start.pc = "ended" /\ m \in Range(rtn')
      BY <1>16, <2>3, <3>2
    <3> QED
      BY <1>10, <2>3, <3>3 DEF Tells
  <2> QED
    BY <2>2, <2>3
<1>21. Books'
  <2>1. Booked(posTRD, Count(mapTrade), done, Loose) /\ Booked(posORD, Whole(mapOrder), done, Loose)
    BY DEF Heard, Books
  <2>2. \A p \in Orders : p \in Loose => p \in Loose'
    BY <1>6, <1>13 DEF Loose
  <2>3. /\ Booked(posTRD, Count(mapTrade), done', Loose')
        /\ Booked(posORD, Whole(mapOrder), done', Loose')
    BY <1>2, <1>3, <1>5, <2>1, <2>2, CountIs, WholeIs, BookedKept
  <2> QED
    BY <1>1, <2>3 DEF Books
<1> QED
  BY <1>7, <1>12, <1>14, <1>18, <1>19, <1>20, <1>21 DEF Heard

-----------------------------------------------------------------------------
(* Reports move the book of orders by what Whole says, while HTP runs;     *)
(* before, the orders outside X must not be filled by them.                *)
LEMMA OrderWayBook ==
    ASSUME Shape, NEW S \in SUBSET Orders, NEW n, OrderWay(S, n), NEW X,
           Booked(posORD, Whole(mapOrder), done, X),
           flag.running \/ \A o \in S : o \in X \/ mapOrder[o] = Vol[o] \/ n[o] # Vol[o]
    PROVE  Booked(posORD', Whole(mapOrder'), done, X)
<1>1. PICK E : E = {o \in {p \in S : NewReport(p)} : n[o] = Vol[o]}
  OBVIOUS
<1>2. /\ mapOrder' = [o \in Orders |-> IF o \in {p \in S : NewReport(p)} THEN n[o] ELSE mapOrder[o]]
      /\ posORD' = posORD + (IF flag.running THEN Volume(E) ELSE 0)
  BY <1>1 DEF OrderWay
<1>3. PICK m, new : m = mapOrder /\ new = mapOrder'
  OBVIOUS
<1>4. /\ E \in SUBSET Orders
      /\ \A o \in E : o \in S /\ m[o] # Vol[o] /\ n[o] = Vol[o]
      /\ \A o \in E : new[o] = Vol[o]
      /\ \A o \in Orders \ E : new[o] = Vol[o] <=> m[o] = Vol[o]
  BY <1>1, <1>2, <1>3 DEF NewReport
<1>5. /\ SumFunction(Whole(new)) = SumFunction(Whole(m)) + Volume(E)
      /\ Volume(E) \in Nat
      /\ \A o \in Orders : Whole(m)[o] <= Whole(new)[o]
  BY <1>4, WholeMoves
<1>6. Whole(m) \in [Orders -> Nat] /\ Whole(new) \in [Orders -> Nat] /\ done \in [Orders -> Int]
  BY WholeIs DEF Shape
<1>7. Booked(posORD, Whole(m), done, X)
  BY <1>3
<1>8. CASE flag.running
  <2>1. Booked(posORD + Volume(E), Whole(new), done, X)
    <3>1. Volume(E) \in Int
      BY <1>5
    <3> QED
      BY <1>5, <1>6, <1>7, <3>1, BookedMoves
  <2> QED
    BY <1>2, <1>3, <1>8, <2>1
<1>9. CASE ~flag.running
  <2>1. \A o \in Orders \ X : Whole(new)[o] = Whole(m)[o]
    <3>1. \A o \in Orders \ X : o \notin E
      BY <1>3, <1>4, <1>9
    <3> QED
      BY <1>4, <3>1, WholeIs
  <2>2. Booked(posORD, Whole(new), done, X)
    BY <1>5, <1>6, <1>7, <2>1, BookedStill
  <2>3. posORD' = posORD
    <3>1. PICK c \in [Orders -> Nat] : posORD = SumFunction(c)
      BY DEF Booked
    <3>2. posORD \in Nat
      BY <3>1, FinOrders, SumNat
    <3> QED
      BY <1>2, <1>9, <3>2
  <2> QED
    BY <1>3, <2>2, <2>3
<1> QED
  BY <1>8, <1>9

LEMMA TradeWayBook ==
    ASSUME Shape, NEW T, T \subseteq TradesOf(Vol), TradeWay(T), NEW X,
           Booked(posTRD, Count(mapTrade), done, X),
           \/ flag.running
           \/ \A o \in Orders \ X : \A k \in 1 .. Vol[o] :
                  <<o, k>> \in T => <<o, k>> \in mapTrade
    PROVE  Booked(posTRD', Count(mapTrade'), done, X)
<1>1. PICK M, new : M = mapTrade /\ new = mapTrade'
  OBVIOUS
<1>2. /\ new = M \cup T
      /\ posTRD' = posTRD + (IF flag.running THEN Cardinality(T \ M) ELSE 0)
  BY <1>1 DEF TradeWay, NewTrades
<1>3. /\ SumFunction(Count(new)) = SumFunction(Count(M)) + Cardinality(T \ M)
      /\ Cardinality(T \ M) \in Nat
  BY <1>2, CountMoves
<1>4. \A o \in Orders : Count(M)[o] <= Count(new)[o]
  BY <1>2, CountMore
<1>5. Count(M) \in [Orders -> Nat] /\ Count(new) \in [Orders -> Nat] /\ done \in [Orders -> Int]
  BY CountIs DEF Shape
<1>6. Booked(posTRD, Count(M), done, X)
  BY <1>1
<1>7. CASE flag.running
  <2>1. Cardinality(T \ M) \in Int
    BY <1>3
  <2>2. Booked(posTRD + Cardinality(T \ M), Count(new), done, X)
    BY <1>3, <1>4, <1>5, <1>6, <2>1, BookedMoves
  <2> QED
    BY <1>1, <1>2, <1>7, <2>2
<1>8. CASE ~flag.running
  <2>1. \A o \in Orders \ X : Count(new)[o] = Count(M)[o]
    <3> SUFFICES ASSUME NEW o \in Orders \ X
                 PROVE  {k \in 1 .. Vol[o] : <<o, k>> \in new}
                            = {k \in 1 .. Vol[o] : <<o, k>> \in M}
      BY DEF Count
    <3>1. \A k \in 1 .. Vol[o] : <<o, k>> \in new <=> <<o, k>> \in M
      BY <1>1, <1>2, <1>8
    <3> QED
      BY <3>1
  <2>2. Booked(posTRD, Count(new), done, X)
    BY <1>4, <1>5, <1>6, <2>1, BookedStill
  <2>3. posTRD' = posTRD
    <3>1. PICK c \in [Orders -> Nat] : posTRD = SumFunction(c)
      BY DEF Booked
    <3>2. posTRD \in Nat
      BY <3>1, FinOrders, SumNat
    <3> QED
      BY <1>2, <1>8, <3>2
  <2> QED
    BY <1>1, <2>2, <2>3
<1> QED
  BY <1>7, <1>8

-----------------------------------------------------------------------------
(* What the answer to a request sets m_eStatus to.                         *)
LEMMA SentIs ==
    \A req \in Sent :
        \/ req \in OrderQueries /\ req[1] = "orders" /\ StatusAfter(req[1]) = "onqryorder"
        \/ /\ req \notin OrderQueries /\ req[1] # "orders" /\ req = Ask(req[1])
           /\ StatusAfter(req[1]) # "onqryorder"
           /\ StatusAfter(req[1]) = "onqryposition" => req[1] = "position"
<1> SUFFICES ASSUME NEW req \in Sent
             PROVE  \/ /\ req \in OrderQueries /\ req[1] = "orders"
                       /\ StatusAfter(req[1]) = "onqryorder"
                    \/ /\ req \notin OrderQueries /\ req[1] # "orders" /\ req = Ask(req[1])
                       /\ StatusAfter(req[1]) # "onqryorder"
                       /\ StatusAfter(req[1]) = "onqryposition" => req[1] = "position"
  OBVIOUS
<1>1. CASE req \in OrderQueries
  <2>1. req[1] = "orders"
    BY <1>1, RequestsAre DEF OrderQueries
  <2> QED
    BY <1>1, <2>1 DEF StatusAfter
<1>2. CASE req \notin OrderQueries
  <2>1. PICK n \in Names : req = Ask(n) /\ n # "none"
    BY <1>2 DEF Sent, Requests
  <2>2. req[1] = n
    BY <2>1, RequestsAre
  <2>3. n \in {"auth", "login", "confirm", "instruments", "rates", "account", "trades",
               "position", "logout"}
    BY <2>1 DEF Names
  <2> QED
    BY <1>2, <2>1, <2>2, <2>3 DEF StatusAfter
<1> QED
  BY <1>1, <1>2

(* The answer to the orders of an exchange: those not spoilt are filled or *)
(* not, and stored as they are.                                            *)
LEMMA OrdersKeep ==
    ASSUME InitInv, Turn, Heard, NEW a \in Range(answers), a.err = 0,
           a.req \in Outstanding, NEW e \in 0 .. Exchanges - 1, a.req = AskOrders(e),
           \A b \in Range(answers') : b \in Range(answers),
           UNCHANGED <<start, done, rtn, spoilt>>,
           eStatus' = "onqryorder", got' = got \cup {a.req}, OrderWay(On(e), a.done)
    PROVE  Heard'
<1> USE DEF InitInv
<1>1. /\ mapOrder \in [Orders -> Int] /\ spoilt \subseteq Orders
      /\ \A o \in Orders : done[o] \in 0 .. Vol[o] /\ mapOrder[o] \in -1 .. done[o]
      /\ mapTrade \subseteq TradesOf(done)
  BY DEF Heard, Filled
<1>2. /\ On(e) \subseteq Orders
      /\ \A o \in Orders : o \in On(e) <=> Exid[o] = e
  BY DEF On
<1>3. \A o \in Orders : a.done[o] \in 0 .. done[o]
  BY DEF Heard, Wires
<1>4. /\ mapOrder' \in [Orders -> Int]
      /\ \A o \in Orders : mapOrder'[o] = IF Exid[o] = e /\ mapOrder[o] # Vol[o]
                                          THEN a.done[o] ELSE mapOrder[o]
      /\ UNCHANGED <<mapTrade, posTRD>>
  <2>1. /\ mapOrder' = [o \in Orders |-> IF o \in {p \in On(e) : NewReport(p)}
                                         THEN a.done[o] ELSE mapOrder[o]]
        /\ UNCHANGED <<mapTrade, posTRD>>
    BY DEF OrderWay
  <2>2. \A o \in Orders : a.done[o] \in Int
    BY <1>1, <1>3
  <2> QED
    BY <1>1, <1>2, <2>1, <2>2 DEF NewReport
<1>5. /\ a.req \in Queries /\ ~Snapped /\ start.pc # "ended" /\ start.step # "onqryposition"
      /\ e = start.qry /\ Exchanges \in Nat /\ start.qry # Exchanges
  <2>1. a.req \in Queries
    BY RequestsAre
  <2>2. ~Snapped
    BY <2>1 DEF Turn
  <2>3. start.pc # "ended" /\ start.step # "onqryposition"
    BY <2>2 DEF Ended, Snapped
  <2>4. e = start.qry
    BY DEF OrdersInTurn
  <2> QED
    BY <2>1, <2>2, <2>3, <2>4, SessionAssumption
<1>6. Filled'
  <2>1. \A o \in Orders : mapOrder'[o] \in -1 .. done[o]
    <3> SUFFICES ASSUME NEW o \in Orders PROVE mapOrder'[o] \in -1 .. done[o]
      OBVIOUS
    <3>1. done[o] \in Int /\ a.done[o] \in 0 .. done[o] /\ mapOrder[o] \in -1 .. done[o]
      BY <1>1, <1>3
    <3>2. a.done[o] \in -1 .. done[o]
      BY <3>1
    <3> QED
      BY <1>4, <3>1, <3>2
  <2> QED
    BY <1>1, <1>4, <2>1 DEF Filled
<1>7. Wires'
  BY DEF Heard, Wires
<1>8. \A o : Partly(o)' <=> Partly(o)
  BY DEF Partly
<1>9. Answered'
  BY <1>8 DEF Heard, Answered
<1>10. HeardTrades'
  <2>1. Ask("trades") \notin got
    BY <1>5 DEF Turn
  <2>2. Ask("trades") \notin got'
    BY <2>1, AsksDiffer
  <2> QED
    BY <2>2 DEF HeardTrades
<1>11. HeardOrders'
  <2> SUFFICES ASSUME NEW o \in Orders \ spoilt, Past(Exid[o])'
               PROVE  ~Partly(o) /\ mapOrder'[o] = done[o]
    BY <1>5, <1>8 DEF HeardOrders
  <2>1. CASE Exid[o] = e
    <3>1. a.done[o] = done[o] /\ ~Partly(o)
      BY <2>1 DEF Heard, Answered
    <3>2. mapOrder[o] = Vol[o] => done[o] = Vol[o]
      <4>1. Vol[o] \in Nat /\ done[o] \in 0 .. Vol[o] /\ mapOrder[o] \in -1 .. done[o]
        BY <1>1, FinOrders
      <4> QED
        BY <4>1
    <3> QED
      BY <1>4, <2>1, <3>1, <3>2
  <2>2. CASE Exid[o] # e
    <3>1. Past(Exid[o])
      BY <1>5, <2>2 DEF Past
    <3>2. ~Partly(o) /\ mapOrder[o] = done[o]
      BY <1>5, <3>1 DEF Heard, HeardOrders
    <3> QED
      BY <1>4, <2>2, <3>2
  <2> QED
    BY <2>1, <2>2
<1>12. Books'
  <2>1. Loose = Orders /\ Loose' = Orders
    BY <1>5 DEF Loose, Snapped
  <2>2. /\ Booked(posTRD, Count(mapTrade), done, Orders)
        /\ Booked(posORD, Whole(mapOrder), done, Orders)
    BY <2>1 DEF Heard, Books
  <2>3. \A o \in On(e) : o \in Orders
    BY <1>2
  <2>4. Booked(posORD', Whole(mapOrder'), done, Orders)
    BY <1>2, <2>2, <2>3, OrderWayBook
  <2> QED
    BY <1>4, <2>1, <2>2, <2>4 DEF Books
<1> QED
  BY <1>6, <1>7, <1>9, <1>10, <1>11, <1>12 DEF Heard

(* The answer to the trades: those of the orders not spoilt are all        *)
(* stored.                                                                 *)
LEMMA TradesKeep ==
    ASSUME InitInv, Turn, Heard, NEW a \in Range(answers), a.err = 0,
           a.req \in Outstanding, a.req = Ask("trades"), a.done \in [Orders -> Int],
           \A b \in Range(answers') : b \in Range(answers),
           UNCHANGED <<start, done, rtn, spoilt>>,
           eStatus' = "onqrytrade", got' = got \cup {a.req}, TradeWay(TradesOf(a.done))
    PROVE  Heard'
<1> USE DEF InitInv
<1>1. /\ mapOrder \in [Orders -> Int] /\ spoilt \subseteq Orders
      /\ \A o \in Orders : done[o] \in 0 .. Vol[o] /\ mapOrder[o] \in -1 .. done[o]
      /\ mapTrade \subseteq TradesOf(done)
  BY DEF Heard, Filled
<1>2. \A o \in Orders : a.done[o] \in 0 .. done[o]
  BY DEF Heard, Wires
<1>3. \A o \in Orders : a.done[o] <= done[o] /\ a.done[o] <= Vol[o] /\ done[o] <= Vol[o]
  <2> SUFFICES ASSUME NEW o \in Orders
               PROVE  a.done[o] <= done[o] /\ a.done[o] <= Vol[o] /\ done[o] <= Vol[o]
    OBVIOUS
  <2>1. Vol[o] \in Nat /\ done[o] \in 0 .. Vol[o] /\ a.done[o] \in 0 .. done[o]
    BY <1>1, <1>2, FinOrders
  <2> QED
    BY <2>1
<1>4. mapTrade' = mapTrade \cup TradesOf(a.done) /\ UNCHANGED <<mapOrder, posORD>>
  BY DEF TradeWay
<1>5. /\ ~Snapped /\ start.pc # "ended" /\ start.step # "onqryposition"
  <2>1. ~Snapped
    BY AsksDiffer DEF Turn
  <2> QED
    BY <2>1 DEF Ended, Snapped
<1>6. Filled'
  <2>1. done \in [Orders -> Int]
    BY DEF Shape
  <2>2. \A t \in TradesOf(a.done) : t \in TradesOf(done)
    BY <1>3, <2>1, TradesMore
  <2> QED
    BY <1>1, <1>4, <2>2 DEF Filled
<1>7. Wires'
  BY DEF Heard, Wires
<1>8. \A o : Partly(o)' <=> Partly(o)
  BY DEF Partly
<1>9. Answered'
  BY <1>8 DEF Heard, Answered
<1>10. HeardTrades'
  <2> SUFFICES ASSUME NEW o \in Orders \ spoilt, NEW k \in 1 .. Vol[o], k <= done[o]
               PROVE  <<o, k>> \in mapTrade'
    BY DEF HeardTrades
  <2>1. a.done[o] = done[o]
    BY DEF Heard, Answered
  <2>2. k \in 1 .. a.done[o]
    <3>1. Vol[o] \in Nat /\ done[o] \in 0 .. Vol[o]
      BY <1>1, FinOrders
    <3> QED
      BY <2>1, <3>1
  <2> QED
    BY <1>4, <2>2, TradesAre
<1>11. HeardOrders'
  <2>1. \A f : Past(f)' => Past(f)
    BY DEF Past
  <2> QED
    BY <1>4, <1>5, <1>8, <2>1 DEF Heard, HeardOrders
<1>12. Books'
  <2>1. Loose = Orders /\ Loose' = Orders
    BY <1>5 DEF Loose, Snapped
  <2>2. /\ Booked(posTRD, Count(mapTrade), done, Orders)
        /\ Booked(posORD, Whole(mapOrder), done, Orders)
    BY <2>1 DEF Heard, Books
  <2>3. \A t \in TradesOf(a.done) : t \in TradesOf(Vol)
    BY <1>3, FinOrders, TradesMore
  <2>4. Booked(posTRD', Count(mapTrade'), done, Orders)
    BY <2>2, <2>3, TradeWayBook
  <2> QED
    BY <1>4, <2>1, <2>2, <2>4 DEF Books
<1> QED
  BY <1>6, <1>7, <1>9, <1>10, <1>11, <1>12 DEF Heard

(* The snapshot: what it tells of the orders that are not spoilt is what   *)
(* is stored of them.                                                      *)
LEMMA PositionKeeps ==
    ASSUME InitInv, Turn, Heard, NEW a \in Range(answers), a.err = 0,
           a.req \in Outstanding, a.req = Ask("position"), a.done \in [Orders -> Int],
           \A b \in Range(answers') : b \in Range(answers),
           UNCHANGED <<start, done, rtn, spoilt>>,
           eStatus' = "onqryposition", got' = got \cup {a.req}, PositionWay(SumFunction(a.done))
    PROVE  Heard'
<1> USE DEF InitInv
<1>1. /\ mapOrder \in [Orders -> Int] /\ spoilt \subseteq Orders
      /\ \A o \in Orders : done[o] \in 0 .. Vol[o] /\ mapOrder[o] \in -1 .. done[o]
      /\ mapTrade \subseteq TradesOf(done)
  BY DEF Heard, Filled
<1>2. /\ UNCHANGED <<mapOrder, mapTrade>>
      /\ posTRD' = IF SumFunction(a.done) > 0 THEN SumFunction(a.done) ELSE posTRD
      /\ posORD' = IF SumFunction(a.done) > 0 THEN SumFunction(a.done) ELSE posORD
  BY DEF PositionWay
<1>3. Filled' /\ Wires'
  BY <1>2 DEF Heard, Filled, Wires
<1>4. \A o : Partly(o)' <=> Partly(o)
  BY DEF Partly
<1>5. Answered'
  BY <1>4 DEF Heard, Answered
<1>6. /\ Ask("trades") \in got
      /\ \A o \in Orders : Past(Exid[o])
  BY Turned
<1>7. start.pc # "ended"
  <2>1. ~Snapped
    BY AsksDiffer DEF Turn
  <2> QED
    BY <2>1 DEF Ended, Snapped
<1>8. HeardTrades'
  BY <1>2, <1>6 DEF Heard, HeardTrades
<1>9. HeardOrders'
  BY <1>2, <1>4, <1>6 DEF Heard, HeardOrders
<1>10. Books'
  <2>1. Loose' = spoilt
    BY DEF Loose, Snapped
  <2>2. /\ \A o \in Orders : a.done[o] \in 0 .. done[o] /\ done[o] \in Int
        /\ \A o \in Orders \ spoilt : a.done[o] = done[o]
    BY <1>1 DEF Heard, Wires, Answered
  <2>3. a.done \in [Orders -> Nat] /\ \A o \in Orders : a.done[o] <= done[o]
    BY <2>2
  <2>4. \A o \in Orders \ spoilt : Count(mapTrade)[o] = done[o]
    <3>1. \A o \in Orders \ spoilt : \A k \in 1 .. Vol[o] : k <= done[o] => <<o, k>> \in mapTrade
      BY <1>6, <1>7 DEF Heard, HeardTrades
    <3> QED
      BY <3>1, CountDone DEF Heard
  <2>5. \A o \in Orders \ spoilt : Whole(mapOrder)[o] = done[o]
    <3> SUFFICES ASSUME NEW o \in Orders \ spoilt PROVE Whole(mapOrder)[o] = done[o]
      OBVIOUS
    <3>1. ~Partly(o) /\ mapOrder[o] = done[o]
      BY <1>6, <1>7 DEF Heard, HeardOrders
    <3>2. done[o] \in 0 .. Vol[o] /\ Vol[o] \in Nat
      BY <1>1, FinOrders
    <3>3. done[o] = 0 \/ done[o] = Vol[o]
      BY <3>1, <3>2 DEF Partly
    <3> QED
      BY <3>1, <3>2, <3>3, WholeIs
  <2>6. done \in [Orders -> Int]
    BY DEF Shape
  <2>7. PICK s : s = a.done
    OBVIOUS
  <2>8. /\ s \in [Orders -> Nat] /\ \A o \in Orders : s[o] <= done[o]
        /\ \A o \in Orders \ spoilt : s[o] = done[o]
    BY <2>2, <2>3, <2>7
  <2>9. Booked(posTRD, Count(mapTrade), done, Loose) /\ Booked(posORD, Whole(mapOrder), done, Loose)
    BY DEF Heard, Books
  <2>10. Booked(IF SumFunction(s) > 0 THEN SumFunction(s) ELSE posTRD, Count(mapTrade), done,
                spoilt)
    BY <2>4, <2>6, <2>8, <2>9, CountIs, BookedSnapshot
  <2>11. Booked(IF SumFunction(s) > 0 THEN SumFunction(s) ELSE posORD, Whole(mapOrder), done,
                spoilt)
    BY <2>5, <2>6, <2>8, <2>9, WholeIs, BookedSnapshot
  <2> QED
    BY <1>2, <2>1, <2>7, <2>10, <2>11 DEF Books
<1> QED
  BY <1>3, <1>5, <1>8, <1>9, <1>10 DEF Heard

-----------------------------------------------------------------------------
(* Every answer, good or bad.                                              *)
LEMMA RspKeeps ==
    ASSUME InitInv, Turn, Heard, OnRsp
    PROVE  Turn' /\ Heard'
<1> USE DEF InitInv
<1>1. PICK a : a = Head(answers)
  OBVIOUS
<1>2. /\ answers # <<>> /\ answers' = Tail(answers)
      /\ UNCHANGED <<start, done, reqs, rtn, spoilt>>
      /\ OnRspError(a) \/ OnRspGood(a)
  BY <1>1 DEF OnRsp
<1>3. /\ Outstanding' \subseteq Outstanding
      /\ a \in Answers /\ a.req \in Outstanding /\ a.req \in Sent /\ a.done \in [Orders -> Int]
      /\ a.req \in Queries => Outstanding' \cap Queries = {}
  BY <1>1, <1>2, HandledIs DEF Answers
<1>4. /\ a \in Range(answers)
      /\ \A b \in Range(answers') : b \in Range(answers)
  <2>1. answers \in Seq(Answers)
    BY DEF Shape
  <2> QED
    BY <1>1, <1>2, <2>1, RangeTail
<1>5. rtn \in Seq(Messages)
  BY DEF Heard, Wires
<1>6. ASSUME UNCHANGED <<mapOrder, mapTrade, posORD, posTRD>>,
             eStatus' # "onqryorder", eStatus' # "onqryposition",
             got' = got \/ (got' = got \cup {a.req} /\ a.req # Ask("trades"))
      PROVE  Turn' /\ Heard'
  <2>1. /\ \A e : Past(e)' => Past(e)
        /\ Snapped' => Snapped
    BY <1>2, <1>6 DEF Past, Snapped
  <2>2. Ask("trades") \in got' => Ask("trades") \in got
    BY <1>6
  <2>3. Quiet
    BY <1>2, <1>4, <1>5, <1>6, <2>1, <2>2 DEF Quiet
  <2>4. Turn'
    BY <1>2, <1>3, <1>6, <2>1, TurnKept
  <2> QED
    BY <2>3, <2>4, QuietKeeps
<1>7. CASE OnRspError(a)
  <2>1. /\ UNCHANGED <<mapOrder, mapTrade, posORD, posTRD, got>>
        /\ eStatus' = "failed"
    BY <1>7 DEF OnRspError, books
  <2> QED
    BY <1>6, <2>1
<1>8. CASE OnRspGood(a)
  <2>1. /\ a.err = 0 /\ eStatus' = StatusAfter(a.req[1]) /\ got' = got \cup {a.req}
    BY <1>8 DEF OnRspGood
  <2>2. CASE a.req \in OrderQueries
    <3>1. a.req[1] = "orders" /\ eStatus' = "onqryorder"
      BY <1>3, <2>1, <2>2, SentIs
    <3>2. PICK e \in 0 .. Exchanges - 1 : a.req = AskOrders(e)
      BY <2>2 DEF OrderQueries
    <3>3. OrderWay(On(e), a.done)
      BY <1>8, <3>1, <3>2 DEF OnRspGood, AskOrders
    <3>4. Heard'
      BY <1>2, <1>3, <1>4, <2>1, <3>1, <3>2, <3>3, OrdersKeep
    <3>5. Snapped' => Snapped
      BY <1>2, <3>1 DEF Snapped
    <3>6. Turn'
      BY <1>2, <1>3, <2>1, <3>5, TurnKept
    <3> QED
      BY <3>4, <3>6
  <2>3. CASE a.req = Ask("trades")
    <3>1. a.req[1] = "trades" /\ eStatus' = "onqrytrade"
      BY <2>1, <2>3 DEF Ask, StatusAfter
    <3>2. TradeWay(TradesOf(a.done))
      BY <1>8, <3>1 DEF OnRspGood
    <3>3. Heard'
      BY <1>2, <1>3, <1>4, <2>1, <2>3, <3>1, <3>2, TradesKeep
    <3>4. Snapped' => Snapped
      BY <1>2, <3>1 DEF Snapped
    <3>5. Turn'
      BY <1>2, <1>3, <2>1, <3>4, TurnKept
    <3> QED
      BY <3>3, <3>5
  <2>4. CASE a.req = Ask("position")
    <3>1. a.req[1] = "position" /\ eStatus' = "onqryposition"
      BY <2>1, <2>4 DEF Ask, StatusAfter
    <3>2. PositionWay(SumFunction(a.done))
      BY <1>8, <3>1 DEF OnRspGood
    <3>3. Heard'
      BY <1>2, <1>3, <1>4, <2>1, <2>4, <3>1, <3>2, PositionKeeps
    <3>4. Outstanding' \cap Queries = {}
      BY <1>3, <2>4, AsksDiffer
    <3>5. Turn'
      BY <1>2, <1>3, <2>1, <3>4 DEF Turn
    <3> QED
      BY <3>3, <3>5
  <2>5. CASE a.req \notin OrderQueries \cup {Ask("trades"), Ask("position")}
    <3>1. a.req[1] \notin {"orders", "trades", "position"}
      BY <1>3, <2>5, SentIs
    <3>2. UNCHANGED <<mapOrder, mapTrade, posORD, posTRD>>
      BY <1>8, <3>1 DEF OnRspGood, OrderWay, TradeWay, PositionWay, books
    <3>3. eStatus' # "onqryorder" /\ eStatus' # "onqryposition"
      BY <1>3, <2>1, <2>5, <3>1, SentIs
    <3> QED
      BY <1>6, <2>1, <2>5, <3>2, <3>3
  <2> QED
    BY <2>2, <2>3, <2>4, <2>5
<1> QED
  BY <1>2, <1>7, <1>8

-----------------------------------------------------------------------------
(* A report of an order: before HTP runs it tells nothing new of an order  *)
(* that Start has and that is not spoilt.                                  *)
LEMMA RtnOrderKeeps ==
    ASSUME InitInv, Turn, Heard, NEW m \in Range(rtn),
           m.kind = "order", m.order \in Orders,
           \A x : x \in Range(rtn) <=> x \in Range(rtn') \/ x = m, rtn' \in Seq(Messages),
           UNCHANGED <<eStatus, start, done, reqs, answers, got, spoilt>>,
           OrderWay({m.order}, [o \in {m.order} |-> m.n])
    PROVE  Heard'
<1> USE DEF InitInv
<1>1. /\ mapOrder \in [Orders -> Int] /\ spoilt \subseteq Orders
      /\ \A o \in Orders : done[o] \in 0 .. Vol[o] /\ mapOrder[o] \in -1 .. done[o]
      /\ mapTrade \subseteq TradesOf(done)
  BY DEF Heard, Filled
<1>2. PICK o \in Orders : o = m.order
  OBVIOUS
<1>3. m.n \in 1 .. done[o]
  BY <1>2 DEF Heard, Wires, Reports
<1>4. /\ m.n \in Int /\ 1 <= m.n /\ m.n <= done[o] /\ done[o] <= Vol[o]
      /\ done[o] \in Nat /\ Vol[o] \in Nat
  <2>1. done[o] \in 0 .. Vol[o] /\ Vol[o] \in Nat
    BY <1>1, FinOrders
  <2> QED
    BY <1>3, <2>1
<1>5. /\ mapOrder' \in [Orders -> Int]
      /\ mapOrder'[o] = IF mapOrder[o] # Vol[o] THEN m.n ELSE mapOrder[o]
      /\ \A p \in Orders \ {o} : mapOrder'[p] = mapOrder[p]
      /\ UNCHANGED <<mapTrade, posTRD>>
  <2>1. /\ mapOrder' = [p \in Orders |-> IF p \in {q \in {o} : NewReport(q)}
                                         THEN [q \in {o} |-> m.n][p] ELSE mapOrder[p]]
        /\ UNCHANGED <<mapTrade, posTRD>>
    BY <1>2 DEF OrderWay
  <2>2. \A p \in Orders : mapOrder'[p] = IF p = o /\ mapOrder[o] # Vol[o] THEN m.n ELSE mapOrder[p]
    BY <2>1 DEF NewReport
  <2> QED
    BY <1>1, <1>4, <2>1, <2>2
<1>6. Filled'
  <2>1. mapOrder'[o] \in -1 .. done[o]
    BY <1>1, <1>4, <1>5
  <2> QED
    BY <1>1, <1>5, <2>1 DEF Filled
<1>7. Wires'
  BY DEF Heard, Wires
<1>8. \A p : (Partly(p)' <=> Partly(p)) /\ (Past(p)' <=> Past(p))
  BY DEF Partly, Past
<1>9. Answered'
  BY <1>8 DEF Heard, Answered
<1>10. HeardTrades'
  <2>1. \A p, k : Tells(Range(rtn), "trade", p, k) => Tells(Range(rtn'), "trade", p, k)
    BY DEF Tells
  <2> QED
    BY <1>5, <2>1 DEF Heard, HeardTrades
<1>11. ASSUME o \notin spoilt, Past(Exid[o]), start.pc # "ended"
       PROVE  mapOrder[o] = Vol[o]
  <2>1. ~Partly(o) /\ mapOrder[o] = done[o]
    BY <1>11 DEF Heard, HeardOrders
  <2> QED
    BY <1>4, <2>1 DEF Partly
<1>12. HeardOrders'
  <2> SUFFICES ASSUME NEW p \in Orders \ spoilt, Past(Exid[p])
               PROVE  /\ start.pc # "ended" => ~Partly(p) /\ mapOrder'[p] = done[p]
                      /\ start.pc = "ended" /\ done[p] = Vol[p] =>
                             mapOrder'[p] = Vol[p] \/ Tells(Range(rtn'), "order", p, Vol[p])
    BY <1>8 DEF HeardOrders
  <2>1. /\ start.pc # "ended" => ~Partly(p) /\ mapOrder[p] = done[p]
        /\ start.pc = "ended" /\ done[p] = Vol[p] =>
               mapOrder[p] = Vol[p] \/ Tells(Range(rtn), "order", p, Vol[p])
    BY DEF Heard, HeardOrders
  <2>2. Tells(Range(rtn), "order", p, Vol[p]) =>
            Tells(Range(rtn'), "order", p, Vol[p]) \/ (p = o /\ m.n = Vol[o])
    BY <1>2 DEF Tells
  <2>3. start.pc # "ended" => mapOrder'[p] = mapOrder[p]
    BY <1>5, <1>11
  <2>4. mapOrder[p] = Vol[p] => mapOrder'[p] = Vol[p]
    BY <1>5
  <2>5. p = o /\ m.n = Vol[o] => mapOrder'[p] = Vol[p]
    BY <1>5
  <2> QED
    BY <2>1, <2>2, <2>3, <2>4, <2>5
<1>13. Books'
  <2>1. Booked(posTRD, Count(mapTrade), done, Loose) /\ Booked(posORD, Whole(mapOrder), done, Loose)
    BY DEF Heard, Books
  <2>2. Loose' = Loose
    BY DEF Loose, Snapped
  <2>3. flag.running \/ o \in Loose \/ mapOrder[o] = Vol[o]
    <3> SUFFICES ASSUME ~flag.running, o \notin Loose PROVE mapOrder[o] = Vol[o]
      OBVIOUS
    <3>1. Snapped /\ o \notin spoilt /\ start.pc # "ended"
      BY DEF Loose, Ended
    <3> QED
      BY <1>11, <3>1, Turned
  <2>4. {o} \in SUBSET Orders /\ OrderWay({o}, [q \in {o} |-> m.n])
    BY <1>2
  <2>5. Booked(posORD', Whole(mapOrder'), done, Loose)
    BY <2>1, <2>3, <2>4, OrderWayBook
  <2> QED
    BY <1>5, <2>1, <2>2, <2>5 DEF Books
<1> QED
  BY <1>6, <1>7, <1>9, <1>10, <1>12, <1>13 DEF Heard

(* A report of a trade, likewise.                                          *)
LEMMA RtnTradeKeeps ==
    ASSUME InitInv, Turn, Heard, NEW m \in Range(rtn),
           m.kind = "trade", m.order \in Orders,
           \A x : x \in Range(rtn) <=> x \in Range(rtn') \/ x = m, rtn' \in Seq(Messages),
           UNCHANGED <<eStatus, start, done, reqs, answers, got, spoilt>>,
           TradeWay({<<m.order, m.n>>})
    PROVE  Heard'
<1> USE DEF InitInv
<1>1. /\ mapOrder \in [Orders -> Int] /\ spoilt \subseteq Orders
      /\ \A o \in Orders : done[o] \in 0 .. Vol[o] /\ mapOrder[o] \in -1 .. done[o]
      /\ mapTrade \subseteq TradesOf(done)
  BY DEF Heard, Filled
<1>0. PICK n : n = m.n
  OBVIOUS
<1>2. PICK o \in Orders : o = m.order
  OBVIOUS
<1>3. n \in 1 .. done[o]
  BY <1>0, <1>2 DEF Heard, Wires, Reports
<1>4. n \in 1 .. Vol[o] /\ n <= done[o]
  <2>1. done[o] \in 0 .. Vol[o] /\ Vol[o] \in Nat
    BY <1>1, FinOrders
  <2> QED
    BY <1>3, <2>1
<1>5. mapTrade' = mapTrade \cup {<<o, n>>} /\ UNCHANGED <<mapOrder, posORD>>
  BY <1>0, <1>2 DEF TradeWay
<1>6. Filled'
  <2>1. <<o, n>> \in TradesOf(done)
    <3>1. done \in [Orders -> Int]
      BY DEF Shape
    <3> QED
      BY <1>3, <3>1, TradesAre
  <2> QED
    BY <1>1, <1>5, <2>1 DEF Filled
<1>7. Wires'
  BY DEF Heard, Wires
<1>8. \A p : (Partly(p)' <=> Partly(p)) /\ (Past(p)' <=> Past(p))
  BY DEF Partly, Past
<1>9. Answered'
  BY <1>8 DEF Heard, Answered
<1>10. HeardTrades'
  <2>1. \A p, k : Tells(Range(rtn), "trade", p, k) =>
            Tells(Range(rtn'), "trade", p, k) \/ (p = o /\ k = n)
    BY <1>0, <1>2 DEF Tells
  <2>2. <<o, n>> \in mapTrade' /\ \A t \in mapTrade : t \in mapTrade'
    BY <1>5
  <2> QED
    BY <2>1, <2>2 DEF Heard, HeardTrades
<1>11. HeardOrders'
  <2>1. \A p, k : Tells(Range(rtn), "order", p, k) => Tells(Range(rtn'), "order", p, k)
    BY DEF Tells
  <2> QED
    BY <1>5, <1>8, <2>1 DEF Heard, HeardOrders
<1>12. Books'
  <2>1. Booked(posTRD, Count(mapTrade), done, Loose) /\ Booked(posORD, Whole(mapOrder), done, Loose)
    BY DEF Heard, Books
  <2>2. Loose' = Loose
    BY DEF Loose, Snapped
  <2>3. flag.running \/ o \in Loose \/ <<o, n>> \in mapTrade
    <3> SUFFICES ASSUME ~flag.running, o \notin Loose PROVE <<o, n>> \in mapTrade
      OBVIOUS
    <3>1. Snapped /\ o \notin spoilt /\ start.pc # "ended"
      BY DEF Loose, Ended
    <3>2. Ask("trades") \in got
      BY <3>1, Turned
    <3> QED
      BY <1>4, <3>1, <3>2 DEF Heard, HeardTrades
  <2>4. PICK T : T = {<<o, n>>}
    OBVIOUS
  <2>5. TradeWay(T) /\ T \subseteq TradesOf(Vol)
    <3>1. <<o, n>> \in TradesOf(Vol)
      BY <1>4, FinOrders, TradesAre
    <3> QED
      BY <1>0, <1>2, <2>4, <3>1
  <2>6. \/ flag.running
        \/ \A p \in Orders \ Loose : \A k \in 1 .. Vol[p] :
               <<p, k>> \in T => <<p, k>> \in mapTrade
    BY <2>3, <2>4
  <2>7. Booked(posTRD', Count(mapTrade'), done, Loose)
    BY <2>1, <2>5, <2>6, TradeWayBook
  <2> QED
    BY <1>5, <2>1, <2>2, <2>7 DEF Books
<1> QED
  BY <1>6, <1>7, <1>9, <1>10, <1>11, <1>12 DEF Heard

(* Every message of the private stream and every event of the connection.  *)
LEMMA RtnKeeps ==
    ASSUME InitInv, Turn, Heard, OnRtn
    PROVE  Turn' /\ Heard'
<1>1. PICK m : m = Head(rtn)
  OBVIOUS
<1>2. /\ rtn # <<>> /\ rtn' = Tail(rtn)
      /\ UNCHANGED <<start, done, reqs, answers, got, spoilt>>
      /\ OnFrontConnected \/ OnFrontDisconnected \/ OnHeartBeatWarning \/ OnRtnOrder \/ OnRtnTrade
  BY DEF OnRtn
<1>3. /\ rtn' \in Seq(Messages) /\ m \in Messages
      /\ m \in Range(rtn)
      /\ \A x : x \in Range(rtn) <=> x \in Range(rtn') \/ x = m
  <2>1. rtn \in Seq(Messages)
    BY DEF Heard, Wires
  <2> QED
    BY <1>1, <1>2, <2>1, RangeTail
<1>4. m.order \in Orders
  BY <1>3, MessageIs
<1>5. Outstanding' = Outstanding
  BY <1>2 DEF Outstanding
<1>6. CASE OnFrontConnected \/ OnFrontDisconnected \/ OnHeartBeatWarning
  <2>1. /\ m.kind \in {"up", "down", "beat"}
        /\ UNCHANGED <<mapOrder, mapTrade, posORD, posTRD>>
        /\ eStatus' \in {"fronton", "frontoff", "failed"}
    BY <1>1, <1>6 DEF OnFrontConnected, OnFrontDisconnected, OnHeartBeatWarning, books
  <2>2. \A x : x.kind \in Reports => (x \in Range(rtn') <=> x \in Range(rtn))
    BY <1>3, <2>1 DEF Reports
  <2>3. /\ \A e : Past(e)' => Past(e)
        /\ Snapped' => Snapped
    BY <1>2, <2>1 DEF Past, Snapped
  <2>4. Quiet
    BY <1>2, <1>3, <2>1, <2>2, <2>3 DEF Quiet
  <2>5. Turn'
    BY <1>2, <1>5, <2>3, TurnKept
  <2> QED
    BY <2>4, <2>5, QuietKeeps DEF InitInv
<1>7. CASE OnRtnOrder \/ OnRtnTrade
  <2>1. eStatus' = eStatus
    BY <1>7 DEF OnRtnOrder, OnRtnTrade
  <2>2. Snapped' => Snapped
    BY <1>2, <2>1 DEF Snapped
  <2>3. Turn'
    BY <1>2, <1>5, <2>2, TurnKept
  <2>4. CASE OnRtnOrder
    <3>1. m.kind = "order" /\ OrderWay({m.order}, [o \in {m.order} |-> m.n])
      BY <1>1, <2>4 DEF OnRtnOrder
    <3>2. Heard'
      BY <1>2, <1>3, <1>4, <2>1, <3>1, RtnOrderKeeps
    <3> QED
      BY <2>3, <3>2
  <2>5. CASE OnRtnTrade
    <3>1. m.kind = "trade" /\ TradeWay({<<m.order, m.n>>})
      BY <1>1, <2>5 DEF OnRtnTrade
    <3>2. Heard'
      BY <1>2, <1>3, <1>4, <2>1, <3>1, RtnTradeKeeps
    <3> QED
      BY <2>3, <3>2
  <2> QED
    BY <1>7, <2>4, <2>5
<1> QED
  BY <1>2, <1>6, <1>7

-----------------------------------------------------------------------------
(* Every step keeps Turn and Heard.                                        *)
LEMMA HeardStep ==
    ASSUME InitInv, Turn, Heard, [Next]_vars
    PROVE  Turn' /\ Heard'
<1>1. CASE Start \/ ThreadTime \/ Stop \/ UNCHANGED vars
  BY <1>1, StartQuiet, QuietKeeps DEF InitInv
<1>2. CASE Connect \/ Disconnect \/ HeartBeat
  BY <1>2, LinkQuiet, QuietKeeps DEF InitInv
<1>3. CASE BrokerAnswers
  BY <1>3, BrokerKeeps
<1>4. CASE \E o \in Orders : Fill(o)
  BY <1>4, FillKeeps
<1>5. CASE OnRsp
  BY <1>5, RspKeeps
<1>6. CASE OnRtn
  BY <1>6, RtnKeeps
<1> QED
  BY <1>1, <1>2, <1>3, <1>4, <1>5, <1>6 DEF Next

(* They hold when the program starts.                                      *)
LEMMA HeardInit ==
    ASSUME Init
    PROVE  Turn /\ Heard
<1>1. /\ eStatus = "init" /\ start.qry = 0 /\ start.step = "init" /\ start.pc = "poll"
      /\ mapOrder = [o \in Orders |-> -1] /\ mapTrade = {}
      /\ posORD = 0 /\ posTRD = 0
      /\ done = [o \in Orders |-> 0]
      /\ reqs = <<>> /\ answers = <<>> /\ rtn = <<>> /\ got = {} /\ spoilt = {}
  BY DEF Init
<1>2. Outstanding = {} /\ Range(answers) = {} /\ Range(rtn) = {}
  BY <1>1 DEF Outstanding, Range
<1>3. ~Snapped
  BY <1>1 DEF Snapped
<1>4. Turn
  BY <1>1, <1>2, <1>3 DEF Turn
<1>5. Filled
  <2>1. \A o \in Orders : 0 \in 0 .. Vol[o] /\ -1 \in -1 .. 0
    BY FinOrders
  <2> QED
    BY <1>1, <2>1 DEF Filled
<1>6. Wires /\ Answered /\ HeardTrades
  <2>1. <<>> \in Seq(Messages)
    OBVIOUS
  <2> QED
    BY <1>1, <1>2, <2>1 DEF Wires, Answered, HeardTrades
<1>7. HeardOrders
  <2>1. \A o \in Orders : Exid[o] \in 0 .. Exchanges - 1
    BY SessionAssumption
  <2>2. \A o \in Orders : ~Past(Exid[o])
    BY <1>1, <2>1 DEF Past
  <2> QED
    BY <2>2 DEF HeardOrders
<1>8. Books
  <2>1. PICK c : c = [o \in Orders |-> 0]
    OBVIOUS
  <2>2. c \in [Orders -> Nat] /\ c \in [Orders -> Int] /\ \A o \in Orders : c[o] = 0
    BY <2>1
  <2>3. SumFunction(c) = 0
    BY <2>2, FinOrders, SumZero
  <2>4. Loose = Orders
    BY <1>3 DEF Loose
  <2>5. ASSUME NEW st \in [Orders -> Nat]
        PROVE  Booked(0, st, c, Orders)
    <3>1. \A o \in Orders : c[o] <= c[o] + st[o] /\ (o \notin Orders => c[o] = st[o])
      BY <2>2
    <3> QED
      BY <2>2, <2>3, <3>1 DEF Booked
  <2> QED
    BY <1>1, <2>1, <2>4, <2>5, CountIs, WholeIs DEF Books
<1> QED
  BY <1>4, <1>5, <1>6, <1>7, <1>8 DEF Heard

-----------------------------------------------------------------------------
(* The rest of the shape.                                                  *)
Rest ==
    /\ start.tries <= MaxTry \/ (start.pc = "gaveup" /\ start.tries = MaxTry + 1)
    /\ logging \in BOOLEAN /\ warned \in BOOLEAN
    /\ link \in {"off", "down", "up"} /\ broker \in [auth : BOOLEAN, login : BOOLEAN]
    /\ trouble \in 0 .. MaxTrouble
    /\ got \subseteq Requests

(* A new connection may do nothing.                                        *)
LEMMA NoRights == [auth |-> FALSE, login |-> FALSE] \in [auth : BOOLEAN, login : BOOLEAN]
OBVIOUS

(* The history of faults stays within its bound.                           *)
LEMMA TroubleKept ==
    ASSUME trouble \in 0 .. MaxTrouble,
           \/ trouble' = trouble
           \/ trouble < MaxTrouble /\ trouble' = trouble + 1
    PROVE  trouble' \in 0 .. MaxTrouble
BY SessionAssumption

(* Every step keeps the rest of the shape.                                 *)
LEMMA RestStep ==
    ASSUME InitInv, Rest, [Next]_vars
    PROVE  Rest'
<1>1. /\ start \in [pc : Pcs, step : Status, qry : Nat, tries : Nat] /\ MaxTry \in Nat
  BY SessionAssumption DEF InitInv, Shape
<1>2. trouble \in 0 .. MaxTrouble
  BY DEF Rest
<1>3. CASE Expire \/ MarkFailed \/ Finish
  <2>1. /\ start.pc \in {"poll", "expired", "go"}
        /\ \E p \in {"expired", "poll", "ended"} : start' = [start EXCEPT !.pc = p]
        /\ UNCHANGED <<logging, warned, link, broker, got>>
        /\ trouble' = trouble \/ (trouble < MaxTrouble /\ trouble' = trouble + 1)
    BY <1>3 DEF Expire, MarkFailed, Finish, Trouble, ext, hist
  <2>2. start'.tries = start.tries
    BY <1>1, <2>1
  <2>3. trouble' \in 0 .. MaxTrouble
    BY <1>2, <2>1, TroubleKept
  <2> QED
    BY <2>1, <2>2, <2>3 DEF Rest
<1>4. CASE Again
  <2>1. /\ start.pc = "poll"
        /\ start' = [start EXCEPT !.tries = @ + 1,
                              !.pc = IF start.tries + 1 > MaxTry THEN "gaveup" ELSE "go"]
        /\ UNCHANGED <<logging, warned, link, broker, got, trouble>>
    BY <1>4 DEF Again, ext, hist
  <2>2. /\ start'.tries = start.tries + 1
        /\ start'.pc = IF start.tries + 1 > MaxTry THEN "gaveup" ELSE "go"
    <3>1. PICK t, p : t = start.tries + 1 /\ p = IF start.tries + 1 > MaxTry THEN "gaveup" ELSE "go"
      OBVIOUS
    <3>2. start' = [start EXCEPT !.tries = t, !.pc = p]
      BY <2>1, <3>1
    <3>3. start'.tries = t /\ start'.pc = p
      BY <1>1, <3>2
    <3> QED
      BY <3>1, <3>3
  <2>3. start.tries \in Nat /\ start.tries <= MaxTry
    BY <1>1, <2>1 DEF Rest
  <2> QED
    BY <1>1, <2>1, <2>2, <2>3 DEF Rest
<1>5. CASE Backup
  <2>1. start'.tries = 0 /\ UNCHANGED <<logging, warned, link, broker, got, trouble>>
    BY <1>5 DEF Backup, ext, hist
  <2> QED
    BY <1>1, <2>1 DEF Rest
<1>6. CASE Request
  <2>1. /\ start.pc = "go" /\ start' = [start EXCEPT !.pc = "poll"]
        /\ UNCHANGED <<logging, warned, broker, got>> /\ link' \in {link, "down"}
        /\ trouble' = trouble \/ (trouble < MaxTrouble /\ trouble' = trouble + 1)
    BY <1>6 DEF Request, Send, Trouble
  <2>2. start'.tries = start.tries
    BY <1>1, <2>1
  <2>3. trouble' \in 0 .. MaxTrouble
    BY <1>2, <2>1, TroubleKept
  <2> QED
    BY <2>1, <2>2, <2>3 DEF Rest
<1>7. CASE BrokerAnswers
  <2>1. /\ UNCHANGED <<start, logging, warned, link, got>>
        /\ broker' = broker \/ broker' \in [auth : BOOLEAN, login : BOOLEAN]
        /\ trouble' = trouble \/ (trouble < MaxTrouble /\ trouble' = trouble + 1)
    <3>1. /\ UNCHANGED <<start, logging, warned, link, got>>
          /\ broker' = broker \/ \E a, b \in BOOLEAN : broker' = [auth |-> a, login |-> b]
          /\ trouble' = trouble \/ (trouble < MaxTrouble /\ trouble' = trouble + 1)
      <4>1. PICK name : name = Head(reqs)[1]
        OBVIOUS
      <4>2. PICK a, b : /\ a = (broker.auth \/ name = "auth")
                        /\ b = ((broker.login \/ name = "login") /\ name # "logout")
        OBVIOUS
      <4>3. a \in BOOLEAN /\ b \in BOOLEAN
        BY <4>2
      <4>4. broker' = broker \/ broker' = [auth |-> a, login |-> b]
        BY <1>7, <4>1, <4>2 DEF BrokerAnswers
      <4>5. trouble' = trouble \/ (trouble < MaxTrouble /\ trouble' = trouble + 1)
        BY <1>7 DEF BrokerAnswers, Trouble
      <4>6. UNCHANGED <<start, logging, warned, link, got>>
        BY <1>7 DEF BrokerAnswers
      <4> QED
        BY <4>3, <4>4, <4>5, <4>6
    <3> QED
      BY <3>1
  <2>2. trouble' \in 0 .. MaxTrouble
    BY <1>2, <2>1, TroubleKept
  <2> QED
    BY <2>1, <2>2 DEF Rest
<1>8. CASE \E o \in Orders : Fill(o)
  BY <1>8 DEF Fill, Rest
<1>9. CASE Connect \/ Disconnect \/ HeartBeat
  <2>1. /\ UNCHANGED <<start, logging, warned, got>>
        /\ link' \in {link, "up", "down"}
        /\ broker' = broker \/ broker' = [auth |-> FALSE, login |-> FALSE]
        /\ trouble' = trouble \/ (trouble < MaxTrouble /\ trouble' = trouble + 1)
    BY <1>9 DEF Connect, Disconnect, HeartBeat, Trouble, hist
  <2>2. trouble' \in 0 .. MaxTrouble
    BY <1>2, <2>1, TroubleKept
  <2>3. broker' \in [auth : BOOLEAN, login : BOOLEAN]
    BY <2>1, NoRights DEF Rest
  <2>4. link' \in {"off", "down", "up"}
    BY <2>1 DEF Rest
  <2> QED
    BY <2>1, <2>2, <2>3, <2>4 DEF Rest
<1>10. CASE OnRsp
  <2>1. /\ UNCHANGED <<start, logging, warned, link, broker, trouble>>
        /\ got' = got \/ got' = got \cup {Head(answers).req}
        /\ answers # <<>>
    BY <1>10 DEF OnRsp, OnRspError, OnRspGood
  <2>2. Head(answers).req \in Requests
    <3>1. answers \in Seq(Answers)
      BY DEF InitInv, Shape
    <3>2. Head(answers) \in Answers
      BY <2>1, <3>1, RangeTail
    <3> QED
      BY <3>2 DEF Answers, Sent
  <2> QED
    BY <2>1, <2>2 DEF Rest
<1>11. CASE OnRtn
  <2>1. /\ UNCHANGED <<start, logging, link, broker, trouble, got>>
        /\ warned' \in {warned, TRUE, FALSE}
    BY <1>11 DEF OnRtn, OnFrontConnected, OnFrontDisconnected, OnHeartBeatWarning, OnRtnOrder,
                 OnRtnTrade
  <2> QED
    BY <2>1 DEF Rest
<1>12. CASE ThreadTime \/ Stop
  <2>1. /\ UNCHANGED <<start, warned, link, broker, got>>
        /\ logging' = logging \/ logging' = ~logging
        /\ trouble' = trouble \/ (trouble < MaxTrouble /\ trouble' = trouble + 1)
    BY <1>12 DEF ThreadTime, Stop, Send, Trouble
  <2>2. trouble' \in 0 .. MaxTrouble
    BY <1>2, <2>1, TroubleKept
  <2>3. logging' \in BOOLEAN
    BY <2>1 DEF Rest
  <2> QED
    BY <2>1, <2>2, <2>3 DEF Rest
<1>13. CASE UNCHANGED vars
  BY <1>13 DEF vars, ext, hist, Rest
<1> QED
  BY <1>3, <1>4, <1>5, <1>6, <1>7, <1>8, <1>9, <1>10, <1>11, <1>12, <1>13 DEF Next, Start

(* It holds at the start.                                                  *)
LEMMA RestInit == Init => Rest
<1> SUFFICES ASSUME Init PROVE Rest
  OBVIOUS
<1>1. start.tries = 0 /\ MaxTry \in Nat /\ trouble = 0 /\ MaxTrouble \in Nat /\ got = {}
  BY SessionAssumption DEF Init
<1>2. logging \in BOOLEAN /\ warned \in BOOLEAN /\ link = "off"
  BY DEF Init
<1>3. broker \in [auth : BOOLEAN, login : BOOLEAN]
  BY NoRights DEF Init
<1> QED
  BY <1>1, <1>2, <1>3 DEF Rest

(* The inductive invariant.                                                *)
SessionInv == InitInv /\ Turn /\ Heard /\ Rest

(* The inductive invariant holds always.                                   *)
LEMMA SessionInvAlways == Spec => []SessionInv
<1>1. Init => SessionInv
  BY InitInvInit, HeardInit, RestInit DEF SessionInv
<1>2. SessionInv /\ [Next]_vars => SessionInv'
  BY InitInvStep, HeardStep, RestStep DEF SessionInv
<1> QED
  BY <1>1, <1>2, PTL DEF Spec

(* Every variable of the session has its type, whatever is lost, repeated, *)
(* refused or overwritten; above all Start never counts past the limit of  *)
(* its tries nor goes on past the last exchange, the books are never       *)
(* negative and what m_mapOrder and m_mapTrade store of an order is within *)
(* its volume.                                                             *)
THEOREM SessionTypeCorrect == Spec => []TypeOK
<1>1. SessionInv => TypeOK
  <2> SUFFICES ASSUME SessionInv
               PROVE  TypeOK
    OBVIOUS
  <2> USE DEF SessionInv
  <2>1. start \in [pc : {"poll", "expired", "go", "ended", "gaveup"}, step : Status,
                   qry : 0 .. Exchanges, tries : 0 .. MaxTry + 1]
    <3>1. start \in [pc : Pcs, step : Status, qry : Nat, tries : Nat]
      BY DEF InitInv, Shape
    <3>2. start.qry \in 0 .. Exchanges
      BY <3>1, SessionAssumption DEF InitInv, OrdersInTurn
    <3>3. start.tries \in 0 .. MaxTry + 1
      BY <3>1, SessionAssumption DEF Rest
    <3> QED
      BY <3>1, <3>2, <3>3 DEF Pcs
  <2>2. eStatus \in Status /\ flag \in [fronton : BOOLEAN, loginon : BOOLEAN, running : BOOLEAN]
    BY DEF InitInv, Shape
  <2>3. /\ \A o \in Orders : done[o] \in 0 .. Vol[o] /\ mapOrder[o] \in -1 .. done[o]
        /\ mapTrade \subseteq TradesOf(done) /\ spoilt \subseteq Orders
    BY DEF Heard, Filled
  <2>4. \A o \in Orders : mapOrder[o] \in -1 .. Vol[o] /\ done[o] \in 0 .. Vol[o]
    <3> SUFFICES ASSUME NEW o \in Orders
                 PROVE  mapOrder[o] \in -1 .. Vol[o] /\ done[o] \in 0 .. Vol[o]
      OBVIOUS
    <3>1. Vol[o] \in Nat
      BY FinOrders
    <3> QED
      BY <2>3, <3>1
  <2>5. mapTrade \subseteq TradesOf(Vol)
    <3>1. done \in [Orders -> Int]
      BY DEF InitInv, Shape
    <3>2. \A o \in Orders : done[o] <= Vol[o]
      BY <2>3, FinOrders
    <3>3. \A t \in TradesOf(done) : t \in TradesOf(Vol)
      BY <3>1, <3>2, FinOrders, TradesMore
    <3> QED
      BY <2>3, <3>3
  <2>6. posORD \in Nat /\ posTRD \in Nat
    <3>1. \E c \in [Orders -> Nat] : posTRD = SumFunction(c)
      BY DEF Heard, Books, Booked
    <3>2. \E c \in [Orders -> Nat] : posORD = SumFunction(c)
      BY DEF Heard, Books, Booked
    <3> QED
      BY <3>1, <3>2, FinOrders, SumNat
  <2>7. Outstanding \subseteq Requests
    BY UnderwayAre DEF InitInv, Sent
  <2>8. \A i \in DOMAIN rtn : rtn[i].kind \in {"up", "down", "beat", "order", "trade"}
    <3>1. rtn \in Seq(Messages)
      BY DEF Heard, Wires
    <3>2. \A i \in DOMAIN rtn : rtn[i] \in Messages
      BY <3>1
    <3> QED
      BY <3>2, MessageIs DEF Kinds
  <2>9. Rest
    OBVIOUS
  <2> QED
    BY <2>1, <2>2, <2>3, <2>4, <2>5, <2>6, <2>7, <2>8, <2>9 DEF TypeOK, Rest
<1> QED
  BY <1>1, SessionInvAlways, PTL

(* Once HTP runs and every report is handled, both position books agree    *)
(* with what the exchanges have filled, up to the volume of the orders     *)
(* filled while HTP started or could not hear of it, and for the book of   *)
(* orders that of the orders partly filled: whatever the order in which    *)
(* OnRtnOrder, OnRtnTrade, the query answers and the snapshot reached      *)
(* OrderWay, TradeWay and PositionWay, and however often a query was       *)
(* repeated.                                                               *)
THEOREM BooksExactAlways == Spec => []BooksExact
<1>1. SessionInv => BooksExact
  <2> SUFFICES ASSUME SessionInv, start.pc = "ended", rtn = <<>>
               PROVE  /\ Off(posTRD) <= Volume(spoilt)
                      /\ Off(posORD) <= Volume(spoilt \cup {o \in Orders : Partly(o)})
    BY DEF BooksExact
  <2> USE DEF SessionInv
  <2>1. PICK X : X = spoilt \cup {o \in Orders : Partly(o)}
    OBVIOUS
  <2>2. /\ \A o \in Orders : done[o] \in 0 .. Vol[o] /\ mapOrder[o] \in -1 .. done[o]
        /\ mapTrade \subseteq TradesOf(done) /\ spoilt \subseteq Orders
    BY DEF Heard, Filled
  <2>3. X \in SUBSET Orders /\ spoilt \in SUBSET Orders
    BY <2>1, <2>2
  <2>4. \A o \in Orders : done[o] \in Nat /\ done[o] <= Vol[o] /\ Vol[o] \in Nat
    BY <2>2, FinOrders
  <2>5. done \in [Orders -> Int] /\ done \in [Orders -> Nat]
    BY <2>4 DEF InitInv, Shape
  <2>6. Snapped
    BY DEF InitInv, Ended, Snapped
  <2>7. Ask("trades") \in got /\ \A o \in Orders : Past(Exid[o])
    BY <2>6, Turned
  <2>8. \A kind, o, n : ~Tells(Range(rtn), kind, o, n)
    BY DEF Tells, Range
  <2>9. /\ Booked(posTRD, Count(mapTrade), done, spoilt)
        /\ Booked(posORD, Whole(mapOrder), done, spoilt)
    BY <2>6 DEF Heard, Books, Loose
  <2>10. \A o \in Orders \ spoilt : Count(mapTrade)[o] = done[o]
    <3>1. \A o \in Orders \ spoilt : \A k \in 1 .. Vol[o] : k <= done[o] => <<o, k>> \in mapTrade
      BY <2>7, <2>8 DEF Heard, HeardTrades
    <3> QED
      BY <3>1, CountDone DEF InitInv, Heard
  <2>11. \A o \in Orders \ X : Whole(mapOrder)[o] = done[o]
    <3> SUFFICES ASSUME NEW o \in Orders \ X PROVE Whole(mapOrder)[o] = done[o]
      OBVIOUS
    <3>1. o \in Orders \ spoilt /\ ~Partly(o)
      BY <2>1
    <3>2. done[o] = Vol[o] => mapOrder[o] = Vol[o]
      BY <2>7, <2>8, <3>1 DEF Heard, HeardOrders
    <3>3. done[o] = 0 \/ done[o] = Vol[o]
      BY <2>4, <3>1 DEF Partly
    <3>4. done[o] = 0 => mapOrder[o] # Vol[o] \/ Vol[o] = 0
      BY <2>2, <2>4
    <3> QED
      BY <3>2, <3>3, <3>4, WholeIs
  <2>12. Booked(posORD, Whole(mapOrder), done, X)
    <3>1. \A o \in Orders : (o \in spoilt => o \in X) /\ done[o] <= done[o]
      BY <2>1, <2>4
    <3> QED
      BY <2>5, <2>9, <3>1, WholeIs, BookedKept
  <2>13. /\ posTRD \in Nat /\ Held \in Nat /\ Volume(spoilt) \in Nat
         /\ posTRD <= Held + Volume(spoilt) /\ Held <= posTRD + Volume(spoilt)
    BY <2>3, <2>4, <2>5, <2>9, <2>10, CountIs, BookedOff DEF Held
  <2>14. /\ posORD \in Nat /\ Held \in Nat /\ Volume(X) \in Nat
         /\ posORD <= Held + Volume(X) /\ Held <= posORD + Volume(X)
    BY <2>3, <2>4, <2>5, <2>11, <2>12, WholeIs, BookedOff DEF Held
  <2>15. Off(posTRD) <= Volume(spoilt)
    BY <2>13 DEF Off
  <2>16. Off(posORD) <= Volume(X)
    BY <2>14 DEF Off
  <2> QED
    BY <2>1, <2>15, <2>16
<1> QED
  BY <1>1, SessionInvAlways, PTL
=============================================================================
