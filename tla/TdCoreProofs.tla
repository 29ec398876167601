---------------------------- MODULE TdCoreProofs ----------------------------
(***************************************************************************)
(* Theorems about TdCore, for any scenarios, lots and number of orders,    *)
(* and all faults:                                                         *)
(*   CancelOnceAlways   no order is cancelled twice                        *)
(*   CoreTypeCorrect    no part of the state leaves its range              *)
(*   BookedOnceAlways   every trade and every end of an order is booked    *)
(*                      once in its book                                   *)
(*   BooksAgreeAlways   the books agree with the account once all is done  *)
(*   ViewExactAlways    HTP's view of the exposure is exact                *)
(*   TargetMetAlways    a settled target is met                            *)
(*   NeverOverAlways    no more is ordered than the one target that is due *)
(*   ExposureKeptAlways and no less, unless a fault loses an order         *)
(* The first needs the shapes of the values only, which the invariant of   *)
(* the first part says; the others rest on TypeInv and World, which say    *)
(* what each value may be and what the broker, the messages on their way   *)
(* and HTP's own records have to do with each other.  The first and the    *)
(* last two hold as long as ThreadAlgo alone calls TargetWay; the last two *)
(* add StageInv, which says how far the first target is.                   *)
(***************************************************************************)
EXTENDS TdCore, SumLemmas, FiniteSetTheorems, TLAPS

(* The values of a sequence's elements are not told apart here.            *)
IsSeq(s) == \E S : s \in Seq(S)
Elems(s) == {s[i] : i \in DOMAIN s}

(* The broker accepted the order; HTP asked, or is about to ask, for its   *)
(* cancel.                                                                 *)
Reached(r) == exch[r].st \in {"live", "all", "canceled"}
Asked(r) ==
    \/ r \in Elems(cqAction)
    \/ trader.pc \in {"action", "acted"} /\ trader.ref = r
    \/ exch[r].cxl

-----------------------------------------------------------------------------
(* The inductive invariant: the shape of what the steps change, and what   *)
(* follows.                                                                *)
IsPlan(p) == \E T : p \in [scn : Scenarios, queue : T, due : T]

Places == {"idle", "get", "ready", "scan", "compared", "push", "stamp", "late",
           "cancel", "mark", "pop"}
Ctxs   == {"none", "cut", "scan", "turn", "late"}
Sides  == {"buy", "sell"}
Works(T) == [pc : Places, tgt : T, side : Sides, todo : T, ref : Int,
             cset : SUBSET Refs, ctx : Ctxs]
IsWorker(w) == \E T : w \in Works(T)

IsSpi(s) == \E T : s \in [pc : {"idle", "final", "stamp"}, msg : T, ref : Refs \cup {0}]

Traders == [pc : {"orders", "insert", "sent", "actions", "action", "acted", "ended"},
            ref : Refs \cup {0}, ok : BOOLEAN]

OrderStates == [st : {"none", "live", "all", "canceled", "rejected"}, done : Int,
                cxl : BOOLEAN]

Working ==
    /\ worker = [t \in Workers |-> worker[t]]
    /\ \A t \in Workers : IsWorker(worker[t])

Shape ==
    /\ IsSeq(order) /\ Len(order) <= MaxRef
    /\ hts \in [Refs -> Entry]
    /\ mapOrder = [r \in Refs |-> mapOrder[r]]
    /\ cqOrder \in Seq(Refs) /\ cqAction \in Seq(Refs)
    /\ trader \in Traders
    /\ trader.pc \in {"insert", "sent", "action", "acted"} => trader.ref \in Refs
    /\ IsSpi(spi)
    /\ exch \in [Refs -> OrderStates]

(* An order waits for the broker once, in the queue or in ThreadTrading's  *)
(* hands; one that does not exist yet has not been seen by anybody.        *)
WaitsOnce ==
    /\ \A i, j \in DOMAIN cqOrder : cqOrder[i] = cqOrder[j] => i = j
    /\ \A i \in DOMAIN cqOrder :
          /\ cqOrder[i] <= Len(order) /\ exch[cqOrder[i]].st = "none"
          /\ trader.pc = "insert" => trader.ref # cqOrder[i]
    /\ trader.pc = "insert" => trader.ref <= Len(order) /\ exch[trader.ref].st = "none"
    /\ trader.pc = "sent" /\ ~trader.ok => exch[trader.ref].st = "none"
    /\ \A r \in Refs : r > Len(order) => exch[r].st = "none"

(* Reports are of orders the broker has: what they say stays true.         *)
Told(m) ==
    /\ m.kind = "order" => m.ref \in Refs /\ Reached(m.ref)
    /\ m.kind = "error" => m.ref \in Refs /\ exch[m.ref].st = "rejected"

Reports ==
    /\ IsSeq(rtn) /\ IsSeq(answers) /\ IsSeq(deals)
    /\ \A m \in Elems(rtn) \cup Elems(answers) : Told(m)
    /\ \A m \in Elems(deals) : m.kind = "trade"

(* Only a report stamps ORDED, and a final one is the last that does.      *)
Stamped ==
    /\ \A r \in Refs : hts[r].orded => Reached(r)
    /\ spi.pc = "final" => spi.ref \in Refs /\ mapOrder[spi.ref].st \in Final

(* What bars a second cancel: the entry shows the first, or it went with   *)
(* the order's end and no report can stamp it again.                       *)
Barred(r) ==
    /\ Reached(r)
    /\ hts[r].st >= CCL_DOING \/ (~hts[r].orded /\ mapOrder[r].st \in Final)

Cancelling ==
    /\ \A r \in Refs : Asked(r) => Barred(r)
    /\ \A i, j \in DOMAIN cqAction : cqAction[i] = cqAction[j] => i = j
    /\ \A i \in DOMAIN cqAction :
          /\ ~exch[cqAction[i]].cxl
          /\ trader.pc \in {"action", "acted"} => trader.ref # cqAction[i]

(* Who is about to cancel an order is the first to do so.                  *)
Marking ==
    \A t \in Workers : worker[t].pc = "mark" =>
        /\ worker[t].ref \in Refs
        /\ ~Asked(worker[t].ref) /\ Reached(worker[t].ref)

CoreInv ==
    IsPlan(plan) /\ Working /\ Shape /\ WaitsOnce /\ Reports /\ Stamped /\ Cancelling /\ Marking

-----------------------------------------------------------------------------
(* Sequences of anything.                                                  *)
LEMMA AppendSeq ==
    ASSUME NEW s, IsSeq(s), NEW x
    PROVE  /\ IsSeq(Append(s, x)) /\ Len(s) \in Nat /\ Len(Append(s, x)) = Len(s) + 1
           /\ \A y \in Elems(Append(s, x)) : y \in Elems(s) \/ y = x
<1>1. PICK S : s \in Seq(S)
  BY DEF IsSeq
<1>2. s \in Seq(S \cup {x}) /\ x \in S \cup {x}
  BY <1>1
<1>3. Append(s, x) \in Seq(S \cup {x})
  BY <1>2
<1> QED
  BY <1>1, <1>2, <1>3 DEF IsSeq, Elems

LEMMA JoinSeq ==
    ASSUME NEW s, IsSeq(s), NEW u, IsSeq(u)
    PROVE  /\ IsSeq(s \o u)
           /\ \A y \in Elems(s \o u) : y \in Elems(s) \/ y \in Elems(u)
<1>1. PICK S : s \in Seq(S)
  BY DEF IsSeq
<1>2. PICK U : u \in Seq(U)
  BY DEF IsSeq
<1>3. s \in Seq(S \cup U) /\ u \in Seq(S \cup U)
  BY <1>1, <1>2
<1>4. s \o u \in Seq(S \cup U)
  BY <1>3
<1>5. ASSUME NEW i \in DOMAIN (s \o u)
      PROVE  (s \o u)[i] \in Elems(s) \/ (s \o u)[i] \in Elems(u)
  <2>1. i \in 1 .. Len(s) + Len(u) /\ Len(s) \in Nat /\ Len(u) \in Nat
    BY <1>3, <1>5
  <2>2. CASE i <= Len(s)
    BY <1>3, <2>1, <2>2 DEF Elems
  <2>3. CASE i > Len(s)
    <3>1. (s \o u)[i] = u[i - Len(s)] /\ i - Len(s) \in 1 .. Len(u)
      BY <1>3, <2>1, <2>3
    <3> QED
      BY <1>3, <3>1 DEF Elems
  <2> QED
    BY <2>1, <2>2, <2>3
<1> QED
  BY <1>4, <1>5 DEF IsSeq, Elems

LEMMA TailSeq ==
    ASSUME NEW s, IsSeq(s), s # <<>>
    PROVE  /\ IsSeq(Tail(s)) /\ Head(s) \in Elems(s)
           /\ \A y \in Elems(Tail(s)) : y \in Elems(s)
<1>1. PICK S : s \in Seq(S)
  BY DEF IsSeq
<1>2. Len(s) \in Nat \ {0} /\ Head(s) = s[1] /\ 1 \in DOMAIN s
  BY <1>1
<1>3. Tail(s) \in Seq(S) /\ Len(Tail(s)) = Len(s) - 1
  BY <1>1
<1>4. ASSUME NEW i \in DOMAIN Tail(s)
      PROVE  Tail(s)[i] = s[i + 1] /\ i + 1 \in DOMAIN s
  BY <1>1, <1>2, <1>3, <1>4
<1> QED
  BY <1>2, <1>3, <1>4 DEF IsSeq, Elems

LEMMA NoElems ==
    ASSUME NEW s, s = <<>>
    PROVE  IsSeq(s) /\ Elems(s) = {}
<1>1. s \in Seq({})
  OBVIOUS
<1> QED
  BY <1>1 DEF IsSeq, Elems

LEMMA PairSeq ==
    ASSUME NEW a, NEW b
    PROVE  /\ IsSeq(<<a>>) /\ IsSeq(<<a, b>>)
           /\ Elems(<<a>>) = {a} /\ Elems(<<a, b>>) = {a, b}
<1>1. <<a>> \in Seq({a}) /\ <<a, b>> \in Seq({a, b})
  OBVIOUS
<1>2. Elems(<<a>>) = {a}
  BY DEF Elems
<1>3. Elems(<<a, b>>) = {a, b}
  BY DEF Elems
<1> QED
  BY <1>1, <1>2, <1>3 DEF IsSeq

(* A worker at another place keeps its shape.                              *)
LEMMA NoWorkAt == IsWorker(NoWork) /\ NoWork.pc = "idle" /\ NoWork.cset = {}
<1> DEFINE rec(z, e) == [pc |-> "idle", tgt |-> z, side |-> "buy", todo |-> e, ref |-> 0,
                            cset |-> {}, ctx |-> "none"]
<1>1. ASSUME NEW T, NEW z \in T, NEW e \in T
      PROVE  rec(z, e) \in Works(T) /\ rec(z, e).pc = "idle" /\ rec(z, e).cset = {}
  BY <1>1 DEF Works, Places, Ctxs, Sides
<1>3. NoWork = rec(0, <<>>)
  BY Zenon DEF NoWork
<1> HIDE DEF rec
<1>4. 0 \in {0, <<>>} /\ <<>> \in {0, <<>>}
  BY Zenon
<1>2. NoWork \in Works({0, <<>>}) /\ NoWork.pc = "idle" /\ NoWork.cset = {}
  BY <1>1, <1>3, <1>4, Zenon
<1> QED
  BY <1>2, Zenon DEF IsWorker

LEMMA AtPc ==
    ASSUME NEW w, IsWorker(w), NEW p \in Places
    PROVE  IsWorker([w EXCEPT !.pc = p]) /\ [w EXCEPT !.pc = p].pc = p
<1>2. PICK U : w \in Works(U)
  BY DEF IsWorker
<1>3. [w EXCEPT !.pc = p] \in Works(U) /\ [w EXCEPT !.pc = p].pc = p
  BY <1>2 DEF Works
<1> QED
  BY <1>3, Zenon DEF IsWorker

LEMMA AtTgt ==
    ASSUME NEW w, IsWorker(w), NEW p \in Places, NEW x
    PROVE  IsWorker([w EXCEPT !.pc = p, !.tgt = x]) /\ [w EXCEPT !.pc = p, !.tgt = x].pc = p
<1>1. PICK T : w \in Works(T)
  BY DEF IsWorker
<1>2. PICK U : w \in Works(U) /\ x \in U
  <2>1. w \in Works(T \cup {x}) /\ x \in T \cup {x}
    BY <1>1 DEF Works
  <2> QED
    BY <2>1, Zenon
<1>3. [w EXCEPT !.pc = p, !.tgt = x] \in Works(U) /\ [w EXCEPT !.pc = p, !.tgt = x].pc = p
  BY <1>2 DEF Works
<1> QED
  BY <1>3, Zenon DEF IsWorker

LEMMA AtRef ==
    ASSUME NEW w, IsWorker(w), NEW p \in Places, NEW r \in Int
    PROVE  IsWorker([w EXCEPT !.pc = p, !.ref = r]) /\ [w EXCEPT !.pc = p, !.ref = r].pc = p
<1>2. PICK U : w \in Works(U)
  BY DEF IsWorker
<1>3. [w EXCEPT !.pc = p, !.ref = r] \in Works(U) /\ [w EXCEPT !.pc = p, !.ref = r].pc = p
  BY <1>2 DEF Works
<1> QED
  BY <1>3, Zenon DEF IsWorker

LEMMA AtCset ==
    ASSUME NEW w, IsWorker(w), NEW S \in SUBSET Refs
    PROVE  IsWorker([w EXCEPT !.cset = S]) /\ [w EXCEPT !.cset = S].cset = S
<1>2. PICK U : w \in Works(U)
  BY DEF IsWorker
<1>3. [w EXCEPT !.cset = S] \in Works(U) /\ [w EXCEPT !.cset = S].cset = S
  BY <1>2 DEF Works
<1> QED
  BY <1>3, Zenon DEF IsWorker

LEMMA AtList ==
    ASSUME NEW w, IsWorker(w), NEW p \in Places, NEW S \in SUBSET Refs, NEW c \in Ctxs
    PROVE  IsWorker([w EXCEPT !.pc = p, !.cset = S, !.ctx = c]) /\ [w EXCEPT !.pc = p, !.cset = S, !.ctx = c].pc = p
<1>2. PICK U : w \in Works(U)
  BY DEF IsWorker
<1>3. [w EXCEPT !.pc = p, !.cset = S, !.ctx = c] \in Works(U) /\ [w EXCEPT !.pc = p, !.cset = S, !.ctx = c].pc = p
  BY <1>2 DEF Works
<1> QED
  BY <1>3, Zenon DEF IsWorker

LEMMA AtRefIs ==
    ASSUME NEW w, IsWorker(w), NEW p \in Places, NEW r \in Int
    PROVE  [w EXCEPT !.pc = p, !.ref = r].ref = r
<1>1. PICK U : w \in Works(U)
  BY DEF IsWorker
<1> QED
  BY <1>1 DEF Works

LEMMA PlanAt ==
    ASSUME NEW p, IsPlan(p), NEW q, NEW d
    PROVE  /\ IsPlan([p EXCEPT !.due = d])
           /\ IsPlan([p EXCEPT !.queue = q, !.due = d])
<1>1. PICK T : p \in [scn : Scenarios, queue : T, due : T]
  BY DEF IsPlan
<1> DEFINE U == T \cup {q, d}
<1>2. p \in [scn : Scenarios, queue : U, due : U] /\ q \in U /\ d \in U
  BY <1>1
<1> HIDE DEF U
<1>3. /\ [p EXCEPT !.due = d] \in [scn : Scenarios, queue : U, due : U]
      /\ [p EXCEPT !.queue = q, !.due = d] \in [scn : Scenarios, queue : U, due : U]
  BY <1>2
<1> QED
  BY <1>3 DEF IsPlan

(* No scenario creates more orders than there are references.              *)
LEMMA OrdersBound ==
    ASSUME IsPlan(plan)
    PROVE  plan.scn.orders \in Int /\ plan.scn.orders <= MaxRef
<1>1. plan.scn \in Scenarios
  BY DEF IsPlan
<1>2. plan.scn.orders \in 0 .. MaxRef
  BY <1>1, CoreAssumption
<1> QED
  BY <1>2, CoreAssumption

-----------------------------------------------------------------------------
(* Entries only go up, except where they are deleted.                      *)
LEMMA StatusUp ==
    ASSUME NEW e \in Entry, NEW s \in Statuses
    PROVE  /\ SetStatus(e, s) \in Entry
           /\ SetStatus(e, s).st >= e.st /\ SetStatus(e, s).st >= s
           /\ SetStatus(e, s).orded = (e.orded \/ s = ORDED)
BY DEF SetStatus, Entry, Statuses, INIT, CANCEL, ORDED

EntriesUp ==
    /\ hts' \in [Refs -> Entry]
    /\ \A r \in Refs : hts'[r].orded = hts[r].orded /\ hts'[r].st >= hts[r].st

LEMMA StampUp ==
    ASSUME hts \in [Refs -> Entry], NEW x, NEW s \in Statuses, s # ORDED,
           hts' = [hts EXCEPT ![x] = SetStatus(@, s)]
    PROVE  EntriesUp /\ (x \in Refs => hts'[x].st >= s)
<1>1. ASSUME NEW r \in Refs
      PROVE  /\ hts'[r] = (IF r = x THEN SetStatus(hts[r], s) ELSE hts[r])
             /\ hts[r] \in Entry
  BY <1>1
<1>2. ASSUME NEW r \in Refs
      PROVE  /\ hts'[r] \in Entry
             /\ hts'[r].orded = hts[r].orded /\ hts'[r].st >= hts[r].st
             /\ r = x => hts'[r].st >= s
  <2>1. hts[r].st >= hts[r].st
    BY <1>1 DEF Entry, Statuses
  <2>2. CASE r = x
    <3>1. hts[x] \in Entry /\ hts'[x] = SetStatus(hts[x], s)
      BY <1>1, <2>2
    <3>2. SetStatus(hts[x], s).orded = (hts[x].orded \/ s = ORDED)
      BY <3>1, StatusUp, Zenon
    <3>3. SetStatus(hts[x], s) \in Entry /\ SetStatus(hts[x], s).st >= hts[x].st
             /\ SetStatus(hts[x], s).st >= s
      BY <3>1, StatusUp, Zenon
    <3>4. hts[x].orded \in BOOLEAN
      BY <3>1 DEF Entry
    <3>5. SetStatus(hts[x], s).orded = hts[x].orded
      BY <3>2, <3>4, Zenon
    <3> QED
      BY <2>2, <3>1, <3>3, <3>5, Zenon
  <2>3. CASE r # x
    BY <1>1, <2>1, <2>3
  <2> QED
    BY <2>2, <2>3
<1>3. hts' = [r \in Refs |-> hts'[r]]
  OBVIOUS
<1> QED
  BY <1>2, <1>3 DEF EntriesUp

LEMMA NoneUp ==
    ASSUME hts \in [Refs -> Entry], UNCHANGED hts
    PROVE  EntriesUp
<1>1. ASSUME NEW r \in Refs
      PROVE  hts[r].st >= hts[r].st
  BY <1>1 DEF Entry, Statuses
<1> QED
  BY <1>1 DEF EntriesUp

LEMMA NoEntryAt == NoEntry \in Entry /\ ~NoEntry.orded
BY DEF NoEntry, Entry, Statuses, INIT, CANCEL

-----------------------------------------------------------------------------
(* What a step leaves alone stays as it is.                                *)
LEMMA Unchanged ==
    /\ Working /\ UNCHANGED worker => Working'
    /\ IsPlan(plan) /\ UNCHANGED plan => IsPlan(plan)'
    /\ Shape /\ UNCHANGED <<order, hts, mapOrder, cqOrder, cqAction, trader, spi, exch>> => Shape'
    /\ WaitsOnce /\ UNCHANGED <<cqOrder, order, exch, trader>> => WaitsOnce'
    /\ Reports /\ UNCHANGED <<rtn, answers, deals, exch>> => Reports'
    /\ Stamped /\ UNCHANGED <<hts, exch, spi, mapOrder>> => Stamped'
    /\ Cancelling /\ UNCHANGED <<cqAction, trader, exch, hts, mapOrder>> => Cancelling'
    /\ Marking /\ UNCHANGED <<worker, cqAction, trader, exch>> => Marking'
<1>1. Working /\ UNCHANGED worker => Working'
  BY DEF Working
<1>2. IsPlan(plan) /\ UNCHANGED plan => IsPlan(plan)'
  BY DEF IsPlan
<1>3. Shape /\ UNCHANGED <<order, hts, mapOrder, cqOrder, cqAction, trader, spi, exch>> => Shape'
  BY DEF Shape, IsSeq, IsSpi, Refs
<1>4. WaitsOnce /\ UNCHANGED <<cqOrder, order, exch, trader>> => WaitsOnce'
  BY DEF WaitsOnce, Refs
<1>5. Reports /\ UNCHANGED <<rtn, answers, deals, exch>> => Reports'
  BY DEF Reports, IsSeq, Elems, Told, Reached, Refs
<1>6. Stamped /\ UNCHANGED <<hts, exch, spi, mapOrder>> => Stamped'
  BY DEF Stamped, Reached, Refs
<1>7. Cancelling /\ UNCHANGED <<cqAction, trader, exch, hts, mapOrder>> => Cancelling'
  BY DEF Cancelling, Asked, Barred, Reached, Elems, Refs
<1>8. Marking /\ UNCHANGED <<worker, cqAction, trader, exch>> => Marking'
  BY DEF Marking, Asked, Reached, Elems, Refs
<1> QED
  BY <1>1, <1>2, <1>3, <1>4, <1>5, <1>6, <1>7, <1>8

-----------------------------------------------------------------------------
(* The orders that wait for the broker.                                    *)
LEMMA WaitsKept ==
    ASSUME Shape, WaitsOnce, UNCHANGED <<order, cqOrder>>,
           trader' = trader \/ trader'.pc \notin {"insert", "sent"},
           \A r \in Refs : exch[r].st = "none" => exch'[r].st = "none"
    PROVE  WaitsOnce'
<1>1. \A i \in DOMAIN cqOrder : cqOrder[i] \in Refs
  BY DEF Shape
<1>2. trader.pc \in {"insert", "sent"} => trader.ref \in Refs
  BY DEF Shape
<1> QED
  BY <1>1, <1>2 DEF WaitsOnce, Refs

(* The head of a queue, and what stays in it.                              *)
LEMMA HeadOf ==
    ASSUME NEW q \in Seq(Refs), q # <<>>, \A i, j \in DOMAIN q : q[i] = q[j] => i = j
    PROVE  /\ Head(q) \in Refs /\ 1 \in DOMAIN q /\ Head(q) = q[1]
           /\ Tail(q) \in Seq(Refs)
           /\ \A i \in DOMAIN Tail(q) :
                 i + 1 \in DOMAIN q /\ Tail(q)[i] = q[i + 1] /\ Tail(q)[i] # Head(q)
           /\ \A i, j \in DOMAIN Tail(q) : Tail(q)[i] = Tail(q)[j] => i = j
<1>1. /\ Head(q) = q[1] /\ 1 \in DOMAIN q /\ q[1] \in Refs
      /\ Tail(q) \in Seq(Refs) /\ Len(q) \in Nat /\ DOMAIN q = 1 .. Len(q)
      /\ DOMAIN Tail(q) = 1 .. Len(q) - 1
  OBVIOUS
<1>2. ASSUME NEW i \in DOMAIN Tail(q)
      PROVE  i \in Int /\ i + 1 \in DOMAIN q /\ Tail(q)[i] = q[i + 1] /\ i + 1 # 1
  BY <1>1, <1>2
<1> QED
  BY <1>1, <1>2

(* ThreadTrading takes the first of them.                                  *)
LEMMA WaitsTaken ==
    ASSUME Shape, WaitsOnce, cqOrder # <<>>, NEW r, r = Head(cqOrder)
    PROVE  /\ r \in Refs /\ Tail(cqOrder) \in Seq(Refs)
           /\ r <= Len(order) /\ exch[r].st = "none"
           /\ /\ cqOrder' = Tail(cqOrder) /\ UNCHANGED <<order, exch>>
              /\ trader'.pc = "orders" \/ (trader'.pc = "insert" /\ trader'.ref = r)
              => WaitsOnce'
<1>1. /\ r \in Refs /\ Tail(cqOrder) \in Seq(Refs)
      /\ 1 \in DOMAIN cqOrder /\ r = cqOrder[1]
      /\ \A i \in DOMAIN Tail(cqOrder) :
            i + 1 \in DOMAIN cqOrder /\ Tail(cqOrder)[i] = cqOrder[i + 1] /\ Tail(cqOrder)[i] # r
      /\ \A i, j \in DOMAIN Tail(cqOrder) : Tail(cqOrder)[i] = Tail(cqOrder)[j] => i = j
  <2>1. cqOrder \in Seq(Refs) /\ \A i, j \in DOMAIN cqOrder : cqOrder[i] = cqOrder[j] => i = j
    BY DEF Shape, WaitsOnce
  <2> QED
    BY <2>1, HeadOf
<1>2. r <= Len(order) /\ exch[r].st = "none"
  BY <1>1 DEF WaitsOnce
<1>3. ASSUME cqOrder' = Tail(cqOrder), UNCHANGED <<order, exch>>,
             trader'.pc = "orders" \/ (trader'.pc = "insert" /\ trader'.ref = r)
      PROVE  WaitsOnce'
  <2>1. ASSUME NEW i \in DOMAIN Tail(cqOrder)
        PROVE  /\ Tail(cqOrder)[i] <= Len(order) /\ exch[Tail(cqOrder)[i]].st = "none"
               /\ trader'.pc = "insert" => trader'.ref # Tail(cqOrder)[i]
    BY <1>1, <1>3, <2>1 DEF WaitsOnce
  <2>2. /\ trader'.pc = "insert" => trader'.ref <= Len(order) /\ exch[trader'.ref].st = "none"
        /\ trader'.pc # "sent"
    BY <1>2, <1>3
  <2> QED
    BY <1>1, <1>3, <2>1, <2>2 DEF WaitsOnce, Refs
<1> QED
  BY <1>1, <1>2, <1>3

(* The broker sees it.                                                     *)
LEMMA WaitsSent ==
    ASSUME Shape, WaitsOnce, UNCHANGED <<order, cqOrder>>, NEW r, r = trader.ref,
           trader.pc = "insert", trader'.pc = "sent", trader'.ref = r,
           ~trader'.ok => exch'[r].st = "none",
           \A x \in Refs : x # r => exch'[x] = exch[x]
    PROVE  WaitsOnce'
<1>1. r \in Refs /\ r <= Len(order) /\ Len(order) \in Int
  BY DEF Shape, WaitsOnce, IsSeq
<1>2. ASSUME NEW i \in DOMAIN cqOrder
      PROVE  cqOrder[i] <= Len(order) /\ exch'[cqOrder[i]].st = "none"
  <2>1. cqOrder[i] \in Refs /\ cqOrder[i] # r
    BY DEF WaitsOnce, Shape
  <2> QED
    BY <2>1 DEF WaitsOnce
<1>3. \A x \in Refs : x > Len(order) => exch'[x].st = "none"
  BY <1>1, CoreAssumption DEF WaitsOnce, Refs
<1>4. \A i, j \in DOMAIN cqOrder : cqOrder[i] = cqOrder[j] => i = j
  BY DEF WaitsOnce
<1> QED
  BY <1>1, <1>2, <1>3, <1>4 DEF WaitsOnce, Refs

(* A new order: the next reference, which nobody has seen.                 *)
LEMMA NewOrder ==
    ASSUME IsPlan(plan), Shape, WaitsOnce, Len(order) < plan.scn.orders, NEW x, order' = Append(order, x),
           cqOrder' = Append(cqOrder, Len(order')), UNCHANGED <<trader, exch>>
    PROVE  /\ Len(order') \in Refs
           /\ IsSeq(order)' /\ Len(order') <= MaxRef /\ cqOrder' \in Seq(Refs)
           /\ WaitsOnce'
<1>1. /\ IsSeq(order') /\ Len(order) \in Nat /\ Len(order') = Len(order) + 1
      /\ plan.scn.orders \in Int /\ plan.scn.orders <= MaxRef
  BY AppendSeq, OrdersBound, Zenon DEF Shape
<1> DEFINE new == Len(order')
<1>2. new \in Refs /\ new <= MaxRef /\ new > Len(order) /\ exch[new].st = "none"
  <2>1. new \in Int /\ new >= 1 /\ new <= MaxRef /\ new > Len(order)
    BY <1>1, CoreAssumption
  <2>2. new \in Refs
    BY <2>1, CoreAssumption DEF Refs
  <2> QED
    BY <2>1, <2>2 DEF WaitsOnce
<1>3. /\ cqOrder \in Seq(Refs) /\ Len(cqOrder) \in Nat
      /\ \A i \in DOMAIN cqOrder : cqOrder[i] \in Int /\ cqOrder[i] <= Len(order)
  BY CoreAssumption DEF Shape, WaitsOnce, Refs
<1>4. /\ cqOrder' \in Seq(Refs) /\ DOMAIN cqOrder' = 1 .. Len(cqOrder) + 1
      /\ cqOrder'[Len(cqOrder) + 1] = new
      /\ \A i \in DOMAIN cqOrder : cqOrder'[i] = cqOrder[i]
      /\ DOMAIN cqOrder = 1 .. Len(cqOrder)
  BY <1>2, <1>3
<1> HIDE DEF new
<1>5. ASSUME NEW i \in DOMAIN cqOrder'
      PROVE  \/ i \in DOMAIN cqOrder /\ cqOrder'[i] = cqOrder[i] /\ cqOrder[i] < new
             \/ i = Len(cqOrder) + 1 /\ cqOrder'[i] = new
  BY <1>1, <1>2, <1>3, <1>4, <1>5 DEF new
<1>6. \A i, j \in DOMAIN cqOrder' : cqOrder'[i] = cqOrder'[j] => i = j
  BY <1>2, <1>3, <1>5 DEF WaitsOnce
<1>7. trader.pc = "insert" => trader.ref \in Int /\ trader.ref <= Len(order)
  BY CoreAssumption DEF WaitsOnce, Shape, Refs
<1>8. ASSUME NEW i \in DOMAIN cqOrder'
      PROVE  /\ cqOrder'[i] <= Len(order') /\ exch[cqOrder'[i]].st = "none"
             /\ trader.pc = "insert" => trader.ref # cqOrder'[i]
  <2>1. CASE i \in DOMAIN cqOrder /\ cqOrder'[i] = cqOrder[i] /\ cqOrder[i] < new
    BY <1>1, <1>3, <2>1 DEF WaitsOnce, new
  <2>2. CASE cqOrder'[i] = new
    BY <1>1, <1>2, <1>7, <2>2 DEF new
  <2> QED
    BY <1>5, <2>1, <2>2
<1>9. WaitsOnce'
  <2>1. \A r \in Refs : r > Len(order') => exch[r].st = "none"
    BY <1>1, CoreAssumption DEF WaitsOnce, Refs
  <2>2. trader.pc = "insert" => trader.ref <= Len(order')
    BY <1>1, <1>7
  <2> QED
    BY <1>6, <1>8, <2>1, <2>2 DEF WaitsOnce, Refs
<1> QED
  BY <1>1, <1>2, <1>4, <1>9, Zenon DEF IsSeq, new

-----------------------------------------------------------------------------
(* A step of TargetWay that moves one worker, to "mark" only with an order *)
(* that may be cancelled.                                                  *)
Moves(t) ==
    /\ worker' = [worker EXCEPT ![t] = worker'[t]]
    /\ IsWorker(worker'[t])
    /\ worker'[t].pc = "mark" =>
          worker'[t].ref \in Refs /\ MayCancel(hts[worker'[t].ref])

LEMMA MovesTo ==
    ASSUME Working, NEW t \in Workers, NEW w, Goto(t, w), IsWorker(w),
           w.pc = "mark" => w.ref \in Refs /\ MayCancel(hts[w.ref])
    PROVE  Moves(t)
<1>1. worker'[t] = w
  BY DEF Working, Goto
<1>2. worker' = [worker EXCEPT ![t] = w]
  BY DEF Goto
<1> QED
  BY <1>1, <1>2, Zenon DEF Moves

LEMMA MovesWell ==
    ASSUME CoreInv, NEW t \in Workers, Moves(t)
    PROVE  Working' /\ (UNCHANGED <<cqAction, trader, exch>> => Marking')
<1>1. /\ worker' = [u \in Workers |-> worker'[u]]
      /\ \A u \in Workers : u # t => worker'[u] = worker[u]
  BY DEF CoreInv, Working, Moves
<1>2. \A u \in Workers : IsWorker(worker'[u])
  BY <1>1, Zenon DEF CoreInv, Working, Moves
<1>3. Working'
  BY <1>1, <1>2, Zenon DEF Working, IsWorker, Works, Refs
<1>4. ASSUME UNCHANGED <<cqAction, trader, exch>>, NEW u \in Workers, worker'[u].pc = "mark"
      PROVE  /\ worker'[u].ref \in Refs
             /\ ~Asked(worker'[u].ref) /\ Reached(worker'[u].ref)
  <2>1. CASE u # t
    BY <1>1, <1>4, <2>1 DEF CoreInv, Marking
  <2>2. CASE u = t
    <3> DEFINE r == worker'[t].ref
    <3>1. r \in Refs /\ hts[r].st < CCL_DOING /\ hts[r].orded
      BY <1>4, <2>2 DEF Moves, MayCancel
    <3>2. Reached(r)
      BY <3>1 DEF CoreInv, Stamped
    <3>3. hts[r].st \in Int
      BY <3>1 DEF CoreInv, Shape, Entry, Statuses
    <3>4. ~Barred(r)
      BY <3>1, <3>3 DEF Barred, CCL_DOING
    <3>5. ~Asked(r)
      BY <3>1, <3>4 DEF CoreInv, Cancelling
    <3> QED
      BY <2>2, <3>1, <3>2, <3>5
  <2> QED
    BY <2>1, <2>2
<1>5. ASSUME UNCHANGED <<cqAction, trader, exch>>
      PROVE  Marking'
  BY <1>4, <1>5 DEF Marking, Asked, Reached, Elems, Refs
<1> QED
  BY <1>3, <1>5

LEMMA BarredStays ==
    ASSUME Shape, EntriesUp, UNCHANGED <<mapOrder, exch>>
    PROVE  \A r \in Refs : Barred(r) => Barred(r)'
<1>1. ASSUME NEW r \in Refs, Barred(r)
      PROVE  Barred(r)'
  <2>1. hts[r].st \in Int /\ hts'[r].st \in Int
    BY <1>1 DEF Shape, EntriesUp, Entry, Statuses
  <2> QED
    BY <1>1, <2>1 DEF Barred, Reached, EntriesUp, CCL_DOING
<1> QED
  BY <1>1

(* A step that only moves a worker and lifts entries keeps the invariant.  *)
LEMMA MovesOnly ==
    ASSUME CoreInv, NEW t \in Workers, Moves(t), IsPlan(plan)', EntriesUp,
           UNCHANGED <<order, mapOrder, cqOrder, cqAction, trader, spi, exch, rtn,
                       answers, deals>>
    PROVE  CoreInv'
<1>1. Working' /\ Marking'
  BY MovesWell
<1>2. Shape' /\ WaitsOnce' /\ Reports'
  BY DEF CoreInv, Shape, WaitsOnce, Reports, Told, Reached, IsSeq, Elems, IsSpi, EntriesUp, Refs
<1>3. Stamped'
  BY DEF CoreInv, Stamped, Reached, EntriesUp, Refs
<1>5. Cancelling'
  BY BarredStays DEF CoreInv, Cancelling, Asked, Elems, Refs
<1> QED
  BY <1>1, <1>2, <1>3, <1>5 DEF CoreInv

-----------------------------------------------------------------------------
(* The workers' steps.                                                     *)
LEMMA GoIdle ==
    ASSUME Working, NEW t \in Workers, Goto(t, NoWork)
    PROVE  Moves(t)
<1>1. "idle" # "mark"
  OBVIOUS
<1> QED
  BY <1>1, NoWorkAt, MovesTo, Zenon

LEMMA GoPc ==
    ASSUME Working, NEW t \in Workers, NEW w, IsWorker(w), NEW p \in Places, p # "mark",
           Goto(t, [w EXCEPT !.pc = p])
    PROVE  Moves(t)
BY AtPc, MovesTo, Zenon

LEMMA GoList ==
    ASSUME Working, NEW t \in Workers, NEW w, IsWorker(w), NEW p \in Places, p # "mark",
           NEW S \in SUBSET Refs, NEW c \in Ctxs,
           Goto(t, [w EXCEPT !.pc = p, !.cset = S, !.ctx = c])
    PROVE  Moves(t)
BY AtList, MovesTo, Zenon

LEMMA GoTgt ==
    ASSUME Working, NEW t \in Workers, NEW w, IsWorker(w), NEW p \in Places, p # "mark",
           NEW x, Goto(t, [w EXCEPT !.pc = p, !.tgt = x])
    PROVE  Moves(t)
BY AtTgt, MovesTo, Zenon

LEMMA GoRef ==
    ASSUME Working, NEW t \in Workers, NEW w, IsWorker(w), NEW p \in Places, p # "mark",
           NEW r \in Int, Goto(t, [w EXCEPT !.pc = p, !.ref = r])
    PROVE  Moves(t)
BY AtRef, MovesTo, Zenon

LEMMA GoSide ==
    ASSUME Working, NEW t \in Workers, NEW w, IsWorker(w), NEW p \in Places, p # "mark",
           NEW d \in Sides, NEW x, NEW c \in Ctxs,
           Goto(t, [w EXCEPT !.pc = p, !.side = d, !.todo = x, !.ctx = c])
    PROVE  Moves(t)
<1>1. PICK T : w \in Works(T)
  BY DEF IsWorker
<1>2. PICK U : w \in Works(U) /\ x \in U
  <2>1. w \in Works(T \cup {x}) /\ x \in T \cup {x}
    BY <1>1 DEF Works
  <2> QED
    BY <2>1, Zenon
<1>3. PICK v : v = [w EXCEPT !.pc = p, !.side = d, !.todo = x, !.ctx = c]
  OBVIOUS
<1>4. v \in Works(U) /\ v.pc = p
  BY <1>2, <1>3 DEF Works
<1>5. IsWorker(v) /\ v.pc # "mark"
  BY <1>4, Zenon DEF IsWorker
<1> QED
  BY <1>3, <1>5, MovesTo, Zenon

LEMMA GoTodo ==
    ASSUME Working, NEW t \in Workers, NEW w, IsWorker(w), NEW p \in Places, p # "mark",
           NEW x, NEW r \in Int, Goto(t, [w EXCEPT !.pc = p, !.todo = x, !.ref = r])
    PROVE  Moves(t)
<1>1. PICK T : w \in Works(T)
  BY DEF IsWorker
<1>2. PICK U : w \in Works(U) /\ x \in U
  <2>1. w \in Works(T \cup {x}) /\ x \in T \cup {x}
    BY <1>1 DEF Works
  <2> QED
    BY <2>1, Zenon
<1>3. [w EXCEPT !.pc = p, !.todo = x, !.ref = r] \in Works(U) /\ [w EXCEPT !.pc = p, !.todo = x, !.ref = r].pc = p
  BY <1>2 DEF Works
<1>4. IsWorker([w EXCEPT !.pc = p, !.todo = x, !.ref = r]) /\ [w EXCEPT !.pc = p, !.todo = x, !.ref = r].pc # "mark"
  BY <1>3, Zenon DEF IsWorker
<1> QED
  BY <1>4, MovesTo, Zenon

LEMMA ScanMoves ==
    ASSUME Working, Shape, NEW t \in Workers, NEW base, IsWorker(base), NEW c \in Ctxs,
           NEW other, IsWorker(other), other.pc # "mark", Scan(t, base, c, other)
    PROVE  Moves(t)
<1>1. PICK E \in Expired :
          Goto(t, IF E = {} THEN other ELSE [base EXCEPT !.pc = "cancel", !.cset = E, !.ctx = c])
  BY Zenon DEF Scan
<1>2. E \in SUBSET Refs
  <2>1. Len(order) \in Int
    BY DEF Shape, IsSeq
  <2> QED
    BY <1>1, <2>1, CoreAssumption DEF Expired, Shape, Refs
<1>3. CASE E = {}
  <2>1. Goto(t, other)
    BY <1>1, <1>3, Zenon
  <2> QED
    BY <2>1, MovesTo, Zenon
<1>4. CASE E # {}
  <2>1. Goto(t, [base EXCEPT !.pc = "cancel", !.cset = E, !.ctx = c])
    BY <1>1, <1>4, Zenon
  <2>2. "cancel" \in Places /\ "cancel" # "mark"
    BY DEF Places
  <2> QED
    BY <1>2, <2>1, <2>2, GoList, Zenon
<1> QED
  BY <1>3, <1>4

LEMMA AfterCancelAt ==
    ASSUME NEW w, IsWorker(w)
    PROVE  IsWorker(AfterCancel(w)) /\ AfterCancel(w).pc # "mark"
<1>1. "cancel" \in Places /\ "pop" \in Places /\ 0 \in Int
      /\ "cancel" # "mark" /\ "pop" # "mark" /\ "idle" # "mark"
  BY DEF Places
<1>2. IsWorker([w EXCEPT !.pc = "cancel", !.ref = 0])
      /\ [w EXCEPT !.pc = "cancel", !.ref = 0].pc = "cancel"
  BY <1>1, AtRef, Zenon
<1>3. IsWorker([w EXCEPT !.pc = "pop", !.ref = 0])
      /\ [w EXCEPT !.pc = "pop", !.ref = 0].pc = "pop"
  BY <1>1, AtRef, Zenon
<1> QED
  BY <1>1, <1>2, <1>3, NoWorkAt, Zenon DEF AfterCancel

LEMMA CheckDoingMoves ==
    ASSUME Working, NEW t \in Workers, CheckDoing(t)
    PROVE  Moves(t)
<1> DEFINE p == IF Blockers = {} THEN "get" ELSE "scan"
<1>1. p \in Places /\ p # "mark"
  BY DEF Places
<1>2. Goto(t, [NoWork EXCEPT !.pc = p])
  BY Zenon DEF CheckDoing
<1> HIDE DEF p
<1> QED
  BY <1>1, <1>2, NoWorkAt, GoPc, Zenon

LEMMA GetTargetMoves ==
    ASSUME Working, IsPlan(plan), NEW t \in Workers, GetTarget(t)
    PROVE  Moves(t) /\ IsPlan(plan)'
<1>1. "ready" \in Places /\ "scan" \in Places /\ "ready" # "mark" /\ "scan" # "mark"
  BY DEF Places
<1>2. CASE /\ plan' = AfterGet
           /\ Goto(t, [NoWork EXCEPT !.pc = "ready", !.tgt = plan.queue[plan.due]])
  <2>1. Moves(t)
    BY <1>1, <1>2, NoWorkAt, GoTgt, Zenon
  <2>2. IsPlan(AfterGet)
    BY PlanAt, Zenon DEF AfterGet
  <2>3. IsPlan(plan')
    BY <1>2, <2>2, Zenon
  <2> QED
    BY <2>1, <2>3, Zenon DEF IsPlan
<1>3. CASE Goto(t, [NoWork EXCEPT !.pc = "scan"]) /\ UNCHANGED plan
  <2>1. Moves(t)
    BY <1>1, <1>3, NoWorkAt, GoPc, Zenon
  <2> QED
    BY <1>3, <2>1, Zenon DEF IsPlan
<1> QED
  BY <1>2, <1>3, Zenon DEF GetTarget

LEMMA CompareORTDMoves ==
    ASSUME Working, NEW t \in Workers, CompareORTD(t)
    PROVE  Moves(t)
<1>1. "compared" \in Places /\ "compared" # "mark" /\ IsWorker(worker[t])
  BY DEF Places, Working
<1>2. CASE Goto(t, NoWork)
  BY <1>2, GoIdle, Zenon
<1>3. CASE Goto(t, [worker[t] EXCEPT !.pc = "compared"])
  BY <1>1, <1>3, GoPc, Zenon
<1> QED
  BY <1>2, <1>3, Zenon DEF CompareORTD

LEMMA TargetWayMoves ==
    ASSUME Working, Shape, NEW t \in Workers, TargetWay(t)
    PROVE  Moves(t)
<1>1. /\ "pop" \in Places /\ "push" \in Places /\ "pop" # "mark" /\ "push" # "mark"
      /\ "idle" # "mark" /\ "turn" \in Ctxs /\ "cut" \in Ctxs /\ "none" \in Ctxs
      /\ "buy" \in Sides /\ "sell" \in Sides
      /\ IsWorker(worker[t])
  BY DEF Places, Ctxs, Sides, Working
<1>2. CASE Goto(t, NoWork)
  BY <1>2, GoIdle, Zenon
<1>3. CASE Goto(t, [worker[t] EXCEPT !.pc = "pop"])
  BY <1>1, <1>3, GoPc, Zenon
<1>4. CASE Scan(t, worker[t], "turn", NoWork)
  BY <1>1, <1>4, ScanMoves, NoWorkAt, Zenon
<1>5. ASSUME NEW x, NEW d \in Sides, NEW c \in Ctxs,
             Goto(t, [worker[t] EXCEPT !.pc = "push", !.side = d, !.todo = x, !.ctx = c])
      PROVE  Moves(t)
  BY <1>1, <1>5, GoSide, Zenon
<1>6. ASSUME NEW n, NEW m, Goto(t, [worker[t] EXCEPT !.pc = "push",
                                      !.side = IF n > 0 THEN "buy" ELSE "sell",
                                      !.todo = Split(m),
                                      !.ctx = IF m > Reach THEN "cut" ELSE "none"])
      PROVE  Moves(t)
  <2>1. (IF n > 0 THEN "buy" ELSE "sell") \in Sides /\ (IF m > Reach THEN "cut" ELSE "none") \in Ctxs
    BY <1>1, Zenon
  <2> QED
    BY <1>5, <1>6, <2>1, Zenon
<1> QED
  BY <1>2, <1>3, <1>4, <1>6, Zenon DEF TargetWay

LEMMA ScansMove ==
    ASSUME Working, Shape, NEW t \in Workers, ScanIdle(t) \/ ScanLate(t)
    PROVE  Moves(t)
<1>1. /\ "scan" \in Ctxs /\ "late" \in Ctxs /\ "pop" \in Places /\ "pop" # "mark"
      /\ "idle" # "mark" /\ IsWorker(worker[t])
  BY DEF Places, Ctxs, Working
<1>2. CASE ScanIdle(t)
  <2>1. Scan(t, NoWork, "scan", NoWork)
    BY <1>2, Zenon DEF ScanIdle
  <2> QED
    BY <1>1, <2>1, ScanMoves, NoWorkAt, Zenon
<1>3. CASE ScanLate(t)
  <2>1. Scan(t, worker[t], "late", [worker[t] EXCEPT !.pc = "pop"])
    BY <1>3, Zenon DEF ScanLate
  <2>2. IsWorker([worker[t] EXCEPT !.pc = "pop"]) /\ [worker[t] EXCEPT !.pc = "pop"].pc = "pop"
    BY <1>1, AtPc, Zenon
  <2> QED
    BY <1>1, <2>1, <2>2, ScanMoves, Zenon
<1> QED
  BY <1>2, <1>3

LEMMA CancelCheckMoves ==
    ASSUME Working, NEW t \in Workers, CancelCheck(t)
    PROVE  Moves(t)
<1> DEFINE rest(r) == [worker[t] EXCEPT !.cset = worker[t].cset \ {r}]
<1>1. PICK r \in worker[t].cset :
          \/ MayCancel(hts[r]) /\ Goto(t, [rest(r) EXCEPT !.pc = "mark", !.ref = r])
          \/ Goto(t, AfterCancel(rest(r)))
  BY Zenon DEF CancelCheck
<1>2. worker[t].cset \in SUBSET Refs /\ IsWorker(worker[t])
  BY DEF Working, IsWorker, Works
<1>3. IsWorker(rest(r))
  <2>1. worker[t].cset \ {r} \in SUBSET Refs
    BY <1>2
  <2> QED
    BY <1>2, <2>1, AtCset, Zenon
<1>4. r \in Refs /\ r \in Int
  BY <1>1, <1>2, CoreAssumption DEF Refs
<1> HIDE DEF rest
<1>5. CASE MayCancel(hts[r]) /\ Goto(t, [rest(r) EXCEPT !.pc = "mark", !.ref = r])
  <2>1. "mark" \in Places
    BY DEF Places
  <2>2. /\ IsWorker([rest(r) EXCEPT !.pc = "mark", !.ref = r])
    BY <1>3, <1>4, <2>1, AtRef, Zenon
  <2>3. [rest(r) EXCEPT !.pc = "mark", !.ref = r].ref = r
    BY <1>3, <1>4, <2>1, AtRefIs, Zenon
  <2> QED
    BY <1>4, <1>5, <2>2, <2>3, MovesTo, Zenon
<1>6. CASE Goto(t, AfterCancel(rest(r)))
  BY <1>3, <1>6, AfterCancelAt, MovesTo, Zenon
<1> QED
  BY <1>1, <1>5, <1>6

LEMMA PopTargetMoves ==
    ASSUME Working, IsPlan(plan), NEW t \in Workers, PopTarget(t)
    PROVE  Moves(t) /\ IsPlan(plan)'
<1>1. Moves(t)
  BY GoIdle, Zenon DEF PopTarget
<1>2. IsPlan(AfterPop)
  BY PlanAt, Zenon DEF AfterPop
<1>3. plan' = AfterPop
  BY DEF PopTarget
<1>4. IsPlan(plan')
  BY <1>2, <1>3, Zenon
<1> QED
  BY <1>1, <1>4, Zenon DEF IsPlan

(* The steps of a worker that change nobody else's state.                  *)
LEMMA WorkerSteps ==
    ASSUME CoreInv, NEW t \in Workers,
           \/ CheckDoing(t) \/ GetTarget(t) \/ ScanIdle(t) \/ CompareORTD(t)
           \/ TargetWay(t) \/ ScanLate(t) \/ CancelCheck(t) \/ PopTarget(t)
    PROVE  CoreInv'
<1>1. Working /\ IsPlan(plan) /\ Shape
  BY DEF CoreInv
<1>2. Moves(t)
  BY <1>1, CheckDoingMoves, GetTargetMoves, ScansMove, CompareORTDMoves, TargetWayMoves,
     CancelCheckMoves, PopTargetMoves, Zenon
<1>3. IsPlan(plan)'
  <2>1. CASE GetTarget(t) \/ PopTarget(t)
    BY <1>1, <2>1, GetTargetMoves, PopTargetMoves, Zenon
  <2>2. CASE UNCHANGED plan
    BY <1>1, <2>2 DEF IsPlan
  <2> QED
    BY <2>1, <2>2
       DEF CheckDoing, ScanIdle, CompareORTD, TargetWay, ScanLate, CancelCheck
<1>4. UNCHANGED <<queues, hts, books, trader, spi, ext>>
  BY DEF CheckDoing, GetTarget, ScanIdle, CompareORTD, TargetWay, ScanLate, CancelCheck, PopTarget
<1>5. EntriesUp
  BY <1>1, <1>4, NoneUp, Zenon DEF Shape
<1> QED
  BY <1>2, <1>3, <1>4, <1>5, MovesOnly DEF queues, books, ext

LEMMA StampNewStep ==
    ASSUME CoreInv, NEW t \in Workers, StampNew(t)
    PROVE  CoreInv'
<1>1. Working /\ IsPlan(plan) /\ IsWorker(worker[t]) /\ hts \in [Refs -> Entry]
  BY DEF CoreInv, Working, Shape
<1>2. Moves(t)
  <2>1. "late" \in Places /\ "push" \in Places /\ "late" # "mark" /\ "push" # "mark" /\ 0 \in Int
    BY DEF Places
  <2>2. \/ Goto(t, [worker[t] EXCEPT !.pc = "push", !.ref = 0])
        \/ Goto(t, [worker[t] EXCEPT !.pc = "late", !.ref = 0])
        \/ Goto(t, NoWork)
    BY Zenon DEF StampNew, AfterStamp
  <2> QED
    BY <1>1, <2>1, <2>2, GoRef, GoIdle, Zenon
<1>3. EntriesUp
  <2>1. ORD_NEW \in Statuses /\ ORD_NEW # ORDED
    BY DEF ORD_NEW, ORDED, Statuses, INIT, CANCEL
  <2>2. hts' = [hts EXCEPT ![worker[t].ref] = SetStatus(@, ORD_NEW)]
    BY DEF StampNew
  <2> QED
    BY <1>1, <2>1, <2>2, StampUp, Zenon
<1>4. UNCHANGED <<plan, queues, books, trader, spi, ext>>
  BY DEF StampNew
<1>5. IsPlan(plan)'
  BY <1>1, <1>4 DEF IsPlan
<1> QED
  BY <1>2, <1>3, <1>4, <1>5, MovesOnly DEF queues, books, ext

LEMMA PushOrderStep ==
    ASSUME CoreInv, NEW t \in Workers, PushOrder(t)
    PROVE  CoreInv'
<1>1. /\ Working /\ IsPlan(plan) /\ IsWorker(worker[t])
      /\ "stamp" \in Places /\ "stamp" # "mark"
  BY DEF CoreInv, Working, Places
<1>2. PICK x : order' = Append(order, x)
  BY Zenon DEF PushOrder
<1>3. /\ Len(order) < plan.scn.orders /\ cqOrder' = Append(cqOrder, Len(order'))
      /\ UNCHANGED <<plan, hts, books, cqAction, trader, spi, ext>>
  BY DEF PushOrder
<1>4. /\ Len(order') \in Refs /\ IsSeq(order)' /\ Len(order') <= MaxRef
      /\ cqOrder' \in Seq(Refs) /\ WaitsOnce'
  BY <1>2, <1>3, NewOrder DEF CoreInv, ext
<1>5. Moves(t)
  <2>1. Len(order') \in Int
    BY <1>4, CoreAssumption DEF Refs
  <2>2. Goto(t, [worker[t] EXCEPT !.pc = "stamp", !.todo = Tail(worker[t].todo),
                                  !.ref = Len(order')])
    BY Zenon DEF PushOrder
  <2> QED
    BY <1>1, <2>1, <2>2, GoTodo, Zenon
<1>6. Working' /\ Marking'
  BY <1>3, <1>5, MovesWell DEF ext
<1>7. Shape'
  BY <1>3, <1>4 DEF CoreInv, Shape, IsSeq, IsSpi, Refs, books, ext
<1>8. IsPlan(plan)'
  BY <1>1, <1>3 DEF IsPlan
<1>9. Reports' /\ Stamped' /\ Cancelling'
  BY <1>3, Unchanged DEF CoreInv, books, ext
<1> QED
  BY <1>4, <1>6, <1>7, <1>8, <1>9 DEF CoreInv

(* ThreadAlgo is the only worker: nobody else is about to cancel.          *)
LEMMA CancelMarkStep ==
    ASSUME CoreInv, Workers \subseteq {"algo"}, NEW t \in Workers, CancelMark(t)
    PROVE  CoreInv'
<1>0. PICK r : r = worker[t].ref
  OBVIOUS
<1>1. /\ Working /\ IsPlan(plan) /\ IsWorker(worker[t]) /\ hts \in [Refs -> Entry]
      /\ r \in Refs /\ ~Asked(r) /\ Reached(r)
      /\ cqAction \in Seq(Refs)
  BY <1>0 DEF CoreInv, Working, Shape, Marking, CancelMark
<1>2. /\ hts' = [hts EXCEPT ![r] = SetStatus(@, CCL_DOING)]
      /\ cqAction' = Append(cqAction, r)
      /\ Goto(t, AfterCancel(worker[t]))
      /\ UNCHANGED <<plan, order, cqOrder, books, trader, spi, ext>>
  BY <1>0 DEF CancelMark
<1>3. EntriesUp /\ hts'[r].st >= CCL_DOING
  <2>1. CCL_DOING \in Statuses /\ CCL_DOING # ORDED
    BY DEF CCL_DOING, ORDED, Statuses, INIT, CANCEL
  <2> QED
    BY <1>1, <1>2, <2>1, StampUp, Zenon
<1>4. Working' /\ Marking'
  <2>1. IsWorker(AfterCancel(worker[t])) /\ AfterCancel(worker[t]).pc # "mark"
    BY <1>1, AfterCancelAt, Zenon
  <2>2. Moves(t)
    BY <1>1, <1>2, <2>1, MovesTo, Zenon
  <2>3. worker'[t].pc # "mark"
    BY <1>1, <1>2, <2>1 DEF Goto, Working
  <2>4. \A u \in Workers : u = t
    OBVIOUS
  <2> QED
    BY <2>2, <2>3, <2>4, MovesWell DEF Marking
<1>5. /\ cqAction' \in Seq(Refs) /\ DOMAIN cqAction' = 1 .. Len(cqAction) + 1
      /\ cqAction'[Len(cqAction) + 1] = r
      /\ \A i \in DOMAIN cqAction : cqAction'[i] = cqAction[i] /\ cqAction[i] # r
      /\ DOMAIN cqAction = 1 .. Len(cqAction) /\ Len(cqAction) \in Nat
  BY <1>1, <1>2 DEF Asked, Elems
<1>6. ASSUME NEW i \in DOMAIN cqAction'
      PROVE  \/ i \in DOMAIN cqAction /\ cqAction'[i] = cqAction[i] /\ cqAction[i] # r
             \/ i = Len(cqAction) + 1 /\ cqAction'[i] = r
  BY <1>5, <1>6
<1>7. Shape' /\ WaitsOnce' /\ Reports'
  BY <1>2, <1>3, <1>5 DEF CoreInv, Shape, WaitsOnce, Reports, Told, Reached, IsSeq, Elems,
              IsSpi, EntriesUp, Refs, books, ext
<1>8. IsPlan(plan)' /\ Stamped'
  BY <1>2, <1>3 DEF CoreInv, IsPlan, Stamped, Reached, EntriesUp, Refs, books, ext
<1>9. Cancelling'
  <2>1. ASSUME NEW x \in Refs, Asked(x)'
        PROVE  Asked(x) \/ x = r
    BY <1>2, <1>6, <2>1 DEF Asked, Elems, ext
  <2>2. Barred(r)'
    BY <1>1, <1>2, <1>3 DEF Barred, Reached, ext
  <2>3. \A x \in Refs : Asked(x)' => Barred(x)'
    BY <1>2, <1>3, <2>1, <2>2, BarredStays DEF CoreInv, Cancelling, books, ext
  <2>4. \A i, j \in DOMAIN cqAction' : cqAction'[i] = cqAction'[j] => i = j
    BY <1>6 DEF CoreInv, Cancelling
  <2>5. ASSUME NEW i \in DOMAIN cqAction'
        PROVE  /\ ~exch[cqAction'[i]].cxl
               /\ trader.pc \in {"action", "acted"} => trader.ref # cqAction'[i]
    BY <1>1, <1>6, <2>5 DEF CoreInv, Cancelling, Asked
  <2> QED
    BY <1>2, <2>3, <2>4, <2>5 DEF Cancelling, Refs, ext
<1> QED
  BY <1>4, <1>7, <1>8, <1>9 DEF CoreInv

LEMMA ProceedStep ==
    ASSUME CoreInv, Workers \subseteq {"algo"}, NEW t \in Workers, CheckDoing(t) \/ Proceed(t)
    PROVE  CoreInv'
BY WorkerSteps, StampNewStep, PushOrderStep, CancelMarkStep, Zenon DEF Proceed

-----------------------------------------------------------------------------
(* What every step has to say of the entries: ORDED is of orders that were *)
(* accepted, and what bars a cancel stays.                                 *)
Safe ==
    /\ hts' \in [Refs -> Entry]
    /\ \A x \in Refs : hts'[x].orded => Reached(x)'
    /\ \A x \in Refs : Barred(x) => Barred(x)'

LEMMA UpSafe ==
    ASSUME CoreInv, EntriesUp, UNCHANGED <<mapOrder, exch>>
    PROVE  Safe
<1>1. \A x \in Refs : Barred(x) => Barred(x)'
  BY BarredStays DEF CoreInv
<1>2. \A x \in Refs : hts'[x].orded => Reached(x)'
  BY DEF CoreInv, Stamped, Reached, EntriesUp
<1> QED
  BY <1>1, <1>2 DEF Safe, EntriesUp

LEMMA KeptSafe ==
    ASSUME CoreInv, UNCHANGED <<hts, mapOrder>>, \A x \in Refs : Reached(x) => Reached(x)'
    PROVE  Safe
BY DEF CoreInv, Shape, Stamped, Safe, Barred, Refs

LEMMA GoneSafe ==
    ASSUME CoreInv, NEW r \in Refs, hts' = [hts EXCEPT ![r] = NoEntry],
           ~Reached(r) \/ mapOrder[r].st \in Final, UNCHANGED <<mapOrder, exch>>
    PROVE  Safe
<1>1. /\ hts \in [Refs -> Entry] /\ NoEntry \in Entry /\ ~NoEntry.orded
  BY NoEntryAt DEF CoreInv, Shape
<1>2. /\ hts' \in [Refs -> Entry] /\ ~hts'[r].orded
      /\ \A x \in Refs : x # r => hts'[x] = hts[x]
  BY <1>1
<1>3. \A x \in Refs : hts'[x].orded => Reached(x)'
  BY <1>2 DEF CoreInv, Stamped, Reached
<1>4. ASSUME NEW x \in Refs, Barred(x)
      PROVE  Barred(x)'
  <2>1. CASE x = r
    BY <1>2, <1>4, <2>1 DEF Barred, Reached
  <2>2. CASE x # r
    BY <1>2, <1>4, <2>2 DEF Barred, Reached
  <2> QED
    BY <2>1, <2>2
<1> QED
  BY <1>2, <1>3, <1>4 DEF Safe

(* Nothing more is asked for: who is asked for is barred, and who is about *)
(* to cancel is the first.                                                 *)
LEMMA NoMoreAsked ==
    ASSUME CoreInv, Safe, \A x \in Refs : Asked(x)' => Asked(x)
    PROVE  /\ \A x \in Refs : Asked(x)' => Barred(x)'
           /\ UNCHANGED worker /\ (\A x \in Refs : Reached(x) => Reached(x)') => Marking'
<1>1. \A x \in Refs : Asked(x)' => Barred(x)'
  BY DEF CoreInv, Cancelling, Safe
<1>2. ASSUME UNCHANGED worker, \A x \in Refs : Reached(x) => Reached(x)',
             NEW t \in Workers, worker'[t].pc = "mark", NEW x, x = worker'[t].ref
      PROVE  x \in Refs /\ ~Asked(x)' /\ Reached(x)'
  <2>1. x \in Refs /\ ~Asked(x) /\ Reached(x)
    BY <1>2 DEF CoreInv, Marking
  <2> QED
    BY <1>2, <2>1
<1>3. UNCHANGED worker /\ (\A x \in Refs : Reached(x) => Reached(x)') => Marking'
  BY <1>2 DEF Marking, Refs, Asked, Reached, Elems
<1> QED
  BY <1>1, <1>3

(* Reports sent and taken.                                                 *)
LEMMA ReportsAfter ==
    ASSUME CoreInv, IsSeq(rtn'), IsSeq(answers'), IsSeq(deals'),
           \A x \in Refs : Reached(x) => Reached(x)',
           \A x \in Refs : exch[x].st = "rejected" => exch'[x].st = "rejected",
           \A m \in Elems(rtn') : m \in Elems(rtn) \/ Told(m)',
           \A m \in Elems(answers') : m \in Elems(answers) \/ Told(m)',
           \A m \in Elems(deals') : m \in Elems(deals) \/ m.kind = "trade"
    PROVE  Reports'
<1>1. ASSUME NEW m, Told(m)
      PROVE  Told(m)'
  BY <1>1 DEF Told, Refs
<1>2. \A m \in Elems(rtn') \cup Elems(answers') : Told(m)'
  BY <1>1 DEF CoreInv, Reports
<1>3. \A m \in Elems(deals') : m.kind = "trade"
  BY DEF CoreInv, Reports
<1> QED
  BY <1>2, <1>3 DEF Reports, IsSeq, Elems, Told, Reached, Refs

LEMMA EmitSeq ==
    ASSUME IsSeq(rtn), NEW ms, IsSeq(ms), Emit(ms)
    PROVE  IsSeq(rtn') /\ \A m \in Elems(rtn') : m \in Elems(rtn) \/ m \in Elems(ms)
<1>1. CASE link
  <2>1. rtn' = rtn \o ms
    BY <1>1 DEF Emit
  <2> QED
    BY <2>1, JoinSeq, Zenon
<1>2. CASE ~link
  BY <1>2 DEF Emit
<1> QED
  BY <1>1, <1>2

-----------------------------------------------------------------------------
(* ThreadTrading.                                                          *)
LEMMA TakeOrderStep ==
    ASSUME CoreInv, TakeOrder
    PROVE  CoreInv'
<1>1. PICK r : r = Head(cqOrder)
  OBVIOUS
<1>2. /\ r \in Refs /\ cqOrder' = Tail(cqOrder) /\ Tail(cqOrder) \in Seq(Refs)
      /\ exch[r].st = "none"
  BY <1>1, WaitsTaken DEF CoreInv, TakeOrder
<1>3. /\ trader \in Traders /\ trader.pc \in {"orders", "actions"}
      /\ UNCHANGED <<plan, order, cqAction, books, worker, spi, ext>>
  BY DEF CoreInv, Shape, TakeOrder
<1>4. /\ trader' \in Traders
      /\ trader'.pc = "orders" \/ (trader'.pc = "insert" /\ trader'.ref = r)
  <2>1. CASE trader' = [trader EXCEPT !.pc = "orders"]
    BY <1>3, <2>1 DEF Traders
  <2>2. CASE trader' = [trader EXCEPT !.pc = "insert", !.ref = r]
    BY <1>2, <1>3, <2>2 DEF Traders
  <2> QED
    BY <1>1, <2>1, <2>2, Zenon DEF TakeOrder
<1>5. Safe
  <2>1. CASE hts' = [hts EXCEPT ![r] = NoEntry]
    BY <1>2, <1>3, <2>1, GoneSafe DEF Reached, books, ext
  <2>2. CASE hts' = [hts EXCEPT ![r] = SetStatus(@, ORD_DOING)]
    <3>1. ORD_DOING \in Statuses /\ ORD_DOING # ORDED /\ hts \in [Refs -> Entry]
      BY DEF ORD_DOING, ORDED, Statuses, INIT, CANCEL, CoreInv, Shape
    <3>2. EntriesUp
      BY <2>2, <3>1, StampUp, Zenon
    <3> QED
      BY <1>3, <3>2, UpSafe DEF books, ext
  <2> QED
    BY <1>1, <2>1, <2>2, Zenon DEF TakeOrder
<1>6. \A x \in Refs : Asked(x)' => Asked(x)
  BY <1>3, <1>4 DEF Asked, Elems, ext
<1>7. \A x \in Refs : Reached(x) => Reached(x)'
  BY <1>3 DEF Reached, ext
<1>8. Marking' /\ \A x \in Refs : Asked(x)' => Barred(x)'
  BY <1>3, <1>5, <1>6, <1>7, NoMoreAsked
<1>9. Shape'
  BY <1>2, <1>3, <1>4, <1>5
     DEF CoreInv, Shape, IsSeq, IsSpi, Refs, Safe, books, ext
<1>10. WaitsOnce'
  <2>1. cqOrder # <<>> /\ cqOrder' = Tail(cqOrder) /\ UNCHANGED <<order, exch>>
    BY <1>3 DEF TakeOrder, ext
  <2> QED
    BY <1>1, <1>4, <2>1, WaitsTaken DEF CoreInv
<1>11. Reports' /\ Working' /\ IsPlan(plan)'
  BY <1>3, Unchanged DEF CoreInv, ext
<1>12. Stamped'
  BY <1>3, <1>5 DEF CoreInv, Stamped, Safe, Reached, Refs, books, ext
<1>13. Cancelling'
  BY <1>3, <1>4, <1>8 DEF CoreInv, Cancelling, Refs, ext
<1> QED
  BY <1>8, <1>9, <1>10, <1>11, <1>12, <1>13 DEF CoreInv

LEMMA OrderSentStep ==
    ASSUME CoreInv, OrderSent
    PROVE  CoreInv'
<1>1. /\ trader \in Traders /\ trader.pc = "sent" /\ trader.ref \in Refs
      /\ ~trader.ok => exch[trader.ref].st = "none"
      /\ UNCHANGED <<plan, queues, books, worker, spi, ext>>
      /\ trader' \in Traders /\ trader'.pc = "orders"
  <2>1. trader' = [pc |-> "orders", ref |-> 0, ok |-> TRUE]
    BY DEF OrderSent
  <2> QED
    BY <2>1 DEF CoreInv, Shape, WaitsOnce, OrderSent, Traders
<1>2. Safe
  <2>1. CASE ~trader.ok
    <3>1. hts' = [hts EXCEPT ![trader.ref] = NoEntry]
      BY <2>1, Zenon DEF OrderSent
    <3>2. ~Reached(trader.ref)
      BY <1>1, <2>1 DEF Reached
    <3> QED
      BY <1>1, <3>1, <3>2, GoneSafe DEF books, ext
  <2>2. CASE trader.ok
    <3>1. hts' = [hts EXCEPT ![trader.ref] = SetStatus(@, ORD_DONE)]
      BY <2>2, Zenon DEF OrderSent, StampDone
    <3>2. ORD_DONE \in Statuses /\ ORD_DONE # ORDED /\ hts \in [Refs -> Entry]
      BY DEF ORD_DONE, ORDED, Statuses, INIT, CANCEL, CoreInv, Shape
    <3>3. EntriesUp
      BY <3>1, <3>2, StampUp, Zenon
    <3> QED
      BY <1>1, <3>3, UpSafe DEF books, ext
  <2> QED
    BY <2>1, <2>2
<1>3. \A x \in Refs : (Asked(x)' => Asked(x)) /\ (Reached(x) => Reached(x)')
  BY <1>1 DEF Asked, Reached, Elems, queues, ext
<1>4. Marking' /\ \A x \in Refs : Asked(x)' => Barred(x)'
  BY <1>1, <1>2, <1>3, NoMoreAsked
<1>5. Shape'
  BY <1>1, <1>2 DEF CoreInv, Shape, IsSeq, IsSpi, Refs, Safe, queues, books, ext
<1>6. WaitsOnce'
  BY <1>1, WaitsKept DEF CoreInv, queues, ext
<1>7. Reports' /\ Working' /\ IsPlan(plan)'
  BY <1>1, Unchanged DEF CoreInv, ext
<1>8. Stamped'
  BY <1>1, <1>2 DEF CoreInv, Stamped, Safe, Reached, Refs, books, ext
<1>9. Cancelling'
  BY <1>1, <1>4 DEF CoreInv, Cancelling, Refs, queues, ext
<1> QED
  BY <1>4, <1>5, <1>6, <1>7, <1>8, <1>9 DEF CoreInv


(* The broker takes an order it has not seen.                              *)
LEMMA TakenSeq ==
    ASSUME CoreInv, NEW r \in Refs, exch[r].st = "none", Accept(r) \/ Reject(r)
    PROVE  /\ exch' \in [Refs -> OrderStates]
           /\ exch'[r].st \in {"live", "rejected"} /\ exch'[r].cxl = exch[r].cxl
           /\ \A x \in Refs : x # r => exch'[x] = exch[x]
           /\ IsSeq(rtn') /\ \A m \in Elems(rtn') : m \in Elems(rtn) \/ Told(m)'
<1>1. exch \in [Refs -> OrderStates] /\ IsSeq(rtn)
  BY DEF CoreInv, Shape, Reports
<1>2. CASE Accept(r)
  <2>1. PICK a, b : /\ a.kind = "order" /\ a.ref = r /\ b.kind = "order" /\ b.ref = r
                    /\ Emit(<<a, b>>)
    <3>1. ASSUME NEW st, NEW n
          PROVE  OrderMsg(r, st, n).kind = "order" /\ OrderMsg(r, st, n).ref = r
      BY DEF OrderMsg
    <3> QED
      BY <1>2, <3>1, Zenon DEF Accept
  <2>2. exch' = [exch EXCEPT ![r].st = "live"]
    BY <1>2 DEF Accept
  <2>3. /\ exch' \in [Refs -> OrderStates]
        /\ exch'[r].st = "live" /\ exch'[r].cxl = exch[r].cxl
        /\ \A x \in Refs : x # r => exch'[x] = exch[x]
    BY <1>1, <2>2 DEF OrderStates
  <2>4. Told(a)' /\ Told(b)'
    BY <2>1, <2>3 DEF Told, Reached, Refs
  <2>5. IsSeq(<<a, b>>) /\ Elems(<<a, b>>) = {a, b}
    BY PairSeq, Zenon
  <2>6. IsSeq(rtn') /\ \A m \in Elems(rtn') : m \in Elems(rtn) \/ m \in {a, b}
    BY <1>1, <2>1, <2>5, EmitSeq, Zenon
  <2>7. ASSUME NEW m \in Elems(rtn') PROVE m \in Elems(rtn) \/ Told(m)'
    <3>1. CASE m = a
      BY <2>4, <3>1
    <3>2. CASE m = b
      BY <2>4, <3>2
    <3> QED
      BY <2>6, <3>1, <3>2, Zenon
  <2> QED
    BY <2>3, <2>6, <2>7
<1>3. CASE Reject(r)
  <2>1. PICK a : a.kind = "error" /\ a.ref = r /\ Emit(<<a>>)
    <3>1. ErrorMsg(r).kind = "error" /\ ErrorMsg(r).ref = r
      BY DEF ErrorMsg
    <3> QED
      BY <1>3, <3>1, Zenon DEF Reject
  <2>2. exch' = [exch EXCEPT ![r].st = "rejected"]
    BY <1>3 DEF Reject
  <2>3. /\ exch' \in [Refs -> OrderStates]
        /\ exch'[r].st = "rejected" /\ exch'[r].cxl = exch[r].cxl
        /\ \A x \in Refs : x # r => exch'[x] = exch[x]
    BY <1>1, <2>2 DEF OrderStates
  <2>4. Told(a)'
    BY <2>1, <2>3 DEF Told, Refs
  <2>5. IsSeq(<<a>>) /\ Elems(<<a>>) = {a}
    BY PairSeq, Zenon
  <2>6. IsSeq(rtn') /\ \A m \in Elems(rtn') : m \in Elems(rtn) \/ m \in {a}
    BY <1>1, <2>1, <2>5, EmitSeq, Zenon
  <2>7. ASSUME NEW m \in Elems(rtn') PROVE m \in Elems(rtn) \/ Told(m)'
    <3>1. CASE m = a
      BY <2>4, <3>1
    <3> QED
      BY <2>6, <3>1, Zenon
  <2> QED
    BY <2>3, <2>6, <2>7
<1> QED
  BY <1>2, <1>3

LEMMA ReqOrderInsertStep ==
    ASSUME CoreInv, ReqOrderInsert
    PROVE  CoreInv'
<1>0. PICK r : r = trader.ref
  OBVIOUS
<1>1. /\ trader \in Traders /\ trader.pc = "insert" /\ r \in Refs
      /\ r <= Len(order) /\ exch[r].st = "none"
      /\ UNCHANGED <<plan, queues, hts, books, worker, spi, deals, answers>>
  BY <1>0 DEF CoreInv, Shape, WaitsOnce, ReqOrderInsert
<1>2. /\ trader' \in Traders /\ trader'.pc = "sent" /\ trader'.ref = r
      /\ exch' \in [Refs -> OrderStates]
      /\ exch'[r].cxl = exch[r].cxl
      /\ ~trader'.ok => exch'[r].st = "none"
      /\ exch'[r].st \in {"none", "live", "rejected"}
      /\ \A x \in Refs : x # r => exch'[x] = exch[x]
      /\ IsSeq(rtn') /\ \A m \in Elems(rtn') : m \in Elems(rtn) \/ Told(m)'
  <2>1. CASE /\ trader' = [trader EXCEPT !.pc = "sent", !.ok = FALSE]
             /\ UNCHANGED <<exch, rtn>>
    BY <1>0, <1>1, <2>1 DEF CoreInv, Shape, Reports, Traders
  <2>2. CASE /\ trader' = [trader EXCEPT !.pc = "sent", !.ok = TRUE]
             /\ Accept(r) \/ Reject(r)
    <3>1. trader' \in Traders /\ trader'.pc = "sent" /\ trader'.ref = r /\ trader'.ok
      BY <1>0, <1>1, <2>2 DEF Traders
    <3>2. /\ exch' \in [Refs -> OrderStates]
          /\ exch'[r].st \in {"live", "rejected"} /\ exch'[r].cxl = exch[r].cxl
          /\ \A x \in Refs : x # r => exch'[x] = exch[x]
          /\ IsSeq(rtn') /\ \A m \in Elems(rtn') : m \in Elems(rtn) \/ Told(m)'
      BY <1>1, <2>2, TakenSeq, Zenon
    <3> QED
      BY <3>1, <3>2
  <2> QED
    BY <1>0, <2>1, <2>2, Zenon DEF ReqOrderInsert
<1>3. \A x \in Refs : Reached(x) => Reached(x)'
  BY <1>1, <1>2 DEF Reached
<1>4. Safe
  BY <1>1, <1>3, KeptSafe DEF books
<1>5. \A x \in Refs : Asked(x)' => Asked(x)
  BY <1>1, <1>2 DEF Asked, Elems, queues
<1>6. Marking' /\ \A x \in Refs : Asked(x)' => Barred(x)'
  BY <1>1, <1>3, <1>4, <1>5, NoMoreAsked
<1>7. Shape'
  BY <1>1, <1>2 DEF CoreInv, Shape, IsSeq, IsSpi, Refs, queues, books
<1>8. WaitsOnce'
  <2>1. UNCHANGED <<order, cqOrder>>
    BY <1>1 DEF queues
  <2> QED
    BY <1>0, <1>1, <1>2, <2>1, WaitsSent DEF CoreInv
<1>9. Reports'
  <2>1. \A x \in Refs : exch[x].st = "rejected" => exch'[x].st = "rejected"
    BY <1>1, <1>2
  <2>2. UNCHANGED <<answers, deals>> /\ IsSeq(answers') /\ IsSeq(deals')
    BY <1>1 DEF CoreInv, Reports
  <2> QED
    BY <1>2, <1>3, <2>1, <2>2, ReportsAfter, Zenon
<1>10. Working' /\ IsPlan(plan)'
  BY <1>1, Unchanged DEF CoreInv
<1>11. Stamped'
  BY <1>1, <1>4 DEF CoreInv, Stamped, Safe, Reached, Refs, books
<1>12. Cancelling'
  <2>1. ASSUME NEW i \in DOMAIN cqAction
        PROVE  ~exch'[cqAction[i]].cxl
    <3>1. cqAction[i] \in Refs /\ ~exch[cqAction[i]].cxl
      BY DEF CoreInv, Shape, Cancelling
    <3> QED
      BY <1>2, <3>1
  <2> QED
    BY <1>1, <1>2, <1>6, <2>1 DEF CoreInv, Cancelling, Refs, queues
<1> QED
  BY <1>6, <1>7, <1>8, <1>9, <1>10, <1>11, <1>12 DEF CoreInv

LEMMA TakeActionStep ==
    ASSUME CoreInv, TakeAction
    PROVE  CoreInv'
<1>1. PICK r : r = Head(cqAction)
  OBVIOUS
<1>2. /\ r \in Refs /\ cqAction' = Tail(cqAction) /\ Tail(cqAction) \in Seq(Refs)
      /\ Asked(r) /\ ~exch[r].cxl
      /\ \A i \in DOMAIN Tail(cqAction) :
            i + 1 \in DOMAIN cqAction /\ Tail(cqAction)[i] = cqAction[i + 1] /\ Tail(cqAction)[i] # r
      /\ \A i, j \in DOMAIN Tail(cqAction) : Tail(cqAction)[i] = Tail(cqAction)[j] => i = j
  <2>1. cqAction \in Seq(Refs) /\ cqAction # <<>>
        /\ \A i, j \in DOMAIN cqAction : cqAction[i] = cqAction[j] => i = j
    BY DEF CoreInv, Shape, Cancelling, TakeAction
  <2>2. 1 \in DOMAIN cqAction /\ r = cqAction[1]
    BY <1>1, <2>1, HeadOf
  <2>3. Asked(r) /\ ~exch[r].cxl
    BY <2>2 DEF CoreInv, Cancelling, Asked, Elems
  <2> QED
    BY <1>1, <2>1, <2>3, HeadOf DEF TakeAction
<1>3. /\ trader \in Traders /\ trader.pc \in {"orders", "actions"}
      /\ UNCHANGED <<plan, order, cqOrder, books, worker, spi, ext>>
  BY DEF CoreInv, Shape, TakeAction
<1>4. /\ trader' \in Traders
      /\ trader'.pc = "ended" \/ (trader'.pc = "action" /\ trader'.ref = r)
  <2>1. CASE trader' = [trader EXCEPT !.pc = "ended"]
    BY <1>3, <2>1 DEF Traders
  <2>2. CASE trader' = [trader EXCEPT !.pc = "action", !.ref = r]
    BY <1>2, <1>3, <2>2 DEF Traders
  <2> QED
    BY <1>1, <2>1, <2>2, Zenon DEF TakeAction
<1>5. Safe
  <2>1. CASE UNCHANGED hts
    BY <1>3, <2>1, KeptSafe DEF Reached, books, ext
  <2>2. CASE hts' = [hts EXCEPT ![r] = SetStatus(@, CCL_DOING)]
    <3>1. CCL_DOING \in Statuses /\ CCL_DOING # ORDED /\ hts \in [Refs -> Entry]
      BY DEF CCL_DOING, ORDED, Statuses, INIT, CANCEL, CoreInv, Shape
    <3>2. EntriesUp
      BY <2>2, <3>1, StampUp, Zenon
    <3> QED
      BY <1>3, <3>2, UpSafe DEF books, ext
  <2> QED
    BY <1>1, <2>1, <2>2, Zenon DEF TakeAction
<1>6. ASSUME NEW x \in Refs, Asked(x)'
      PROVE  Asked(x)
  <2>1. CASE x \in Elems(cqAction')
    BY <1>2, <2>1 DEF Asked, Elems
  <2>2. CASE x = r
    BY <1>2, <2>2
  <2>3. CASE exch'[x].cxl
    BY <1>3, <2>3 DEF Asked, ext
  <2> QED
    BY <1>4, <1>6, <2>1, <2>2, <2>3 DEF Asked
<1>7. \A x \in Refs : Reached(x) => Reached(x)'
  BY <1>3 DEF Reached, ext
<1>8. Marking' /\ \A x \in Refs : Asked(x)' => Barred(x)'
  BY <1>3, <1>5, <1>6, <1>7, NoMoreAsked
<1>9. Shape'
  BY <1>2, <1>3, <1>4, <1>5
     DEF CoreInv, Shape, IsSeq, IsSpi, Refs, Safe, books, ext
<1>10. WaitsOnce'
  BY <1>3, <1>4, WaitsKept DEF CoreInv, ext
<1>11. Reports' /\ Working' /\ IsPlan(plan)'
  BY <1>3, Unchanged DEF CoreInv, ext
<1>12. Stamped'
  BY <1>3, <1>5 DEF CoreInv, Stamped, Safe, Reached, Refs, books, ext
<1>13. Cancelling'
  <2>1. ASSUME NEW i \in DOMAIN Tail(cqAction)
        PROVE  /\ ~exch[Tail(cqAction)[i]].cxl
               /\ trader'.pc \in {"action", "acted"} => trader'.ref # Tail(cqAction)[i]
    BY <1>2, <1>4, <2>1 DEF CoreInv, Cancelling
  <2> QED
    BY <1>2, <1>3, <1>8, <2>1 DEF Cancelling, Refs, ext
<1> QED
  BY <1>8, <1>9, <1>10, <1>11, <1>12, <1>13 DEF CoreInv

LEMMA ReqOrderActionStep ==
    ASSUME CoreInv, ReqOrderAction
    PROVE  CoreInv'
<1>0. PICK r : r = trader.ref
  OBVIOUS
<1>1. /\ trader \in Traders /\ trader.pc = "action" /\ r \in Refs /\ Asked(r)
      /\ exch \in [Refs -> OrderStates]
      /\ UNCHANGED <<plan, queues, hts, books, worker, spi, deals, answers, rtn>>
  BY <1>0 DEF CoreInv, Shape, Asked, ReqOrderAction
<1>2. /\ trader' \in Traders
      /\ trader'.pc = "actions" \/ (trader'.pc = "acted" /\ trader'.ref = r)
      /\ exch' \in [Refs -> OrderStates]
      /\ \A x \in Refs : exch'[x].st = exch[x].st
      /\ \A x \in Refs : x # r => exch'[x] = exch[x]
  <2>1. CASE /\ trader' = [pc |-> "actions", ref |-> 0, ok |-> TRUE]
             /\ UNCHANGED exch
    BY <1>1, <2>1 DEF Traders
  <2>2. CASE /\ trader' = [trader EXCEPT !.pc = "acted"]
             /\ exch' = [exch EXCEPT ![r].cxl = TRUE]
    <3>1. trader' \in Traders /\ trader'.pc = "acted" /\ trader'.ref = r
      BY <1>0, <1>1, <2>2 DEF Traders
    <3>2. exch[r] \in OrderStates /\ [exch[r] EXCEPT !.cxl = TRUE] \in OrderStates
          /\ [exch[r] EXCEPT !.cxl = TRUE].st = exch[r].st
      BY <1>1 DEF OrderStates
    <3>3. exch' = [exch EXCEPT ![r] = [exch[r] EXCEPT !.cxl = TRUE]]
      BY <2>2, Zenon
    <3>4. PICK e : e = [exch[r] EXCEPT !.cxl = TRUE]
      OBVIOUS
    <3>5. /\ exch' \in [Refs -> OrderStates] /\ exch'[r].st = exch[r].st
          /\ \A x \in Refs : x # r => exch'[x] = exch[x]
      BY <1>1, <3>2, <3>3, <3>4
    <3> QED
      BY <3>1, <3>5
  <2> QED
    BY <1>0, <2>1, <2>2, Zenon DEF ReqOrderAction
<1>3. \A x \in Refs : Reached(x) => Reached(x)'
  BY <1>2 DEF Reached
<1>4. Safe
  BY <1>1, <1>3, KeptSafe DEF books
<1>5. ASSUME NEW x \in Refs, Asked(x)'
      PROVE  Asked(x)
  <2>1. CASE x # r
    BY <1>1, <1>2, <1>5, <2>1 DEF Asked, Elems, queues
  <2> QED
    BY <1>1, <2>1
<1>6. Marking' /\ \A x \in Refs : Asked(x)' => Barred(x)'
  BY <1>1, <1>3, <1>4, <1>5, NoMoreAsked
<1>7. Shape'
  BY <1>1, <1>2 DEF CoreInv, Shape, IsSeq, IsSpi, Refs, queues, books
<1>8. WaitsOnce'
  BY <1>1, <1>2, WaitsKept DEF CoreInv, queues
<1>9. Reports'
  <2>1. \A x \in Refs : exch[x].st = "rejected" => exch'[x].st = "rejected"
    BY <1>2
  <2>2. /\ UNCHANGED <<rtn, answers, deals>>
        /\ IsSeq(rtn') /\ IsSeq(answers') /\ IsSeq(deals')
    BY <1>1 DEF CoreInv, Reports
  <2> QED
    BY <1>3, <2>1, <2>2, ReportsAfter, Zenon
<1>10. Working' /\ IsPlan(plan)'
  BY <1>1, Unchanged DEF CoreInv
<1>11. Stamped'
  BY <1>1, <1>4 DEF CoreInv, Stamped, Safe, Reached, Refs, books
<1>12. Cancelling'
  <2>1. ASSUME NEW i \in DOMAIN cqAction
        PROVE  /\ ~exch'[cqAction[i]].cxl
               /\ trader'.pc \in {"action", "acted"} => trader'.ref # cqAction[i]
    <3>1. cqAction[i] \in Refs /\ ~exch[cqAction[i]].cxl /\ cqAction[i] # r
      BY <1>0, <1>1 DEF CoreInv, Shape, Cancelling
    <3> QED
      BY <1>2, <3>1
  <2> QED
    BY <1>1, <1>6, <2>1 DEF CoreInv, Cancelling, Refs, queues
<1> QED
  BY <1>6, <1>7, <1>8, <1>9, <1>10, <1>11, <1>12 DEF CoreInv

LEMMA ActionSentStep ==
    ASSUME CoreInv, ActionSent
    PROVE  CoreInv'
<1>1. /\ trader.pc = "acted"
      /\ UNCHANGED <<plan, queues, books, worker, spi, ext>>
      /\ trader' \in Traders /\ trader'.pc = "actions"
  <2>1. trader' = [pc |-> "actions", ref |-> 0, ok |-> TRUE]
    BY DEF ActionSent
  <2> QED
    BY <2>1 DEF ActionSent, Traders
<1>2. Safe
  <2>1. hts' = [hts EXCEPT ![trader.ref] = SetStatus(@, CCL_DONE)]
    BY Zenon DEF ActionSent
  <2>2. CCL_DONE \in Statuses /\ CCL_DONE # ORDED /\ hts \in [Refs -> Entry]
    BY DEF CCL_DONE, ORDED, Statuses, INIT, CANCEL, CoreInv, Shape
  <2>3. EntriesUp
    BY <2>1, <2>2, StampUp, Zenon
  <2> QED
    BY <1>1, <2>3, UpSafe DEF books, ext
<1>3. \A x \in Refs : (Asked(x)' => Asked(x)) /\ (Reached(x) => Reached(x)')
  BY <1>1 DEF Asked, Reached, Elems, queues, ext
<1>4. Marking' /\ \A x \in Refs : Asked(x)' => Barred(x)'
  BY <1>1, <1>2, <1>3, NoMoreAsked
<1>5. Shape'
  BY <1>1, <1>2 DEF CoreInv, Shape, IsSeq, IsSpi, Refs, Safe, queues, books, ext
<1>6. WaitsOnce'
  BY <1>1, WaitsKept DEF CoreInv, queues, ext
<1>7. Reports' /\ Working' /\ IsPlan(plan)'
  BY <1>1, Unchanged DEF CoreInv, ext
<1>8. Stamped'
  BY <1>1, <1>2 DEF CoreInv, Stamped, Safe, Reached, Refs, books, ext
<1>9. Cancelling'
  BY <1>1, <1>4 DEF CoreInv, Cancelling, Refs, queues, ext
<1> QED
  BY <1>4, <1>5, <1>6, <1>7, <1>8, <1>9 DEF CoreInv

LEMMA TradingStep ==
    ASSUME CoreInv, Trading
    PROVE  CoreInv'
BY TakeOrderStep, ReqOrderInsertStep, OrderSentStep, TakeActionStep, ReqOrderActionStep,
   ActionSentStep, Zenon DEF Trading

-----------------------------------------------------------------------------
(* The CTP thread.                                                         *)
LEMMA QuietSpi == IsSpi(Quiet) /\ Quiet.pc = "idle"
<1>1. ASSUME NEW x, NEW s, s = [pc |-> "idle", msg |-> x, ref |-> 0]
      PROVE  s \in [pc : {"idle", "final", "stamp"}, msg : {x}, ref : Refs \cup {0}] /\ s.pc = "idle"
  BY <1>1
<1>2. PICK x : x = NoReport
  OBVIOUS
<1>3. Quiet = [pc |-> "idle", msg |-> x, ref |-> 0]
  BY <1>2, Zenon DEF Quiet
<1>4. Quiet \in [pc : {"idle", "final", "stamp"}, msg : {x}, ref : Refs \cup {0}] /\ Quiet.pc = "idle"
  BY <1>1, <1>3, Zenon
<1> QED
  BY <1>4, Zenon DEF IsSpi

LEMMA SpiAt ==
    ASSUME NEW p \in {"final", "stamp"}, NEW x, NEW r \in Refs
    PROVE  /\ IsSpi([pc |-> p, msg |-> x, ref |-> r])
           /\ [pc |-> p, msg |-> x, ref |-> r].pc = p /\ [pc |-> p, msg |-> x, ref |-> r].ref = r
<1>1. [pc |-> p, msg |-> x, ref |-> r] \in
          [pc : {"idle", "final", "stamp"}, msg : {x}, ref : Refs \cup {0}]
  OBVIOUS
<1>2. [pc |-> p, msg |-> x, ref |-> r].pc = p /\ [pc |-> p, msg |-> x, ref |-> r].ref = r
  OBVIOUS
<1> QED
  BY <1>1, <1>2, Zenon DEF IsSpi

(* A step of the CTP thread that asks for nothing.                         *)
LEMMA SpiStep ==
    ASSUME CoreInv, Safe, UNCHANGED <<plan, worker, trader, exch, deals, cqAction>>,
           mapOrder' = [r \in Refs |-> mapOrder'[r]], IsSpi(spi'),
           spi'.pc = "final" => spi'.ref \in Refs /\ mapOrder'[spi'.ref].st \in Final,
           IsSeq(order)', Len(order') <= MaxRef, cqOrder' \in Seq(Refs), WaitsOnce',
           IsSeq(rtn'), IsSeq(answers'),
           \A m \in Elems(rtn') : m \in Elems(rtn),
           \A m \in Elems(answers') : m \in Elems(answers)
    PROVE  CoreInv'
<1>1. \A x \in Refs : (Asked(x)' => Asked(x)) /\ (Reached(x) => Reached(x)')
  BY DEF Asked, Reached, Elems
<1>2. Marking' /\ \A x \in Refs : Asked(x)' => Barred(x)'
  BY <1>1, NoMoreAsked
<1>3. Shape'
  BY DEF CoreInv, Shape, IsSeq, IsSpi, Refs, Safe
<1>4. Reports'
  <2>1. /\ UNCHANGED deals /\ IsSeq(deals')
        /\ \A x \in Refs : exch[x].st = "rejected" => exch'[x].st = "rejected"
    BY DEF CoreInv, Reports
  <2> QED
    BY <1>1, <2>1, ReportsAfter, Zenon
<1>5. Working' /\ IsPlan(plan)'
  BY Unchanged DEF CoreInv
<1>6. Stamped'
  BY DEF CoreInv, Stamped, Safe, Reached, Refs
<1>7. Cancelling'
  BY <1>2 DEF CoreInv, Cancelling, Refs
<1> QED
  BY <1>2, <1>3, <1>4, <1>5, <1>6, <1>7 DEF CoreInv

(* The same, with no order created.                                        *)
LEMMA SpiKeeps ==
    ASSUME CoreInv, Safe, UNCHANGED <<plan, queues, worker, trader, exch, deals>>,
           mapOrder' = [r \in Refs |-> mapOrder'[r]], IsSpi(spi'),
           spi'.pc = "final" => spi'.ref \in Refs /\ mapOrder'[spi'.ref].st \in Final,
           IsSeq(rtn'), IsSeq(answers'),
           \A m \in Elems(rtn') : m \in Elems(rtn),
           \A m \in Elems(answers') : m \in Elems(answers)
    PROVE  CoreInv'
<1>1. UNCHANGED <<order, cqOrder, cqAction>>
  BY DEF queues
<1>2. WaitsOnce'
  BY <1>1, Unchanged DEF CoreInv
<1>3. IsSeq(order)' /\ Len(order') <= MaxRef /\ cqOrder' \in Seq(Refs)
  BY <1>1 DEF CoreInv, Shape, IsSeq, Refs
<1> QED
  BY <1>1, <1>2, <1>3, SpiStep

LEMMA StoreOrderSafe ==
    ASSUME CoreInv, NEW m, m.ref \in Refs, Reached(m.ref), StoreOrder(m), UNCHANGED exch
    PROVE  /\ Safe /\ mapOrder' = [r \in Refs |-> mapOrder'[r]] /\ IsSpi(spi')
           /\ spi'.pc = "final" => spi'.ref \in Refs /\ mapOrder'[spi'.ref].st \in Final
<1>1. PICK r : r = m.ref
  OBVIOUS
<1>2. /\ r \in Refs /\ Reached(r) /\ hts \in [Refs -> Entry]
      /\ mapOrder = [x \in Refs |-> mapOrder[x]] /\ IsSpi(spi)
  BY <1>1 DEF CoreInv, Shape
<1>3. CASE UNCHANGED <<hts, mapOrder, spi>>
  <2>1. Safe
    BY <1>3, KeptSafe DEF Reached
  <2> QED
    BY <1>2, <1>3, <2>1 DEF CoreInv, Stamped, Refs, IsSpi
<1>4. ASSUME NEW s \in {TRADED_PART, ORDED}, NEW x, mapOrder[r].st \notin Final,
             mapOrder' = [mapOrder EXCEPT ![r] = [st |-> m.st, rem |-> x]],
             hts' = [hts EXCEPT ![r] = SetStatus(@, s)],
             \/ m.st \in Final /\ spi' = [pc |-> "final", msg |-> [st |-> m.st, rem |-> x], ref |-> r]
             \/ spi' = Quiet
      PROVE  /\ Safe /\ mapOrder' = [y \in Refs |-> mapOrder'[y]] /\ IsSpi(spi')
             /\ spi'.pc = "final" => spi'.ref \in Refs /\ mapOrder'[spi'.ref].st \in Final
  <2>1. /\ mapOrder' = [y \in Refs |-> mapOrder'[y]] /\ mapOrder'[r].st = m.st
        /\ \A y \in Refs : y # r => mapOrder'[y] = mapOrder[y]
    BY <1>2, <1>4
  <2>2. s \in Statuses
    BY DEF TRADED_PART, ORDED, Statuses, INIT, CANCEL
  <2>3. /\ SetStatus(hts[r], s) \in Entry
        /\ SetStatus(hts[r], s).st >= hts[r].st
    BY <1>2, <2>2, StatusUp, Zenon
  <2>4. PICK e : e = SetStatus(hts[r], s)
    OBVIOUS
  <2>5. hts' = [hts EXCEPT ![r] = e]
    BY <1>4, <2>4, Zenon
  <2>6. /\ hts' \in [Refs -> Entry] /\ hts'[r].st >= hts[r].st
        /\ \A y \in Refs : y # r => hts'[y] = hts[y]
    BY <1>2, <2>3, <2>4, <2>5
  <2>7. \A y \in Refs : hts'[y].orded => Reached(y)'
    BY <1>2, <2>6 DEF CoreInv, Stamped, Reached
  <2>8. ASSUME NEW y \in Refs, Barred(y)
        PROVE  Barred(y)'
    <3>1. CASE y = r
      <4>1. hts[r].st \in Int /\ hts'[r].st \in Int /\ CCL_DOING \in Int
        BY <1>2, <2>6 DEF Entry, Statuses, CCL_DOING
      <4> QED
        BY <1>4, <2>6, <2>8, <3>1, <4>1 DEF Barred, Reached
    <3>2. CASE y # r
      BY <2>1, <2>6, <2>8, <3>2 DEF Barred, Reached
    <3> QED
      BY <3>1, <3>2
  <2>9. Safe
    BY <2>6, <2>7, <2>8 DEF Safe
  <2>10. /\ IsSpi(spi')
         /\ spi'.pc = "final" => spi'.ref \in Refs /\ mapOrder'[spi'.ref].st \in Final
    <3>1. CASE m.st \in Final /\ spi' = [pc |-> "final", msg |-> [st |-> m.st, rem |-> x], ref |-> r]
      <4>1. PICK z : z = [st |-> m.st, rem |-> x]
        OBVIOUS
      <4>2. "final" \in {"final", "stamp"}
        OBVIOUS
      <4>3. /\ IsSpi([pc |-> "final", msg |-> z, ref |-> r])
            /\ [pc |-> "final", msg |-> z, ref |-> r].ref = r
        BY <1>2, <4>2, SpiAt, Zenon
      <4>4. spi' = [pc |-> "final", msg |-> z, ref |-> r]
        BY <3>1, <4>1, Zenon
      <4>5. IsSpi(spi') /\ spi'.ref = r
        BY <4>3, <4>4, Zenon
      <4> QED
        BY <1>2, <2>1, <3>1, <4>5
    <3>2. CASE spi' = Quiet
      <4>1. "idle" # "final"
        OBVIOUS
      <4> QED
        BY <3>2, <4>1, QuietSpi, Zenon
    <3> QED
      BY <1>4, <3>1, <3>2
  <2> QED
    BY <2>1, <2>9, <2>10
<1>5. CASE mapOrder[r].st \in Final
  <2>1. UNCHANGED <<hts, mapOrder, spi>>
    BY <1>1, <1>5 DEF StoreOrder
  <2> QED
    BY <1>3, <2>1
<1>6. CASE mapOrder[r].st \notin Final
  <2>1. /\ mapOrder' = [mapOrder EXCEPT ![r] = [st |-> m.st, rem |-> m.n]]
        /\ hts' = [hts EXCEPT ![r] = SetStatus(@, IF m.st = "part" THEN TRADED_PART ELSE ORDED)]
        /\ spi' = IF m.st \in Final
                  THEN [pc |-> "final", msg |-> [st |-> m.st, rem |-> m.n], ref |-> r]
                  ELSE Quiet
    BY <1>1, <1>6, Zenon DEF StoreOrder
  <2>2. PICK s : s = IF m.st = "part" THEN TRADED_PART ELSE ORDED
    OBVIOUS
  <2>3. s \in {TRADED_PART, ORDED}
    BY <2>2
  <2> QED
    BY <1>4, <1>6, <2>1, <2>2, <2>3, Zenon
<1> QED
  BY <1>5, <1>6

LEMMA ReceiveSafe ==
    ASSUME CoreInv, spi.pc = "idle", NEW m, Told(m), Receive(m), UNCHANGED exch
    PROVE  /\ Safe /\ mapOrder' = [r \in Refs |-> mapOrder'[r]] /\ IsSpi(spi')
           /\ spi'.pc = "final" => spi'.ref \in Refs /\ mapOrder'[spi'.ref].st \in Final
<1>1. /\ mapOrder = [r \in Refs |-> mapOrder[r]] /\ IsSpi(spi)
      /\ \A x \in Refs : Reached(x) => Reached(x)'
  BY DEF CoreInv, Shape, Reached
<1>2. CASE m.kind = "order" /\ StoreOrder(m)
  <2>1. m.ref \in Refs /\ Reached(m.ref)
    BY <1>2 DEF Told
  <2> QED
    BY <1>2, <2>1, StoreOrderSafe, Zenon
<1>3. CASE UNCHANGED <<hts, mapOrder, spi>>
  <2>1. Safe
    BY <1>1, <1>3, KeptSafe
  <2>2. mapOrder' = [r \in Refs |-> mapOrder'[r]] /\ IsSpi(spi')
    BY <1>1, <1>3
  <2> QED
    BY <1>3, <2>1, <2>2
<1>4. CASE /\ m.kind = "error" /\ hts' = [hts EXCEPT ![m.ref] = NoEntry]
           /\ UNCHANGED <<mapOrder, spi>>
  <2>1. m.ref \in Refs /\ ~Reached(m.ref)
    BY <1>4 DEF Told, Reached
  <2>2. Safe
    BY <1>4, <2>1, GoneSafe
  <2>3. mapOrder' = [r \in Refs |-> mapOrder'[r]] /\ IsSpi(spi')
    BY <1>1, <1>4
  <2> QED
    BY <1>4, <2>2, <2>3
<1> QED
  BY <1>2, <1>3, <1>4, Zenon DEF Receive, books

LEMMA OnRtnStep ==
    ASSUME CoreInv, OnRtn
    PROVE  CoreInv'
<1>1. /\ spi.pc = "idle" /\ rtn # <<>> /\ rtn' = Tail(rtn) /\ Receive(Head(rtn))
      /\ UNCHANGED <<plan, queues, worker, trader, exch, deals, answers>>
      /\ IsSeq(rtn) /\ IsSeq(answers)
  BY DEF CoreInv, Reports, OnRtn
<1>2. /\ IsSeq(rtn') /\ Head(rtn) \in Elems(rtn)
      /\ \A m \in Elems(rtn') : m \in Elems(rtn)
  BY <1>1, TailSeq, Zenon
<1>3. PICK m : m = Head(rtn)
  OBVIOUS
<1>4. Told(m) /\ Receive(m)
  BY <1>1, <1>2, <1>3 DEF CoreInv, Reports
<1>5. /\ Safe /\ mapOrder' = [r \in Refs |-> mapOrder'[r]] /\ IsSpi(spi')
      /\ spi'.pc = "final" => spi'.ref \in Refs /\ mapOrder'[spi'.ref].st \in Final
  BY <1>1, <1>4, ReceiveSafe
<1>6. IsSeq(answers') /\ \A x \in Elems(answers') : x \in Elems(answers)
  BY <1>1
<1> QED
  BY <1>1, <1>2, <1>5, <1>6, SpiKeeps

LEMMA OnRspQryStep ==
    ASSUME CoreInv, OnRspQry
    PROVE  CoreInv'
<1>1. /\ spi.pc = "idle" /\ answers # <<>> /\ answers' = Tail(answers) /\ Receive(Head(answers))
      /\ UNCHANGED <<plan, queues, worker, trader, exch, deals, rtn>>
      /\ IsSeq(rtn) /\ IsSeq(answers)
  BY DEF CoreInv, Reports, OnRspQry
<1>2. /\ IsSeq(answers') /\ Head(answers) \in Elems(answers)
      /\ \A m \in Elems(answers') : m \in Elems(answers)
  BY <1>1, TailSeq, Zenon
<1>3. PICK m : m = Head(answers)
  OBVIOUS
<1>4. Told(m) /\ Receive(m)
  BY <1>1, <1>2, <1>3 DEF CoreInv, Reports
<1>5. /\ Safe /\ mapOrder' = [r \in Refs |-> mapOrder'[r]] /\ IsSpi(spi')
      /\ spi'.pc = "final" => spi'.ref \in Refs /\ mapOrder'[spi'.ref].st \in Final
  BY <1>1, <1>4, ReceiveSafe
<1>6. IsSeq(rtn') /\ \A x \in Elems(rtn') : x \in Elems(rtn)
  BY <1>1
<1> QED
  BY <1>1, <1>2, <1>5, <1>6, SpiKeeps

LEMMA AllTradedStep ==
    ASSUME CoreInv, AllTraded
    PROVE  CoreInv'
<1>1. PICK r : r = spi.ref
  OBVIOUS
<1>2. /\ r \in Refs /\ mapOrder[r].st \in Final /\ hts' = [hts EXCEPT ![r] = NoEntry]
      /\ spi' = Quiet
      /\ UNCHANGED <<plan, queues, mapOrder, worker, trader, ext>>
      /\ mapOrder = [x \in Refs |-> mapOrder[x]] /\ IsSeq(rtn) /\ IsSeq(answers)
  BY <1>1 DEF CoreInv, Stamped, Shape, Reports, AllTraded
<1>3. Safe
  BY <1>2, GoneSafe DEF ext
<1>4. IsSpi(spi') /\ spi'.pc # "final"
  BY <1>2, QuietSpi
<1>5. UNCHANGED <<exch, deals, rtn, answers>>
  BY <1>2 DEF ext
<1> QED
  BY <1>2, <1>3, <1>4, <1>5, SpiKeeps

LEMMA ReopenStampStep ==
    ASSUME CoreInv, ReopenStamp
    PROVE  CoreInv'
<1>1. /\ hts' = [hts EXCEPT ![spi.ref] = SetStatus(@, ORD_NEW)] /\ spi' = Quiet
      /\ UNCHANGED <<plan, queues, books, worker, trader, ext>>
      /\ hts \in [Refs -> Entry] /\ mapOrder = [x \in Refs |-> mapOrder[x]]
      /\ IsSeq(rtn) /\ IsSeq(answers)
  BY DEF CoreInv, Shape, Reports, ReopenStamp
<1>2. Safe
  <2>1. ORD_NEW \in Statuses /\ ORD_NEW # ORDED
    BY DEF ORD_NEW, ORDED, Statuses, INIT, CANCEL
  <2>2. EntriesUp
    BY <1>1, <2>1, StampUp, Zenon
  <2> QED
    BY <1>1, <2>2, UpSafe DEF books, ext
<1>3. IsSpi(spi') /\ spi'.pc # "final"
  BY <1>1, QuietSpi
<1>4. UNCHANGED <<mapOrder, exch, deals, rtn, answers>>
  BY <1>1 DEF books, ext
<1> QED
  BY <1>1, <1>2, <1>3, <1>4, SpiKeeps

LEMMA OrderCanceledStep ==
    ASSUME CoreInv, OrderCanceled
    PROVE  CoreInv'
<1>1. PICK r : r = spi.ref
  OBVIOUS
<1>2. /\ r \in Refs /\ mapOrder[r].st \in Final /\ hts' = [hts EXCEPT ![r] = NoEntry]
      /\ UNCHANGED <<plan, cqAction, mapOrder, worker, trader, ext>>
      /\ mapOrder = [x \in Refs |-> mapOrder[x]] /\ IsSeq(rtn) /\ IsSeq(answers)
      /\ IsSpi(spi)
  BY <1>1 DEF CoreInv, Stamped, Shape, Reports, OrderCanceled
<1>3. UNCHANGED <<exch, deals, rtn, answers>>
  BY <1>2 DEF ext
<1>4. Safe
  BY <1>2, <1>3, GoneSafe
<1>5. \/ /\ Len(order) < plan.scn.orders
         /\ \E x : order' = Append(order, x)
         /\ cqOrder' = Append(cqOrder, Len(order'))
         /\ spi' = [spi EXCEPT !.pc = "stamp", !.ref = Len(order')]
      \/ spi' = Quiet /\ UNCHANGED <<order, cqOrder>>
  BY Zenon DEF OrderCanceled
<1>6. CASE /\ Len(order) < plan.scn.orders
           /\ \E x : order' = Append(order, x)
           /\ cqOrder' = Append(cqOrder, Len(order'))
           /\ spi' = [spi EXCEPT !.pc = "stamp", !.ref = Len(order')]
  <2>1. PICK x : order' = Append(order, x)
    BY <1>6, Zenon
  <2>2. UNCHANGED <<trader, exch>>
    BY <1>2, <1>3
  <2>3. /\ Len(order') \in Refs /\ IsSeq(order)' /\ Len(order') <= MaxRef
        /\ cqOrder' \in Seq(Refs) /\ WaitsOnce'
    BY <1>6, <2>1, <2>2, NewOrder, Zenon DEF CoreInv
  <2>4. PICK n \in Refs : n = Len(order')
    BY <2>3
  <2>5. IsSpi(spi') /\ spi'.pc # "final"
    <3>1. PICK U : spi \in [pc : {"idle", "final", "stamp"}, msg : U, ref : Refs \cup {0}]
      BY <1>2 DEF IsSpi
    <3>2. /\ spi' \in [pc : {"idle", "final", "stamp"}, msg : U, ref : Refs \cup {0}]
          /\ spi'.pc = "stamp"
      BY <1>6, <2>4, <3>1
    <3> QED
      BY <3>2 DEF IsSpi
  <2> QED
    BY <1>2, <1>3, <1>4, <2>3, <2>5, SpiStep
<1>7. CASE spi' = Quiet /\ UNCHANGED <<order, cqOrder>>
  <2>1. IsSpi(spi') /\ spi'.pc # "final"
    BY <1>7, QuietSpi
  <2>2. WaitsOnce'
    BY <1>2, <1>3, <1>7, Unchanged DEF CoreInv
  <2>3. IsSeq(order)' /\ Len(order') <= MaxRef /\ cqOrder' \in Seq(Refs)
    BY <1>7 DEF CoreInv, Shape, IsSeq, Refs
  <2> QED
    BY <1>2, <1>3, <1>4, <2>1, <2>2, <2>3, SpiStep
<1> QED
  BY <1>5, <1>6, <1>7, Zenon

LEMMA CtpStep ==
    ASSUME CoreInv, Spi
    PROVE  CoreInv'
BY OnRtnStep, OnRspQryStep, AllTradedStep, OrderCanceledStep, ReopenStampStep, Zenon DEF Spi

-----------------------------------------------------------------------------
(* ThreadTime's queries.                                                   *)
LEMMA AnswersStep ==
    ASSUME CoreInv, UNCHANGED <<plan, queues, hts, books, worker, trader, spi, exch, deals, rtn>>,
           IsSeq(answers'), \A m \in Elems(answers') : m \in Elems(answers) \/ Told(m)'
    PROVE  CoreInv'
<1>1. /\ IsSeq(rtn') /\ IsSeq(deals') /\ UNCHANGED <<rtn, deals>>
      /\ \A x \in Refs : Reached(x) => Reached(x)'
      /\ \A x \in Refs : exch[x].st = "rejected" => exch'[x].st = "rejected"
  BY DEF CoreInv, Reports, Reached
<1>2. Reports'
  BY <1>1, ReportsAfter, Zenon
<1> QED
  BY <1>2, Unchanged DEF CoreInv, queues, books

(* What the broker answers is of the orders it has.                        *)
LEMMA AskedOrders ==
    ASSUME CoreInv, NEW s \in InOrder(Sent), NEW u, u = [i \in DOMAIN s |-> QryOrder(s[i])]
    PROVE  IsSeq(u) /\ \A m \in Elems(u) : Told(m)
<1>1. Len(order) \in Nat /\ Len(order) <= MaxRef
  BY DEF CoreInv, Shape, IsSeq
<1>2. Cardinality(Sent) \in Nat
  <2>1. IsFiniteSet(1 .. Len(order))
    BY <1>1, FS_Interval
  <2>2. Sent \subseteq 1 .. Len(order)
    BY DEF Sent
  <2>3. IsFiniteSet(Sent)
    BY <2>1, <2>2, FS_Subset
  <2> QED
    BY <2>3, FS_CardinalityType
<1>3. PICK n \in Nat : n = Cardinality(Sent)
  BY <1>2
<1>4. s \in [1 .. n -> Sent]
  BY <1>3 DEF InOrder
<1>5. PICK S : S = {QryOrder(x) : x \in Sent}
  OBVIOUS
<1>6. ASSUME NEW x \in Sent
      PROVE  QryOrder(x) \in S /\ Told(QryOrder(x))
  <2>1. x \in Refs /\ Reached(x)
    BY <1>1, <1>6, CoreAssumption DEF Sent, Refs, Reached
  <2>2. QryOrder(x).kind = "order" /\ QryOrder(x).ref = x
    BY DEF QryOrder, OrderMsg
  <2>3. QryOrder(x) \in S
    BY <1>5, <1>6, Zenon
  <2> QED
    BY <2>1, <2>2, <2>3 DEF Told
<1>7. ASSUME NEW i \in 1 .. n
      PROVE  u[i] \in S /\ Told(u[i])
  <2>1. s[i] \in Sent /\ u[i] = QryOrder(s[i])
    BY <1>4, <1>7
  <2> QED
    BY <1>6, <2>1
<1>8. u = [i \in 1 .. n |-> u[i]] /\ DOMAIN u = 1 .. n
  BY <1>4
<1>9. u \in Seq(S)
  BY <1>7, <1>8
<1> QED
  BY <1>7, <1>8, <1>9 DEF IsSeq, Elems

LEMMA QueriesStep ==
    ASSUME CoreInv, ThreadTime
    PROVE  CoreInv'
<1>1. IsSeq(answers) /\ IsSeq(deals)
  BY DEF CoreInv, Reports
<1>2. CASE ReqQryOrder
  <2>1. UNCHANGED <<plan, queues, hts, books, worker, trader, spi, exch, deals, rtn>>
    BY <1>2 DEF ReqQryOrder
  <2>2. PICK s \in InOrder(Sent) : Ask([i \in DOMAIN s |-> QryOrder(s[i])])
    BY <1>2 DEF ReqQryOrder
  <2>3. PICK u : u = [i \in DOMAIN s |-> QryOrder(s[i])]
    OBVIOUS
  <2>4. IsSeq(u) /\ \A m \in Elems(u) : Told(m)
    BY <2>3, AskedOrders
  <2>5. answers' = u \/ answers' = answers
    BY <2>2, <2>3, Zenon DEF Ask
  <2>6. \A m : Told(m) => Told(m)'
    BY <2>1 DEF Told, Reached, Refs
  <2>7. IsSeq(answers') /\ \A m \in Elems(answers') : m \in Elems(answers) \/ Told(m)'
    <3>1. CASE answers' = u
      BY <2>4, <2>6, <3>1
    <3>2. CASE answers' = answers
      BY <1>1, <3>2
    <3> QED
      BY <2>5, <3>1, <3>2
  <2> QED
    BY <2>1, <2>7, AnswersStep
<1>3. CASE ReqQryTrade
  <2>1. UNCHANGED <<plan, queues, hts, books, worker, trader, spi, exch, deals, rtn>>
    BY <1>3 DEF ReqQryTrade
  <2>2. answers' = deals \/ answers' = answers
    BY <1>3, Zenon DEF ReqQryTrade, Ask
  <2>3. IsSeq(answers') /\ \A m \in Elems(answers') : m \in Elems(answers) \/ Told(m)'
    <3>1. CASE answers' = deals
      <4>1. \A m \in Elems(deals) : m.kind = "trade"
        BY DEF CoreInv, Reports
      <4>2. \A m : m.kind = "trade" => Told(m)'
        BY DEF Told
      <4> QED
        BY <1>1, <3>1, <4>1, <4>2
    <3>2. CASE answers' = answers
      BY <1>1, <3>2
    <3> QED
      BY <2>2, <3>1, <3>2
  <2> QED
    BY <2>1, <2>3, AnswersStep
<1>4. CASE EraseSyn
  <2>1. UNCHANGED <<plan, queues, hts, books, worker, trader, spi, exch, deals, rtn, answers>>
    BY <1>4 DEF EraseSyn, ext
  <2> QED
    BY <1>1, <2>1, AnswersStep
<1> QED
  BY <1>2, <1>3, <1>4 DEF ThreadTime

-----------------------------------------------------------------------------
(* The broker.                                                             *)
LEMMA ExchangeStep ==
    ASSUME CoreInv, NEW r \in Refs, Live(r),
           UNCHANGED <<plan, queues, hts, books, worker, trader, spi, answers>>,
           exch' \in [Refs -> OrderStates],
           exch'[r].st \in {"live", "all", "canceled"}, exch'[r].cxl = exch[r].cxl,
           \A x \in Refs : x # r => exch'[x] = exch[x],
           IsSeq(rtn'), \A m \in Elems(rtn') : m \in Elems(rtn) \/ Told(m)',
           IsSeq(deals'), \A m \in Elems(deals') : m \in Elems(deals) \/ m.kind = "trade"
    PROVE  CoreInv'
<1>1. /\ \A x \in Refs : Reached(x) => Reached(x)'
      /\ \A x \in Refs : exch[x].st = "rejected" => exch'[x].st = "rejected"
      /\ \A x \in Refs : exch'[x].cxl = exch[x].cxl
      /\ \A x \in Refs : exch[x].st = "none" => exch'[x].st = "none"
  BY DEF Reached, Live
<1>2. Safe
  BY <1>1, KeptSafe DEF books
<1>3. \A x \in Refs : Asked(x)' => Asked(x)
  BY <1>1 DEF Asked, Elems, queues
<1>4. Marking' /\ \A x \in Refs : Asked(x)' => Barred(x)'
  BY <1>1, <1>2, <1>3, NoMoreAsked
<1>5. Shape'
  BY DEF CoreInv, Shape, IsSeq, IsSpi, Refs, queues, books
<1>6. WaitsOnce'
  BY <1>1, WaitsKept DEF CoreInv, queues
<1>7. Reports'
  <2>1. IsSeq(answers') /\ UNCHANGED answers
    BY DEF CoreInv, Reports
  <2> QED
    BY <1>1, <2>1, ReportsAfter, Zenon
<1>8. Working' /\ IsPlan(plan)'
  BY Unchanged DEF CoreInv
<1>9. Stamped'
  BY <1>2 DEF CoreInv, Stamped, Safe, Reached, Refs, books
<1>10. Cancelling'
  <2>1. \A i \in DOMAIN cqAction : ~exch'[cqAction[i]].cxl
    <3>1. \A i \in DOMAIN cqAction : cqAction[i] \in Refs /\ ~exch[cqAction[i]].cxl
      BY DEF CoreInv, Shape, Cancelling
    <3> QED
      BY <1>1, <3>1
  <2> QED
    BY <1>4, <2>1 DEF CoreInv, Cancelling, Refs, queues
<1> QED
  BY <1>4, <1>5, <1>6, <1>7, <1>8, <1>9, <1>10 DEF CoreInv

LEMMA FillStep ==
    ASSUME CoreInv, NEW r \in Refs, NEW n, Fill(r, n)
    PROVE  CoreInv'
<1>1. /\ Live(r) /\ n \in Int
      /\ UNCHANGED <<plan, queues, hts, books, worker, trader, spi, answers>>
      /\ exch \in [Refs -> OrderStates] /\ IsSeq(rtn) /\ IsSeq(deals)
  BY DEF CoreInv, Shape, Reports, Fill
<1>2. PICK d : d = exch[r].done + n
  OBVIOUS
<1>3. PICK st : st = IF d = order[r].vol THEN "all" ELSE "part"
  OBVIOUS
<1>4. PICK s : s = IF st = "all" THEN "all" ELSE "live"
  OBVIOUS
<1>5. PICK b : b = TradeMsg(r, Len(deals) + 1, n)
  OBVIOUS
<1>6. PICK a : a = OrderMsg(r, st, order[r].vol - d)
  OBVIOUS
<1>7. /\ exch' = [exch EXCEPT ![r].done = d, ![r].st = s]
      /\ deals' = Append(deals, b) /\ Emit(<<a, b>>)
  BY <1>2, <1>3, <1>4, <1>5, <1>6, Zenon DEF Fill
<1>8. a.kind = "order" /\ a.ref = r /\ b.kind = "trade" /\ s \in {"all", "live"}
  BY <1>4, <1>5, <1>6 DEF OrderMsg, TradeMsg
<1>9. /\ exch' \in [Refs -> OrderStates]
      /\ exch'[r].st \in {"live", "all", "canceled"} /\ exch'[r].cxl = exch[r].cxl
      /\ \A x \in Refs : x # r => exch'[x] = exch[x]
  <2>1. exch[r] \in OrderStates
    BY <1>1
  <2>2. d \in Int
    BY <1>1, <1>2, <2>1 DEF OrderStates
  <2>3. PICK e : e = [exch[r] EXCEPT !.done = d, !.st = s]
    OBVIOUS
  <2>4. e \in OrderStates /\ e.st = s /\ e.cxl = exch[r].cxl
    BY <1>8, <2>1, <2>2, <2>3 DEF OrderStates
  <2>5. exch' = [exch EXCEPT ![r] = e]
    BY <1>1, <1>7, <2>3
  <2> QED
    BY <1>1, <1>8, <2>4, <2>5
<1>10. Told(a)' /\ Told(b)'
  BY <1>8, <1>9 DEF Told, Reached, Refs
<1>11. /\ IsSeq(rtn') /\ \A m \in Elems(rtn') : m \in Elems(rtn) \/ Told(m)'
  <2>1. IsSeq(<<a, b>>) /\ Elems(<<a, b>>) = {a, b}
    BY PairSeq, Zenon
  <2>2. IsSeq(rtn') /\ \A m \in Elems(rtn') : m \in Elems(rtn) \/ m \in {a, b}
    BY <1>1, <1>7, <2>1, EmitSeq, Zenon
  <2>3. ASSUME NEW m \in Elems(rtn') PROVE m \in Elems(rtn) \/ Told(m)'
    <3>1. CASE m = a
      BY <1>10, <3>1
    <3>2. CASE m = b
      BY <1>10, <3>2
    <3> QED
      BY <2>2, <3>1, <3>2, Zenon
  <2> QED
    BY <2>2, <2>3
<1>12. IsSeq(deals') /\ \A m \in Elems(deals') : m \in Elems(deals) \/ m.kind = "trade"
  <2>1. IsSeq(deals') /\ \A m \in Elems(deals') : m \in Elems(deals) \/ m = b
    BY <1>1, <1>7, AppendSeq, Zenon
  <2> QED
    BY <1>8, <2>1
<1> QED
  BY <1>1, <1>9, <1>11, <1>12, ExchangeStep

LEMMA CancelStep ==
    ASSUME CoreInv, NEW r \in Refs, Cancel(r)
    PROVE  CoreInv'
<1>1. /\ Live(r) /\ exch' = [exch EXCEPT ![r].st = "canceled"]
      /\ UNCHANGED <<plan, queues, hts, books, worker, trader, spi, deals, answers>>
      /\ exch \in [Refs -> OrderStates] /\ IsSeq(rtn) /\ IsSeq(deals)
  BY DEF CoreInv, Shape, Reports, Cancel
<1>2. /\ exch' \in [Refs -> OrderStates]
      /\ exch'[r].st = "canceled" /\ exch'[r].cxl = exch[r].cxl
      /\ \A x \in Refs : x # r => exch'[x] = exch[x]
  BY <1>1 DEF OrderStates
<1>3. PICK a : a = OrderMsg(r, "canceled", Left(r))
  OBVIOUS
<1>4. a.kind = "order" /\ a.ref = r /\ Emit(<<a>>)
  <2>1. a.kind = "order" /\ a.ref = r
    BY <1>3 DEF OrderMsg
  <2>2. Emit(<<a>>)
    BY <1>3, Zenon DEF Cancel
  <2> QED
    BY <2>1, <2>2
<1>5. Told(a)'
  BY <1>2, <1>4 DEF Told, Reached, Refs
<1>6. IsSeq(rtn') /\ \A m \in Elems(rtn') : m \in Elems(rtn) \/ Told(m)'
  <2>1. IsSeq(<<a>>) /\ Elems(<<a>>) = {a}
    BY PairSeq, Zenon
  <2>2. IsSeq(rtn') /\ \A m \in Elems(rtn') : m \in Elems(rtn) \/ m \in {a}
    BY <1>1, <1>4, <2>1, EmitSeq, Zenon
  <2> QED
    BY <1>5, <2>2
<1>7. IsSeq(deals') /\ \A m \in Elems(deals') : m \in Elems(deals)
  BY <1>1
<1> QED
  BY <1>1, <1>2, <1>6, <1>7, ExchangeStep

LEMMA BrokerStep ==
    ASSUME CoreInv, NEW r \in 1 .. Len(order), Broker(r)
    PROVE  CoreInv'
<1>1. r \in Refs
  <2>1. Len(order) \in Nat /\ Len(order) <= MaxRef
    BY DEF CoreInv, Shape, IsSeq
  <2> QED
    BY <2>1, CoreAssumption DEF Refs
<1>2. CASE Cancel(r)
  BY <1>1, <1>2, CancelStep
<1>3. CASE \E n : Fill(r, n)
  BY <1>1, <1>3, FillStep
<1> QED
  BY <1>2, <1>3, Zenon DEF Broker, CancelRequested, ExchangeCancels

LEMMA DisconnectStep ==
    ASSUME CoreInv, Disconnect
    PROVE  CoreInv'
<1>1. /\ rtn' = Append(rtn, DownMsg) /\ answers' = <<>>
      /\ UNCHANGED <<plan, queues, hts, books, worker, trader, spi, exch, deals>>
      /\ IsSeq(rtn) /\ IsSeq(deals)
  BY DEF CoreInv, Reports, Disconnect
<1>2. Told(DownMsg)'
  BY DEF DownMsg, Told
<1>3. PICK d : d = DownMsg
  OBVIOUS
<1>4. IsSeq(rtn') /\ \A m \in Elems(rtn') : m \in Elems(rtn) \/ Told(m)'
  <2>1. IsSeq(rtn') /\ \A m \in Elems(rtn') : m \in Elems(rtn) \/ m = d
    BY <1>1, <1>3, AppendSeq, Zenon
  <2>2. Told(d)'
    BY <1>2, <1>3
  <2> QED
    BY <2>1, <2>2
<1>5. IsSeq(answers') /\ Elems(answers') = {}
  BY <1>1, NoElems, Zenon
<1>6. /\ \A x \in Refs : Reached(x) => Reached(x)'
      /\ \A x \in Refs : exch[x].st = "rejected" => exch'[x].st = "rejected"
      /\ IsSeq(deals') /\ UNCHANGED deals
  BY <1>1 DEF Reached
<1>7. Reports'
  BY <1>4, <1>5, <1>6, ReportsAfter, Zenon
<1> QED
  BY <1>1, <1>7, Unchanged DEF CoreInv, queues, books

-----------------------------------------------------------------------------
(* Together.                                                               *)
LEMMA CoreInit == Init => CoreInv
<1> SUFFICES ASSUME Init
             PROVE  CoreInv
  OBVIOUS
<1>1. IsPlan(plan)
  <2>1. PICK s \in Scenarios : plan = [scn |-> s, queue |-> s.slots, due |-> 0]
    BY DEF Init
  <2>2. PICK q : q = s.slots
    OBVIOUS
  <2>3. plan \in [scn : Scenarios, queue : {q, 0}, due : {q, 0}]
    BY <2>1, <2>2
  <2> QED
    BY <2>3 DEF IsPlan
<1>2. Working
  BY NoWorkAt DEF Init, Working
<1>3. /\ \A t \in Workers : worker[t].pc = "idle"
      /\ order = <<>> /\ cqOrder = <<>> /\ cqAction = <<>>
      /\ rtn = <<>> /\ answers = <<>> /\ deals = <<>>
      /\ trader = [pc |-> "orders", ref |-> 0, ok |-> TRUE]
      /\ IsSpi(spi) /\ spi.pc = "idle"
  BY NoWorkAt, QuietSpi DEF Init
<1>4. /\ exch \in [Refs -> OrderStates]
      /\ \A r \in Refs : exch[r].st = "none" /\ ~exch[r].cxl
  <2>1. exch = [r \in Refs |-> NoOrder]
    BY DEF Init
  <2>2. NoOrder \in OrderStates /\ NoOrder.st = "none" /\ ~NoOrder.cxl
    BY DEF NoOrder, OrderStates
  <2> QED
    BY <2>1, <2>2
<1>5. /\ hts \in [Refs -> Entry] /\ \A r \in Refs : ~hts[r].orded
      /\ mapOrder = [r \in Refs |-> mapOrder[r]]
  <2>1. hts = [r \in Refs |-> NoEntry] /\ mapOrder = [r \in Refs |-> NoReport]
    BY DEF Init
  <2> QED
    BY <2>1, NoEntryAt
<1>6. trader \in Traders /\ trader.pc = "orders"
  BY <1>3 DEF Traders
<1>7. Shape
  BY <1>3, <1>4, <1>5, <1>6, NoElems, CoreAssumption DEF Shape
<1>8. WaitsOnce
  BY <1>3, <1>4, <1>6 DEF WaitsOnce
<1>9. Reports
  <2>1. /\ IsSeq(rtn) /\ IsSeq(answers) /\ IsSeq(deals)
        /\ Elems(rtn) = {} /\ Elems(answers) = {} /\ Elems(deals) = {}
    BY <1>3, NoElems, Zenon
  <2> QED
    BY <2>1 DEF Reports
<1>10. Stamped
  BY <1>3, <1>5 DEF Stamped
<1>11. Cancelling
  BY <1>3, <1>4, <1>6 DEF Cancelling, Asked, Elems
<1>12. Marking
  BY <1>3 DEF Marking
<1> QED
  BY <1>1, <1>2, <1>7, <1>8, <1>9, <1>10, <1>11, <1>12 DEF CoreInv

LEMMA CoreNext ==
    ASSUME CoreInv, Workers \subseteq {"algo"}, [Next]_vars
    PROVE  CoreInv'
<1>1. CASE SlotDue
  <2>1. IsPlan(plan)'
    <3>1. IsPlan([plan EXCEPT !.due = plan.due + 1])
      BY PlanAt, Zenon DEF CoreInv
    <3>2. plan' = [plan EXCEPT !.due = plan.due + 1]
      BY <1>1 DEF SlotDue
    <3>3. IsPlan(plan')
      BY <3>1, <3>2, Zenon
    <3> QED
      BY <3>3, Zenon DEF IsPlan
  <2>2. UNCHANGED <<queues, hts, books, worker, trader, spi, ext>>
    BY <1>1 DEF SlotDue
  <2> QED
    BY <2>1, <2>2, Unchanged DEF CoreInv, queues, books, ext
<1>2. CASE \E t \in Workers : CheckDoing(t) \/ Proceed(t)
  BY <1>2, ProceedStep
<1>3. CASE \E r \in 1 .. Len(order) : Broker(r)
  BY <1>3, BrokerStep
<1>4. CASE Relogin \/ UNCHANGED vars
  <2>1. UNCHANGED <<plan, queues, hts, books, worker, trader, spi, exch, deals, rtn, answers>>
    BY <1>4 DEF Relogin, vars, ext
  <2> QED
    BY <2>1, Unchanged DEF CoreInv, queues, books
<1> QED
  BY <1>1, <1>2, <1>3, <1>4, TradingStep, CtpStep, QueriesStep, DisconnectStep, Zenon DEF Next

LEMMA CoreCancels ==
    ASSUME CoreInv
    PROVE  CancelOnce
<1>1. ASSUME NEW t \in Workers, worker[t].pc = "mark", NEW r, r = worker[t].ref
      PROVE  r \notin {cqAction[i] : i \in DOMAIN cqAction} /\ ~exch[r].cxl
  BY <1>1 DEF CoreInv, Marking, Asked, Elems
<1> QED
  BY <1>1 DEF CoreInv, Cancelling, CancelOnce

(* HTP cancels no order twice: one entry in the action queue, none once    *)
(* ThreadTrading has taken it or sent it, whatever CancelWay, the broker's *)
(* reports, the query answers and the faults do in between, when           *)
(* ThreadAlgo is the only thread in TargetWay.                             *)
THEOREM CancelOnceAlways ==
    ASSUME Workers \subseteq {"algo"}
    PROVE  Spec => []CancelOnce
<1>1. CoreInv /\ [Next]_vars => CoreInv'
  BY CoreNext
<1> QED
  BY <1>1, CoreInit, CoreCancels, PTL DEF Spec

-----------------------------------------------------------------------------
(* All values as they are.                                                 *)
OrderRec  == [side : Sides, vol : 1 .. Lot]
Report    == [st : Reported \cup {"none"}, rem : 0 .. Lot]
Message   == [kind : {"order", "trade", "error", "down"}, ref : Refs \cup {0},
              st : Reported \cup {"none"}, id : Nat, n : 0 .. Lot]
WorkerRec == [pc : Places, tgt : Nat, side : Sides, todo : Seq(1 .. Lot),
              ref : Refs \cup {0}, cset : SUBSET Refs, ctx : Ctxs]
SpiRec    == [pc : {"idle", "final", "stamp"}, msg : Report, ref : Refs \cup {0}]
ExchRec   == [st : {"none", "live", "all", "canceled", "rejected"}, done : 0 .. Lot,
              cxl : BOOLEAN]
PlanRec   == [scn : Scenarios, queue : Seq(Nat), due : Nat]

PlanInv == plan \in PlanRec /\ plan.due <= Len(plan.queue)

(* TARGET_LOOP turns while there is an order to create, and CancelWay      *)
(* marks an order.                                                         *)
WorkerOK(w) ==
    /\ w \in WorkerRec
    /\ w.pc = "push" => w.todo # <<>>
    /\ w.pc = "mark" => w.ref \in Refs
WorkersInv ==
    /\ worker = [t \in Workers |-> worker[t]]
    /\ \A t \in Workers : WorkerOK(worker[t])

TableInv ==
    /\ hts \in [Refs -> Entry]
    /\ noReopen \in SUBSET Refs
    /\ cqAction \in Seq(Refs)
    /\ trader \in Traders
    /\ trader.pc \in {"insert", "sent", "action", "acted"} => trader.ref \in Refs

OrdersInv == order \in Seq(OrderRec) /\ Len(order) <= MaxRef /\ cqOrder \in Seq(Refs)

BooksInv ==
    /\ mapOrder \in [Refs -> Report]
    /\ posORD \in Nat /\ posTRD \in Nat
    /\ spi \in SpiRec

BrokerInv ==
    /\ exch \in [Refs -> ExchRec]
    /\ rtn \in Seq(Message) /\ answers \in Seq(Message) /\ deals \in Seq(Message)

TypeInv == PlanInv /\ WorkersInv /\ TableInv /\ OrdersInv /\ BooksInv /\ BrokerInv

-----------------------------------------------------------------------------
(* What the exchange holds of an order fits it, ...                        *)
Kept(r) ==
    /\ exch[r].st \in {"none", "rejected"} => exch[r].done = 0
    /\ exch[r].st \in {"live", "canceled"} => exch[r].done < order[r].vol
    /\ exch[r].st = "all" => exch[r].done = order[r].vol
Exchange == \A r \in Refs : Kept(r)

Dealt == \A i \in 1 .. Len(deals) :
            /\ deals[i].kind = "trade" /\ deals[i].id = i
            /\ deals[i].ref \in 1 .. Len(order) /\ deals[i].n > 0

(* ... what a message says stays true, ...                                 *)
Tells(m) ==
    /\ m.kind # "down" => m.ref \in 1 .. Len(order)
    /\ m.kind = "order" =>
          /\ m.st \in Reported /\ Reached(m.ref) /\ m.n <= order[m.ref].vol
          /\ m.st = "queueing" => m.n = order[m.ref].vol
          /\ m.st \in Final => m.st = exch[m.ref].st /\ m.n = Left(m.ref)
    /\ m.kind = "error" => exch[m.ref].st = "rejected"
    /\ m.kind = "trade" => m.id \in 1 .. Len(deals) /\ m = deals[m.id]
Streams == \A m \in Elems(rtn) \cup Elems(answers) : Tells(m)

(* ... and so does what HTP stored of the last ones.                       *)
Stored == \A r \in Refs : mapOrder[r].st \in Final =>
              /\ r <= Len(order)
              /\ mapOrder[r].st = exch[r].st /\ mapOrder[r].rem = Left(r)
AtHand ==
    /\ spi.pc = "final" =>
          /\ spi.ref \in 1 .. Len(order) /\ spi.msg.st \in Final
          /\ spi.msg = mapOrder[spi.ref]
    /\ spi.pc = "stamp" => spi.ref \in Refs
Deals == mapTrade \subseteq {<<deals[i].ref, i>> : i \in 1 .. Len(deals)}

World == WaitsOnce /\ Exchange /\ Dealt /\ Streams /\ Stored /\ AtHand /\ Deals

-----------------------------------------------------------------------------
(* What does not change keeps its shape.                                   *)
LEMMA TypeFrame ==
    /\ PlanInv /\ UNCHANGED plan => PlanInv'
    /\ WorkersInv /\ UNCHANGED worker => WorkersInv'
    /\ TableInv /\ UNCHANGED <<hts, noReopen, cqAction, trader>> => TableInv'
    /\ OrdersInv /\ UNCHANGED <<order, cqOrder>> => OrdersInv'
    /\ BooksInv /\ UNCHANGED <<mapOrder, posORD, posTRD, spi>> => BooksInv'
    /\ BrokerInv /\ UNCHANGED <<exch, rtn, answers, deals>> => BrokerInv'
<1>1. PlanInv /\ UNCHANGED plan => PlanInv'
  BY DEF PlanInv
<1>2. WorkersInv /\ UNCHANGED worker => WorkersInv'
  BY DEF WorkersInv, WorkerOK
<1>3. TableInv /\ UNCHANGED <<hts, noReopen, cqAction, trader>> => TableInv'
  BY DEF TableInv
<1>4. OrdersInv /\ UNCHANGED <<order, cqOrder>> => OrdersInv'
  BY DEF OrdersInv
<1>5. BooksInv /\ UNCHANGED <<mapOrder, posORD, posTRD, spi>> => BooksInv'
  BY DEF BooksInv
<1>6. BrokerInv /\ UNCHANGED <<exch, rtn, answers, deals>> => BrokerInv'
  BY DEF BrokerInv
<1> QED
  BY <1>1, <1>2, <1>3, <1>4, <1>5, <1>6

LEMMA WorldFrame ==
    /\ WaitsOnce /\ UNCHANGED <<order, cqOrder, trader, exch>> => WaitsOnce'
    /\ Exchange /\ UNCHANGED <<order, exch>> => Exchange'
    /\ Dealt /\ UNCHANGED <<order, deals>> => Dealt'
    /\ Streams /\ UNCHANGED <<order, exch, deals, rtn, answers>> => Streams'
    /\ Stored /\ UNCHANGED <<order, exch, mapOrder>> => Stored'
    /\ AtHand /\ UNCHANGED <<order, mapOrder, spi>> => AtHand'
    /\ Deals /\ UNCHANGED <<deals, mapTrade>> => Deals'
<1>1. WaitsOnce /\ UNCHANGED <<order, cqOrder, trader, exch>> => WaitsOnce'
  BY DEF WaitsOnce, Refs
<1>2. Exchange /\ UNCHANGED <<order, exch>> => Exchange'
  BY DEF Exchange, Kept, Refs
<1>3. Dealt /\ UNCHANGED <<order, deals>> => Dealt'
  BY DEF Dealt
<1>4. Streams /\ UNCHANGED <<order, exch, deals, rtn, answers>> => Streams'
  BY DEF Streams, Elems, Tells, Reached, Left, Refs
<1>5. Stored /\ UNCHANGED <<order, exch, mapOrder>> => Stored'
  BY DEF Stored, Left, Refs
<1>6. AtHand /\ UNCHANGED <<order, mapOrder, spi>> => AtHand'
  BY DEF AtHand, Refs
<1>7. Deals /\ UNCHANGED <<deals, mapTrade>> => Deals'
  BY DEF Deals
<1> QED
  BY <1>1, <1>2, <1>3, <1>4, <1>5, <1>6, <1>7

-----------------------------------------------------------------------------
(* A worker goes on, with the fields it sets as they should be.            *)
LEMMA WorkerGoes ==
    ASSUME WorkersInv, NEW t \in Workers, NEW w, Goto(t, w), WorkerOK(w)
    PROVE  WorkersInv' /\ worker'[t] = w /\ \A u \in Workers : u # t => worker'[u] = worker[u]
<1>1. /\ worker'[t] = w /\ \A u \in Workers : u # t => worker'[u] = worker[u]
      /\ worker' = [u \in Workers |-> worker'[u]]
  BY DEF WorkersInv, Goto
<1> QED
  BY <1>1, Zenon DEF WorkersInv, WorkerOK

LEMMA NoWorkOK == WorkerOK(NoWork) /\ NoWork.todo = <<>>
<1>1. <<>> \in Seq(1 .. Lot)
  OBVIOUS
<1>2. /\ NoWork.pc = "idle" /\ NoWork.tgt = 0 /\ NoWork.side = "buy" /\ NoWork.todo = <<>>
      /\ NoWork.ref = 0 /\ NoWork.cset = {} /\ NoWork.ctx = "none"
  BY DEF NoWork
<1>3. NoWork \in WorkerRec
  BY <1>1 DEF NoWork, WorkerRec, Places, Sides, Ctxs
<1> QED
  BY <1>2, <1>3 DEF WorkerOK

LEMMA WorkerPc ==
    ASSUME NEW w, WorkerOK(w), NEW p \in Places \ {"push", "mark"}
    PROVE  WorkerOK([w EXCEPT !.pc = p])
  BY DEF WorkerOK, WorkerRec

LEMMA WorkerTgt ==
    ASSUME NEW w, WorkerOK(w), NEW n \in Nat
    PROVE  WorkerOK([w EXCEPT !.pc = "ready", !.tgt = n])
  BY DEF WorkerOK, WorkerRec, Places

LEMMA WorkerTodo ==
    ASSUME NEW w, WorkerOK(w), NEW d \in Sides, NEW s \in Seq(1 .. Lot), s # <<>>,
           NEW c \in Ctxs
    PROVE  WorkerOK([w EXCEPT !.pc = "push", !.side = d, !.todo = s, !.ctx = c])
  BY DEF WorkerOK, WorkerRec, Places

LEMMA WorkerList ==
    ASSUME NEW w, WorkerOK(w), NEW E \in SUBSET Refs, NEW c \in Ctxs
    PROVE  WorkerOK([w EXCEPT !.pc = "cancel", !.cset = E, !.ctx = c])
  BY DEF WorkerOK, WorkerRec, Places

LEMMA WorkerRef ==
    ASSUME NEW w, WorkerOK(w), NEW p \in Places \ {"push", "mark"}, NEW r \in Refs \cup {0}
    PROVE  WorkerOK([w EXCEPT !.pc = p, !.ref = r])
  BY DEF WorkerOK, WorkerRec

LEMMA WorkerAgain ==
    ASSUME NEW w, WorkerOK(w), w.todo # <<>>
    PROVE  WorkerOK([w EXCEPT !.pc = "push", !.ref = 0])
  BY DEF WorkerOK, WorkerRec, Places

LEMMA WorkerRest ==
    ASSUME NEW w, WorkerOK(w), NEW E \in SUBSET Refs, w.pc \notin {"push", "mark"}
    PROVE  WorkerOK([w EXCEPT !.cset = E])
  BY DEF WorkerOK, WorkerRec

LEMMA WorkerMark ==
    ASSUME NEW w, WorkerOK(w), NEW r \in Refs
    PROVE  WorkerOK([w EXCEPT !.pc = "mark", !.ref = r])
  BY DEF WorkerOK, WorkerRec, Places

LEMMA WorkerStamp ==
    ASSUME NEW w, WorkerOK(w), NEW s \in Seq(1 .. Lot), NEW r \in Refs
    PROVE  WorkerOK([w EXCEPT !.pc = "stamp", !.todo = s, !.ref = r])
  BY DEF WorkerOK, WorkerRec, Places

(* The orders that there are.                                              *)
LEMMA OrderFacts ==
    ASSUME OrdersInv
    PROVE  /\ Len(order) \in Nat /\ Len(order) <= MaxRef /\ 1 .. Len(order) \subseteq Refs
           /\ \A r \in 1 .. Len(order) : order[r] \in OrderRec /\ order[r].side \in Sides
                                         /\ order[r].vol \in 1 .. Lot /\ order[r].vol \in Nat
           /\ DOMAIN order = 1 .. Len(order)
           /\ IsFiniteSet(1 .. Len(order))
<1>1. Len(order) \in Nat /\ Len(order) <= MaxRef /\ DOMAIN order = 1 .. Len(order)
  BY DEF OrdersInv
<1>2. 1 .. Len(order) \subseteq Refs
  BY <1>1, CoreAssumption DEF Refs
<1>3. ASSUME NEW r \in 1 .. Len(order)
      PROVE  order[r] \in OrderRec
  BY DEF OrdersInv
<1>4. \A o \in OrderRec : o.side \in Sides /\ o.vol \in 1 .. Lot /\ o.vol \in Nat
  BY CoreAssumption DEF OrderRec
<1>5. IsFiniteSet(1 .. Len(order))
  BY <1>1, FS_Interval
<1> QED
  BY <1>1, <1>2, <1>3, <1>4, <1>5

(* Sums over some of the orders are integers.                              *)
LEMMA OrderSum ==
    ASSUME OrdersInv, NEW S \in SUBSET (1 .. Len(order)), NEW f \in [S -> Int]
    PROVE  SumFunction(f) \in Int
<1>1. IsFiniteSet(S)
  BY OrderFacts, FS_Subset
<1> QED
  BY <1>1, SumType

LEMMA PendingInt ==
    ASSUME OrdersInv, BooksInv, NEW side
    PROVE  PendingVol(side) \in Int
<1>1. PICK S : S = {r \in 1 .. Len(order) : Pending(r) /\ order[r].side = side}
  OBVIOUS
<1>2. S \in SUBSET (1 .. Len(order))
  BY <1>1
<1>3. \A r \in S : mapOrder[r].rem \in Int
  <2>1. \A r \in S : mapOrder[r] \in Report
    BY <1>2, OrderFacts DEF BooksInv
  <2> QED
    BY <2>1, CoreAssumption DEF Report
<1>4. PICK f : f = [r \in S |-> mapOrder[r].rem]
  OBVIOUS
<1>5. f \in [S -> Int]
  BY <1>3, <1>4
<1>6. SumFunction(f) \in Int
  BY <1>2, <1>5, OrderSum
<1> QED
  BY <1>1, <1>4, <1>6 DEF PendingVol, Sum

(* TARGET_LOOP's division gives orders of one lot at most, ...             *)
LEMMA SplitLength ==
    ASSUME NEW n \in Nat \ {0}
    PROVE  /\ (n + Lot - 1) \div Lot \in Nat \ {0}
           /\ \A i \in 1 .. (n + Lot - 1) \div Lot : n - (i - 1) * Lot \in Nat \ {0}
           /\ n <= ((n + Lot - 1) \div Lot) * Lot
<1>1. PICK L \in Nat \ {0} : L = Lot
  BY CoreAssumption
<1>2. PICK k \in Int : k = (n + L - 1) \div L
  BY <1>1
<1>3. k * L <= n + L - 1 /\ n + L - 1 < (k + 1) * L
  BY ONLY <1>2, n \in Nat \ {0}, L \in Nat \ {0}
<1>4. (k + 1) * L = k * L + L
  BY ONLY k \in Int, L \in Nat \ {0}
<1>5. PICK p \in Int : p = k * L
  OBVIOUS
<1>6. n <= p /\ p < n + L
  BY <1>3, <1>4, <1>5
<1>7. k > 0
  <2>1. k <= 0 => k * L <= 0
    BY ONLY k \in Int, L \in Nat \ {0}
  <2> QED
    BY <1>5, <1>6, <2>1
<1>8. ASSUME NEW i \in 1 .. k
      PROVE  n - (i - 1) * L \in Nat \ {0}
  <2>1. (i - 1) * L <= (k - 1) * L
    <3>1. PICK d \in Nat : d = k - i
      BY <1>8
    <3>2. (k - 1) * L = (i - 1) * L + d * L
      BY ONLY <3>1, k \in Int, i \in 1 .. k, L \in Nat \ {0}, d \in Nat
    <3>3. d * L >= 0
      BY ONLY d \in Nat, L \in Nat \ {0}
    <3>4. PICK x \in Int, y \in Int, z \in Int : x = (i - 1) * L /\ y = (k - 1) * L /\ z = d * L
      OBVIOUS
    <3> QED
      BY <3>2, <3>3, <3>4
  <2>2. (k - 1) * L = k * L - L
    BY ONLY k \in Int, L \in Nat \ {0}
  <2>3. PICK x \in Int, y \in Int : x = (i - 1) * L /\ y = (k - 1) * L
    OBVIOUS
  <2>4. x <= y /\ y = p - L
    BY <1>5, <2>1, <2>2, <2>3
  <2>5. n - x \in Nat \ {0}
    BY <1>6, <2>4
  <2> QED
    BY <2>3, <2>5
<1> QED
  BY <1>1, <1>2, <1>5, <1>6, <1>7, <1>8

(* TARGET_LOOP may turn at least once.                                     *)
LEMMA ReachNat ==
    ASSUME TypeInv
    PROVE  MaxTurns \in Nat \ {0} /\ Reach \in Nat
<1>1. plan.scn \in Scenarios
  BY DEF TypeInv, PlanInv, PlanRec
<1>2. PICK m \in Nat \ {0} : m = MaxTurns
  BY <1>1, CoreAssumption DEF MaxTurns
<1>3. m * Lot \in Nat
  BY CoreAssumption
<1> QED
  BY <1>2, <1>3 DEF Reach

(* The turns of TARGET_LOOP are not more.                                  *)
LEMMA TurnsLength ==
    ASSUME TypeInv, NEW n \in Nat \ {0}
    PROVE  /\ Turns(n) \in Nat \ {0} /\ Turns(n) <= MaxTurns
           /\ Turns(n) <= (n + Lot - 1) \div Lot
           /\ \A i \in 1 .. Turns(n) : n - (i - 1) * Lot \in Nat \ {0}
           /\ Turns(n) = MaxTurns \/ n <= Turns(n) * Lot
<1>1. PICK j \in Nat \ {0} : j = (n + Lot - 1) \div Lot
  BY SplitLength
<1>2. /\ \A i \in 1 .. j : n - (i - 1) * Lot \in Nat \ {0}
      /\ n <= j * Lot
  BY <1>1, SplitLength
<1>3. PICK k : k = Turns(n)
  OBVIOUS
<1>4. k = IF MaxTurns < j THEN MaxTurns ELSE j
  BY <1>1, <1>3 DEF Turns, Smaller
<1>5. k \in Nat \ {0} /\ k <= MaxTurns /\ k <= j /\ (k = MaxTurns \/ k = j)
  BY <1>4, ReachNat
<1>6. \A i \in 1 .. k : i \in 1 .. j
  BY <1>5
<1> QED
  BY <1>1, <1>2, <1>3, <1>5, <1>6

LEMMA FunSeq ==
    ASSUME NEW S, NEW k \in Nat, NEW u \in [1 .. k -> S]
    PROVE  u \in Seq(S) /\ Len(u) = k
OBVIOUS

(* ... and at least one.                                                   *)
LEMMA SplitSeq ==
    ASSUME TypeInv, NEW n \in Nat \ {0}
    PROVE  /\ Split(n) \in Seq(1 .. Lot) /\ Split(n) # <<>>
           /\ Len(Split(n)) = Turns(n)
<1>1. PICK k \in Nat \ {0} : k = Turns(n) /\ k <= (n + Lot - 1) \div Lot
  BY TurnsLength
<1>2. \A i \in 1 .. k : n - (i - 1) * Lot \in Nat \ {0}
  BY <1>1, TurnsLength
<1>3. ASSUME NEW i \in 1 .. k
      PROVE  Smaller(Lot, n - (i - 1) * Lot) \in 1 .. Lot
  <2>1. PICK x \in Nat \ {0} : x = n - (i - 1) * Lot
    BY <1>2
  <2> QED
    BY <2>1, CoreAssumption DEF Smaller
<1>4. Split(n) = [i \in 1 .. k |-> Smaller(Lot, n - (i - 1) * Lot)]
  BY <1>1, Zenon DEF Split
<1>5. Split(n) \in [1 .. k -> 1 .. Lot]
  BY <1>3, <1>4
<1>6. PICK u : u = Split(n)
  OBVIOUS
<1>7. u \in Seq(1 .. Lot) /\ Len(u) = k /\ u # <<>>
  <2>1. u \in [1 .. k -> 1 .. Lot] /\ k \in Nat /\ k > 0
    BY <1>5, <1>6
  <2>2. u \in Seq(1 .. Lot) /\ Len(u) = k
    BY <2>1, FunSeq
  <2>3. k > 0 /\ u # <<>>
    BY <2>1, <2>2
  <2> QED
    BY <2>2, <2>3
<1> QED
  BY <1>1, <1>6, <1>7, Zenon

-----------------------------------------------------------------------------
(* The workers' steps, one by one.                                         *)
LEMMA WorkersStay ==
    ASSUME TypeInv, PlanInv', WorkersInv', UNCHANGED <<queues, hts, books, trader, spi, ext>>
    PROVE  TypeInv'
BY TypeFrame DEF TypeInv, queues, books, ext

LEMMA WorkerNow ==
    ASSUME TypeInv, NEW t \in Workers
    PROVE  WorkerOK(worker[t])
BY DEF TypeInv, WorkersInv

LEMMA ExpiredRefs ==
    ASSUME OrdersInv
    PROVE  \A E \in Expired : E \in SUBSET Refs
BY OrderFacts DEF Expired

LEMMA ScanType ==
    ASSUME TypeInv, NEW t \in Workers, NEW base, WorkerOK(base), NEW c \in Ctxs,
           NEW otherwise, WorkerOK(otherwise), Scan(t, base, c, otherwise)
    PROVE  WorkersInv'
<1>1. PICK E \in Expired : Goto(t, IF E = {} THEN otherwise
                                   ELSE [base EXCEPT !.pc = "cancel", !.cset = E, !.ctx = c])
  BY Zenon DEF Scan
<1>2. E \in SUBSET Refs
  BY ExpiredRefs DEF TypeInv
<1>3. CASE E = {}
  <2>1. Goto(t, otherwise)
    BY <1>1, <1>3, Zenon
  <2> QED
    BY <2>1, WorkerGoes DEF TypeInv
<1>4. CASE E # {}
  <2>1. PICK w : w = [base EXCEPT !.pc = "cancel", !.cset = E, !.ctx = c]
    OBVIOUS
  <2>2. Goto(t, w)
    BY <1>1, <1>4, <2>1, Zenon
  <2>3. WorkerOK(w)
    BY <1>2, <2>1, WorkerList, Zenon
  <2> QED
    BY <2>2, <2>3, WorkerGoes DEF TypeInv
<1> QED
  BY <1>3, <1>4

LEMMA AfterCancelType ==
    ASSUME NEW w, WorkerOK(w)
    PROVE  WorkerOK(AfterCancel(w))
<1>1. "cancel" \in Places \ {"push", "mark"} /\ "pop" \in Places \ {"push", "mark"} /\ 0 \in Refs \cup {0}
  BY DEF Places
<1>2. WorkerOK([w EXCEPT !.pc = "cancel", !.ref = 0]) /\ WorkerOK([w EXCEPT !.pc = "pop", !.ref = 0])
  BY <1>1, WorkerRef, Zenon
<1> QED
  BY <1>2, NoWorkOK, Zenon DEF AfterCancel

LEMMA CheckDoingType ==
    ASSUME TypeInv, NEW t \in Workers, CheckDoing(t)
    PROVE  TypeInv'
<1>1. PICK p : p = IF Blockers = {} THEN "get" ELSE "scan"
  OBVIOUS
<1>2. p \in Places \ {"push", "mark"}
  BY <1>1 DEF Places
<1>3. WorkerOK([NoWork EXCEPT !.pc = p])
  BY <1>2, NoWorkOK, WorkerPc, Zenon
<1>4. Goto(t, [NoWork EXCEPT !.pc = p])
  BY <1>1, Zenon DEF CheckDoing
<1>5. WorkersInv'
  BY <1>3, <1>4, WorkerGoes DEF TypeInv
<1>6. UNCHANGED <<plan, queues, hts, books, trader, spi, ext>>
  BY DEF CheckDoing
<1> QED
  BY <1>5, <1>6, WorkersStay, TypeFrame DEF TypeInv

(* What PopTarget and GetTarget leave of the plan.                         *)
LEMMA PlanTypes ==
    ASSUME PlanInv
    PROVE  /\ plan.due > 0 => /\ AfterGet \in PlanRec /\ AfterGet.due <= Len(AfterGet.queue)
                              /\ plan.queue[plan.due] \in Nat
           /\ AfterPop \in PlanRec /\ AfterPop.due <= Len(AfterPop.queue)
<1>1. PICK q \in Seq(Nat) : q = plan.queue
  BY DEF PlanInv, PlanRec
<1>2. PICK d \in Nat : d = plan.due
  BY DEF PlanInv, PlanRec
<1>3. PICK n \in Nat : n = Len(q)
  BY <1>1
<1>4. d <= n /\ plan \in PlanRec
  BY <1>1, <1>2, <1>3 DEF PlanInv
<1>5. ASSUME d > 0
      PROVE  /\ AfterGet \in PlanRec /\ AfterGet.due <= Len(AfterGet.queue) /\ q[d] \in Nat
  <2>1. PICK s : s = SubSeq(q, d, n)
    OBVIOUS
  <2>2. s \in Seq(Nat) /\ Len(s) = n - d + 1
    BY <1>3, <1>4, <1>5, <2>1
  <2>3. AfterGet = [plan EXCEPT !.queue = s, !.due = 1]
    BY <1>1, <1>2, <1>3, <2>1 DEF AfterGet
  <2>4. AfterGet \in PlanRec /\ AfterGet.due = 1 /\ AfterGet.queue = s
    BY <1>4, <2>2, <2>3 DEF PlanRec
  <2>5. q[d] \in Nat
    BY <1>3, <1>4, <1>5
  <2> QED
    BY <1>4, <1>5, <2>2, <2>4, <2>5
<1>6. AfterPop \in PlanRec /\ AfterPop.due <= Len(AfterPop.queue)
  <2>1. CASE q = <<>>
    BY <1>1, <1>2, <1>3, <1>4, <2>1 DEF AfterPop
  <2>2. CASE q # <<>>
    <3>1. PICK s : s = Tail(q)
      OBVIOUS
    <3>2. s \in Seq(Nat) /\ Len(s) = n - 1 /\ n > 0
      BY <1>3, <2>2, <3>1
    <3>3. PICK e \in Nat : e = IF d = 0 THEN 0 ELSE d - 1
      OBVIOUS
    <3>4. AfterPop = [plan EXCEPT !.queue = s, !.due = e]
      BY <1>1, <1>2, <2>2, <3>1, <3>3 DEF AfterPop
    <3>5. AfterPop \in PlanRec /\ AfterPop.due = e /\ AfterPop.queue = s
      BY <1>4, <3>2, <3>3, <3>4 DEF PlanRec
    <3> QED
      BY <1>4, <3>2, <3>3, <3>5
  <2> QED
    BY <2>1, <2>2
<1> QED
  BY <1>1, <1>2, <1>5, <1>6

LEMMA GetTargetType ==
    ASSUME TypeInv, NEW t \in Workers, GetTarget(t)
    PROVE  TypeInv'
<1>1. PlanInv /\ WorkersInv
  BY DEF TypeInv
<1>2. UNCHANGED <<queues, hts, books, trader, spi, ext>>
  BY DEF GetTarget
<1>3. CASE /\ plan.due > 0 /\ plan' = AfterGet
           /\ Goto(t, [NoWork EXCEPT !.pc = "ready", !.tgt = plan.queue[plan.due]])
  <2>1. PICK n \in Nat : n = plan.queue[plan.due]
    BY <1>1, <1>3, PlanTypes
  <2>2. WorkerOK([NoWork EXCEPT !.pc = "ready", !.tgt = n])
    BY NoWorkOK, WorkerTgt, Zenon
  <2>3. Goto(t, [NoWork EXCEPT !.pc = "ready", !.tgt = n])
    BY <1>3, <2>1, Zenon
  <2>4. WorkersInv'
    BY <1>1, <2>2, <2>3, WorkerGoes
  <2>5. PlanInv'
    BY <1>1, <1>3, PlanTypes DEF PlanInv, PlanRec
  <2> QED
    BY <1>2, <2>4, <2>5, WorkersStay
<1>4. CASE Goto(t, [NoWork EXCEPT !.pc = "scan"]) /\ UNCHANGED plan
  <2>1. "scan" \in Places \ {"push", "mark"}
    BY DEF Places
  <2>2. WorkerOK([NoWork EXCEPT !.pc = "scan"])
    BY <2>1, NoWorkOK, WorkerPc, Zenon
  <2>3. WorkersInv'
    BY <1>1, <1>4, <2>2, WorkerGoes
  <2> QED
    BY <1>1, <1>2, <1>4, <2>3, WorkersStay, TypeFrame
<1> QED
  BY <1>3, <1>4, Zenon DEF GetTarget

LEMMA ScansType ==
    ASSUME TypeInv, NEW t \in Workers, ScanIdle(t) \/ ScanLate(t)
    PROVE  TypeInv'
<1>1. UNCHANGED <<plan, queues, hts, books, trader, spi, ext>>
  BY DEF ScanIdle, ScanLate
<1>2. WorkersInv'
  <2>1. "scan" \in Ctxs /\ "late" \in Ctxs /\ "pop" \in Places \ {"push", "mark"}
    BY DEF Ctxs, Places
  <2>2. CASE ScanIdle(t)
    BY <2>1, <2>2, NoWorkOK, ScanType, Zenon DEF ScanIdle
  <2>3. CASE ScanLate(t)
    <3>1. WorkerOK(worker[t]) /\ WorkerOK([worker[t] EXCEPT !.pc = "pop"])
      BY <2>1, WorkerNow, WorkerPc, Zenon
    <3> QED
      BY <2>1, <2>3, <3>1, ScanType, Zenon DEF ScanLate
  <2> QED
    BY <2>2, <2>3
<1> QED
  BY <1>1, <1>2, WorkersStay, TypeFrame DEF TypeInv

LEMMA CompareORTDType ==
    ASSUME TypeInv, NEW t \in Workers, CompareORTD(t)
    PROVE  TypeInv'
<1>1. UNCHANGED <<plan, queues, hts, books, trader, spi, ext>>
  BY DEF CompareORTD
<1>2. Goto(t, NoWork) \/ Goto(t, [worker[t] EXCEPT !.pc = "compared"])
  BY Zenon DEF CompareORTD
<1>3. "compared" \in Places \ {"push", "mark"}
  BY DEF Places
<1>4. WorkerOK(NoWork) /\ WorkerOK([worker[t] EXCEPT !.pc = "compared"])
  BY <1>3, NoWorkOK, WorkerNow, WorkerPc, Zenon
<1>5. WorkersInv'
  BY <1>2, <1>4, WorkerGoes DEF TypeInv
<1> QED
  BY <1>1, <1>5, WorkersStay, TypeFrame DEF TypeInv

LEMMA ViewInt ==
    ASSUME OrdersInv, BooksInv, NEW g \in Nat
    PROVE  Available \in Int /\ NDoAll(g) \in Int
<1>1. PICK s \in Int : s = PendingVol("sell")
  BY PendingInt
<1>2. PICK b \in Int : b = PendingVol("buy")
  BY PendingInt
<1>3. posORD \in Int
  BY DEF BooksInv
<1> QED
  BY <1>1, <1>2, <1>3 DEF Available, NDoAll

LEMMA TargetWayType ==
    ASSUME TypeInv, NEW t \in Workers, TargetWay(t)
    PROVE  TypeInv'
<1>1. PICK w : w = worker[t]
  OBVIOUS
<1>2. WorkerOK(w) /\ WorkersInv
  BY <1>1, WorkerNow DEF TypeInv
<1>3. PICK d \in Int : d = NDoAll(w.tgt)
  <2>1. w.tgt \in Nat
    BY <1>2 DEF WorkerOK, WorkerRec
  <2> QED
    BY <2>1, ViewInt DEF TypeInv
<1>4. UNCHANGED <<plan, queues, hts, books, trader, spi, ext>>
  BY DEF TargetWay
<1>5. WorkersInv'
  <2>1. CASE Goto(t, NoWork)
    BY <1>2, <2>1, NoWorkOK, WorkerGoes
  <2>2. CASE Goto(t, [w EXCEPT !.pc = "pop"])
    <3>1. "pop" \in Places \ {"push", "mark"}
      BY DEF Places
    <3>2. WorkerOK([w EXCEPT !.pc = "pop"])
      BY <1>2, <3>1, WorkerPc, Zenon
    <3> QED
      BY <1>2, <2>2, <3>2, WorkerGoes
  <2>3. CASE Scan(t, w, "turn", NoWork)
    <3>1. "turn" \in Ctxs
      BY DEF Ctxs
    <3> QED
      BY <1>2, <2>3, <3>1, NoWorkOK, ScanType, Zenon
  <2>4. CASE /\ d # 0
             /\ Goto(t, [w EXCEPT !.pc = "push", !.side = IF d > 0 THEN "buy" ELSE "sell",
                             !.todo = Split(IF d > 0 THEN d ELSE 0 - d),
                             !.ctx = IF (IF d > 0 THEN d ELSE 0 - d) > Reach THEN "cut"
                                     ELSE "none"])
    <3>1. PICK n \in Nat \ {0} : n = IF d > 0 THEN d ELSE 0 - d
      BY <2>4
    <3>0. PICK c \in Ctxs : c = IF n > Reach THEN "cut" ELSE "none"
      BY DEF Ctxs
    <3>2. PICK s \in Sides : s = IF d > 0 THEN "buy" ELSE "sell"
      BY DEF Sides
    <3>3. PICK u \in Seq(1 .. Lot) : u = Split(n) /\ u # <<>>
      BY SplitSeq
    <3>4. Goto(t, [w EXCEPT !.pc = "push", !.side = s, !.todo = u, !.ctx = c])
      BY <2>4, <3>0, <3>1, <3>2, <3>3, Zenon
    <3>5. WorkerOK([w EXCEPT !.pc = "push", !.side = s, !.todo = u, !.ctx = c])
      BY <1>2, <3>3, WorkerTodo, Zenon
    <3> QED
      BY <1>2, <3>4, <3>5, WorkerGoes
  <2> QED
    BY <1>1, <1>3, <2>1, <2>2, <2>3, <2>4, Zenon DEF TargetWay
<1> QED
  BY <1>4, <1>5, WorkersStay, TypeFrame DEF TypeInv

LEMMA TypeShape ==
    ASSUME TypeInv
    PROVE  Shape /\ IsPlan(plan)
<1>1. IsSeq(order) /\ Len(order) <= MaxRef
  BY DEF TypeInv, OrdersInv, IsSeq
<1>2. IsSpi(spi)
  BY DEF TypeInv, BooksInv, SpiRec, IsSpi
<1>3. exch \in [Refs -> OrderStates]
  <2>1. ExchRec \subseteq OrderStates
    BY CoreAssumption DEF ExchRec, OrderStates
  <2> QED
    BY <2>1 DEF TypeInv, BrokerInv
<1>4. mapOrder = [r \in Refs |-> mapOrder[r]]
  BY DEF TypeInv, BooksInv
<1>5. IsPlan(plan)
  <2>1. PICK U : U = Seq(Nat) \cup Nat
    OBVIOUS
  <2>2. plan \in [scn : Scenarios, queue : U, due : U]
    BY <2>1 DEF TypeInv, PlanInv, PlanRec
  <2> QED
    BY <2>2 DEF IsPlan
<1> QED
  BY <1>1, <1>2, <1>3, <1>4, <1>5 DEF Shape, TypeInv, TableInv, OrdersInv

LEMMA SeqTail ==
    ASSUME NEW S, NEW s \in Seq(S), s # <<>>
    PROVE  /\ Head(s) = s[1] /\ Head(s) \in S /\ 1 \in 1 .. Len(s)
           /\ Tail(s) \in Seq(S) /\ Len(Tail(s)) = Len(s) - 1
           /\ \A i \in 1 .. Len(Tail(s)) : i + 1 \in 1 .. Len(s) /\ Tail(s)[i] = s[i + 1]
OBVIOUS

LEMMA SeqAppend ==
    ASSUME NEW S, NEW s \in Seq(S), NEW x \in S
    PROVE  /\ Append(s, x) \in Seq(S) /\ Len(Append(s, x)) = Len(s) + 1 /\ Len(s) \in Nat
           /\ \A i \in 1 .. Len(s) : i \in 1 .. Len(Append(s, x)) /\ Append(s, x)[i] = s[i]
           /\ Append(s, x)[Len(s) + 1] = x
OBVIOUS

LEMMA SeqJoin ==
    ASSUME NEW S, NEW s \in Seq(S), NEW u \in Seq(S)
    PROVE  /\ s \o u \in Seq(S)
           /\ \A i \in 1 .. Len(s \o u) :
                 \/ i \in 1 .. Len(s) /\ (s \o u)[i] = s[i]
                 \/ i - Len(s) \in 1 .. Len(u) /\ (s \o u)[i] = u[i - Len(s)]
<1>1. s \o u \in Seq(S) /\ Len(s) \in Nat /\ Len(u) \in Nat /\ Len(s \o u) = Len(s) + Len(u)
  OBVIOUS
<1>2. ASSUME NEW i \in 1 .. Len(s \o u)
      PROVE  \/ i \in 1 .. Len(s) /\ (s \o u)[i] = s[i]
             \/ i - Len(s) \in 1 .. Len(u) /\ (s \o u)[i] = u[i - Len(s)]
  <2>1. CASE i <= Len(s)
    BY <1>1, <2>1
  <2>2. CASE i > Len(s)
    BY <1>1, <2>2
  <2> QED
    BY <1>1, <2>1, <2>2
<1> QED
  BY <1>1, <1>2

-----------------------------------------------------------------------------
(* Orders and trades are added, what ended does not change.                *)
Grows ==
    /\ \A r \in 1 .. Len(order) :
          /\ r \in 1 .. Len(order') /\ order'[r] = order[r]
          /\ Reached(r) => Reached(r)'
          /\ exch[r].st \in Final => exch'[r].st = exch[r].st /\ exch'[r].done = exch[r].done
          /\ exch[r].st = "rejected" => exch'[r].st = "rejected"
    /\ \A i \in 1 .. Len(deals) : i \in 1 .. Len(deals') /\ deals'[i] = deals[i]

LEMMA GrowsFrame ==
    ASSUME OrdersInv, UNCHANGED <<order, exch, deals>>
    PROVE  Grows
BY OrderFacts DEF Grows, Reached

LEMMA WorldGrows ==
    ASSUME OrdersInv, OrdersInv', Grows
    PROVE  /\ \A m : Tells(m) => Tells(m)'
           /\ Stored /\ UNCHANGED mapOrder => Stored'
           /\ AtHand /\ UNCHANGED <<mapOrder, spi>> => AtHand'
           /\ Deals /\ UNCHANGED mapTrade => Deals'
           /\ Dealt /\ UNCHANGED deals => Dealt'
<1>1. ASSUME NEW r \in 1 .. Len(order)
      PROVE  /\ r \in 1 .. Len(order') /\ order'[r] = order[r] /\ (Reached(r) => Reached(r)')
             /\ exch[r].st \in Final => exch'[r].st = exch[r].st /\ Left(r)' = Left(r)
             /\ exch[r].st = "rejected" => exch'[r].st = "rejected"
  BY DEF Grows, Left
<1>2. ASSUME NEW m, Tells(m)
      PROVE  Tells(m)'
  <2>1. m.kind = "order" =>
          /\ m.ref \in 1 .. Len(order) /\ m.st \in Reported /\ Reached(m.ref)'
          /\ m.n <= order'[m.ref].vol
          /\ m.st = "queueing" => m.n = order'[m.ref].vol
          /\ m.st \in Final => m.st = exch'[m.ref].st /\ m.n = Left(m.ref)'
    BY <1>1, <1>2 DEF Tells
  <2>2. m.kind # "down" => m.ref \in 1 .. Len(order')
    BY <1>1, <1>2 DEF Tells
  <2>3. m.kind = "trade" => m.id \in 1 .. Len(deals') /\ m = deals'[m.id]
    BY <1>2 DEF Tells, Grows
  <2>4. m.kind = "error" => exch'[m.ref].st = "rejected"
    BY <1>1, <1>2 DEF Tells
  <2> QED
    BY <2>1, <2>2, <2>3, <2>4 DEF Tells
<1>3. ASSUME Stored, UNCHANGED mapOrder, NEW r \in Refs, mapOrder[r].st \in Final
      PROVE  /\ r <= Len(order') /\ mapOrder[r].st = exch'[r].st /\ mapOrder[r].rem = Left(r)'
  <2>1. r \in 1 .. Len(order)
    BY <1>3, OrderFacts, CoreAssumption DEF Stored, Refs
  <2>2. r <= Len(order')
    BY <1>1, <2>1, OrderFacts
  <2>3. mapOrder[r].st = exch[r].st /\ mapOrder[r].rem = Left(r)
    BY <1>3 DEF Stored
  <2> QED
    BY <1>1, <1>3, <2>1, <2>2, <2>3
<1>4. Stored /\ UNCHANGED mapOrder => Stored'
  BY <1>3 DEF Stored, Refs
<1>5. AtHand /\ UNCHANGED <<mapOrder, spi>> => AtHand'
  BY <1>1 DEF AtHand, Refs
<1>6. Deals /\ UNCHANGED mapTrade => Deals'
  BY DEF Deals, Grows
<1>7. Dealt /\ UNCHANGED deals => Dealt'
  BY <1>1 DEF Dealt
<1> QED
  BY <1>2, <1>4, <1>5, <1>6, <1>7

(* A new order.                                                            *)
LEMMA Opened ==
    ASSUME TypeInv, World, NEW x \in OrderRec, Len(order) < plan.scn.orders,
           order' = Append(order, x), cqOrder' = Append(cqOrder, Len(order')),
           UNCHANGED <<trader, exch, deals, rtn, answers>>
    PROVE  /\ OrdersInv' /\ WaitsOnce' /\ Exchange' /\ Dealt' /\ Streams' /\ Grows
           /\ Len(order') = Len(order) + 1 /\ Len(order') \in Refs
           /\ \A r \in 1 .. Len(order) : order'[r] = order[r]
           /\ order'[Len(order')] = x
<1>1. /\ Len(order') \in Refs /\ Len(order') <= MaxRef /\ cqOrder' \in Seq(Refs) /\ WaitsOnce'
  BY TypeShape, NewOrder DEF World
<1>2. /\ order \in Seq(OrderRec) /\ Len(order) \in Nat
      /\ order' \in Seq(OrderRec) /\ Len(order') = Len(order) + 1
      /\ \A r \in 1 .. Len(order) : r \in 1 .. Len(order') /\ order'[r] = order[r]
      /\ order'[Len(order')] = x
  BY SeqAppend DEF TypeInv, OrdersInv
<1>3. OrdersInv'
  BY <1>1, <1>2 DEF OrdersInv, Refs
<1>4. Grows
  BY <1>2 DEF Grows, Reached
<1>5. ASSUME NEW r \in Refs
      PROVE  Kept(r)'
  <2>1. Kept(r)
    BY DEF World, Exchange
  <2>2. CASE r \in 1 .. Len(order)
    BY <1>2, <2>1, <2>2 DEF Kept
  <2>3. CASE r > Len(order)
    <3>1. exch[r].st = "none"
      BY <2>3 DEF World, WaitsOnce
    <3> QED
      BY <2>1, <3>1 DEF Kept
  <2> QED
    BY <1>2, <2>2, <2>3, CoreAssumption DEF Refs
<1>6. Exchange'
  BY <1>5 DEF Exchange, Refs
<1>7. Dealt' /\ \A m : Tells(m) => Tells(m)'
  BY <1>3, <1>4, WorldGrows DEF TypeInv, World
<1>8. Streams'
  BY <1>7 DEF Streams, World
<1> QED
  BY <1>1, <1>2, <1>3, <1>4, <1>6, <1>7, <1>8

LEMMA OpenedOnly ==
    ASSUME TypeInv, World, NEW x \in OrderRec, Len(order) < plan.scn.orders,
           order' = Append(order, x), cqOrder' = Append(cqOrder, Len(order')),
           UNCHANGED <<trader, exch, deals, rtn, answers, mapOrder, mapTrade>>
    PROVE  /\ Stored' /\ Deals'
           /\ UNCHANGED spi => AtHand'
<1>1. OrdersInv' /\ Grows
  BY Opened
<1> QED
  BY <1>1, WorldGrows DEF TypeInv, World

-----------------------------------------------------------------------------
(* The workers' other steps.                                               *)
LEMMA PushOrderType ==
    ASSUME TypeInv, World, NEW t \in Workers, PushOrder(t)
    PROVE  TypeInv' /\ World' /\ Grows
<1>1. PICK w : w = worker[t]
  OBVIOUS
<1>2. /\ WorkerOK(w) /\ w.side \in Sides /\ w.todo \in Seq(1 .. Lot) /\ w.todo # <<>>
      /\ w.pc = "push"
  <2>1. WorkerOK(w) /\ w.pc = "push"
    BY <1>1, WorkerNow DEF PushOrder
  <2> QED
    BY <2>1 DEF WorkerOK, WorkerRec
<1>3. PICK s \in Seq(1 .. Lot) : s = w.todo
  BY <1>2
<1>4. PICK n \in 1 .. Lot : n = Head(s)
  BY <1>2, <1>3, SeqTail
<1>5. PICK x \in OrderRec : x = [side |-> w.side, vol |-> n]
  BY <1>2 DEF OrderRec
<1>6. /\ order' = Append(order, x) /\ Len(order) < plan.scn.orders
      /\ cqOrder' = Append(cqOrder, Len(order'))
      /\ UNCHANGED <<plan, hts, books, cqAction, noReopen, trader, spi, ext>>
  BY <1>1, <1>3, <1>4, <1>5, Zenon DEF PushOrder
<1>7. UNCHANGED <<trader, exch, deals, rtn, answers, mapOrder, mapTrade, spi>>
  BY <1>6 DEF ext, books
<1>8. OrdersInv' /\ WaitsOnce' /\ Exchange' /\ Dealt' /\ Streams' /\ Grows /\ Len(order') \in Refs
  BY <1>6, <1>7, Opened
<1>9. Stored' /\ AtHand' /\ Deals'
  BY <1>6, <1>7, OpenedOnly
<1>10. PICK r \in Refs : r = Len(order')
  BY <1>8
<1>11. PICK u \in Seq(1 .. Lot) : u = Tail(s)
  BY <1>2, <1>3, SeqTail
<1>12. Goto(t, [w EXCEPT !.pc = "stamp", !.todo = u, !.ref = r])
  BY <1>1, <1>3, <1>10, <1>11, Zenon DEF PushOrder
<1>13. WorkerOK([w EXCEPT !.pc = "stamp", !.todo = u, !.ref = r])
  BY <1>2, WorkerStamp
<1>14. WorkersInv'
  BY <1>12, <1>13, WorkerGoes DEF TypeInv
<1>15. PlanInv' /\ TableInv' /\ BooksInv' /\ BrokerInv'
  BY <1>6, TypeFrame DEF TypeInv, books, ext
<1> QED
  BY <1>8, <1>9, <1>14, <1>15 DEF TypeInv, World

LEMMA EntryStatus ==
    ASSUME hts \in [Refs -> Entry], NEW r, NEW e \in Statuses,
           hts' = [hts EXCEPT ![r] = SetStatus(@, e)]
    PROVE  hts' \in [Refs -> Entry]
<1>1. \A q \in Refs : SetStatus(hts[q], e) \in Entry
  BY StatusUp
<1>2. CASE r \in Refs
  <2>1. PICK f \in Entry : f = SetStatus(hts[r], e)
    BY <1>1, <1>2
  <2>2. hts' = [hts EXCEPT ![r] = f]
    BY <2>1, Zenon
  <2> QED
    BY <2>2
<1>3. CASE r \notin Refs
  BY <1>3
<1> QED
  BY <1>2, <1>3

LEMMA AllStatuses ==
    {ORD_NEW, ORD_DOING, ORD_DONE, ORDED, TRADED_PART, CCL_DOING, CCL_DONE} \subseteq Statuses
BY DEF Statuses, INIT, CANCEL, ORD_NEW, ORD_DOING, ORD_DONE, ORDED, TRADED_PART, CCL_DOING, CCL_DONE

LEMMA StampNewType ==
    ASSUME TypeInv, NEW t \in Workers, StampNew(t)
    PROVE  TypeInv'
<1>1. PICK w : w = worker[t]
  OBVIOUS
<1>2. WorkerOK(w)
  BY <1>1, WorkerNow
<1>3. "late" \in Places \ {"push", "mark"} /\ 0 \in Refs \cup {0}
  BY DEF Places
<1>4. WorkersInv'
  <2>1. PICK v : v = AfterStamp(w)
    OBVIOUS
  <2>2. WorkerOK(v)
    <3>1. CASE w.todo # <<>>
      <4>1. v = [w EXCEPT !.pc = "push", !.ref = 0]
        BY <2>1, <3>1, Zenon DEF AfterStamp
      <4> QED
        BY <1>2, <3>1, <4>1, WorkerAgain, Zenon
    <3>2. CASE w.todo = <<>>
      <4>1. v = NoWork \/ v = [w EXCEPT !.pc = "late", !.ref = 0]
        BY <2>1, <3>2, Zenon DEF AfterStamp
      <4>2. WorkerOK([w EXCEPT !.pc = "late", !.ref = 0])
        BY <1>2, <1>3, WorkerRef, Zenon
      <4> QED
        BY <4>1, <4>2, NoWorkOK, Zenon
    <3> QED
      BY <3>1, <3>2
  <2>3. Goto(t, v)
    BY <1>1, <2>1, Zenon DEF StampNew
  <2> QED
    BY <2>2, <2>3, WorkerGoes DEF TypeInv
<1>5. hts' \in [Refs -> Entry]
  BY AllStatuses, EntryStatus DEF StampNew, TypeInv, TableInv
<1>6. UNCHANGED <<plan, queues, books, trader, spi, ext>>
  BY DEF StampNew
<1>7. TableInv'
  BY <1>5, <1>6 DEF TypeInv, TableInv, queues, Refs
<1>8. PlanInv' /\ OrdersInv' /\ BooksInv' /\ BrokerInv'
  BY <1>6, TypeFrame DEF TypeInv, queues, books, ext
<1> QED
  BY <1>4, <1>7, <1>8 DEF TypeInv

LEMMA CancelCheckType ==
    ASSUME TypeInv, NEW t \in Workers, CancelCheck(t)
    PROVE  TypeInv'
<1>1. PICK w : w = worker[t]
  OBVIOUS
<1>2. WorkerOK(w) /\ w.pc \notin {"push", "mark"} /\ w.cset \in SUBSET Refs
  BY <1>1, WorkerNow DEF CancelCheck, WorkerOK, WorkerRec
<1>3. PICK r \in w.cset :
         \/ Goto(t, [[w EXCEPT !.cset = w.cset \ {r}] EXCEPT !.pc = "mark", !.ref = r])
         \/ Goto(t, AfterCancel([w EXCEPT !.cset = w.cset \ {r}]))
  BY <1>1, Zenon DEF CancelCheck
<1>4. PICK v : v = [w EXCEPT !.cset = w.cset \ {r}]
  OBVIOUS
<1>5. r \in Refs /\ w.cset \ {r} \in SUBSET Refs
  BY <1>2
<1>6. WorkerOK(v)
  BY <1>2, <1>4, <1>5, WorkerRest, Zenon
<1>7. WorkersInv'
  <2>1. CASE Goto(t, [v EXCEPT !.pc = "mark", !.ref = r])
    <3>1. WorkerOK([v EXCEPT !.pc = "mark", !.ref = r])
      BY <1>5, <1>6, WorkerMark
    <3> QED
      BY <2>1, <3>1, WorkerGoes DEF TypeInv
  <2>2. CASE Goto(t, AfterCancel(v))
    BY <1>6, <2>2, AfterCancelType, WorkerGoes DEF TypeInv
  <2> QED
    BY <1>3, <1>4, <2>1, <2>2, Zenon
<1>8. UNCHANGED <<plan, queues, hts, books, trader, spi, ext>>
  BY DEF CancelCheck
<1> QED
  BY <1>7, <1>8, WorkersStay, TypeFrame DEF TypeInv

LEMMA CancelMarkType ==
    ASSUME TypeInv, NEW t \in Workers, CancelMark(t)
    PROVE  TypeInv'
<1>1. PICK w : w = worker[t]
  OBVIOUS
<1>2. WorkerOK(w) /\ w.ref \in Refs
  BY <1>1, WorkerNow DEF CancelMark, WorkerOK
<1>3. PICK r \in Refs : r = w.ref
  BY <1>2
<1>4. WorkersInv'
  BY <1>1, <1>2, AfterCancelType, WorkerGoes DEF CancelMark, TypeInv
<1>5. hts' \in [Refs -> Entry]
  BY AllStatuses, EntryStatus DEF CancelMark, TypeInv, TableInv
<1>6. noReopen' \in SUBSET Refs
  BY <1>1, <1>2 DEF CancelMark, TypeInv, TableInv
<1>7. cqAction' \in Seq(Refs)
  BY <1>1, <1>2 DEF CancelMark, TypeInv, TableInv
<1>8. UNCHANGED <<plan, order, cqOrder, books, trader, spi, ext>>
  BY DEF CancelMark
<1>9. TableInv'
  BY <1>5, <1>6, <1>7, <1>8 DEF TypeInv, TableInv, Refs
<1>10. PlanInv' /\ OrdersInv' /\ BooksInv' /\ BrokerInv'
  BY <1>8, TypeFrame DEF TypeInv, books, ext
<1> QED
  BY <1>4, <1>9, <1>10 DEF TypeInv

LEMMA PopTargetType ==
    ASSUME TypeInv, NEW t \in Workers, PopTarget(t)
    PROVE  TypeInv'
<1>1. WorkersInv'
  BY NoWorkOK, WorkerGoes DEF PopTarget, TypeInv
<1>2. PlanInv'
  BY PlanTypes DEF PopTarget, TypeInv, PlanInv, PlanRec
<1>3. UNCHANGED <<queues, hts, books, trader, spi, ext>>
  BY DEF PopTarget
<1> QED
  BY <1>1, <1>2, <1>3, WorkersStay

(* Only PushOrder adds to what the broker will see.                        *)
LEMMA WorkersType ==
    ASSUME TypeInv, World, NEW t \in Workers, CheckDoing(t) \/ Proceed(t)
    PROVE  TypeInv' /\ World' /\ Grows
<1>1. CASE PushOrder(t)
  BY <1>1, PushOrderType
<1>2. CASE ~PushOrder(t)
  <2>1. TypeInv'
    BY <1>2, CheckDoingType, GetTargetType, ScansType, CompareORTDType, TargetWayType,
       StampNewType, CancelCheckType, CancelMarkType, PopTargetType, Zenon DEF Proceed
  <2>2. UNCHANGED <<order, cqOrder, trader, spi, mapOrder, mapTrade, exch, rtn, answers, deals>>
    BY <1>2 DEF Proceed, CheckDoing, GetTarget, ScanIdle, CompareORTD, TargetWay, StampNew,
                ScanLate, CancelCheck, CancelMark, PopTarget, queues, books, ext
  <2>3. World' /\ Grows
    BY <2>2, WorldFrame, GrowsFrame DEF World, TypeInv
  <2> QED
    BY <2>1, <2>3
<1> QED
  BY <1>1, <1>2

(* The private stream and the answers after a step.                        *)
LEMMA StreamsGrow ==
    ASSUME OrdersInv, OrdersInv', Grows, Streams,
           \A m \in Elems(rtn') : m \in Elems(rtn) \/ Tells(m)',
           \A m \in Elems(answers') : m \in Elems(answers) \/ Tells(m)'
    PROVE  Streams'
<1>1. \A m : Tells(m) => Tells(m)'
  BY WorldGrows
<1>2. \A m \in Elems(rtn') \cup Elems(answers') : Tells(m)'
  BY <1>1 DEF Streams
<1> QED
  BY <1>2 DEF Streams, Elems

LEMMA EmitOne ==
    ASSUME rtn \in Seq(Message), NEW a \in Message, Emit(<<a>>)
    PROVE  rtn' \in Seq(Message) /\ \A m \in Elems(rtn') : m \in Elems(rtn) \/ m = a
<1>1. IsSeq(rtn) /\ IsSeq(<<a>>) /\ Elems(<<a>>) = {a}
  BY PairSeq, Zenon DEF IsSeq
<1>2. \A m \in Elems(rtn') : m \in Elems(rtn) \/ m \in {a}
  BY <1>1, EmitSeq, Zenon
<1>3. rtn' \in Seq(Message)
  BY DEF Emit
<1> QED
  BY <1>2, <1>3

LEMMA EmitTwo ==
    ASSUME rtn \in Seq(Message), NEW a \in Message, NEW b \in Message, Emit(<<a, b>>)
    PROVE  rtn' \in Seq(Message) /\ \A m \in Elems(rtn') : m \in Elems(rtn) \/ m \in {a, b}
<1>1. IsSeq(rtn) /\ IsSeq(<<a, b>>) /\ Elems(<<a, b>>) = {a, b}
  BY PairSeq, Zenon DEF IsSeq
<1>2. \A m \in Elems(rtn') : m \in Elems(rtn) \/ m \in {a, b}
  BY <1>1, EmitSeq, Zenon
<1>3. rtn' \in Seq(Message)
  BY DEF Emit
<1> QED
  BY <1>2, <1>3

LEMMA Messages ==
    ASSUME NEW r \in Refs
    PROVE  /\ \A st \in Reported, n \in 0 .. Lot : OrderMsg(r, st, n) \in Message
           /\ \A id \in Nat, n \in 0 .. Lot : TradeMsg(r, id, n) \in Message
           /\ ErrorMsg(r) \in Message /\ DownMsg \in Message
           /\ \A st, n : /\ OrderMsg(r, st, n).kind = "order" /\ OrderMsg(r, st, n).ref = r
                         /\ OrderMsg(r, st, n).st = st /\ OrderMsg(r, st, n).n = n
           /\ \A id, n : /\ TradeMsg(r, id, n).kind = "trade" /\ TradeMsg(r, id, n).ref = r
                         /\ TradeMsg(r, id, n).id = id /\ TradeMsg(r, id, n).n = n
           /\ ErrorMsg(r).kind = "error" /\ ErrorMsg(r).ref = r /\ DownMsg.kind = "down"
<1>0. Lot \in Nat
  BY CoreAssumption
<1>1. \A st \in Reported, n \in 0 .. Lot : OrderMsg(r, st, n) \in Message
  BY DEF OrderMsg, Message
<1>2. \A id \in Nat, n \in 0 .. Lot : TradeMsg(r, id, n) \in Message
  BY DEF TradeMsg, Message
<1>3. ErrorMsg(r) \in Message /\ DownMsg \in Message
  BY <1>0 DEF ErrorMsg, DownMsg, Message
<1>4. \A st, n : /\ OrderMsg(r, st, n).kind = "order" /\ OrderMsg(r, st, n).ref = r
                 /\ OrderMsg(r, st, n).st = st /\ OrderMsg(r, st, n).n = n
  BY DEF OrderMsg
<1>5. \A id, n : /\ TradeMsg(r, id, n).kind = "trade" /\ TradeMsg(r, id, n).ref = r
                 /\ TradeMsg(r, id, n).id = id /\ TradeMsg(r, id, n).n = n
  BY DEF TradeMsg
<1>6. ErrorMsg(r).kind = "error" /\ ErrorMsg(r).ref = r /\ DownMsg.kind = "down"
  BY DEF ErrorMsg, DownMsg
<1> QED
  BY <1>1, <1>2, <1>3, <1>4, <1>5, <1>6

-----------------------------------------------------------------------------
(* ThreadTrading.                                                          *)
LEMMA NoEntryType ==
    ASSUME hts \in [Refs -> Entry], NEW r, hts' = [hts EXCEPT ![r] = NoEntry]
    PROVE  hts' \in [Refs -> Entry]
BY NoEntryAt

LEMMA TraderOK ==
    /\ [pc |-> "orders", ref |-> 0, ok |-> TRUE] \in Traders
    /\ [pc |-> "actions", ref |-> 0, ok |-> TRUE] \in Traders
BY DEF Traders

LEMMA TakeOrderType ==
    ASSUME TypeInv, World, TakeOrder
    PROVE  TypeInv' /\ World' /\ Grows
<1>1. PICK r : r = Head(cqOrder)
  OBVIOUS
<1>2. /\ cqOrder # <<>> /\ cqOrder' = Tail(cqOrder)
      /\ UNCHANGED <<plan, order, cqAction, noReopen, books, worker, spi, ext>>
      /\ Shape /\ WaitsOnce /\ trader \in Traders /\ hts \in [Refs -> Entry]
  BY TypeShape DEF TakeOrder, World, TypeInv, TableInv
<1>3. r \in Refs /\ Tail(cqOrder) \in Seq(Refs)
  BY <1>1, <1>2, WaitsTaken
<1>4. \/ trader' = [trader EXCEPT !.pc = "orders"] /\ hts' = [hts EXCEPT ![r] = NoEntry]
      \/ /\ trader' = [trader EXCEPT !.pc = "insert", !.ref = r]
         /\ hts' = [hts EXCEPT ![r] = SetStatus(@, ORD_DOING)]
  BY <1>1, Zenon DEF TakeOrder
<1>5. /\ trader' \in Traders
      /\ trader'.pc = "orders" \/ (trader'.pc = "insert" /\ trader'.ref = r)
  <2>1. CASE trader' = [trader EXCEPT !.pc = "orders"]
    BY <1>2, <2>1 DEF Traders
  <2>2. CASE trader' = [trader EXCEPT !.pc = "insert", !.ref = r]
    BY <1>2, <1>3, <2>2 DEF Traders
  <2> QED
    BY <1>4, <2>1, <2>2, Zenon
<1>6. hts' \in [Refs -> Entry]
  BY <1>2, <1>4, AllStatuses, EntryStatus, NoEntryType
<1>7. WaitsOnce'
  BY <1>1, <1>2, <1>5, WaitsTaken DEF ext
<1>8. TableInv' /\ OrdersInv'
  BY <1>2, <1>3, <1>5, <1>6 DEF TypeInv, TableInv, OrdersInv, Refs
<1>9. WorkersInv' /\ PlanInv' /\ BooksInv' /\ BrokerInv'
  BY <1>2, TypeFrame DEF TypeInv, books, ext
<1>10. Exchange' /\ Dealt' /\ Streams' /\ Stored' /\ AtHand' /\ Deals' /\ Grows
  BY <1>2, WorldFrame, GrowsFrame DEF World, TypeInv, books, ext
<1> QED
  BY <1>7, <1>8, <1>9, <1>10 DEF TypeInv, World

(* The broker takes or refuses an order that it has not seen.              *)
LEMMA TakenType ==
    ASSUME TypeInv, World, NEW r \in 1 .. Len(order), exch[r].st = "none",
           UNCHANGED <<order, cqOrder, deals, answers>>, Accept(r) \/ Reject(r)
    PROVE  /\ exch' \in [Refs -> ExchRec] /\ rtn' \in Seq(Message)
           /\ \A x \in Refs : x # r => exch'[x] = exch[x]
           /\ Exchange' /\ Streams' /\ Grows
<1>1. /\ r \in Refs /\ order[r].vol \in 1 .. Lot /\ order[r].vol \in Nat
      /\ exch \in [Refs -> ExchRec] /\ rtn \in Seq(Message) /\ OrdersInv /\ OrdersInv'
      /\ exch[r].done = 0
  <2>1. r \in Refs /\ order[r].vol \in 1 .. Lot /\ order[r].vol \in Nat
    BY OrderFacts DEF TypeInv
  <2>2. exch \in [Refs -> ExchRec] /\ rtn \in Seq(Message) /\ OrdersInv
    BY DEF TypeInv, BrokerInv
  <2>3. exch[r].done = 0
    BY <2>1 DEF World, Exchange, Kept
  <2>4. OrdersInv'
    BY TypeFrame DEF TypeInv
  <2> QED
    BY <2>1, <2>2, <2>3, <2>4
<1>2. PICK s \in {"live", "rejected"} :
         /\ exch' = [exch EXCEPT ![r].st = s]
         /\ s = "live" => Emit(<<OrderMsg(r, "unknown", order[r].vol),
                                 OrderMsg(r, "queueing", order[r].vol)>>)
         /\ s = "rejected" => Emit(<<ErrorMsg(r)>>)
  BY Zenon DEF Accept, Reject
<1>3. /\ exch' \in [Refs -> ExchRec] /\ exch'[r].st = s /\ exch'[r].done = 0
      /\ \A x \in Refs : x # r => exch'[x] = exch[x]
  BY <1>1, <1>2 DEF ExchRec
<1>4. Exchange'
  <2>1. \A x \in Refs : x # r => Kept(x)'
    BY <1>3 DEF World, Exchange, Kept
  <2>2. Kept(r)'
    BY <1>1, <1>3 DEF Kept
  <2> QED
    BY <2>1, <2>2 DEF Exchange, Refs
<1>5. Grows
  <2>1. ASSUME NEW x \in 1 .. Len(order)
        PROVE  /\ Reached(x) => Reached(x)'
               /\ exch[x].st \in Final => exch'[x] = exch[x]
               /\ exch[x].st = "rejected" => exch'[x].st = "rejected"
    BY <1>1, <1>3, OrderFacts DEF Reached, Final
  <2> QED
    BY <2>1 DEF Grows
<1>6. rtn' \in Seq(Message) /\ \A m \in Elems(rtn') : m \in Elems(rtn) \/ Tells(m)'
  <2>1. CASE s = "live"
    <3>1. PICK a \in Message : a = OrderMsg(r, "unknown", order[r].vol)
      BY <1>1, Messages, CoreAssumption DEF Reported
    <3>2. PICK b \in Message : b = OrderMsg(r, "queueing", order[r].vol)
      BY <1>1, Messages, CoreAssumption DEF Reported
    <3>3. rtn' \in Seq(Message) /\ \A m \in Elems(rtn') : m \in Elems(rtn) \/ m \in {a, b}
      BY <1>1, <1>2, <2>1, <3>1, <3>2, EmitTwo
    <3>4. a.kind = "order" /\ a.ref = r /\ a.st = "unknown" /\ a.n = order[r].vol
      BY <3>1 DEF OrderMsg
    <3>5. b.kind = "order" /\ b.ref = r /\ b.st = "queueing" /\ b.n = order[r].vol
      BY <3>2 DEF OrderMsg
    <3>6. Tells(a)' /\ Tells(b)'
      BY <1>1, <1>3, <2>1, <3>4, <3>5 DEF Tells, Reached, Reported, Final
    <3> QED
      BY <3>3, <3>6
  <2>2. CASE s = "rejected"
    <3>1. PICK a \in Message : a = ErrorMsg(r)
      BY <1>1, Messages
    <3>2. rtn' \in Seq(Message) /\ \A m \in Elems(rtn') : m \in Elems(rtn) \/ m = a
      BY <1>1, <1>2, <2>2, <3>1, EmitOne
    <3>3. a.kind = "error" /\ a.ref = r
      BY <1>1, <3>1, Messages
    <3>4. Tells(a)'
      BY <1>1, <1>3, <2>2, <3>3 DEF Tells
    <3> QED
      BY <3>2, <3>4
  <2> QED
    BY <2>1, <2>2
<1>7. Streams'
  BY <1>1, <1>5, <1>6, StreamsGrow DEF World
<1> QED
  BY <1>3, <1>4, <1>5, <1>6, <1>7

LEMMA ReqOrderInsertType ==
    ASSUME TypeInv, World, ReqOrderInsert
    PROVE  TypeInv' /\ World' /\ Grows
<1>1. PICK r : r = trader.ref
  OBVIOUS
<1>2. /\ trader \in Traders /\ trader.pc = "insert" /\ r \in Refs
      /\ r <= Len(order) /\ exch[r].st = "none" /\ Shape /\ WaitsOnce
      /\ UNCHANGED <<plan, queues, hts, books, worker, spi, link, deals, answers>>
  BY <1>1, TypeShape DEF TypeInv, TableInv, World, WaitsOnce, ReqOrderInsert
<1>3. r \in 1 .. Len(order)
  BY <1>2, CoreAssumption, OrderFacts DEF Refs, TypeInv
<1>4. \/ trader' = [trader EXCEPT !.pc = "sent", !.ok = FALSE] /\ UNCHANGED <<exch, rtn>>
      \/ trader' = [trader EXCEPT !.pc = "sent", !.ok = TRUE] /\ (Accept(r) \/ Reject(r))
  BY <1>1, Zenon DEF ReqOrderInsert
<1>5. trader' \in Traders /\ trader'.pc = "sent" /\ trader'.ref = r /\ (~trader'.ok => UNCHANGED exch)
  <2>1. CASE trader' = [trader EXCEPT !.pc = "sent", !.ok = FALSE] /\ UNCHANGED <<exch, rtn>>
    BY <1>1, <1>2, <2>1 DEF Traders
  <2>2. CASE trader' = [trader EXCEPT !.pc = "sent", !.ok = TRUE]
    BY <1>1, <1>2, <2>2 DEF Traders
  <2> QED
    BY <1>4, <2>1, <2>2
<1>6. /\ exch' \in [Refs -> ExchRec] /\ rtn' \in Seq(Message)
      /\ \A x \in Refs : x # r => exch'[x] = exch[x]
      /\ Exchange' /\ Streams' /\ Grows
  <2>1. UNCHANGED <<order, cqOrder, deals, answers>>
    BY <1>2 DEF queues
  <2>2. CASE Accept(r) \/ Reject(r)
    BY <1>2, <1>3, <2>1, <2>2, TakenType
  <2>3. CASE UNCHANGED <<exch, rtn>>
    <3>1. exch' \in [Refs -> ExchRec] /\ rtn' \in Seq(Message)
      BY <2>3 DEF TypeInv, BrokerInv
    <3>2. Exchange' /\ Streams'
      BY <2>1, <2>3, WorldFrame DEF World
    <3>3. Grows
      BY <2>1, <2>3 DEF Grows, Reached
    <3> QED
      BY <2>3, <3>1, <3>2, <3>3
  <2> QED
    BY <1>4, <2>2, <2>3
<1>7. WaitsOnce'
  BY <1>1, <1>2, <1>5, <1>6, WaitsSent DEF queues
<1>8. OrdersInv' /\ WorkersInv' /\ PlanInv' /\ BooksInv'
  BY <1>2, TypeFrame DEF TypeInv, queues, books
<1>9. TableInv'
  BY <1>1, <1>2, <1>5 DEF TypeInv, TableInv, queues, Refs
<1>10. BrokerInv'
  BY <1>2, <1>6 DEF TypeInv, BrokerInv
<1>11. Stored' /\ AtHand' /\ Deals' /\ Dealt'
  BY <1>2, <1>6, <1>8, WorldGrows DEF TypeInv, World, books
<1> QED
  BY <1>6, <1>7, <1>8, <1>9, <1>10, <1>11 DEF TypeInv, World

LEMMA TradingRest ==
    ASSUME TypeInv, World, OrderSent \/ TakeAction \/ ReqOrderAction \/ ActionSent
    PROVE  TypeInv' /\ World' /\ Grows
<1>1. /\ hts \in [Refs -> Entry] /\ cqAction \in Seq(Refs) /\ trader \in Traders
      /\ trader.pc \in {"insert", "sent", "action", "acted"} => trader.ref \in Refs
      /\ exch \in [Refs -> ExchRec]
  BY DEF TypeInv, TableInv, BrokerInv
<1>2. hts' \in [Refs -> Entry]
  <2>1. CASE OrderSent
    <3>1. CASE trader.ok
      <4>1. hts' = [hts EXCEPT ![trader.ref] = SetStatus(@, ORD_DONE)]
        BY <2>1, <3>1, Zenon DEF OrderSent, StampDone
      <4> QED
        BY <1>1, <4>1, AllStatuses, EntryStatus
    <3>2. CASE ~trader.ok
      <4>1. hts' = [hts EXCEPT ![trader.ref] = NoEntry]
        BY <2>1, <3>2, Zenon DEF OrderSent
      <4> QED
        BY <1>1, <4>1, NoEntryType
    <3> QED
      BY <3>1, <3>2
  <2>2. CASE TakeAction
    <3>1. hts' = hts \/ hts' = [hts EXCEPT ![Head(cqAction)] = SetStatus(@, CCL_DOING)]
      BY <2>2, Zenon DEF TakeAction
    <3> QED
      BY <1>1, <3>1, AllStatuses, EntryStatus
  <2>3. CASE ReqOrderAction
    BY <1>1, <2>3 DEF ReqOrderAction
  <2>4. CASE ActionSent
    BY <1>1, <2>4, AllStatuses, EntryStatus DEF ActionSent
  <2> QED
    BY <2>1, <2>2, <2>3, <2>4
<1>3. /\ trader' \in Traders /\ trader'.pc \notin {"insert", "sent"}
      /\ trader'.pc \in {"action", "acted"} => trader'.ref \in Refs
      /\ cqAction' \in Seq(Refs)
  <2>1. CASE OrderSent
    BY <1>1, <2>1, TraderOK DEF OrderSent, queues
  <2>2. CASE TakeAction
    <3>1. PICK r \in Refs : r = Head(cqAction)
      BY <1>1, <2>2, SeqTail DEF TakeAction
    <3>2. cqAction' \in Seq(Refs)
      BY <1>1, <2>2 DEF TakeAction
    <3>3. trader' = [trader EXCEPT !.pc = "ended"] \/ trader' = [trader EXCEPT !.pc = "action", !.ref = r]
      BY <2>2, <3>1, Zenon DEF TakeAction
    <3>4. CASE trader' = [trader EXCEPT !.pc = "ended"]
      BY <1>1, <3>2, <3>4 DEF Traders
    <3>5. CASE trader' = [trader EXCEPT !.pc = "action", !.ref = r]
      BY <1>1, <3>1, <3>2, <3>5 DEF Traders
    <3> QED
      BY <3>3, <3>4, <3>5
  <2>3. CASE ReqOrderAction
    <3>1. UNCHANGED cqAction /\ trader.pc = "action"
      BY <2>3 DEF ReqOrderAction, queues
    <3>2. \/ trader' = [pc |-> "actions", ref |-> 0, ok |-> TRUE]
          \/ trader' = [trader EXCEPT !.pc = "acted"]
      BY <2>3, Zenon DEF ReqOrderAction
    <3>3. CASE trader' = [trader EXCEPT !.pc = "acted"]
      BY <1>1, <3>1, <3>3 DEF Traders
    <3>4. CASE trader' = [pc |-> "actions", ref |-> 0, ok |-> TRUE]
      BY <1>1, <3>1, <3>4, TraderOK
    <3> QED
      BY <3>2, <3>3, <3>4
  <2>4. CASE ActionSent
    BY <1>1, <2>4, TraderOK DEF ActionSent, queues
  <2> QED
    BY <2>1, <2>2, <2>3, <2>4
<1>4. /\ exch' \in [Refs -> ExchRec]
      /\ \A r \in Refs : exch'[r].st = exch[r].st /\ exch'[r].done = exch[r].done
  <2>1. CASE UNCHANGED exch
    BY <1>1, <2>1
  <2>2. CASE ReqOrderAction /\ exch' = [exch EXCEPT ![trader.ref].cxl = TRUE]
    BY <1>1, <2>2 DEF ExchRec
  <2> QED
    BY <2>1, <2>2, Zenon DEF OrderSent, TakeAction, ReqOrderAction, ActionSent, ext
<1>5. UNCHANGED <<plan, order, cqOrder, noReopen, books, worker, spi, deals, rtn, answers>>
  BY DEF OrderSent, TakeAction, ReqOrderAction, ActionSent, queues, ext
<1>6. PlanInv' /\ WorkersInv' /\ OrdersInv' /\ BooksInv'
  BY <1>5, TypeFrame DEF TypeInv, books
<1>7. TableInv'
  BY <1>2, <1>3, <1>5 DEF TypeInv, TableInv, Refs
<1>8. BrokerInv'
  BY <1>4, <1>5 DEF TypeInv, BrokerInv
<1>9. Grows
  BY <1>4, <1>5, OrderFacts DEF Grows, Reached, TypeInv
<1>10. WaitsOnce'
  BY <1>3, <1>4, <1>5, TypeShape, WaitsKept DEF World
<1>11. Exchange'
  BY <1>4, <1>5 DEF World, Exchange, Kept, Refs
<1>12. Streams'
  BY <1>5, <1>6, <1>9, StreamsGrow DEF TypeInv, World
<1>13. Stored' /\ AtHand' /\ Deals' /\ Dealt'
  BY <1>5, <1>6, <1>9, WorldGrows DEF TypeInv, World, books
<1> QED
  BY <1>6, <1>7, <1>8, <1>9, <1>10, <1>11, <1>12, <1>13 DEF TypeInv, World

LEMMA TradingType ==
    ASSUME TypeInv, World, Trading
    PROVE  TypeInv' /\ World' /\ Grows
BY TakeOrderType, ReqOrderInsertType, TradingRest, Zenon DEF Trading

(* PositionUpdate's result is never negative.                              *)
LEMMA MovedNat ==
    ASSUME NEW pos \in Nat, NEW side \in Sides, NEW v \in Nat
    PROVE  Moved(pos, side, v) \in Nat
BY DEF Moved, Smaller, Sides

LEMMA SpiOK ==
    /\ Quiet \in SpiRec /\ Quiet.pc = "idle"
    /\ \A m \in Report, r \in Refs : [pc |-> "final", msg |-> m, ref |-> r] \in SpiRec
BY CoreAssumption DEF Quiet, NoReport, SpiRec, Report, Reported

-----------------------------------------------------------------------------
(* One callback.                                                           *)
LEMMA StoreOrderType ==
    ASSUME TypeInv, World, NEW m \in Message, m.kind = "order", Tells(m), spi.pc = "idle",
           StoreOrder(m), UNCHANGED <<order, exch>>
    PROVE  /\ hts' \in [Refs -> Entry] /\ mapOrder' \in [Refs -> Report] /\ spi' \in SpiRec
           /\ Stored' /\ AtHand'
<1>1. PICK r \in Refs : r = m.ref
  BY OrderFacts DEF Tells, TypeInv
<1>2. /\ r \in 1 .. Len(order) /\ m.st \in Reported
      /\ m.st \in Final => m.st = exch[r].st /\ m.n = Left(r)
  BY <1>1 DEF Tells
<1>3. PICK x \in Report : x = [st |-> m.st, rem |-> m.n]
  BY <1>2 DEF Report, Message
<1>4. hts \in [Refs -> Entry] /\ mapOrder \in [Refs -> Report] /\ spi \in SpiRec
  BY DEF TypeInv, TableInv, BooksInv
<1>5. CASE mapOrder[r].st \in Final
  <2>1. UNCHANGED <<hts, mapOrder, spi>>
    BY <1>1, <1>5 DEF StoreOrder
  <2> QED
    BY <1>4, <2>1, WorldFrame DEF World
<1>6. CASE mapOrder[r].st \notin Final
  <2>1. /\ mapOrder' = [mapOrder EXCEPT ![r] = x]
        /\ hts' = [hts EXCEPT ![r] = SetStatus(@, IF m.st = "part" THEN TRADED_PART ELSE ORDED)]
        /\ spi' = IF m.st \in Final THEN [pc |-> "final", msg |-> x, ref |-> r] ELSE Quiet
    BY <1>1, <1>3, <1>6, Zenon DEF StoreOrder
  <2>2. hts' \in [Refs -> Entry]
    <3>1. PICK e \in Statuses : e = IF m.st = "part" THEN TRADED_PART ELSE ORDED
      BY AllStatuses
    <3>2. hts' = [hts EXCEPT ![r] = SetStatus(@, e)]
      BY <2>1, <3>1, Zenon
    <3> QED
      BY <1>4, <3>2, EntryStatus
  <2>3. mapOrder' \in [Refs -> Report] /\ mapOrder'[r] = x
        /\ \A y \in Refs : y # r => mapOrder'[y] = mapOrder[y]
    BY <1>4, <2>1
  <2>4. x.st = m.st /\ x.rem = m.n
    BY <1>3
  <2>5. Stored'
    <3>1. ASSUME NEW y \in Refs, mapOrder'[y].st \in Final
          PROVE  y <= Len(order) /\ mapOrder'[y].st = exch[y].st /\ mapOrder'[y].rem = Left(y)
      <4>1. CASE y = r
        BY <1>2, <2>3, <2>4, <3>1, <4>1, OrderFacts DEF TypeInv
      <4>2. CASE y # r
        BY <2>3, <3>1, <4>2 DEF World, Stored
      <4> QED
        BY <4>1, <4>2
    <3>2. \A y : Left(y)' = Left(y)
      BY DEF Left
    <3> QED
      BY <3>1, <3>2 DEF Stored, Refs
  <2>6. spi' \in SpiRec /\ AtHand'
    <3>1. CASE m.st \in Final
      <4>1. spi' = [pc |-> "final", msg |-> x, ref |-> r]
        BY <2>1, <3>1
      <4>2. spi' \in SpiRec /\ spi'.pc = "final" /\ spi'.msg = x /\ spi'.ref = r
        BY <4>1, SpiOK
      <4> QED
        BY <1>2, <2>3, <2>4, <3>1, <4>2 DEF AtHand
    <3>2. CASE m.st \notin Final
      <4>1. spi' = Quiet
        BY <2>1, <3>2
      <4> QED
        BY <4>1, SpiOK DEF AtHand
    <3> QED
      BY <3>1, <3>2
  <2> QED
    BY <2>2, <2>3, <2>5, <2>6
<1> QED
  BY <1>5, <1>6

LEMMA StoreTradeType ==
    ASSUME TypeInv, World, NEW m \in Message, m.kind = "trade", Tells(m), StoreTrade(m),
           UNCHANGED deals
    PROVE  posTRD' \in Nat /\ Deals'
<1>1. CASE UNCHANGED <<mapTrade, posTRD>>
  BY <1>1, WorldFrame DEF TypeInv, BooksInv, World
<1>2. CASE /\ mapTrade' = mapTrade \cup {<<m.ref, m.id>>}
           /\ posTRD' = Moved(posTRD, order[m.ref].side, m.n)
  <2>1. m.ref \in 1 .. Len(order) /\ m.id \in 1 .. Len(deals) /\ m = deals[m.id]
    BY DEF Tells
  <2>2. order[m.ref].side \in Sides /\ posTRD \in Nat
    BY <2>1, OrderFacts DEF TypeInv, BooksInv
  <2>3. m.n \in Nat
    BY CoreAssumption DEF Message
  <2>4. posTRD' \in Nat
    BY <1>2, <2>2, <2>3, MovedNat
  <2>5. <<m.ref, m.id>> \in {<<deals[i].ref, i>> : i \in 1 .. Len(deals)}
    BY <2>1
  <2>6. Deals'
    BY <1>2, <2>5 DEF World, Deals
  <2> QED
    BY <2>4, <2>6
<1> QED
  BY <1>1, <1>2 DEF StoreTrade

LEMMA ReceiveType ==
    ASSUME TypeInv, World, NEW m \in Message, Tells(m), spi.pc = "idle", Receive(m),
           UNCHANGED <<plan, queues, worker, trader, exch, deals>>,
           rtn' \in Seq(Message), answers' \in Seq(Message),
           \A x \in Elems(rtn') : x \in Elems(rtn), \A x \in Elems(answers') : x \in Elems(answers)
    PROVE  TypeInv' /\ World' /\ Grows
<1>1. /\ hts \in [Refs -> Entry] /\ mapOrder \in [Refs -> Report] /\ spi \in SpiRec
      /\ posORD \in Nat /\ posTRD \in Nat /\ exch \in [Refs -> ExchRec] /\ deals \in Seq(Message)
  BY DEF TypeInv, TableInv, BooksInv, BrokerInv
<1>2. UNCHANGED <<order, cqOrder, cqAction, noReopen>>
  BY DEF queues
<1>3. /\ hts' \in [Refs -> Entry] /\ mapOrder' \in [Refs -> Report] /\ spi' \in SpiRec
      /\ posORD' \in Nat /\ posTRD' \in Nat
      /\ Stored' /\ AtHand' /\ Deals'
  <2>1. CASE /\ m.kind = "order" /\ StoreOrder(m)
             /\ UNCHANGED <<mapTrade, posORD, posTRD>>
    BY <1>1, <1>2, <2>1, StoreOrderType, WorldFrame DEF World
  <2>2. CASE /\ m.kind = "trade" /\ StoreTrade(m)
             /\ UNCHANGED <<hts, mapOrder, posORD, spi>>
    BY <1>1, <1>2, <2>2, StoreTradeType, WorldFrame DEF World
  <2>3. CASE /\ UNCHANGED <<mapOrder, mapTrade, posORD, posTRD, spi>>
             /\ UNCHANGED hts \/ hts' = [hts EXCEPT ![m.ref] = NoEntry]
    BY <1>1, <1>2, <2>3, NoEntryType, WorldFrame DEF World
  <2> QED
    BY <2>1, <2>2, <2>3, Zenon DEF Receive, books
<1>4. PlanInv' /\ WorkersInv' /\ OrdersInv'
  BY <1>2, TypeFrame DEF TypeInv
<1>5. TableInv'
  BY <1>2, <1>3 DEF TypeInv, TableInv, Refs
<1>6. BooksInv'
  BY <1>3 DEF BooksInv, Refs, SpiRec, Report
<1>7. BrokerInv'
  BY <1>1 DEF BrokerInv, Refs, ExchRec
<1>8. Grows
  BY <1>2, OrderFacts DEF Grows, Reached, TypeInv
<1>9. Streams'
  BY <1>4, <1>8, StreamsGrow DEF TypeInv, World
<1>10. WaitsOnce' /\ Exchange' /\ Dealt'
  BY <1>2, WorldFrame DEF World
<1> QED
  BY <1>3, <1>4, <1>5, <1>6, <1>7, <1>8, <1>9, <1>10 DEF TypeInv, World

LEMMA HeadTold ==
    ASSUME NEW s \in Seq(Message), s # <<>>, \A m \in Elems(s) : Tells(m)
    PROVE  /\ Head(s) \in Message /\ Tells(Head(s)) /\ Tail(s) \in Seq(Message)
           /\ \A m \in Elems(Tail(s)) : m \in Elems(s)
<1>1. IsSeq(s)
  BY DEF IsSeq
<1>2. Head(s) \in Elems(s) /\ \A m \in Elems(Tail(s)) : m \in Elems(s)
  BY <1>1, TailSeq, Zenon
<1>3. Head(s) \in Message /\ Tail(s) \in Seq(Message)
  BY SeqTail
<1> QED
  BY <1>2, <1>3

LEMMA CallbackType ==
    ASSUME TypeInv, World, OnRtn \/ OnRspQry
    PROVE  TypeInv' /\ World' /\ Grows
<1>1. rtn \in Seq(Message) /\ answers \in Seq(Message)
  BY DEF TypeInv, BrokerInv
<1>2. CASE OnRtn
  <2>1. /\ spi.pc = "idle" /\ rtn # <<>> /\ rtn' = Tail(rtn) /\ Receive(Head(rtn))
        /\ UNCHANGED <<plan, queues, worker, trader, exch, deals, answers>>
    BY <1>2 DEF OnRtn
  <2>2. PICK m : m = Head(rtn)
    OBVIOUS
  <2>3. /\ m \in Message /\ Tells(m) /\ rtn' \in Seq(Message)
        /\ \A x \in Elems(rtn') : x \in Elems(rtn)
    BY <1>1, <2>1, <2>2, HeadTold DEF World, Streams
  <2>4. Receive(m) /\ answers' \in Seq(Message) /\ \A x \in Elems(answers') : x \in Elems(answers)
    BY <1>1, <2>1, <2>2
  <2> QED
    BY <2>1, <2>3, <2>4, ReceiveType
<1>3. CASE OnRspQry
  <2>1. /\ spi.pc = "idle" /\ answers # <<>> /\ answers' = Tail(answers) /\ Receive(Head(answers))
        /\ UNCHANGED <<plan, queues, worker, trader, exch, deals, rtn>>
    BY <1>3 DEF OnRspQry
  <2>2. PICK m : m = Head(answers)
    OBVIOUS
  <2>3. /\ m \in Message /\ Tells(m) /\ answers' \in Seq(Message)
        /\ \A x \in Elems(answers') : x \in Elems(answers)
    BY <1>1, <2>1, <2>2, HeadTold DEF World, Streams
  <2>4. Receive(m) /\ rtn' \in Seq(Message) /\ \A x \in Elems(rtn') : x \in Elems(rtn)
    BY <1>1, <2>1, <2>2
  <2> QED
    BY <2>1, <2>3, <2>4, ReceiveType
<1> QED
  BY <1>2, <1>3

-----------------------------------------------------------------------------
(* The rest of OrderWay.                                                   *)
LEMMA FinalFacts ==
    ASSUME TypeInv, World, spi.pc = "final", NEW r, r = spi.ref
    PROVE  /\ r \in Refs /\ r \in 1 .. Len(order) /\ mapOrder[r].st \in Final
           /\ spi.msg.st = mapOrder[r].st /\ spi.msg.rem = mapOrder[r].rem
           /\ spi.msg.st = exch[r].st /\ spi.msg.rem = Left(r)
           /\ spi.msg.rem \in 0 .. order[r].vol
           /\ spi.msg.st = "canceled" => spi.msg.rem > 0
<1>1. /\ r \in Refs /\ r \in 1 .. Len(order) /\ mapOrder[r].st \in Final
      /\ spi.msg.st = mapOrder[r].st /\ spi.msg.rem = mapOrder[r].rem
  BY OrderFacts DEF World, AtHand, TypeInv
<1>2. spi.msg.st = exch[r].st /\ spi.msg.rem = Left(r) /\ Kept(r)
  BY <1>1 DEF World, Stored, Exchange
<1>3. order[r].vol \in Nat /\ exch[r].done \in Nat
  BY <1>1, OrderFacts, CoreAssumption DEF TypeInv, BrokerInv, ExchRec
<1>4. exch[r].st \in {"all", "canceled"}
  BY <1>1, <1>2 DEF Final
<1> QED
  BY <1>1, <1>2, <1>3, <1>4 DEF Left, Kept

LEMMA AllTradedType ==
    ASSUME TypeInv, World, AllTraded
    PROVE  TypeInv' /\ World' /\ Grows
<1>1. PICK r : r = spi.ref
  OBVIOUS
<1>2. /\ spi.pc = "final" /\ hts' = [hts EXCEPT ![r] = NoEntry] /\ spi' = Quiet
      /\ posORD' = Moved(posORD, order[r].side, order[r].vol)
      /\ UNCHANGED <<plan, queues, mapOrder, mapTrade, posTRD, worker, trader, ext>>
  BY <1>1 DEF AllTraded
<1>3. r \in 1 .. Len(order)
  BY <1>1, <1>2, FinalFacts
<1>4. posORD' \in Nat
  BY <1>2, <1>3, OrderFacts, MovedNat DEF TypeInv, BooksInv
<1>5. TableInv' /\ BooksInv'
  BY <1>2, <1>4, SpiOK, NoEntryType DEF TypeInv, TableInv, BooksInv, queues, Refs, SpiRec, Report
<1>6. PlanInv' /\ WorkersInv' /\ OrdersInv' /\ BrokerInv'
  BY <1>2, TypeFrame DEF TypeInv, queues, ext
<1>7. AtHand'
  BY <1>2, SpiOK DEF AtHand
<1>8. WaitsOnce' /\ Exchange' /\ Dealt' /\ Streams' /\ Stored' /\ Deals' /\ Grows
  BY <1>2, WorldFrame, GrowsFrame DEF World, TypeInv, queues, ext
<1> QED
  BY <1>5, <1>6, <1>7, <1>8 DEF TypeInv, World

LEMMA OrderCanceledType ==
    ASSUME TypeInv, World, OrderCanceled
    PROVE  TypeInv' /\ World' /\ Grows
<1>1. PICK r : r = spi.ref
  OBVIOUS
<1>2. PICK rem : rem = spi.msg.rem
  OBVIOUS
<1>3. /\ spi.pc = "final" /\ spi.msg.st = "canceled" /\ hts' = [hts EXCEPT ![r] = NoEntry]
      /\ posORD' = Moved(posORD, order[r].side, FilledOf(r, rem))
      /\ UNCHANGED <<plan, cqAction, noReopen, mapOrder, mapTrade, posTRD, worker, trader, ext>>
  BY <1>1, <1>2 DEF OrderCanceled
<1>4. r \in 1 .. Len(order) /\ rem \in 1 .. order[r].vol /\ order[r].vol \in Nat
      /\ order[r].vol \in 1 .. Lot /\ order[r].side \in Sides
  BY <1>1, <1>2, <1>3, FinalFacts, OrderFacts DEF TypeInv
<1>5. posORD' \in Nat
  <2>1. FilledOf(r, rem) \in Nat
    BY <1>4 DEF FilledOf
  <2> QED
    BY <1>3, <1>4, <2>1, MovedNat DEF TypeInv, BooksInv
<1>6. PICK x \in OrderRec : x = [side |-> order[r].side, vol |-> rem]
  <2>1. rem \in 1 .. Lot
    BY <1>4, CoreAssumption
  <2> QED
    BY <1>4, <2>1, Zenon DEF OrderRec
<1>7. \/ /\ Len(order) < plan.scn.orders /\ order' = Append(order, x)
         /\ cqOrder' = Append(cqOrder, Len(order'))
         /\ spi' = [spi EXCEPT !.pc = "stamp", !.ref = Len(order')]
      \/ spi' = Quiet /\ UNCHANGED <<order, cqOrder>>
  BY <1>1, <1>2, <1>6, Zenon DEF OrderCanceled, ReopenVol
<1>8. UNCHANGED <<trader, exch, deals, rtn, answers, mapOrder, mapTrade>>
  BY <1>3 DEF ext
<1>9. /\ OrdersInv' /\ WaitsOnce' /\ Exchange' /\ Dealt' /\ Streams' /\ Stored' /\ Deals'
      /\ AtHand' /\ spi' \in SpiRec /\ Grows
  <2>1. CASE /\ Len(order) < plan.scn.orders /\ order' = Append(order, x)
             /\ cqOrder' = Append(cqOrder, Len(order'))
             /\ spi' = [spi EXCEPT !.pc = "stamp", !.ref = Len(order')]
    <3>1. /\ OrdersInv' /\ WaitsOnce' /\ Exchange' /\ Dealt' /\ Streams' /\ Grows
          /\ Len(order') \in Refs
      BY <1>8, <2>1, Opened
    <3>2. Stored' /\ Deals'
      BY <1>8, <2>1, OpenedOnly
    <3>3. PICK n \in Refs : n = Len(order')
      BY <3>1
    <3>4. spi' \in SpiRec /\ spi'.pc = "stamp" /\ spi'.ref = n
      BY <2>1, <3>3 DEF TypeInv, BooksInv, SpiRec
    <3>5. AtHand'
      BY <3>4 DEF AtHand, Refs
    <3> QED
      BY <3>1, <3>2, <3>4, <3>5
  <2>2. CASE spi' = Quiet /\ UNCHANGED <<order, cqOrder>>
    <3>1. OrdersInv'
      BY <2>2, TypeFrame DEF TypeInv
    <3>2. WaitsOnce' /\ Exchange' /\ Dealt' /\ Streams' /\ Stored' /\ Deals' /\ Grows
      BY <1>8, <2>2, WorldFrame, GrowsFrame DEF World, TypeInv
    <3>3. AtHand' /\ spi' \in SpiRec
      BY <2>2, SpiOK DEF AtHand
    <3> QED
      BY <3>1, <3>2, <3>3
  <2> QED
    BY <1>7, <2>1, <2>2
<1>10. TableInv' /\ BooksInv'
  BY <1>3, <1>5, <1>9, NoEntryType DEF TypeInv, TableInv, BooksInv, Refs, SpiRec, Report
<1>11. PlanInv' /\ WorkersInv' /\ BrokerInv'
  BY <1>3, TypeFrame DEF TypeInv, ext
<1> QED
  BY <1>9, <1>10, <1>11 DEF TypeInv, World

LEMMA ReopenStampType ==
    ASSUME TypeInv, World, ReopenStamp
    PROVE  TypeInv' /\ World' /\ Grows
<1>1. /\ hts' = [hts EXCEPT ![spi.ref] = SetStatus(@, ORD_NEW)] /\ spi' = Quiet
      /\ UNCHANGED <<plan, queues, books, worker, trader, ext>>
  BY DEF ReopenStamp
<1>2. hts' \in [Refs -> Entry]
  BY <1>1, AllStatuses, EntryStatus DEF TypeInv, TableInv
<1>3. TableInv' /\ BooksInv'
  BY <1>1, <1>2, SpiOK DEF TypeInv, TableInv, BooksInv, queues, books, Refs, SpiRec, Report
<1>4. PlanInv' /\ WorkersInv' /\ OrdersInv' /\ BrokerInv'
  BY <1>1, TypeFrame DEF TypeInv, queues, ext
<1>5. AtHand'
  BY <1>1, SpiOK DEF AtHand
<1>6. WaitsOnce' /\ Exchange' /\ Dealt' /\ Streams' /\ Stored' /\ Deals' /\ Grows
  BY <1>1, WorldFrame, GrowsFrame DEF World, TypeInv, queues, books, ext
<1> QED
  BY <1>3, <1>4, <1>5, <1>6 DEF TypeInv, World

LEMMA SpiType ==
    ASSUME TypeInv, World, Spi
    PROVE  TypeInv' /\ World' /\ Grows
BY CallbackType, AllTradedType, OrderCanceledType, ReopenStampType, Zenon DEF Spi

-----------------------------------------------------------------------------
(* The broker and ThreadTime.                                              *)
LEMMA BrokerOnly ==
    ASSUME TypeInv, World, UNCHANGED <<plan, queues, hts, books, worker, trader, spi>>,
           BrokerInv', Exchange', Dealt', Grows,
           \A x \in Refs : exch[x].st = "none" => exch'[x].st = "none",
           \A m \in Elems(rtn') : m \in Elems(rtn) \/ Tells(m)',
           \A m \in Elems(answers') : m \in Elems(answers) \/ Tells(m)'
    PROVE  TypeInv' /\ World' /\ Grows
<1>1. PlanInv' /\ WorkersInv' /\ TableInv' /\ OrdersInv' /\ BooksInv'
  BY TypeFrame DEF TypeInv, queues, books
<1>2. WaitsOnce'
  BY TypeShape, WaitsKept DEF World, queues
<1>3. Streams'
  BY <1>1, StreamsGrow DEF TypeInv, World
<1>4. Stored' /\ AtHand' /\ Deals'
  BY <1>1, WorldGrows DEF TypeInv, World, books
<1> QED
  BY <1>1, <1>2, <1>3, <1>4 DEF TypeInv, World

LEMMA FillType ==
    ASSUME TypeInv, World, NEW r \in 1 .. Len(order), NEW n, Fill(r, n)
    PROVE  TypeInv' /\ World' /\ Grows
<1>1. /\ Live(r) /\ n \in 1 .. Left(r)
      /\ UNCHANGED <<plan, queues, hts, books, worker, trader, spi, answers>>
  BY DEF Fill
<1>2. PICK v \in 1 .. Lot : v = order[r].vol
  BY OrderFacts DEF TypeInv
<1>3. PICK c \in 0 .. Lot : c = exch[r].done
  BY OrderFacts DEF TypeInv, BrokerInv, ExchRec
<1>4. PICK d : d = c + n
  OBVIOUS
<1>5. n \in 1 .. Lot /\ d \in 1 .. v /\ d \in 0 .. Lot /\ v - d \in 0 .. Lot /\ Lot \in Nat /\ d = c + n
  <2>1. Left(r) = v - c
    BY <1>2, <1>3 DEF Left
  <2>2. n \in 1 .. v - c /\ Lot \in Nat
    BY <1>1, <2>1, CoreAssumption
  <2> QED
    BY ONLY <1>4, <2>2, v \in 1 .. Lot, c \in 0 .. Lot
<1>6. PICK st \in {"all", "part"} : st = IF d = v THEN "all" ELSE "part"
  OBVIOUS
<1>7. PICK s \in {"all", "live"} : s = IF st = "all" THEN "all" ELSE "live"
  OBVIOUS
<1>8. r \in Refs /\ Len(deals) + 1 \in Nat /\ deals \in Seq(Message) /\ exch \in [Refs -> ExchRec]
      /\ rtn \in Seq(Message)
  BY OrderFacts DEF TypeInv, BrokerInv
<1>9. PICK b \in Message : b = TradeMsg(r, Len(deals) + 1, n)
  BY <1>5, <1>8, Messages
<1>10. PICK a \in Message : a = OrderMsg(r, st, v - d)
  BY <1>5, <1>8, Messages DEF Reported
<1>11. /\ exch' = [exch EXCEPT ![r].done = d, ![r].st = s]
       /\ deals' = Append(deals, b) /\ Emit(<<a, b>>)
  BY <1>2, <1>3, <1>4, <1>6, <1>7, <1>9, <1>10, Zenon DEF Fill
<1>12. a.kind = "order" /\ a.ref = r /\ a.st = st /\ a.n = v - d
  BY <1>10 DEF OrderMsg
<1>13. b.kind = "trade" /\ b.ref = r /\ b.id = Len(deals) + 1 /\ b.n = n
  BY <1>9 DEF TradeMsg
<1>14. /\ exch' \in [Refs -> ExchRec] /\ exch'[r].st = s /\ exch'[r].done = d
       /\ \A x \in Refs : x # r => exch'[x] = exch[x]
  <2>1. PICK e \in ExchRec : e = [exch[r] EXCEPT !.done = d, !.st = s]
    BY <1>5, <1>8 DEF ExchRec
  <2>2. e.st = s /\ e.done = d
    BY <1>8, <2>1 DEF ExchRec
  <2>3. exch' = [exch EXCEPT ![r] = e]
    BY <1>8, <1>11, <2>1
  <2> QED
    BY <1>8, <2>1, <2>2, <2>3
<1>15. order' = order
  BY <1>1 DEF queues
<1>16. Exchange'
  <2>1. \A x \in Refs : x # r => Kept(x)'
    BY <1>14, <1>15 DEF World, Exchange, Kept
  <2>2. Kept(r)'
    BY <1>2, <1>5, <1>6, <1>7, <1>14, <1>15 DEF Kept
  <2> QED
    BY <2>1, <2>2 DEF Exchange, Refs
<1>17. /\ deals' \in Seq(Message) /\ Len(deals') = Len(deals) + 1
       /\ \A i \in 1 .. Len(deals) : i \in 1 .. Len(deals') /\ deals'[i] = deals[i]
       /\ deals'[Len(deals) + 1] = b /\ Len(deals) \in Nat
  BY <1>8, <1>11, SeqAppend
<1>18. Dealt'
  <2>1. ASSUME NEW i \in 1 .. Len(deals')
        PROVE  /\ deals'[i].kind = "trade" /\ deals'[i].id = i
               /\ deals'[i].ref \in 1 .. Len(order) /\ deals'[i].n > 0
    <3>1. CASE i \in 1 .. Len(deals)
      BY <1>17, <3>1 DEF World, Dealt
    <3>2. CASE i = Len(deals) + 1
      BY <1>5, <1>13, <1>17, <3>2
    <3> QED
      BY <1>17, <3>1, <3>2
  <2> QED
    BY <1>15, <2>1 DEF Dealt
<1>19. Grows
  <2>1. exch[r].st = "live" /\ s \in {"all", "live"}
    BY <1>1 DEF Live
  <2>2. ASSUME NEW x \in 1 .. Len(order)
        PROVE  /\ Reached(x) => Reached(x)'
               /\ exch[x].st \in Final => exch'[x] = exch[x]
               /\ exch[x].st = "rejected" => exch'[x].st = "rejected"
    BY <1>14, <2>1, OrderFacts DEF TypeInv, Reached, Final
  <2> QED
    BY <1>15, <1>17, <2>2 DEF Grows
<1>20. Tells(a)' /\ Tells(b)'
  <2>1. Tells(a)'
    BY <1>2, <1>5, <1>6, <1>7, <1>12, <1>14, <1>15 DEF Tells, Reached, Reported, Final, Left
  <2>2. Tells(b)'
    BY <1>13, <1>15, <1>17 DEF Tells
  <2> QED
    BY <2>1, <2>2
<1>21. rtn' \in Seq(Message) /\ \A m \in Elems(rtn') : m \in Elems(rtn) \/ m \in {a, b}
  BY <1>8, <1>11, EmitTwo
<1>22. \A m \in Elems(rtn') : m \in Elems(rtn) \/ Tells(m)'
  BY <1>20, <1>21
<1>23. BrokerInv'
  BY <1>1, <1>14, <1>17, <1>21 DEF TypeInv, BrokerInv
<1>24. \A x \in Refs : exch[x].st = "none" => exch'[x].st = "none"
  BY <1>1, <1>14 DEF Live
<1>25. \A m \in Elems(answers') : m \in Elems(answers)
  BY <1>1
<1> QED
  BY <1>1, <1>16, <1>18, <1>19, <1>22, <1>23, <1>24, <1>25, BrokerOnly

LEMMA CancelType ==
    ASSUME TypeInv, World, NEW r \in 1 .. Len(order), Cancel(r)
    PROVE  TypeInv' /\ World' /\ Grows
<1>1. /\ Live(r) /\ exch' = [exch EXCEPT ![r].st = "canceled"]
      /\ UNCHANGED <<plan, queues, hts, books, worker, trader, spi, deals, answers>>
  BY DEF Cancel
<1>2. PICK v \in 1 .. Lot : v = order[r].vol
  BY OrderFacts DEF TypeInv
<1>3. /\ r \in Refs /\ deals \in Seq(Message) /\ exch \in [Refs -> ExchRec] /\ rtn \in Seq(Message)
  BY OrderFacts DEF TypeInv, BrokerInv
<1>4. PICK c \in 0 .. Lot : c = exch[r].done
  BY <1>3 DEF ExchRec
<1>5. c < v /\ Left(r) = v - c /\ v - c \in 0 .. Lot /\ Lot \in Nat
  BY <1>1, <1>2, <1>3, <1>4, CoreAssumption DEF World, Exchange, Kept, Live, Left
<1>6. PICK a \in Message : a = OrderMsg(r, "canceled", Left(r))
  BY <1>3, <1>5, Messages DEF Reported
<1>7. a.kind = "order" /\ a.ref = r /\ a.st = "canceled" /\ a.n = v - c
  BY <1>5, <1>6 DEF OrderMsg
<1>8. Emit(<<a>>)
  BY <1>6, Zenon DEF Cancel
<1>9. /\ exch' \in [Refs -> ExchRec] /\ exch'[r].st = "canceled" /\ exch'[r].done = c
      /\ \A x \in Refs : x # r => exch'[x] = exch[x]
  BY <1>1, <1>3, <1>4 DEF ExchRec
<1>10. order' = order
  BY <1>1 DEF queues
<1>11. Exchange'
  <2>1. \A x \in Refs : x # r => Kept(x)'
    BY <1>9, <1>10 DEF World, Exchange, Kept
  <2>2. Kept(r)'
    BY <1>2, <1>5, <1>9, <1>10 DEF Kept
  <2> QED
    BY <2>1, <2>2 DEF Exchange, Refs
<1>12. Dealt'
  BY <1>1, <1>10, WorldFrame DEF World
<1>13. Grows
  <2>1. ASSUME NEW x \in 1 .. Len(order)
        PROVE  /\ Reached(x) => Reached(x)'
               /\ exch[x].st \in Final => exch'[x] = exch[x]
               /\ exch[x].st = "rejected" => exch'[x].st = "rejected"
    BY <1>1, <1>9, OrderFacts DEF TypeInv, Reached, Final, Live
  <2> QED
    BY <1>1, <1>10, <2>1 DEF Grows
<1>14. Tells(a)'
  BY <1>2, <1>4, <1>5, <1>7, <1>9, <1>10 DEF Tells, Reached, Reported, Final, Left
<1>15. rtn' \in Seq(Message) /\ \A m \in Elems(rtn') : m \in Elems(rtn) \/ m = a
  BY <1>3, <1>8, EmitOne
<1>16. \A m \in Elems(rtn') : m \in Elems(rtn) \/ Tells(m)'
  BY <1>14, <1>15
<1>17. BrokerInv'
  BY <1>1, <1>9, <1>15 DEF TypeInv, BrokerInv
<1>18. \A x \in Refs : exch[x].st = "none" => exch'[x].st = "none"
  BY <1>1, <1>9 DEF Live
<1>19. \A m \in Elems(answers') : m \in Elems(answers)
  BY <1>1
<1> QED
  BY <1>1, <1>11, <1>12, <1>13, <1>16, <1>17, <1>18, <1>19, BrokerOnly

(* What the broker answers to a query of orders.                           *)
LEMMA AnsweredOrders ==
    ASSUME TypeInv, World, NEW s \in InOrder(Sent), NEW u, u = [i \in DOMAIN s |-> QryOrder(s[i])]
    PROVE  u \in Seq(Message) /\ \A m \in Elems(u) : Tells(m)
<1>1. Cardinality(Sent) \in Nat
  <2>1. IsFiniteSet(Sent)
    BY OrderFacts, FS_Subset DEF Sent, TypeInv
  <2> QED
    BY <2>1, FS_CardinalityType
<1>2. PICK n \in Nat : n = Cardinality(Sent)
  BY <1>1
<1>3. s \in [1 .. n -> Sent]
  BY <1>2 DEF InOrder
<1>4. ASSUME NEW x \in Sent
      PROVE  QryOrder(x) \in Message /\ Tells(QryOrder(x))
  <2>1. /\ x \in 1 .. Len(order) /\ x \in Refs /\ Reached(x) /\ Kept(x)
        /\ exch[x].st \in {"live", "all", "canceled"}
    BY <1>4, OrderFacts DEF Sent, Reached, TypeInv, World, Exchange
  <2>2. PICK v \in 1 .. Lot : v = order[x].vol
    BY <2>1, OrderFacts DEF TypeInv
  <2>3. PICK c \in 0 .. Lot : c = exch[x].done
    BY <2>1 DEF TypeInv, BrokerInv, ExchRec
  <2>4. Left(x) = v - c /\ v - c \in 0 .. Lot /\ Left(x) <= v
    BY <2>1, <2>2, <2>3, CoreAssumption DEF Left, Kept
  <2>5. PICK st : st = IF ~Live(x) THEN exch[x].st ELSE IF exch[x].done = 0 THEN "queueing" ELSE "part"
    OBVIOUS
  <2>6. st \in Reported /\ (st \in Final => st = exch[x].st)
    BY <2>1, <2>5 DEF Live, Reported, Final
  <2>7. QryOrder(x) = OrderMsg(x, st, Left(x))
    BY <2>5, Zenon DEF QryOrder
  <2>8. PICK m \in Message : m = OrderMsg(x, st, Left(x))
    BY <2>1, <2>4, <2>6, Messages
  <2>9. m.kind = "order" /\ m.ref = x /\ m.st = st /\ m.n = Left(x)
    BY <2>8 DEF OrderMsg
  <2>10. st = "queueing" => Left(x) = order[x].vol
    <3>1. exch[x].st # "queueing"
      BY <2>1 DEF TypeInv, BrokerInv, ExchRec
    <3>2. st = "queueing" => exch[x].done = 0
      BY <2>5, <3>1 DEF Live
    <3> QED
      BY <2>2, <2>3, <2>4, <3>2
  <2>11. Tells(m)
    BY <2>1, <2>2, <2>4, <2>6, <2>9, <2>10 DEF Tells
  <2> QED
    BY <2>7, <2>8, <2>11
<1>5. ASSUME NEW i \in 1 .. n
      PROVE  u[i] \in Message /\ Tells(u[i])
  <2>1. s[i] \in Sent /\ u[i] = QryOrder(s[i])
    BY <1>3, <1>5
  <2> QED
    BY <1>4, <2>1
<1>6. u \in [1 .. n -> Message]
  BY <1>3, <1>5
<1>7. u \in Seq(Message) /\ DOMAIN u = 1 .. n
  BY <1>6, FunSeq
<1> QED
  BY <1>5, <1>7 DEF Elems

LEMMA ThreadTimeType ==
    ASSUME TypeInv, World, ThreadTime
    PROVE  TypeInv' /\ World' /\ Grows
<1>1. UNCHANGED <<plan, queues, hts, books, worker, trader, spi, exch, deals, rtn>>
  BY DEF ThreadTime, ReqQryOrder, ReqQryTrade, EraseSyn, ext
<1>2. answers \in Seq(Message) /\ deals \in Seq(Message)
  BY DEF TypeInv, BrokerInv
<1>3. answers' \in Seq(Message) /\ \A m \in Elems(answers') : m \in Elems(answers) \/ Tells(m)
  <2>1. CASE ReqQryOrder
    <3>1. PICK s \in InOrder(Sent) : Ask([i \in DOMAIN s |-> QryOrder(s[i])])
      BY <2>1 DEF ReqQryOrder
    <3>2. PICK u : u = [i \in DOMAIN s |-> QryOrder(s[i])]
      OBVIOUS
    <3>3. u \in Seq(Message) /\ \A m \in Elems(u) : Tells(m)
      BY <3>2, AnsweredOrders
    <3>4. answers' = u \/ answers' = answers
      BY <3>1, <3>2, Zenon DEF Ask
    <3> QED
      BY <1>2, <3>3, <3>4
  <2>2. CASE ReqQryTrade
    <3>1. answers' = deals \/ answers' = answers
      BY <2>2, Zenon DEF ReqQryTrade, Ask
    <3>2. ASSUME NEW m \in Elems(deals)
          PROVE  Tells(m)
      <4>1. PICK i \in 1 .. Len(deals) : m = deals[i]
        BY <1>2, <3>2 DEF Elems
      <4> QED
        BY <4>1 DEF World, Dealt, Tells
    <3> QED
      BY <1>2, <3>1, <3>2
  <2>3. CASE EraseSyn
    BY <1>2, <2>3 DEF EraseSyn, ext
  <2> QED
    BY <2>1, <2>2, <2>3 DEF ThreadTime
<1>4. Grows
  BY <1>1, OrderFacts DEF Grows, Reached, TypeInv, queues
<1>5. BrokerInv'
  BY <1>1, <1>3 DEF TypeInv, BrokerInv
<1>6. OrdersInv' /\ Exchange' /\ Dealt'
  BY <1>1, TypeFrame, WorldFrame DEF TypeInv, World, queues
<1>7. \A m : Tells(m) => Tells(m)'
  BY <1>4, <1>6, WorldGrows DEF TypeInv
<1>8. \A m \in Elems(answers') : m \in Elems(answers) \/ Tells(m)'
  BY <1>3, <1>7
<1>9. /\ \A m \in Elems(rtn') : m \in Elems(rtn)
      /\ \A x \in Refs : exch[x].st = "none" => exch'[x].st = "none"
  BY <1>1
<1> QED
  BY <1>1, <1>4, <1>5, <1>6, <1>8, <1>9, BrokerOnly

LEMMA LinkType ==
    ASSUME TypeInv, World, Disconnect \/ Relogin
    PROVE  TypeInv' /\ World' /\ Grows
<1>1. UNCHANGED <<plan, queues, hts, books, worker, trader, spi, exch, deals>>
  BY DEF Disconnect, Relogin
<1>2. rtn \in Seq(Message) /\ answers \in Seq(Message)
  BY DEF TypeInv, BrokerInv
<1>3. /\ rtn' \in Seq(Message) /\ \A m \in Elems(rtn') : m \in Elems(rtn) \/ Tells(m)'
      /\ answers' \in Seq(Message) /\ \A m \in Elems(answers') : m \in Elems(answers)
  <2>1. CASE Disconnect
    <3>1. PICK d : d = DownMsg
      OBVIOUS
    <3>2. d \in Message /\ d.kind = "down"
      BY <3>1, CoreAssumption DEF DownMsg, Message
    <3>3. Tells(d)'
      BY <3>2 DEF Tells
    <3>4. rtn' = Append(rtn, d) /\ answers' = <<>>
      BY <2>1, <3>1 DEF Disconnect
    <3>5. IsSeq(rtn)
      BY <1>2 DEF IsSeq
    <3>6. \A m \in Elems(rtn') : m \in Elems(rtn) \/ m = d
      BY <3>4, <3>5, AppendSeq
    <3>7. rtn' \in Seq(Message) /\ answers' \in Seq(Message)
      BY <1>2, <3>2, <3>4
    <3>8. Elems(answers') = {}
      BY <3>4, NoElems, Zenon
    <3> QED
      BY <3>3, <3>6, <3>7, <3>8
  <2>2. CASE Relogin
    BY <1>2, <2>2 DEF Relogin
  <2> QED
    BY <2>1, <2>2
<1>4. Grows
  BY <1>1, OrderFacts DEF Grows, Reached, TypeInv, queues
<1>5. BrokerInv'
  BY <1>1, <1>3 DEF TypeInv, BrokerInv
<1>6. Exchange' /\ Dealt'
  BY <1>1, WorldFrame DEF World, queues
<1>7. \A x \in Refs : exch[x].st = "none" => exch'[x].st = "none"
  BY <1>1
<1> QED
  BY <1>1, <1>3, <1>4, <1>5, <1>6, <1>7, BrokerOnly

-----------------------------------------------------------------------------
(* Together.                                                               *)
LEMMA TypeInit == Init => TypeInv /\ World
<1> SUFFICES ASSUME Init
             PROVE  TypeInv /\ World
  OBVIOUS
<1>1. PlanInv
  <2>1. PICK s \in Scenarios : plan = [scn |-> s, queue |-> s.slots, due |-> 0]
    BY DEF Init
  <2>2. s.slots \in Seq(Nat)
    BY CoreAssumption
  <2> QED
    BY <2>1, <2>2 DEF PlanInv, PlanRec
<1>2. WorkersInv
  BY NoWorkOK DEF Init, WorkersInv
<1>3. /\ order = <<>> /\ cqOrder = <<>> /\ cqAction = <<>> /\ noReopen = {}
      /\ rtn = <<>> /\ answers = <<>> /\ deals = <<>> /\ mapTrade = {}
      /\ trader = [pc |-> "orders", ref |-> 0, ok |-> TRUE] /\ spi = Quiet
      /\ posORD = 0 /\ posTRD = 0
  BY DEF Init
<1>4. hts \in [Refs -> Entry]
  BY NoEntryAt DEF Init
<1>5. mapOrder \in [Refs -> Report] /\ \A r \in Refs : mapOrder[r].st = "none"
  <2>1. NoReport \in Report /\ NoReport.st = "none"
    BY CoreAssumption DEF NoReport, Report
  <2>2. mapOrder = [r \in Refs |-> NoReport]
    BY DEF Init
  <2> QED
    BY <2>1, <2>2
<1>6. exch \in [Refs -> ExchRec] /\ \A r \in Refs : exch[r].st = "none" /\ exch[r].done = 0
  <2>1. NoOrder \in ExchRec /\ NoOrder.st = "none" /\ NoOrder.done = 0
    BY CoreAssumption DEF NoOrder, ExchRec
  <2>2. exch = [r \in Refs |-> NoOrder]
    BY DEF Init
  <2> QED
    BY <2>1, <2>2
<1>7. TableInv /\ OrdersInv /\ BooksInv /\ BrokerInv
  BY <1>3, <1>4, <1>5, <1>6, TraderOK, SpiOK, CoreAssumption
     DEF TableInv, OrdersInv, BooksInv, BrokerInv
<1>8. WaitsOnce
  BY <1>3, <1>6 DEF WaitsOnce
<1>9. Exchange
  BY <1>6 DEF Exchange, Kept
<1>10. Dealt /\ Deals /\ AtHand
  BY <1>3, SpiOK DEF Dealt, Deals, AtHand
<1>11. Streams
  BY <1>3, NoElems DEF Streams
<1>12. Stored
  BY <1>5 DEF Stored, Final
<1> QED
  BY <1>1, <1>2, <1>7, <1>8, <1>9, <1>10, <1>11, <1>12 DEF TypeInv, World

LEMMA TypeNext ==
    ASSUME TypeInv, World, [Next]_vars
    PROVE  TypeInv' /\ World' /\ Grows
<1>1. CASE SlotDue
  <2>1. PlanInv'
    <3>1. plan' = [plan EXCEPT !.due = plan.due + 1] /\ plan.due < Len(plan.queue)
      BY <1>1 DEF SlotDue
    <3>2. plan \in PlanRec /\ plan.due \in Nat /\ Len(plan.queue) \in Nat
      BY DEF TypeInv, PlanInv, PlanRec
    <3>3. plan' \in PlanRec /\ plan'.due = plan.due + 1 /\ plan'.queue = plan.queue
      BY <3>1, <3>2 DEF PlanRec
    <3> QED
      BY <3>1, <3>2, <3>3 DEF PlanInv, PlanRec
  <2>2. UNCHANGED <<queues, hts, books, worker, trader, spi, ext>>
    BY <1>1 DEF SlotDue
  <2>3. WorkersInv' /\ TableInv' /\ OrdersInv' /\ BooksInv' /\ BrokerInv'
    BY <2>2, TypeFrame DEF TypeInv, queues, books, ext
  <2>4. World' /\ Grows
    BY <2>2, WorldFrame, GrowsFrame DEF World, TypeInv, queues, books, ext
  <2> QED
    BY <2>1, <2>3, <2>4 DEF TypeInv
<1>2. CASE \E t \in Workers : CheckDoing(t) \/ Proceed(t)
  BY <1>2, WorkersType
<1>3. CASE \E r \in 1 .. Len(order) : Broker(r)
  BY <1>3, FillType, CancelType DEF Broker, CancelRequested, ExchangeCancels
<1>4. CASE UNCHANGED vars
  <2>1. UNCHANGED <<plan, queues, hts, books, worker, trader, spi, ext>>
    BY <1>4 DEF vars
  <2>2. TypeInv'
    BY <2>1, TypeFrame DEF TypeInv, queues, books, ext
  <2>3. World' /\ Grows
    BY <2>1, WorldFrame, GrowsFrame DEF World, TypeInv, queues, books, ext
  <2> QED
    BY <2>2, <2>3
<1> QED
  BY <1>1, <1>2, <1>3, <1>4, TradingType, SpiType, ThreadTimeType, LinkType, Zenon DEF Next

LEMMA TypeFollows ==
    ASSUME TypeInv, World
    PROVE  TypeOK
<1>1. plan.scn \in Scenarios /\ plan.queue \in Seq(Nat) /\ plan.due \in 0 .. Len(plan.queue)
  BY DEF TypeInv, PlanInv, PlanRec
<1>2. /\ Len(order) <= MaxRef
      /\ \A r \in 1 .. Len(order) : order[r].side \in {"buy", "sell"} /\ order[r].vol \in 1 .. Lot
  BY OrderFacts DEF TypeInv, Sides
<1>3. hts \in [Refs -> Entry] /\ posORD \in Nat /\ posTRD \in Nat
  BY DEF TypeInv, TableInv, BooksInv
<1>4. \A r \in Refs : mapOrder[r].st \in Reported \cup {"none"} /\ mapOrder[r].rem \in 0 .. Lot
  BY DEF TypeInv, BooksInv, Report
<1>5. mapTrade \subseteq Refs \X (1 .. Len(deals))
  <2>1. \A i \in 1 .. Len(deals) : deals[i].ref \in Refs
    BY OrderFacts DEF World, Dealt, TypeInv
  <2> QED
    BY <2>1 DEF World, Deals
<1>6. {cqOrder[i] : i \in DOMAIN cqOrder} \cup {cqAction[i] : i \in DOMAIN cqAction}
            \cup noReopen \subseteq Refs
  BY DEF TypeInv, TableInv, OrdersInv
<1>7. \A t \in Workers : worker[t].ctx \in {"none", "cut", "scan", "turn", "late"}
  BY DEF TypeInv, WorkersInv, WorkerOK, WorkerRec, Ctxs
<1>8. trader.pc \in {"orders", "insert", "sent", "actions", "action", "acted", "ended"}
  BY DEF TypeInv, TableInv, Traders
<1>9. spi.pc \in {"idle", "final", "stamp"}
  BY DEF TypeInv, BooksInv, SpiRec
<1>10. \A r \in Refs : exch[r].st \in {"none", "live", "all", "canceled", "rejected"}
  BY DEF TypeInv, BrokerInv, ExchRec
<1> QED
  BY <1>1, <1>2, <1>3, <1>4, <1>5, <1>6, <1>7, <1>8, <1>9, <1>10 DEF TypeOK

(* The shape of the state, for any scenarios, faults, lot and workers; in  *)
(* particular no order is sent with no volume or more than a lot, the rest *)
(* of a cancelled order included, and no trade is stored that was not made.*)
THEOREM CoreTypeCorrect == Spec => []TypeOK
<1>1. TypeInv /\ World /\ [Next]_vars => TypeInv' /\ World'
  BY TypeNext
<1>2. TypeInv /\ World => TypeOK
  BY TypeFollows
<1> QED
  BY <1>1, <1>2, TypeInit, PTL DEF Spec

-----------------------------------------------------------------------------
(* Each trade and each finished order is booked exactly once.              *)
TradeTerms == [i \in {i \in DOMAIN deals : <<deals[i].ref, i>> \in mapTrade} |->
                  Signed(deals[i].ref, deals[i].n)]
OrderTerms == [r \in {r \in 1 .. Len(order) : Booked(r)} |->
                  Signed(r, order[r].vol - mapOrder[r].rem)]

(* A book and what it should hold.                                         *)
Follows(pos, n) == pos >= n /\ (~short => pos = n)

(* The order of some numbers does not matter for their being finite.       *)
LEMMA FiniteBelow ==
    ASSUME NEW n \in Nat, NEW S \in SUBSET (1 .. n)
    PROVE  IsFiniteSet(S)
<1>1. IsFiniteSet(1 .. n)
  BY FS_Interval
<1> QED
  BY <1>1, FS_Subset

(* The sums of BookedOnce are integers.                                    *)
LEMMA BookedSums ==
    ASSUME TypeInv, World
    PROVE  /\ TradesBooked = SumFunction(TradeTerms) /\ TradesBooked \in Int
           /\ OrdersBooked = SumFunction(OrderTerms) /\ OrdersBooked \in Int
<1>1. TradesBooked = SumFunction(TradeTerms)
  BY Zenon DEF TradesBooked, TradeTerms, Sum
<1>2. OrdersBooked = SumFunction(OrderTerms)
  BY Zenon DEF OrdersBooked, OrderTerms, Sum
<1>3. SumFunction(TradeTerms) \in Int
  <2>1. PICK S : S = {i \in DOMAIN deals : <<deals[i].ref, i>> \in mapTrade}
    OBVIOUS
  <2>2. PICK g : g = TradeTerms
    OBVIOUS
  <2>3. DOMAIN deals = 1 .. Len(deals) /\ Len(deals) \in Nat
    BY DEF TypeInv, BrokerInv
  <2>4. IsFiniteSet(S)
    BY <2>1, <2>3, FiniteBelow
  <2>5. \A i \in S : Signed(deals[i].ref, deals[i].n) \in Int
    <3> SUFFICES ASSUME NEW i \in S
                 PROVE  Signed(deals[i].ref, deals[i].n) \in Int
      OBVIOUS
    <3>1. deals[i] \in Message
      BY <2>1 DEF TypeInv, BrokerInv
    <3>2. deals[i].n \in Nat
      BY <3>1, CoreAssumption DEF Message
    <3> QED
      BY <3>2 DEF Signed
  <2>6. g \in [S -> Int]
    BY <2>1, <2>2, <2>5 DEF TradeTerms
  <2> QED
    BY <2>2, <2>4, <2>6, SumType
<1>4. SumFunction(OrderTerms) \in Int
  <2>1. PICK S : S = {r \in 1 .. Len(order) : Booked(r)}
    OBVIOUS
  <2>2. PICK g : g = OrderTerms
    OBVIOUS
  <2>3. S \in SUBSET (1 .. Len(order))
    BY <2>1
  <2>4. \A r \in S : Signed(r, order[r].vol - mapOrder[r].rem) \in Int
    <3> SUFFICES ASSUME NEW r \in S
                 PROVE  Signed(r, order[r].vol - mapOrder[r].rem) \in Int
      OBVIOUS
    <3>1. r \in 1 .. Len(order) /\ r \in Refs /\ order[r].vol \in Nat
      BY <2>3, OrderFacts DEF TypeInv
    <3>2. mapOrder[r].rem \in Nat
      BY <3>1, CoreAssumption DEF TypeInv, BooksInv, Report
    <3> QED
      BY <3>1, <3>2 DEF Signed
  <2>5. g \in [S -> Int]
    BY <2>1, <2>2, <2>4 DEF OrderTerms
  <2> QED
    BY <2>2, <2>3, <2>5, OrderSum DEF TypeInv
<1> QED
  BY <1>1, <1>2, <1>3, <1>4

(* A trade that has just been made is not booked yet, ...                  *)
LEMMA TradesSame ==
    ASSUME TypeInv, World, TypeInv', World', Grows, UNCHANGED mapTrade
    PROVE  TradesBooked' = TradesBooked
<1>1. DOMAIN deals = 1 .. Len(deals) /\ DOMAIN deals' = 1 .. Len(deals')
  BY DEF TypeInv, BrokerInv
<1>2. ASSUME NEW i \in 1 .. Len(deals)
      PROVE  /\ i \in 1 .. Len(deals') /\ deals'[i] = deals[i]
             /\ Signed(deals[i].ref, deals[i].n)' = Signed(deals[i].ref, deals[i].n)
  <2>1. i \in 1 .. Len(deals') /\ deals'[i] = deals[i] /\ deals[i].ref \in 1 .. Len(order)
    BY DEF Grows, World, Dealt
  <2>2. order'[deals[i].ref] = order[deals[i].ref]
    BY <2>1 DEF Grows
  <2> QED
    BY <2>1, <2>2 DEF Signed
<1>3. ASSUME NEW i \in 1 .. Len(deals'), <<deals'[i].ref, i>> \in mapTrade
      PROVE  i \in 1 .. Len(deals)
  BY <1>3 DEF World, Deals
<1>4. PICK S : S = {i \in DOMAIN deals : <<deals[i].ref, i>> \in mapTrade}
  OBVIOUS
<1>5. S = {i \in DOMAIN deals' : <<deals'[i].ref, i>> \in mapTrade'}
  BY <1>1, <1>2, <1>3, <1>4
<1>6. \A i \in S : Signed(deals[i].ref, deals[i].n)' = Signed(deals[i].ref, deals[i].n)
  BY <1>1, <1>2, <1>4
<1>7. TradeTerms' = TradeTerms
  BY <1>4, <1>5, <1>6 DEF TradeTerms
<1> QED
  BY <1>7, Zenon DEF TradesBooked, TradeTerms, Sum

(* ... and the one reported now was not either.                            *)
LEMMA TradesMore ==
    ASSUME TypeInv, World, TypeInv', World', UNCHANGED <<order, deals>>,
           NEW k \in 1 .. Len(deals), <<deals[k].ref, k>> \notin mapTrade,
           mapTrade' = mapTrade \cup {<<deals[k].ref, k>>}
    PROVE  TradesBooked' = TradesBooked + Signed(deals[k].ref, deals[k].n)
<1>1. DOMAIN deals = 1 .. Len(deals) /\ Len(deals) \in Nat
  BY DEF TypeInv, BrokerInv
<1>2. PICK S : S = {i \in DOMAIN deals : <<deals[i].ref, i>> \in mapTrade'}
  OBVIOUS
<1>3. PICK T : T = {i \in DOMAIN deals : <<deals[i].ref, i>> \in mapTrade}
  OBVIOUS
<1>4. IsFiniteSet(S)
  BY <1>1, <1>2, FiniteBelow
<1>5. k \notin T /\ S = T \cup {k}
  BY <1>1, <1>2, <1>3
<1>6. PICK g : g = [i \in S |-> Signed(deals[i].ref, deals[i].n)]
  OBVIOUS
<1>7. PICK h : h = [i \in T |-> Signed(deals[i].ref, deals[i].n)]
  OBVIOUS
<1>8. \A i \in S : Signed(deals[i].ref, deals[i].n) \in Int
  <2> SUFFICES ASSUME NEW i \in S
               PROVE  Signed(deals[i].ref, deals[i].n) \in Int
    OBVIOUS
  <2>1. deals[i] \in Message
    BY <1>1, <1>2 DEF TypeInv, BrokerInv
  <2>2. deals[i].n \in Nat
    BY <2>1, CoreAssumption DEF Message
  <2> QED
    BY <2>2 DEF Signed
<1>9. g \in [S -> Int] /\ h \in [T -> Int] /\ (\A i \in T : h[i] = g[i])
      /\ g[k] = Signed(deals[k].ref, deals[k].n)
  BY <1>5, <1>6, <1>7, <1>8
<1>10. SumFunction(g) = g[k] + SumFunction(h)
  BY <1>4, <1>5, <1>9, SumAdd
<1>11. SumFunction(h) = TradesBooked
  BY <1>3, <1>7, Zenon DEF TradesBooked, Sum
<1>12. SumFunction(g) = TradesBooked'
  <2>1. \A i : Signed(deals[i].ref, deals[i].n)' = Signed(deals[i].ref, deals[i].n)
    BY DEF Signed
  <2>2. TradeTerms' = g
    BY <1>2, <1>6, <2>1 DEF TradeTerms
  <2>3. TradesBooked' = SumFunction(TradeTerms')
    BY Zenon DEF TradesBooked, TradeTerms, Sum
  <2> QED
    BY <2>2, <2>3
<1>13. TradesBooked \in Int /\ g[k] \in Int
  BY <1>5, <1>9, BookedSums
<1>14. PICK a \in Int, b \in Int : a = g[k] /\ b = TradesBooked
  BY <1>13
<1>15. TradesBooked' = a + b
  BY <1>10, <1>11, <1>12, <1>14, Zenon
<1> QED
  BY <1>9, <1>14, <1>15

(* The orders whose end has been booked, as long as no end is stored or    *)
(* finished; a new order has no report.                                    *)
LEMMA OrdersSame ==
    ASSUME TypeInv, World, TypeInv', World', Grows,
           \A r \in Refs : mapOrder'[r].st \in Final => mapOrder[r].st \in Final \/ Handling(r)',
           \A r \in Refs : mapOrder[r].st \in Final => mapOrder'[r] = mapOrder[r],
           \A r \in Refs : mapOrder[r].st \in Final => (Handling(r)' <=> Handling(r))
    PROVE  OrdersBooked' = OrdersBooked
<1>1. 1 .. Len(order) \subseteq Refs /\ 1 .. Len(order') \subseteq Refs
      /\ Len(order) \in Nat /\ Len(order') \in Nat
  <2>1. OrdersInv /\ OrdersInv'
    BY DEF TypeInv
  <2> QED
    BY <2>1, CoreAssumption DEF OrdersInv, Refs
<1>2. \A r \in Refs : mapOrder[r].st \in Final => r \in 1 .. Len(order)
  BY <1>1, CoreAssumption DEF World, Stored, Refs
<1>3. ASSUME NEW r \in Refs
      PROVE  Booked(r)' <=> Booked(r)
  BY DEF Booked
<1>4. ASSUME NEW r \in Refs, Booked(r)
      PROVE  /\ r \in 1 .. Len(order) /\ r \in 1 .. Len(order') /\ order'[r] = order[r]
             /\ mapOrder'[r] = mapOrder[r]
  <2>1. r \in 1 .. Len(order) /\ mapOrder'[r] = mapOrder[r]
    BY <1>2, <1>4 DEF Booked
  <2> QED
    BY <2>1 DEF Grows
<1>5. PICK S : S = {r \in 1 .. Len(order) : Booked(r)}
  OBVIOUS
<1>6. S = {r \in 1 .. Len(order') : Booked(r)'}
  BY <1>1, <1>3, <1>4, <1>5
<1>7. \A r \in S : Signed(r, order[r].vol - mapOrder[r].rem)' = Signed(r, order[r].vol - mapOrder[r].rem)
  BY <1>1, <1>4, <1>5 DEF Signed
<1>8. OrderTerms' = OrderTerms
  BY <1>5, <1>6, <1>7 DEF OrderTerms
<1> QED
  BY <1>8, Zenon DEF OrdersBooked, OrderTerms, Sum

(* The end of the order at hand is booked.                                 *)
LEMMA OrdersMore ==
    ASSUME TypeInv, World, TypeInv', World', Grows, UNCHANGED mapOrder,
           NEW q \in 1 .. Len(order), spi.pc = "final", spi.ref = q, spi'.pc # "final"
    PROVE  OrdersBooked' = OrdersBooked + Signed(q, order[q].vol - mapOrder[q].rem)
<1>1. /\ 1 .. Len(order) \subseteq Refs /\ 1 .. Len(order') \subseteq Refs
      /\ Len(order) \in Nat /\ Len(order') \in Nat
  <2>1. OrdersInv /\ OrdersInv'
    BY DEF TypeInv
  <2> QED
    BY <2>1, CoreAssumption DEF OrdersInv, Refs
<1>2. mapOrder[q].st \in Final /\ \A r \in Refs : mapOrder[r].st \in Final => r \in 1 .. Len(order)
  <2>1. \A r \in Refs : mapOrder[r].st \in Final => r \in 1 .. Len(order)
    BY <1>1, CoreAssumption DEF World, Stored, Refs
  <2> QED
    BY <2>1, FinalFacts
<1>3. ASSUME NEW r \in Refs
      PROVE  /\ Booked(r)' <=> r = q \/ Booked(r)
             /\ ~(r = q /\ Booked(r))
  BY <1>2 DEF Booked, Handling
<1>4. ASSUME NEW r \in Refs, mapOrder[r].st \in Final
      PROVE  r \in 1 .. Len(order) /\ r \in 1 .. Len(order') /\ order'[r] = order[r]
  <2>1. r \in 1 .. Len(order)
    BY <1>2, <1>4
  <2> QED
    BY <2>1 DEF Grows
<1>5. PICK T : T = {r \in 1 .. Len(order) : Booked(r)}
  OBVIOUS
<1>6. PICK S : S = T \cup {q}
  OBVIOUS
<1>7. S = {r \in 1 .. Len(order') : Booked(r)'}
  <2>1. \A r \in Refs : Booked(r) => mapOrder[r].st \in Final
    BY DEF Booked
  <2>2. q \in Refs /\ q \in 1 .. Len(order')
    BY <1>1, <1>2, <1>4
  <2>3. ASSUME NEW r \in S
        PROVE  r \in 1 .. Len(order') /\ Booked(r)'
    BY <1>1, <1>3, <1>4, <1>5, <1>6, <2>1, <2>2, <2>3
  <2>4. ASSUME NEW r \in 1 .. Len(order'), Booked(r)'
        PROVE  r \in S
    BY <1>1, <1>3, <1>4, <1>5, <1>6, <2>1, <2>4
  <2> QED
    BY <2>3, <2>4
<1>8. q \notin T /\ IsFiniteSet(S) /\ S \subseteq 1 .. Len(order)
  <2>1. q \notin T /\ S \subseteq 1 .. Len(order)
    BY <1>1, <1>3, <1>5, <1>6
  <2> QED
    BY <2>1, <1>1, FiniteBelow
<1>9. \A r \in S : Signed(r, order[r].vol - mapOrder[r].rem) \in Int
  <2> SUFFICES ASSUME NEW r \in S
               PROVE  Signed(r, order[r].vol - mapOrder[r].rem) \in Int
    OBVIOUS
  <2>1. r \in 1 .. Len(order) /\ r \in Refs /\ order[r].vol \in Nat
    BY <1>1, <1>8, OrderFacts DEF TypeInv
  <2>2. mapOrder[r].rem \in Nat
    BY <2>1, CoreAssumption DEF TypeInv, BooksInv, Report
  <2> QED
    BY <2>1, <2>2 DEF Signed
<1>10. PICK g : g = [r \in S |-> Signed(r, order[r].vol - mapOrder[r].rem)]
  OBVIOUS
<1>11. PICK h : h = [r \in T |-> Signed(r, order[r].vol - mapOrder[r].rem)]
  OBVIOUS
<1>12. g \in [S -> Int] /\ h \in [T -> Int] /\ (\A r \in T : h[r] = g[r])
       /\ g[q] = Signed(q, order[q].vol - mapOrder[q].rem) /\ g[q] \in Int
  BY <1>6, <1>9, <1>10, <1>11
<1>13. SumFunction(g) = g[q] + SumFunction(h)
  <2>1. /\ IsFiniteSet(S) /\ q \notin T /\ S = T \cup {q}
        /\ g \in [S -> Int] /\ h \in [T -> Int] /\ \A y \in T : h[y] = g[y]
    BY <1>6, <1>8, <1>12
  <2> QED
    BY ONLY <2>1, SumAdd
<1>14. SumFunction(h) = OrdersBooked
  BY <1>5, <1>11, Zenon DEF OrdersBooked, Sum
<1>15. SumFunction(g) = OrdersBooked'
  <2>1. \A r \in S : Signed(r, order[r].vol - mapOrder[r].rem)' = Signed(r, order[r].vol - mapOrder[r].rem)
    <3>1. \A r \in S : order'[r] = order[r]
      BY <1>8 DEF Grows
    <3> QED
      BY <3>1 DEF Signed
  <2>2. OrderTerms' = g
    BY <1>7, <1>10, <2>1 DEF OrderTerms
  <2>3. OrdersBooked' = SumFunction(OrderTerms')
    BY Zenon DEF OrdersBooked, OrderTerms, Sum
  <2> QED
    BY <2>2, <2>3
<1> QED
  BY <1>12, <1>13, <1>14, <1>15, BookedSums

(* PositionUpdate keeps a book with what it should hold, ...               *)
LEMMA MovedFollows ==
    ASSUME NEW pos \in Nat, NEW n \in Int, NEW v \in Nat, NEW side \in Sides, Follows(pos, n)
    PROVE  LET k == IF side = "buy" THEN v ELSE 0 - v IN
           /\ Moved(pos, side, v) >= n + k
           /\ ~short /\ ~Lacks(pos, side, v) => Moved(pos, side, v) = n + k
<1>1. CASE side = "buy"
  BY <1>1 DEF Follows, Moved
<1>2. CASE side = "sell"
  BY <1>2 DEF Follows, Moved, Lacks, Smaller
<1> QED
  BY <1>1, <1>2 DEF Sides

(* ... and what is booked elsewhere does not disturb it.                   *)
TradesOnce == Follows(posTRD, TradesBooked)
OrdersOnce == Follows(posORD, OrdersBooked)
OnceInv == TradesOnce /\ OrdersOnce

LEMMA OnceKept ==
    ASSUME OnceInv, TypeInv, World, TypeInv', World', Grows, UNCHANGED <<books, spi>>
    PROVE  OnceInv'
<1>1. UNCHANGED <<mapOrder, mapTrade, posORD, posTRD, short>>
  BY DEF books
<1>2. TradesBooked' = TradesBooked
  BY <1>1, TradesSame
<1>3. OrdersBooked' = OrdersBooked
  <2>1. \A r : Handling(r)' <=> Handling(r)
    BY DEF Handling
  <2> QED
    BY <1>1, <2>1, OrdersSame
<1> QED
  BY <1>1, <1>2, <1>3 DEF OnceInv, TradesOnce, OrdersOnce, Follows

(* OrderWay's first half: what is stored is at hand until it is booked.    *)
LEMMA StoreOrderOnce ==
    ASSUME TypeInv, World, TypeInv', World', Grows, OrdersOnce,
           NEW m \in Message, m.kind = "order", Tells(m), spi.pc = "idle",
           StoreOrder(m), UNCHANGED <<posORD, short>>
    PROVE  OrdersOnce'
<1>1. PICK r \in Refs : r = m.ref
  BY OrderFacts DEF Tells, TypeInv
<1>2. mapOrder \in [Refs -> Report]
  BY DEF TypeInv, BooksInv
<1>3. /\ \A y \in Refs : mapOrder'[y].st \in Final => mapOrder[y].st \in Final \/ Handling(y)'
      /\ \A y \in Refs : mapOrder[y].st \in Final => mapOrder'[y] = mapOrder[y]
      /\ \A y \in Refs : mapOrder[y].st \in Final => (Handling(y)' <=> Handling(y))
  <2>1. CASE mapOrder[r].st \in Final
    <3>1. UNCHANGED <<mapOrder, spi>>
      BY <1>1, <2>1 DEF StoreOrder
    <3> QED
      BY <3>1 DEF Handling
  <2>2. CASE mapOrder[r].st \notin Final
    <3>1. PICK x : x = [st |-> m.st, rem |-> m.n]
      OBVIOUS
    <3>2. /\ mapOrder' = [mapOrder EXCEPT ![r] = x]
          /\ spi' = IF m.st \in Final THEN [pc |-> "final", msg |-> x, ref |-> r] ELSE Quiet
      BY <1>1, <2>2, <3>1, Zenon DEF StoreOrder
    <3>3. mapOrder'[r] = x /\ \A y \in Refs : y # r => mapOrder'[y] = mapOrder[y]
      BY <1>2, <3>2
    <3>4. x.st = m.st
      BY <3>1
    <3>5. m.st \in Final => spi'.pc = "final" /\ spi'.ref = r
      BY <3>2
    <3>6. m.st \notin Final => spi'.pc = "idle"
      BY <3>2, SpiOK
    <3> QED
      BY <2>2, <3>3, <3>4, <3>5, <3>6 DEF Handling
  <2> QED
    BY <2>1, <2>2
<1>4. OrdersBooked' = OrdersBooked
  BY <1>3, OrdersSame
<1> QED
  BY <1>4 DEF OrdersOnce, Follows

LEMMA StoreTradeOnce ==
    ASSUME TypeInv, World, TypeInv', World', Grows, TradesOnce,
           NEW m \in Message, m.kind = "trade", Tells(m), StoreTrade(m),
           UNCHANGED <<order, deals>>
    PROVE  TradesOnce'
<1>1. CASE UNCHANGED <<mapTrade, posTRD, short>>
  BY <1>1, TradesSame DEF TradesOnce, Follows
<1>2. CASE /\ <<m.ref, m.id>> \notin mapTrade
           /\ mapTrade' = mapTrade \cup {<<m.ref, m.id>>}
           /\ posTRD' = Moved(posTRD, order[m.ref].side, m.n)
           /\ short' = (short \/ Lacks(posTRD, order[m.ref].side, m.n))
  <2>1. PICK k \in 1 .. Len(deals) : k = m.id /\ m = deals[k]
    BY DEF Tells
  <2>2. TradesBooked' = TradesBooked + Signed(deals[k].ref, deals[k].n)
    BY <1>2, <2>1, TradesMore
  <2>3. PICK v \in Nat : v = m.n
    BY CoreAssumption DEF Message
  <2>4. PICK s \in Sides : s = order[m.ref].side
    BY OrderFacts DEF Tells, TypeInv
  <2>5. PICK n \in Int : n = TradesBooked
    BY BookedSums
  <2>6. TradesBooked' = n + (IF s = "buy" THEN v ELSE 0 - v)
    BY <2>1, <2>2, <2>3, <2>4, <2>5 DEF Signed
  <2>7. posTRD \in Nat /\ Follows(posTRD, n)
    BY <2>5 DEF TypeInv, BooksInv, TradesOnce
  <2>8. posTRD' = Moved(posTRD, s, v) /\ (~short' => ~short /\ ~Lacks(posTRD, s, v))
    BY <1>2, <2>3, <2>4
  <2>9. /\ posTRD' >= TradesBooked'
        /\ ~short' => posTRD' = TradesBooked'
    BY <2>6, <2>7, <2>8, MovedFollows
  <2> QED
    BY <2>9 DEF TradesOnce, Follows
<1> QED
  BY <1>1, <1>2 DEF StoreTrade, NewTrade

(* OrderWay's second half, under m_lockPOS_GD.                             *)
LEMMA FinalOnce ==
    ASSUME TypeInv, World, TypeInv', World', Grows, OnceInv, spi.pc = "final", spi'.pc # "final",
           NEW r, r = spi.ref, NEW v \in Nat, v = order[r].vol - mapOrder[r].rem,
           posORD' = Moved(posORD, order[r].side, v),
           short' = (short \/ Lacks(posORD, order[r].side, v)),
           UNCHANGED <<mapOrder, mapTrade, posTRD>>
    PROVE  OnceInv'
<1>1. r \in 1 .. Len(order)
  BY FinalFacts
<1>2. OrdersBooked' = OrdersBooked + Signed(r, v)
  BY <1>1, OrdersMore
<1>3. PICK s \in Sides : s = order[r].side
  BY <1>1, OrderFacts DEF TypeInv
<1>4. PICK n \in Int : n = OrdersBooked
  BY BookedSums
<1>5. OrdersBooked' = n + (IF s = "buy" THEN v ELSE 0 - v)
  BY <1>2, <1>3, <1>4 DEF Signed
<1>6. posORD \in Nat /\ Follows(posORD, n)
  BY <1>4 DEF TypeInv, BooksInv, OnceInv, OrdersOnce
<1>7. posORD' = Moved(posORD, s, v) /\ (~short' => ~short /\ ~Lacks(posORD, s, v))
  BY <1>3
<1>8. posORD' >= OrdersBooked' /\ (~short' => posORD' = OrdersBooked')
  BY <1>5, <1>6, <1>7, MovedFollows
<1>9. TradesBooked' = TradesBooked
  BY TradesSame
<1>10. TradesOnce'
  BY <1>7, <1>9 DEF OnceInv, TradesOnce, Follows
<1> QED
  BY <1>8, <1>10 DEF OnceInv, OrdersOnce, Follows

LEMMA OnceNext ==
    ASSUME OnceInv, TypeInv, World, TypeInv', World', Grows, [Next]_vars
    PROVE  OnceInv'
<1>1. ASSUME NEW m \in Message, Tells(m), spi.pc = "idle", Receive(m),
             UNCHANGED <<queues, exch, deals>>
      PROVE  OnceInv'
  <2>1. CASE /\ m.kind = "order" /\ StoreOrder(m)
             /\ UNCHANGED <<mapTrade, posORD, posTRD, short>>
    <3>1. OrdersOnce'
      BY <1>1, <2>1, StoreOrderOnce DEF OnceInv
    <3>2. TradesOnce'
      BY <2>1, TradesSame DEF OnceInv, TradesOnce, Follows
    <3> QED
      BY <3>1, <3>2 DEF OnceInv
  <2>2. CASE m.kind = "trade" /\ StoreTrade(m) /\ UNCHANGED <<mapOrder, posORD, spi>>
    <3>1. TradesOnce'
      BY <1>1, <2>2, StoreTradeOnce DEF OnceInv, queues
    <3>2. OrdersBooked' = OrdersBooked
      BY <2>2, OrdersSame DEF Handling
    <3>3. short => short'
      BY <2>2 DEF StoreTrade
    <3>4. OrdersOnce'
      BY <2>2, <3>2, <3>3 DEF OnceInv, OrdersOnce, Follows
    <3> QED
      BY <3>1, <3>4 DEF OnceInv
  <2>3. CASE UNCHANGED <<books, spi>>
    BY <2>3, OnceKept
  <2> QED
    BY <1>1, <2>1, <2>2, <2>3, Zenon DEF Receive
<1>2. CASE OnRtn
  <2>1. /\ spi.pc = "idle" /\ rtn # <<>> /\ Receive(Head(rtn)) /\ UNCHANGED <<queues, exch, deals>>
    BY <1>2 DEF OnRtn
  <2>2. Head(rtn) \in Message /\ Tells(Head(rtn))
    BY <2>1, HeadTold DEF World, Streams, TypeInv, BrokerInv
  <2> QED
    BY <1>1, <2>1, <2>2
<1>3. CASE OnRspQry
  <2>1. /\ spi.pc = "idle" /\ answers # <<>> /\ Receive(Head(answers)) /\ UNCHANGED <<queues, exch, deals>>
    BY <1>3 DEF OnRspQry
  <2>2. Head(answers) \in Message /\ Tells(Head(answers))
    BY <2>1, HeadTold DEF World, Streams, TypeInv, BrokerInv
  <2> QED
    BY <1>1, <2>1, <2>2
<1>4. CASE AllTraded
  <2>1. PICK r : r = spi.ref
    OBVIOUS
  <2>2. /\ spi.pc = "final" /\ spi.msg.st = "all" /\ spi' = Quiet
        /\ posORD' = Moved(posORD, order[r].side, order[r].vol)
        /\ short' = (short \/ Lacks(posORD, order[r].side, order[r].vol))
        /\ UNCHANGED <<mapOrder, mapTrade, posTRD>>
    BY <1>4, <2>1 DEF AllTraded
  <2>3. order[r].vol \in Nat /\ mapOrder[r].rem = 0
    <3>1. r \in Refs /\ r \in 1 .. Len(order) /\ spi.msg.rem = mapOrder[r].rem /\ spi.msg.rem = Left(r)
          /\ exch[r].st = "all"
      BY <2>1, <2>2, FinalFacts
    <3>2. exch[r].done = order[r].vol /\ order[r].vol \in Nat
      BY <3>1, OrderFacts DEF World, Exchange, Kept, TypeInv
    <3> QED
      BY <3>1, <3>2 DEF Left
  <2> QED
    BY <2>1, <2>2, <2>3, SpiOK, FinalOnce
<1>5. CASE OrderCanceled
  <2>1. PICK r : r = spi.ref
    OBVIOUS
  <2>2. PICK f : f = FilledOf(r, spi.msg.rem)
    OBVIOUS
  <2>3. /\ spi.pc = "final" /\ spi.msg.st = "canceled" /\ posORD' = Moved(posORD, order[r].side, f)
        /\ short' = (short \/ Lacks(posORD, order[r].side, f))
        /\ UNCHANGED <<mapOrder, mapTrade, posTRD>>
        /\ spi' = [spi EXCEPT !.pc = "stamp", !.ref = Len(order')] \/ spi' = Quiet
    BY <1>5, <2>1, <2>2, Zenon DEF OrderCanceled
  <2>4. spi'.pc # "final"
    BY <2>3, SpiOK DEF TypeInv, BooksInv, SpiRec
  <2>5. f \in Nat /\ f = order[r].vol - mapOrder[r].rem
    <3>1. /\ r \in 1 .. Len(order) /\ spi.msg.rem = mapOrder[r].rem
          /\ spi.msg.rem \in 1 .. order[r].vol
      BY <2>1, <2>3, FinalFacts
    <3>2. order[r].vol \in Nat
      BY <3>1, OrderFacts DEF TypeInv
    <3> QED
      BY <2>2, <3>1, <3>2 DEF FilledOf
  <2> QED
    BY <2>1, <2>3, <2>4, <2>5, FinalOnce
<1>6. CASE ReopenStamp
  <2>1. UNCHANGED books /\ spi.pc = "stamp" /\ spi' = Quiet
    BY <1>6 DEF ReopenStamp
  <2>2. OrdersBooked' = OrdersBooked
    BY <2>1, SpiOK, OrdersSame DEF books, Handling
  <2>3. TradesBooked' = TradesBooked
    BY <2>1, TradesSame DEF books
  <2> QED
    BY <2>1, <2>2, <2>3 DEF OnceInv, TradesOnce, OrdersOnce, Follows, books
<1>7. CASE UNCHANGED <<books, spi>>
  BY <1>7, OnceKept
<1>8. SlotDue \/ ThreadTime \/ Trading \/ Disconnect \/ Relogin => UNCHANGED <<books, spi>>
  BY DEF SlotDue, ThreadTime, ReqQryOrder, ReqQryTrade, EraseSyn, Disconnect, Relogin, Trading,
         TakeOrder, ReqOrderInsert, OrderSent, TakeAction, ReqOrderAction, ActionSent
<1>9. ASSUME NEW t \in Workers, CheckDoing(t) \/ Proceed(t)
      PROVE  UNCHANGED <<books, spi>>
  BY <1>9 DEF CheckDoing, Proceed, GetTarget, ScanIdle, CompareORTD, TargetWay, PushOrder, StampNew,
              ScanLate, CancelCheck, CancelMark, PopTarget
<1>10. ASSUME NEW r \in 1 .. Len(order), Broker(r)
       PROVE  UNCHANGED <<books, spi>>
  BY <1>10 DEF Broker, CancelRequested, ExchangeCancels, Cancel, Fill
<1>11. UNCHANGED vars => UNCHANGED <<books, spi>>
  BY DEF vars
<1> QED
  BY <1>2, <1>3, <1>4, <1>5, <1>6, <1>7, <1>8, <1>9, <1>10, <1>11, Zenon DEF Next, Spi

LEMMA OnceInit == Init => OnceInv
<1> SUFFICES ASSUME Init
             PROVE  OnceInv
  OBVIOUS
<1>1. posORD = 0 /\ posTRD = 0 /\ order = <<>> /\ deals = <<>>
  BY DEF Init
<1>2. PICK g : g = [i \in {} |-> 0]
  OBVIOUS
<1>3. SumFunction(g) = 0
  BY <1>2, SumEmpty
<1>4. OrderTerms = g
  <2>1. {r \in 1 .. Len(order) : Booked(r)} = {}
    BY <1>1
  <2> QED
    BY <1>2, <2>1 DEF OrderTerms
<1>5. TradeTerms = g
  <2>1. {i \in DOMAIN deals : <<deals[i].ref, i>> \in mapTrade} = {}
    BY <1>1
  <2> QED
    BY <1>2, <2>1 DEF TradeTerms
<1>6. TradesBooked = 0 /\ OrdersBooked = 0
  BY <1>3, <1>4, <1>5, TypeInit, BookedSums
<1> QED
  BY <1>1, <1>6 DEF OnceInv, TradesOnce, OrdersOnce, Follows

(* Each trade and each finished order enters its position book exactly     *)
(* once, for any plan, faults and workers: TradeWay and OrderWay book      *)
(* nothing a second time that the stream and the answers repeat, and only  *)
(* a close cut short by PositionUpdate leaves a book above the account.    *)
THEOREM BookedOnceAlways == Spec => []BookedOnce
<1>1. TypeInv /\ World /\ OnceInv /\ [Next]_vars => TypeInv' /\ World' /\ OnceInv'
  BY TypeNext, OnceNext
<1>2. OnceInv => BookedOnce
  BY DEF OnceInv, TradesOnce, OrdersOnce, Follows, BookedOnce
<1> QED
  BY <1>1, <1>2, TypeInit, OnceInit, PTL DEF Spec

-----------------------------------------------------------------------------
(* Nothing that happened at the broker is lost on a link that holds.       *)
TradeKnown(i) == <<deals[i].ref, i>> \in mapTrade \/ deals[i] \in Elems(rtn)
EndKnown(r) == \/ mapOrder[r].st \in Final
               \/ \E m \in Elems(rtn) : m.kind = "order" /\ m.ref = r /\ m.st \in Final
Delivered ==
    ~Fault("offline") =>
        /\ link
        /\ \A i \in 1 .. Len(deals) : TradeKnown(i)
        /\ \A r \in 1 .. Len(order) : exch[r].st \in Final => EndKnown(r)

(* The account is the sum of the trades.                                   *)
HeldTerms == [r \in 1 .. Len(order) |-> Signed(r, exch[r].done)]
DealTerms == [i \in 1 .. Len(deals) |-> Signed(deals[i].ref, deals[i].n)]
Accounted == SumFunction(HeldTerms) = SumFunction(DealTerms)

(* What a message told is stored.                                          *)
Handled(m) ==
    /\ m.kind = "trade" => <<m.ref, m.id>> \in mapTrade
    /\ m.kind = "order" /\ m.st \in Final => mapOrder[m.ref].st \in Final

LEMMA ScnKept ==
    ASSUME TypeInv, [Next]_vars
    PROVE  plan'.scn = plan.scn /\ \A name : Fault(name)' <=> Fault(name)
<1>1. plan \in PlanRec
  BY DEF TypeInv, PlanInv
<1>2. SlotDue => plan'.scn = plan.scn
  BY <1>1 DEF SlotDue, PlanRec
<1>3. ASSUME NEW t \in Workers, GetTarget(t)
      PROVE  plan'.scn = plan.scn
  BY <1>1, <1>3 DEF GetTarget, AfterGet, PlanRec
<1>4. ASSUME NEW t \in Workers, PopTarget(t)
      PROVE  plan'.scn = plan.scn
  BY <1>1, <1>4 DEF PopTarget, AfterPop, PlanRec
<1>5. ASSUME NEW t \in Workers, CheckDoing(t) \/ Proceed(t)
      PROVE  plan'.scn = plan.scn
  <2>1. GetTarget(t) \/ PopTarget(t) \/ UNCHANGED plan
    BY <1>5 DEF CheckDoing, Proceed, ScanIdle, CompareORTD, TargetWay, PushOrder, StampNew,
                ScanLate, CancelCheck, CancelMark
  <2> QED
    BY <1>3, <1>4, <2>1
<1>6. Trading \/ Spi \/ ThreadTime \/ Disconnect \/ Relogin \/ UNCHANGED vars => UNCHANGED plan
  BY DEF ThreadTime, ReqQryOrder, ReqQryTrade, EraseSyn, Disconnect, Relogin, Trading,
         TakeOrder, ReqOrderInsert, OrderSent, TakeAction, ReqOrderAction, ActionSent,
         Spi, OnRtn, OnRspQry, AllTraded, OrderCanceled, ReopenStamp, vars
<1>7. ASSUME NEW r \in 1 .. Len(order), Broker(r)
      PROVE  UNCHANGED plan
  BY <1>7 DEF Broker, CancelRequested, ExchangeCancels, Cancel, Fill
<1>8. plan'.scn = plan.scn
  BY <1>2, <1>5, <1>6, <1>7, Zenon DEF Next
<1> QED
  BY <1>8 DEF Fault

(* What is known stays known.                                              *)
LEMMA KnownKept ==
    ASSUME TypeInv, World, TypeInv', World', Grows,
           mapTrade \subseteq mapTrade',
           \A r \in Refs : mapOrder[r].st \in Final => mapOrder'[r].st \in Final,
           \A m \in Elems(rtn) : m \in Elems(rtn') \/ Handled(m)'
    PROVE  /\ \A i \in 1 .. Len(deals) : TradeKnown(i) => TradeKnown(i)'
           /\ \A r \in 1 .. Len(order) : EndKnown(r) => EndKnown(r)'
<1>1. ASSUME NEW i \in 1 .. Len(deals), TradeKnown(i)
      PROVE  TradeKnown(i)'
  <2>1. deals'[i] = deals[i] /\ deals[i].kind = "trade" /\ deals[i].id = i
    BY DEF Grows, World, Dealt
  <2> QED
    BY <1>1, <2>1 DEF TradeKnown, Handled
<1>2. ASSUME NEW r \in 1 .. Len(order), EndKnown(r)
      PROVE  EndKnown(r)'
  <2>1. r \in Refs
    BY OrderFacts DEF TypeInv
  <2>2. CASE mapOrder[r].st \in Final
    BY <2>1, <2>2 DEF EndKnown
  <2>3. CASE \E m \in Elems(rtn) : m.kind = "order" /\ m.ref = r /\ m.st \in Final
    <3>1. PICK m \in Elems(rtn) : m.kind = "order" /\ m.ref = r /\ m.st \in Final
      BY <2>3
    <3>2. CASE m \in Elems(rtn')
      BY <3>1, <3>2 DEF EndKnown
    <3>3. CASE Handled(m)'
      BY <3>1, <3>3 DEF EndKnown, Handled
    <3> QED
      BY <3>2, <3>3
  <2> QED
    BY <1>2, <2>2, <2>3 DEF EndKnown
<1> QED
  BY <1>1, <1>2

LEMMA HeadOrTail ==
    ASSUME NEW S, NEW s \in Seq(S), s # <<>>
    PROVE  \A m \in Elems(s) : m = Head(s) \/ m \in Elems(Tail(s))
<1> SUFFICES ASSUME NEW i \in 1 .. Len(s)
             PROVE  s[i] = Head(s) \/ s[i] \in Elems(Tail(s))
  BY DEF Elems
<1>1. CASE i = 1
  BY <1>1
<1>2. CASE i # 1
  <2>1. i - 1 \in 1 .. Len(Tail(s)) /\ Tail(s)[i - 1] = s[i] /\ DOMAIN Tail(s) = 1 .. Len(Tail(s))
    BY <1>2
  <2> QED
    BY <2>1 DEF Elems
<1> QED
  BY <1>1, <1>2

LEMMA JoinKeeps ==
    ASSUME NEW s, IsSeq(s), NEW u, IsSeq(u)
    PROVE  \A m \in Elems(s) \cup Elems(u) : m \in Elems(s \o u)
<1>1. PICK S : s \in Seq(S)
  BY DEF IsSeq
<1>2. PICK U : u \in Seq(U)
  BY DEF IsSeq
<1>3. s \in Seq(S \cup U) /\ u \in Seq(S \cup U)
  BY <1>1, <1>2
<1>4. /\ Len(s) \in Nat /\ Len(u) \in Nat /\ Len(s \o u) = Len(s) + Len(u)
      /\ DOMAIN s = 1 .. Len(s) /\ DOMAIN u = 1 .. Len(u)
      /\ DOMAIN (s \o u) = 1 .. Len(s \o u)
  BY <1>3
<1>5. ASSUME NEW i \in 1 .. Len(s)
      PROVE  s[i] \in Elems(s \o u)
  <2>1. i \in 1 .. Len(s \o u) /\ (s \o u)[i] = s[i]
    BY <1>3, <1>4
  <2> QED
    BY <1>4, <2>1 DEF Elems
<1>6. ASSUME NEW i \in 1 .. Len(u)
      PROVE  u[i] \in Elems(s \o u)
  <2>1. Len(s) + i \in 1 .. Len(s \o u) /\ (s \o u)[Len(s) + i] = u[i]
    BY <1>3, <1>4
  <2> QED
    BY <1>4, <2>1 DEF Elems
<1> QED
  BY <1>4, <1>5, <1>6 DEF Elems

LEMMA EmitKeeps ==
    ASSUME IsSeq(rtn), NEW s, IsSeq(s), Emit(s)
    PROVE  /\ \A m \in Elems(rtn) : m \in Elems(rtn')
           /\ link => \A m \in Elems(s) : m \in Elems(rtn')
<1>1. CASE link
  <2>1. rtn' = rtn \o s
    BY <1>1 DEF Emit
  <2> QED
    BY <2>1, JoinKeeps
<1>2. CASE ~link
  BY <1>2 DEF Emit
<1> QED
  BY <1>1, <1>2

(* The steps of the broker that trade or end an order.                     *)
LEMMA FillFacts ==
    ASSUME TypeInv, World, NEW r \in 1 .. Len(order), NEW n, Fill(r, n)
    PROVE  /\ n \in Nat /\ exch'[r].done = exch[r].done + n
           /\ \A x \in Refs : x # r => exch'[x] = exch[x]
           /\ \A m \in Elems(rtn) : m \in Elems(rtn')
           /\ Len(deals') = Len(deals) + 1
           /\ \E b : /\ deals' = Append(deals, b) /\ b.ref = r /\ b.n = n
                     /\ link => b \in Elems(rtn')
           /\ link /\ exch'[r].st \in Final => EndKnown(r)'
<1>1. Live(r) /\ n \in 1 .. Left(r) /\ UNCHANGED order
  BY DEF Fill, queues
<1>2. PICK v \in 1 .. Lot : v = order[r].vol
  BY OrderFacts DEF TypeInv
<1>3. PICK c \in 0 .. Lot : c = exch[r].done
  BY OrderFacts DEF TypeInv, BrokerInv, ExchRec
<1>4. PICK d : d = c + n
  OBVIOUS
<1>5. n \in 1 .. Lot /\ d \in 1 .. v /\ d \in 0 .. Lot /\ v - d \in 0 .. Lot /\ Lot \in Nat /\ d = c + n
  <2>1. Left(r) = v - c
    BY <1>2, <1>3 DEF Left
  <2>2. n \in 1 .. v - c /\ Lot \in Nat
    BY <1>1, <2>1, CoreAssumption
  <2> QED
    BY ONLY <1>4, <2>2, v \in 1 .. Lot, c \in 0 .. Lot
<1>6. PICK st \in {"all", "part"} : st = IF d = v THEN "all" ELSE "part"
  OBVIOUS
<1>7. PICK s \in {"all", "live"} : s = IF st = "all" THEN "all" ELSE "live"
  OBVIOUS
<1>8. r \in Refs /\ Len(deals) + 1 \in Nat /\ deals \in Seq(Message) /\ exch \in [Refs -> ExchRec]
      /\ rtn \in Seq(Message)
  BY OrderFacts DEF TypeInv, BrokerInv
<1>9. PICK b \in Message : b = TradeMsg(r, Len(deals) + 1, n)
  BY <1>5, <1>8, Messages
<1>10. PICK a \in Message : a = OrderMsg(r, st, v - d)
  BY <1>5, <1>8, Messages DEF Reported
<1>11. /\ exch' = [exch EXCEPT ![r].done = d, ![r].st = s]
       /\ deals' = Append(deals, b) /\ Emit(<<a, b>>)
  BY <1>2, <1>3, <1>4, <1>6, <1>7, <1>9, <1>10, Zenon DEF Fill
<1>12. a.kind = "order" /\ a.ref = r /\ a.st = st
  BY <1>10 DEF OrderMsg
<1>13. b.ref = r /\ b.n = n
  BY <1>9 DEF TradeMsg
<1>14. /\ exch'[r].st = s /\ exch'[r].done = d
       /\ \A x \in Refs : x # r => exch'[x] = exch[x]
  <2>1. PICK e \in ExchRec : e = [exch[r] EXCEPT !.done = d, !.st = s]
    BY <1>5, <1>8 DEF ExchRec
  <2>2. e.st = s /\ e.done = d
    BY <1>8, <2>1 DEF ExchRec
  <2>3. exch' = [exch EXCEPT ![r] = e]
    BY <1>8, <1>11, <2>1
  <2> QED
    BY <1>8, <2>1, <2>2, <2>3
<1>15. /\ \A m \in Elems(rtn) : m \in Elems(rtn')
       /\ link => a \in Elems(rtn') /\ b \in Elems(rtn')
  <2>1. IsSeq(rtn) /\ IsSeq(<<a, b>>) /\ Elems(<<a, b>>) = {a, b}
    BY <1>8, PairSeq, Zenon DEF IsSeq
  <2> QED
    BY <1>11, <2>1, EmitKeeps
<1>16. link /\ exch'[r].st \in Final => EndKnown(r)'
  <2>1. exch'[r].st \in Final => a.st \in Final
    BY <1>7, <1>12, <1>14 DEF Final
  <2> QED
    BY <1>12, <1>15, <2>1 DEF EndKnown
<1>17. Len(deals') = Len(deals) + 1
  BY <1>8, <1>11
<1>18. n \in Nat
  BY <1>5
<1> QED
  BY <1>3, <1>4, <1>11, <1>13, <1>14, <1>15, <1>16, <1>17, <1>18

LEMMA CancelFacts ==
    ASSUME TypeInv, World, NEW r \in 1 .. Len(order), Cancel(r)
    PROVE  /\ UNCHANGED <<deals, link>>
           /\ \A x \in Refs : exch'[x].done = exch[x].done /\ (x # r => exch'[x] = exch[x])
           /\ \A m \in Elems(rtn) : m \in Elems(rtn')
           /\ link => EndKnown(r)'
<1>1. /\ Live(r) /\ exch' = [exch EXCEPT ![r].st = "canceled"]
      /\ UNCHANGED <<deals, link>>
  BY DEF Cancel
<1>2. PICK v \in 1 .. Lot : v = order[r].vol
  BY OrderFacts DEF TypeInv
<1>3. /\ r \in Refs /\ exch \in [Refs -> ExchRec] /\ rtn \in Seq(Message)
  BY OrderFacts DEF TypeInv, BrokerInv
<1>4. PICK c \in 0 .. Lot : c = exch[r].done
  BY <1>3 DEF ExchRec
<1>5. c < v /\ Left(r) = v - c /\ v - c \in 0 .. Lot /\ Lot \in Nat
  BY <1>1, <1>2, <1>3, <1>4, CoreAssumption DEF World, Exchange, Kept, Live, Left
<1>6. PICK a \in Message : a = OrderMsg(r, "canceled", Left(r))
  BY <1>3, <1>5, Messages DEF Reported
<1>7. a.kind = "order" /\ a.ref = r /\ a.st \in Final
  BY <1>6 DEF OrderMsg, Final
<1>8. Emit(<<a>>)
  BY <1>6, Zenon DEF Cancel
<1>9. (\A m \in Elems(rtn) : m \in Elems(rtn')) /\ (link => a \in Elems(rtn'))
  <2>1. IsSeq(rtn) /\ IsSeq(<<a>>) /\ Elems(<<a>>) = {a}
    BY <1>3, PairSeq, Zenon DEF IsSeq
  <2> QED
    BY <1>8, <2>1, EmitKeeps
<1>10. \A x \in Refs : exch'[x].done = exch[x].done /\ (x # r => exch'[x] = exch[x])
  BY <1>1, <1>3 DEF ExchRec
<1> QED
  BY <1>1, <1>7, <1>9, <1>10 DEF EndKnown

(* Every other step leaves the trades and the ends of orders alone, and    *)
(* what leaves the stream is stored.                                       *)
Elsewhere ==
    /\ UNCHANGED deals
    /\ \A x \in Refs : exch'[x].done = exch[x].done /\ (exch'[x].st \in Final => exch[x].st \in Final)
    /\ \A m \in Elems(rtn) : m \in Elems(rtn') \/ Handled(m)'
    /\ link /\ ~Fault("offline") => link'

LEMMA ReceiveStores ==
    ASSUME TypeInv, World, NEW m, Tells(m), Receive(m)
    PROVE  /\ Handled(m)' /\ mapTrade \subseteq mapTrade'
           /\ \A r \in Refs : mapOrder[r].st \in Final => mapOrder'[r].st \in Final
<1>1. mapOrder \in [Refs -> Report]
  BY DEF TypeInv, BooksInv
<1>2. CASE m.kind = "order" /\ StoreOrder(m) /\ UNCHANGED mapTrade
  <2>1. PICK r \in Refs : r = m.ref
    BY <1>2, OrderFacts DEF Tells, TypeInv
  <2>2. CASE mapOrder[r].st \in Final
    <3>1. UNCHANGED mapOrder
      BY <1>2, <2>1, <2>2 DEF StoreOrder
    <3> QED
      BY <1>2, <2>1, <2>2, <3>1 DEF Handled
  <2>3. CASE mapOrder[r].st \notin Final
    <3>1. PICK x : x = [st |-> m.st, rem |-> m.n]
      OBVIOUS
    <3>2. mapOrder' = [mapOrder EXCEPT ![r] = x]
      BY <1>2, <2>1, <2>3, <3>1, Zenon DEF StoreOrder
    <3>3. mapOrder'[r] = x /\ x.st = m.st /\ \A y \in Refs : y # r => mapOrder'[y] = mapOrder[y]
      BY <1>1, <3>1, <3>2
    <3> QED
      BY <1>2, <2>1, <2>3, <3>3 DEF Handled
  <2> QED
    BY <2>2, <2>3
<1>3. CASE m.kind = "trade" /\ StoreTrade(m) /\ UNCHANGED mapOrder
  BY <1>3 DEF StoreTrade, NewTrade, Handled
<1>4. CASE m.kind \in {"error", "down"} /\ UNCHANGED <<mapOrder, mapTrade>>
  BY <1>4 DEF Handled
<1> QED
  BY <1>2, <1>3, <1>4, Zenon DEF Receive, books

(* Every step, by what it does at the broker.                              *)
LEMMA Happens ==
    ASSUME TypeInv, World, [Next]_vars
    PROVE  \/ \E r \in 1 .. Len(order) : \E n \in 1 .. Left(r) : Fill(r, n)
           \/ \E r \in 1 .. Len(order) : Cancel(r)
           \/ Elsewhere
<1>1. UNCHANGED <<exch, deals, rtn, link>> => Elsewhere
  BY DEF Elsewhere
<1>2. CASE OnRtn \/ OnRspQry
  <2>1. UNCHANGED <<exch, deals, link>>
    BY <1>2 DEF OnRtn, OnRspQry
  <2>2. \A m \in Elems(rtn) : m \in Elems(rtn') \/ Handled(m)'
    <3>1. CASE OnRtn
      <4>1. rtn # <<>> /\ rtn' = Tail(rtn) /\ Receive(Head(rtn)) /\ rtn \in Seq(Message)
        BY <3>1 DEF OnRtn, TypeInv, BrokerInv
      <4>2. PICK h : h = Head(rtn)
        OBVIOUS
      <4>3. Tells(h) /\ Receive(h)
        BY <4>1, <4>2, HeadTold DEF World, Streams
      <4>4. Handled(h)'
        BY <4>3, ReceiveStores
      <4>5. \A m \in Elems(rtn) : m = h \/ m \in Elems(rtn')
        BY <4>1, <4>2, HeadOrTail
      <4> QED
        BY <4>4, <4>5
    <3>2. CASE OnRspQry
      BY <3>2 DEF OnRspQry
    <3> QED
      BY <1>2, <3>1, <3>2
  <2> QED
    BY <2>1, <2>2 DEF Elsewhere
<1>3. CASE ReqOrderInsert \/ ReqOrderAction
  <2>1. /\ exch \in [Refs -> ExchRec] /\ rtn \in Seq(Message) /\ UNCHANGED <<deals, link>>
        /\ trader.ref \in Refs
    BY <1>3 DEF TypeInv, BrokerInv, TableInv, ReqOrderInsert, ReqOrderAction
  <2>2. PICK r \in Refs : r = trader.ref
    BY <2>1
  <2>3. \/ UNCHANGED <<exch, rtn>>
        \/ Accept(r) /\ exch' = [exch EXCEPT ![r].st = "live"]
        \/ Reject(r) /\ exch' = [exch EXCEPT ![r].st = "rejected"]
        \/ exch' = [exch EXCEPT ![r].cxl = TRUE] /\ UNCHANGED rtn
    BY <1>3, <2>2, Zenon DEF ReqOrderInsert, ReqOrderAction, Accept, Reject
  <2>4. \A x \in Refs : exch'[x].done = exch[x].done /\ (exch'[x].st \in Final => exch[x].st \in Final)
    <3>1. CASE UNCHANGED exch
      BY <3>1
    <3>2. CASE exch' = [exch EXCEPT ![r].st = "live"] \/ exch' = [exch EXCEPT ![r].st = "rejected"]
      BY <2>1, <2>2, <3>2 DEF ExchRec, Final
    <3>3. CASE exch' = [exch EXCEPT ![r].cxl = TRUE]
      BY <2>1, <2>2, <3>3 DEF ExchRec
    <3> QED
      BY <2>3, <3>1, <3>2, <3>3
  <2>5. \A m \in Elems(rtn) : m \in Elems(rtn')
    <3>1. IsSeq(rtn)
      BY <2>1 DEF IsSeq
    <3>2. CASE UNCHANGED rtn
      BY <3>2
    <3>3. CASE Accept(r)
      <4>1. PICK a, b : Emit(<<a, b>>)
        BY <3>3, Zenon DEF Accept
      <4> QED
        BY <3>1, <4>1, PairSeq, EmitKeeps, Zenon
    <3>4. CASE Reject(r)
      <4>1. PICK a : Emit(<<a>>)
        BY <3>4, Zenon DEF Reject
      <4> QED
        BY <3>1, <4>1, PairSeq, EmitKeeps, Zenon
    <3> QED
      BY <2>3, <3>2, <3>3, <3>4
  <2> QED
    BY <2>1, <2>4, <2>5 DEF Elsewhere
<1>4. CASE Disconnect \/ Relogin
  <2>1. UNCHANGED <<exch, deals>>
    BY <1>4 DEF Disconnect, Relogin
  <2>2. link /\ ~Fault("offline") => link'
    BY <1>4 DEF Disconnect, Relogin
  <2>3. \A m \in Elems(rtn) : m \in Elems(rtn')
    <3>1. CASE UNCHANGED rtn
      BY <3>1
    <3>2. CASE rtn' = Append(rtn, DownMsg)
      <4>1. PICK d : d = DownMsg
        OBVIOUS
      <4>2. IsSeq(rtn) /\ IsSeq(<<d>>)
        BY PairSeq, Zenon DEF TypeInv, BrokerInv, IsSeq
      <4>3. rtn' = rtn \o <<d>>
        BY <3>2, <4>1 DEF TypeInv, BrokerInv
      <4> QED
        BY <4>2, <4>3, JoinKeeps, Zenon
    <3> QED
      BY <1>4, <3>1, <3>2 DEF Disconnect, Relogin
  <2> QED
    BY <2>1, <2>2, <2>3 DEF Elsewhere
<1>5. CASE AllTraded \/ OrderCanceled \/ ReopenStamp
  BY <1>1, <1>5 DEF AllTraded, OrderCanceled, ReopenStamp, ext
<1>6. CASE Trading
  <2>1. CASE TakeOrder \/ OrderSent \/ TakeAction \/ ActionSent
    BY <1>1, <2>1 DEF TakeOrder, OrderSent, TakeAction, ActionSent, ext
  <2> QED
    BY <1>3, <1>6, <2>1, Zenon DEF Trading
<1>7. CASE SlotDue \/ ThreadTime \/ UNCHANGED vars
  BY <1>1, <1>7 DEF SlotDue, ThreadTime, ReqQryOrder, ReqQryTrade, EraseSyn, ext, vars
<1>8. ASSUME NEW t \in Workers, CheckDoing(t) \/ Proceed(t)
      PROVE  Elsewhere
  <2>1. UNCHANGED ext
    BY <1>8 DEF CheckDoing, Proceed, GetTarget, ScanIdle, CompareORTD, TargetWay, PushOrder,
                StampNew, ScanLate, CancelCheck, CancelMark, PopTarget
  <2>2. UNCHANGED <<exch, deals, rtn, link>>
    BY <2>1 DEF ext
  <2> QED
    BY <1>1, <2>2
<1>9. ASSUME NEW r \in 1 .. Len(order), Broker(r)
      PROVE  (\E n \in 1 .. Left(r) : Fill(r, n)) \/ Cancel(r)
  BY <1>9, Zenon DEF Broker, CancelRequested, ExchangeCancels
<1> QED
  BY <1>2, <1>4, <1>5, <1>6, <1>7, <1>8, <1>9, Zenon DEF Next, Spi

LEMMA Stores ==
    ASSUME TypeInv, World, [Next]_vars
    PROVE  /\ mapTrade \subseteq mapTrade'
           /\ \A r \in Refs : mapOrder[r].st \in Final => mapOrder'[r].st \in Final
<1>1. CASE OnRtn
  <2>1. PICK m : m = Head(rtn)
    OBVIOUS
  <2>2. Tells(m) /\ Receive(m)
    BY <1>1, <2>1, HeadTold DEF World, Streams, OnRtn, TypeInv, BrokerInv
  <2> QED
    BY <2>2, ReceiveStores
<1>2. CASE OnRspQry
  <2>1. PICK m : m = Head(answers)
    OBVIOUS
  <2>2. Tells(m) /\ Receive(m)
    BY <1>2, <2>1, HeadTold DEF World, Streams, OnRspQry, TypeInv, BrokerInv
  <2> QED
    BY <2>2, ReceiveStores
<1>3. UNCHANGED <<mapOrder, mapTrade>> =>
         /\ mapTrade \subseteq mapTrade'
         /\ \A r \in Refs : mapOrder[r].st \in Final => mapOrder'[r].st \in Final
  OBVIOUS
<1>4. SlotDue \/ ThreadTime \/ Trading \/ Disconnect \/ Relogin \/ AllTraded \/ OrderCanceled
         \/ ReopenStamp \/ UNCHANGED vars => UNCHANGED <<mapOrder, mapTrade>>
  BY DEF SlotDue, ThreadTime, ReqQryOrder, ReqQryTrade, EraseSyn, Disconnect, Relogin, Trading,
         TakeOrder, ReqOrderInsert, OrderSent, TakeAction, ReqOrderAction, ActionSent,
         AllTraded, OrderCanceled, ReopenStamp, books, vars
<1>5. ASSUME NEW t \in Workers, CheckDoing(t) \/ Proceed(t)
      PROVE  UNCHANGED <<mapOrder, mapTrade>>
  BY <1>5 DEF CheckDoing, Proceed, GetTarget, ScanIdle, CompareORTD, TargetWay, PushOrder,
              StampNew, ScanLate, CancelCheck, CancelMark, PopTarget, books
<1>6. ASSUME NEW r \in 1 .. Len(order), Broker(r)
      PROVE  UNCHANGED <<mapOrder, mapTrade>>
  BY <1>6 DEF Broker, CancelRequested, ExchangeCancels, Cancel, Fill, books
<1> QED
  BY <1>1, <1>2, <1>3, <1>4, <1>5, <1>6, Zenon DEF Next, Spi

LEMMA DeliveredNext ==
    ASSUME TypeInv, World, TypeInv', World', Grows, Delivered, [Next]_vars
    PROVE  Delivered'
<1> SUFFICES ASSUME ~Fault("offline")
             PROVE  /\ link'
                    /\ \A i \in 1 .. Len(deals') : TradeKnown(i)'
                    /\ \A r \in 1 .. Len(order') : exch'[r].st \in Final => EndKnown(r)'
  BY ScnKept DEF Delivered
<1>1. /\ link
      /\ \A i \in 1 .. Len(deals) : TradeKnown(i)
      /\ \A r \in 1 .. Len(order) : exch[r].st \in Final => EndKnown(r)
  BY DEF Delivered
<1>2. ASSUME \A m \in Elems(rtn) : m \in Elems(rtn') \/ Handled(m)'
      PROVE  /\ \A i \in 1 .. Len(deals) : TradeKnown(i)'
             /\ \A r \in 1 .. Len(order) : exch[r].st \in Final => EndKnown(r)'
  BY <1>1, <1>2, Stores, KnownKept
<1>3. \A r \in 1 .. Len(order') : r \in Refs /\ (exch[r].st \in Final => r \in 1 .. Len(order))
  <2>1. Len(order) \in Nat /\ Len(order') \in Nat /\ Len(order') <= MaxRef
    BY DEF TypeInv, OrdersInv
  <2> QED
    BY <2>1, CoreAssumption DEF World, WaitsOnce, Refs, Final
<1>4. ASSUME NEW r \in 1 .. Len(order), NEW n, Fill(r, n)
      PROVE  /\ link'
             /\ \A i \in 1 .. Len(deals') : TradeKnown(i)'
             /\ \A x \in 1 .. Len(order') : exch'[x].st \in Final => EndKnown(x)'
  <2>1. UNCHANGED link
    BY <1>4 DEF Fill
  <2>2. /\ \A m \in Elems(rtn) : m \in Elems(rtn')
        /\ \A x \in Refs : x # r => exch'[x] = exch[x]
        /\ Len(deals') = Len(deals) + 1
        /\ link /\ exch'[r].st \in Final => EndKnown(r)'
    BY <1>4, FillFacts
  <2>3. PICK b : deals' = Append(deals, b) /\ (link => b \in Elems(rtn'))
    BY <1>4, FillFacts
  <2>4. \A i \in 1 .. Len(deals') : TradeKnown(i)'
    <3>1. Len(deals) \in Nat /\ deals'[Len(deals) + 1] = b
      BY <2>3 DEF TypeInv, BrokerInv
    <3>2. PICK k : k = Len(deals) + 1
      OBVIOUS
    <3>3. deals'[k] \in Elems(rtn')
      BY <1>1, <2>3, <3>1, <3>2
    <3>4. TradeKnown(k)'
      BY <3>3 DEF TradeKnown
    <3>5. \A i \in 1 .. Len(deals) : TradeKnown(i)'
      BY <1>2, <2>2
    <3>6. \A i \in 1 .. Len(deals') : i = k \/ i \in 1 .. Len(deals)
      BY <2>2, <3>1, <3>2
    <3> QED
      BY <3>4, <3>5, <3>6
  <2>5. \A x \in 1 .. Len(order') : exch'[x].st \in Final => EndKnown(x)'
    BY <1>1, <1>2, <1>3, <2>2
  <2> QED
    BY <1>1, <2>1, <2>4, <2>5
<1>5. ASSUME NEW r \in 1 .. Len(order), Cancel(r)
      PROVE  /\ link'
             /\ \A i \in 1 .. Len(deals') : TradeKnown(i)'
             /\ \A x \in 1 .. Len(order') : exch'[x].st \in Final => EndKnown(x)'
  <2>1. /\ UNCHANGED <<deals, link>>
        /\ \A x \in Refs : x # r => exch'[x] = exch[x]
        /\ \A m \in Elems(rtn) : m \in Elems(rtn')
        /\ link => EndKnown(r)'
    BY <1>5, CancelFacts
  <2> QED
    BY <1>1, <1>2, <1>3, <2>1
<1>6. CASE Elsewhere
  BY <1>1, <1>2, <1>3, <1>6 DEF Elsewhere
<1> QED
  BY <1>4, <1>5, <1>6, Happens

(* The account and the trades are sums of integers.                        *)
LEMMA AccountTerms ==
    ASSUME TypeInv, World
    PROVE  /\ HeldTerms \in [1 .. Len(order) -> Int] /\ DealTerms \in [1 .. Len(deals) -> Int]
           /\ Len(order) \in Nat /\ Len(deals) \in Nat
           /\ Held = SumFunction(HeldTerms)
<1>1. Len(order) \in Nat /\ Len(deals) \in Nat /\ 1 .. Len(order) \subseteq Refs
  BY OrderFacts DEF TypeInv, BrokerInv
<1>2. HeldTerms \in [1 .. Len(order) -> Int]
  <2>1. ASSUME NEW r \in 1 .. Len(order)
        PROVE  Signed(r, exch[r].done) \in Int
    <3>1. exch[r].done \in Nat
      BY <1>1, CoreAssumption DEF TypeInv, BrokerInv, ExchRec
    <3> QED
      BY <3>1 DEF Signed
  <2> QED
    BY <2>1 DEF HeldTerms
<1>3. DealTerms \in [1 .. Len(deals) -> Int]
  <2>1. ASSUME NEW i \in 1 .. Len(deals)
        PROVE  Signed(deals[i].ref, deals[i].n) \in Int
    <3>1. deals[i] \in Message
      BY DEF TypeInv, BrokerInv
    <3>2. deals[i].n \in Nat
      BY <3>1, CoreAssumption DEF Message
    <3> QED
      BY <3>2 DEF Signed
  <2> QED
    BY <2>1 DEF DealTerms
<1>4. Held = SumFunction(HeldTerms)
  BY Zenon DEF Held, HeldTerms, Sum
<1> QED
  BY <1>1, <1>2, <1>3, <1>4

LEMMA AccountTermsNext ==
    TypeInv' /\ World' => /\ HeldTerms' \in [1 .. Len(order') -> Int]
                          /\ DealTerms' \in [1 .. Len(deals') -> Int]
<1> DEFINE Terms == HeldTerms \in [1 .. Len(order) -> Int] /\ DealTerms \in [1 .. Len(deals) -> Int]
<1>1. TypeInv /\ World => Terms
  BY AccountTerms
<1>2. TypeInv' /\ World' => Terms'
  <2> HIDE DEF Terms
  <2> QED
    BY <1>1, PTL
<1> QED
  BY <1>2

LEMMA AccountSame ==
    ASSUME TypeInv, World, TypeInv', World', Grows, Accounted, UNCHANGED deals,
           \A x \in Refs : exch'[x].done = exch[x].done
    PROVE  Accounted'
<1>1. /\ 1 .. Len(order) \subseteq Refs /\ 1 .. Len(order') \subseteq Refs
      /\ Len(order) \in Nat /\ Len(order') \in Nat
  <2>1. OrdersInv /\ OrdersInv'
    BY DEF TypeInv
  <2> QED
    BY <2>1, CoreAssumption DEF OrdersInv, Refs
<1>2. DealTerms' = DealTerms
  <2>1. ASSUME NEW i \in 1 .. Len(deals)
        PROVE  Signed(deals[i].ref, deals[i].n)' = Signed(deals[i].ref, deals[i].n)
    <3>1. deals[i].ref \in 1 .. Len(order)
      BY DEF World, Dealt
    <3>2. order'[deals[i].ref] = order[deals[i].ref]
      BY <3>1 DEF Grows
    <3> QED
      BY <3>2 DEF Signed
  <2> QED
    BY <2>1 DEF DealTerms
<1>3. PICK g : g = HeldTerms'
  OBVIOUS
<1>4. PICK h : h = HeldTerms
  OBVIOUS
<1>5. g \in [1 .. Len(order') -> Int] /\ h \in [1 .. Len(order) -> Int]
  <2>1. HeldTerms \in [1 .. Len(order) -> Int] /\ HeldTerms' \in [1 .. Len(order') -> Int]
    BY AccountTerms, AccountTermsNext
  <2> QED
    BY <1>3, <1>4, <2>1
<1>6. 1 .. Len(order) \subseteq 1 .. Len(order')
  BY DEF Grows
<1>7. ASSUME NEW x \in 1 .. Len(order)
      PROVE  h[x] = g[x]
  <2>1. x \in 1 .. Len(order') /\ x \in Refs /\ order'[x] = order[x] /\ exch'[x].done = exch[x].done
    BY <1>1, <1>6 DEF Grows
  <2>2. Signed(x, exch[x].done)' = Signed(x, exch[x].done)
    BY <2>1 DEF Signed
  <2>3. h[x] = Signed(x, exch[x].done)
    BY <1>4 DEF HeldTerms
  <2>4. g[x] = Signed(x, exch[x].done)'
    BY <1>3, <2>1 DEF HeldTerms
  <2> QED
    BY <2>2, <2>3, <2>4
<1>8. ASSUME NEW x \in 1 .. Len(order') \ 1 .. Len(order)
      PROVE  g[x] = 0
  <2>1. x \in Refs /\ x > Len(order) /\ x \in 1 .. Len(order')
    BY <1>1
  <2>2. exch[x].st = "none" /\ Kept(x)
    BY <2>1 DEF World, WaitsOnce, Exchange
  <2>3. exch'[x].done = 0
    BY <2>1, <2>2 DEF Kept
  <2>4. g[x] = Signed(x, exch[x].done)'
    BY <1>3, <2>1 DEF HeldTerms
  <2> QED
    BY <2>3, <2>4 DEF Signed
<1>9. Supports(1 .. Len(order'), 1 .. Len(order), g, h)
  <2>1. IsFiniteSet(1 .. Len(order'))
    BY <1>1, FS_Interval
  <2> QED
    BY <1>5, <1>6, <1>7, <1>8, <2>1 DEF Supports
<1>10. SumFunction(g) = SumFunction(h)
  BY <1>9, SumSupport
<1> QED
  BY <1>2, <1>3, <1>4, <1>10 DEF Accounted

LEMMA AccountMore ==
    ASSUME TypeInv, World, TypeInv', World', Grows, Accounted,
           NEW r \in 1 .. Len(order), NEW n, Fill(r, n)
    PROVE  Accounted'
<1>1. /\ n \in Nat /\ exch'[r].done = exch[r].done + n
      /\ \A x \in Refs : x # r => exch'[x] = exch[x]
  BY FillFacts
<1>2. PICK b : deals' = Append(deals, b) /\ b.ref = r /\ b.n = n
  BY FillFacts
<1>3. UNCHANGED order
  BY DEF Fill, queues
<1>4. PICK S : S = 1 .. Len(order)
  OBVIOUS
<1>5. IsFiniteSet(S) /\ r \in S /\ S \subseteq Refs
  BY <1>4, OrderFacts DEF TypeInv
<1>6. PICK d \in Nat : d = Len(deals)
  BY AccountTerms
<1>7. PICK g \in [S -> Int] : g = HeldTerms
  BY <1>4, AccountTerms
<1>8. PICK h \in [S -> Int] : h = HeldTerms'
  BY <1>3, <1>4, AccountTermsNext
<1>9. PICK p \in [1 .. d -> Int] : p = DealTerms
  BY <1>6, AccountTerms
<1>10. Len(deals') = d + 1 /\ deals'[d + 1] = b /\ \A i \in 1 .. d : deals'[i] = deals[i]
  BY <1>2, <1>6 DEF TypeInv, BrokerInv
<1>11. PICK q \in [1 .. d + 1 -> Int] : q = DealTerms'
  BY <1>10, AccountTermsNext
<1>12. \A x, k : Signed(x, k)' = Signed(x, k)
  BY <1>3 DEF Signed
<1>13. PICK s \in Int : s = Signed(r, n)
  BY <1>1 DEF Signed
<1>14. (\A x \in S \ {r} : h[x] = g[x]) /\ h[r] - g[r] = s
  <2>1. \A x \in S : g[x] = Signed(x, exch[x].done) /\ h[x] = Signed(x, exch'[x].done)
    <3>1. \A x \in S : g[x] = Signed(x, exch[x].done)
      BY <1>4, <1>7 DEF HeldTerms
    <3>2. \A x \in S : h[x] = Signed(x, exch'[x].done)
      BY <1>3, <1>4, <1>8 DEF HeldTerms, Signed
    <3> QED
      BY <3>1, <3>2
  <2>2. \A x \in S \ {r} : exch'[x].done = exch[x].done
    BY <1>1, <1>5
  <2>3. PICK c \in Nat : c = exch[r].done
    BY <1>5, CoreAssumption DEF TypeInv, BrokerInv, ExchRec
  <2>4. g[r] = Signed(r, c) /\ h[r] = Signed(r, c + n)
    BY <1>1, <1>5, <2>1, <2>3
  <2>5. h[r] - g[r] = s
    BY <1>1, <1>13, <2>4 DEF Signed
  <2> QED
    BY <2>1, <2>2, <2>5
<1>15. q[d + 1] = s /\ \A i \in 1 .. d : p[i] = q[i]
  <2>1. \A i \in 1 .. d : p[i] = Signed(deals[i].ref, deals[i].n)
    BY <1>6, <1>9 DEF DealTerms
  <2>2. \A i \in 1 .. d + 1 : q[i] = Signed(deals'[i].ref, deals'[i].n)
    BY <1>3, <1>10, <1>11 DEF DealTerms, Signed
  <2>3. d + 1 \in 1 .. d + 1 /\ 1 .. d \subseteq 1 .. d + 1
    OBVIOUS
  <2> QED
    BY <1>2, <1>10, <1>13, <2>1, <2>2, <2>3
<1>16. SumFunction(h) = SumFunction(g) + (h[r] - g[r])
  BY <1>5, <1>14, SumChange
<1>17. SumFunction(q) = SumFunction(p) + q[d + 1]
  BY <1>15, SumLast
<1>18. SumFunction(g) = SumFunction(p)
  BY <1>7, <1>9 DEF Accounted
<1>19. SumFunction(h) = SumFunction(q)
  BY <1>14, <1>15, <1>16, <1>17, <1>18
<1> QED
  BY <1>8, <1>11, <1>19 DEF Accounted

LEMMA AccountedNext ==
    ASSUME TypeInv, World, TypeInv', World', Grows, Accounted, [Next]_vars
    PROVE  Accounted'
<1>1. ASSUME NEW r \in 1 .. Len(order), Cancel(r)
      PROVE  Accounted'
  BY <1>1, CancelFacts, AccountSame
<1>2. Elsewhere => Accounted'
  BY AccountSame DEF Elsewhere
<1> QED
  BY <1>1, <1>2, AccountMore, Happens

LEMMA DeliveredInit == Init => Delivered /\ Accounted
<1> SUFFICES ASSUME Init
             PROVE  Delivered /\ Accounted
  OBVIOUS
<1>1. link = TRUE /\ order = <<>> /\ deals = <<>>
  BY DEF Init
<1>2. Delivered
  BY <1>1 DEF Delivered
<1>3. HeldTerms = DealTerms
  BY <1>1 DEF HeldTerms, DealTerms
<1> QED
  BY <1>2, <1>3 DEF Accounted

(* With nothing under way the books hold what the account holds.           *)
LEMMA AllBooked ==
    ASSUME TypeInv, World, OnceInv, Delivered, Accounted
    PROVE  BooksAgree
<1> SUFFICES ASSUME ~Fault("offline"), ~short, Silent,
                    \A r \in 1 .. Len(order) : Ended(r) \/ r \in Unsent
             PROVE  posORD = Held /\ posTRD = Held
  BY Zenon DEF BooksAgree
<1>1. spi.pc = "idle" /\ Elems(rtn) = {}
  BY NoElems, Zenon DEF Silent
<1>2. posTRD = TradesBooked /\ posORD = OrdersBooked
  BY DEF OnceInv, TradesOnce, OrdersOnce, Follows
<1>3. Held = SumFunction(HeldTerms) /\ Held = SumFunction(DealTerms)
  BY AccountTerms DEF Accounted
<1>4. TradesBooked = SumFunction(DealTerms)
  <2>1. DOMAIN deals = 1 .. Len(deals)
    BY DEF TypeInv, BrokerInv
  <2>2. \A i \in 1 .. Len(deals) : <<deals[i].ref, i>> \in mapTrade
    BY <1>1 DEF Delivered, TradeKnown
  <2>3. {i \in DOMAIN deals : <<deals[i].ref, i>> \in mapTrade} = 1 .. Len(deals)
    BY <2>1, <2>2
  <2>4. TradeTerms = DealTerms
    BY <2>3 DEF TradeTerms, DealTerms
  <2> QED
    BY <2>4, BookedSums
<1>5. SumFunction(OrderTerms) = SumFunction(HeldTerms)
  <2>1. PICK N : N = 1 .. Len(order)
    OBVIOUS
  <2>2. PICK T : T = {r \in N : Booked(r)}
    OBVIOUS
  <2>3. PICK g \in [N -> Int] : g = HeldTerms
    BY <2>1, AccountTerms
  <2>4. PICK h : h = OrderTerms
    OBVIOUS
  <2>5. h = [r \in T |-> Signed(r, order[r].vol - mapOrder[r].rem)]
    BY <2>1, <2>2, <2>4 DEF OrderTerms
  <2>6. IsFiniteSet(N) /\ T \in SUBSET N /\ N \subseteq Refs
    BY <2>1, <2>2, OrderFacts DEF TypeInv
  <2>7. \A r \in N : g[r] = Signed(r, exch[r].done)
    BY <2>1, <2>3 DEF HeldTerms
  <2>8. ASSUME NEW r \in T
        PROVE  h[r] = g[r]
    <3>1. mapOrder[r].st \in Final /\ r \in Refs /\ r \in N
      BY <2>2, <2>6 DEF Booked
    <3>2. mapOrder[r].rem = order[r].vol - exch[r].done
      BY <3>1 DEF World, Stored, Left
    <3>3. order[r].vol \in Nat /\ exch[r].done \in Nat
      BY <2>1, <3>1, OrderFacts, CoreAssumption DEF TypeInv, BrokerInv, ExchRec
    <3>4. order[r].vol - mapOrder[r].rem = exch[r].done
      BY <3>2, <3>3
    <3> QED
      BY <2>5, <2>7, <3>1, <3>4
  <2>9. ASSUME NEW r \in N \ T
        PROVE  g[r] = 0
    <3>1. r \in N /\ r \in Refs /\ ~Booked(r)
      BY <2>2, <2>6
    <3>2. mapOrder[r].st \notin Final
      BY <1>1, <3>1 DEF Booked, Handling
    <3>3. exch[r].st \notin Final
      BY <1>1, <2>1, <3>1, <3>2 DEF Delivered, EndKnown
    <3>4. exch[r].st \in {"rejected", "none"}
      <4>1. CASE Ended(r)
        BY <3>3, <4>1 DEF Ended, Final
      <4>2. CASE r \in Unsent
        <5>1. PICK U : U = {cqOrder[i] : i \in DOMAIN cqOrder}
          OBVIOUS
        <5>2. r \in U \/ (trader.pc = "insert" /\ r = trader.ref)
          BY <4>2, <5>1 DEF Unsent
        <5> QED
          BY <5>1, <5>2 DEF World, WaitsOnce
      <4> QED
        BY <2>1, <3>1, <4>1, <4>2
    <3>5. exch[r].done = 0
      BY <3>1, <3>4 DEF World, Exchange, Kept
    <3> QED
      BY <2>7, <3>1, <3>5 DEF Signed
  <2>10. h \in [T -> Int]
    BY <2>5, <2>6, <2>8
  <2>11. Supports(N, T, g, h)
    BY <2>6, <2>8, <2>9, <2>10 DEF Supports
  <2> QED
    BY <2>3, <2>4, <2>11, SumSupport
<1>6. OrdersBooked = SumFunction(OrderTerms)
  BY BookedSums
<1> QED
  BY <1>2, <1>3, <1>4, <1>5, <1>6

(* When every order has ended and every report is handled, the two books   *)
(* of HTP hold what the account holds and so agree with each other, for    *)
(* any plan and workers, whatever is partly filled, rejected, cancelled or *)
(* repeated on the way, as long as the link holds and no close was cut.    *)
THEOREM BooksAgreeAlways == Spec => []BooksAgree
<1> DEFINE BookInv == TypeInv /\ World /\ OnceInv /\ Delivered /\ Accounted
<1>1. Init => BookInv
  BY TypeInit, OnceInit, DeliveredInit
<1>2. BookInv /\ [Next]_vars => BookInv'
  BY TypeNext, OnceNext, DeliveredNext, AccountedNext
<1>3. BookInv => BooksAgree
  BY AllBooked
<1> QED
  <2> HIDE DEF BookInv
  <2> QED
    BY <1>1, <1>2, <1>3, PTL DEF Spec

-----------------------------------------------------------------------------
(* HTP's view of the exposure: an order that was reported has been reached *)
(* and hangs until its end, and what rests of a queueing one is all of it. *)
Seen(r) ==
    /\ hts[r].st <= CCL_DONE
    /\ mapOrder[r].st # "none" => Reached(r)
    /\ mapOrder[r].st \in Reported \ Final => Hanging(hts[r])
    /\ mapOrder[r].st = "queueing" => mapOrder[r].rem = order[r].vol
ViewInv == \A r \in Refs : Seen(r)

(* The statuses that an entry is given.                                    *)
Stamps == {ORD_NEW, ORD_DOING, ORD_DONE, ORDED, TRADED_PART, CCL_DOING, CCL_DONE}

LEMMA StampAt ==
    ASSUME NEW e \in Entry, NEW s \in Stamps, e.st <= CCL_DONE
    PROVE  /\ SetStatus(e, s).st <= CCL_DONE
           /\ Hanging(e) \/ s \in {ORDED, TRADED_PART} => Hanging(SetStatus(e, s))
BY DEF Stamps, SetStatus, Entry, Statuses, Hanging, INIT, CANCEL, ORD_NEW, ORD_DOING, ORD_DONE,
       ORDED, TRADED_PART, CCL_DOING, CCL_DONE, TRADED

(* How a step may change the table and the stored reports.                 *)
Erases(x) == hts' = [hts EXCEPT ![x] = NoEntry]
Stamping(x, s) == hts' = [hts EXCEPT ![x] = SetStatus(@, s)]

TableMoves ==
    \/ UNCHANGED <<hts, mapOrder>>
    \/ UNCHANGED mapOrder /\ \E x \in Refs, s \in Stamps : Stamping(x, s)
    \/ UNCHANGED mapOrder /\ \E x \in Refs : Erases(x) /\ mapOrder[x].st \notin Reported \ Final
    \/ \E m \in Message : m.kind = "order" /\ Tells(m) /\ StoreOrder(m)

(* An order the broker does not have is not reported.                      *)
LEMMA NotSeen ==
    ASSUME ViewInv, NEW r \in Refs, ~Reached(r)
    PROVE  mapOrder[r].st = "none"
BY DEF ViewInv, Seen

LEMMA TableMovesAll ==
    ASSUME TypeInv, World, ViewInv, [Next]_vars
    PROVE  TableMoves
<1> USE DEF Stamps
<1>1. UNCHANGED <<hts, mapOrder>> => TableMoves
  BY DEF TableMoves
<1>2. ASSUME NEW x \in Refs, NEW s \in Stamps, Stamping(x, s), UNCHANGED mapOrder
      PROVE  TableMoves
  BY <1>2, Zenon DEF TableMoves
<1>3. ASSUME NEW x \in Refs, mapOrder[x].st \notin Reported \ Final, Erases(x), UNCHANGED mapOrder
      PROVE  TableMoves
  BY <1>3, Zenon DEF TableMoves
<1>4. "none" \notin Reported \ Final
  BY DEF Reported
<1>5. ASSUME NEW m \in Message, Tells(m), Receive(m)
      PROVE  TableMoves
  <2>1. CASE m.kind = "order" /\ StoreOrder(m)
    BY <1>5, <2>1, Zenon DEF TableMoves
  <2>2. CASE UNCHANGED <<hts, mapOrder>>
    BY <1>1, <2>2
  <2>3. CASE m.kind = "error" /\ hts' = [hts EXCEPT ![m.ref] = NoEntry] /\ UNCHANGED mapOrder
    <3>1. m.ref \in Refs /\ exch[m.ref].st = "rejected"
      BY <1>5, <2>3, OrderFacts DEF Tells, TypeInv
    <3>2. mapOrder[m.ref].st = "none"
      BY <3>1, NotSeen DEF Reached
    <3> QED
      BY <1>3, <1>4, <2>3, <3>1, <3>2 DEF Erases
  <2> QED
    BY <1>5, <2>1, <2>2, <2>3, Zenon DEF Receive, books
<1>6. CASE OnRtn
  <2>1. PICK m : m = Head(rtn)
    OBVIOUS
  <2>2. Tells(m) /\ Receive(m) /\ m \in Message
    BY <1>6, <2>1, HeadTold DEF World, Streams, OnRtn, TypeInv, BrokerInv
  <2> QED
    BY <1>5, <2>2
<1>7. CASE OnRspQry
  <2>1. PICK m : m = Head(answers)
    OBVIOUS
  <2>2. Tells(m) /\ Receive(m) /\ m \in Message
    BY <1>7, <2>1, HeadTold DEF World, Streams, OnRspQry, TypeInv, BrokerInv
  <2> QED
    BY <1>5, <2>2
<1>8. CASE AllTraded \/ OrderCanceled
  <2>1. PICK r : r = spi.ref
    OBVIOUS
  <2>2. spi.pc = "final" /\ Erases(r) /\ UNCHANGED mapOrder
    BY <1>8, <2>1, Zenon DEF AllTraded, OrderCanceled, Erases
  <2>3. r \in Refs /\ mapOrder[r].st \in Final
    BY <2>1, <2>2, FinalFacts
  <2> QED
    BY <1>3, <2>2, <2>3
<1>9. CASE ReopenStamp
  <2>1. spi.ref \in Refs /\ Stamping(spi.ref, ORD_NEW) /\ UNCHANGED mapOrder
    BY <1>9 DEF ReopenStamp, Stamping, World, AtHand, books
  <2> QED
    BY <1>2, <2>1
<1>10. CASE Trading
  <2>1. CASE TakeOrder
    <3>1. PICK r : r = Head(cqOrder)
      OBVIOUS
    <3>2. cqOrder # <<>> /\ UNCHANGED mapOrder /\ (Erases(r) \/ Stamping(r, ORD_DOING))
      BY <2>1, <3>1 DEF TakeOrder, books, Erases, Stamping
    <3>3. 1 \in DOMAIN cqOrder /\ r = cqOrder[1] /\ r \in Refs
      BY <3>1, <3>2, SeqTail DEF TypeInv, OrdersInv
    <3>4. mapOrder[r].st = "none"
      BY <3>3, NotSeen DEF World, WaitsOnce, Reached
    <3> QED
      BY <1>2, <1>3, <1>4, <3>2, <3>3, <3>4
  <2>2. CASE OrderSent
    <3>1. PICK r : r = trader.ref
      OBVIOUS
    <3>2. /\ r \in Refs /\ UNCHANGED mapOrder /\ trader.pc = "sent"
          /\ (Erases(r) /\ ~trader.ok) \/ Stamping(r, ORD_DONE)
      BY <2>2, <3>1 DEF OrderSent, StampDone, books, Erases, Stamping, TypeInv, TableInv
    <3>3. ~trader.ok => mapOrder[r].st = "none"
      BY <3>1, <3>2, NotSeen DEF World, WaitsOnce, Reached
    <3> QED
      BY <1>2, <1>3, <1>4, <3>2, <3>3
  <2>3. CASE TakeAction
    <3>1. PICK r : r = Head(cqAction)
      OBVIOUS
    <3>2. cqAction # <<>> /\ UNCHANGED mapOrder /\ (UNCHANGED hts \/ Stamping(r, CCL_DOING))
      BY <2>3, <3>1 DEF TakeAction, books, Stamping
    <3>3. r \in Refs
      BY <3>1, <3>2, SeqTail DEF TypeInv, TableInv
    <3> QED
      BY <1>1, <1>2, <3>2, <3>3
  <2>4. CASE ActionSent
    <3>1. trader.ref \in Refs /\ UNCHANGED mapOrder /\ Stamping(trader.ref, CCL_DONE)
      BY <2>4 DEF ActionSent, books, Stamping, TypeInv, TableInv
    <3> QED
      BY <1>2, <3>1
  <2>5. CASE ReqOrderInsert \/ ReqOrderAction
    BY <1>1, <2>5 DEF ReqOrderInsert, ReqOrderAction, books
  <2> QED
    BY <1>10, <2>1, <2>2, <2>3, <2>4, <2>5, Zenon DEF Trading
<1>11. ASSUME NEW t \in Workers, CheckDoing(t) \/ Proceed(t)
       PROVE  TableMoves
  <2>1. CASE StampNew(t)
    <3>1. PICK x : x = worker[t].ref
      OBVIOUS
    <3>2. UNCHANGED mapOrder /\ Stamping(x, ORD_NEW)
      BY <2>1, <3>1 DEF StampNew, books, Stamping
    <3>3. x \notin Refs => UNCHANGED hts
      BY <3>2 DEF Stamping, TypeInv, TableInv
    <3> QED
      BY <1>1, <1>2, <3>2, <3>3
  <2>2. CASE CancelMark(t)
    <3>1. PICK x : x = worker[t].ref
      OBVIOUS
    <3>2. UNCHANGED mapOrder /\ Stamping(x, CCL_DOING)
      BY <2>2, <3>1 DEF CancelMark, books, Stamping
    <3>3. x \in Refs
      BY <2>2, <3>1, WorkerNow DEF CancelMark, WorkerOK
    <3> QED
      BY <1>2, <3>2, <3>3
  <2>3. CASE UNCHANGED <<hts, books>>
    BY <1>1, <2>3 DEF books
  <2> QED
    BY <1>11, <2>1, <2>2, <2>3 DEF CheckDoing, Proceed, GetTarget, ScanIdle, CompareORTD, TargetWay,
                                   PushOrder, ScanLate, CancelCheck, PopTarget
<1>12. ASSUME NEW r \in 1 .. Len(order), Broker(r)
       PROVE  UNCHANGED <<hts, mapOrder>>
  BY <1>12 DEF Broker, CancelRequested, ExchangeCancels, Cancel, Fill, books
<1>13. SlotDue \/ ThreadTime \/ Disconnect \/ Relogin \/ UNCHANGED vars => UNCHANGED <<hts, mapOrder>>
  BY DEF SlotDue, ThreadTime, ReqQryOrder, ReqQryTrade, EraseSyn, Disconnect, Relogin, books, vars
<1> QED
  BY <1>1, <1>6, <1>7, <1>8, <1>9, <1>10, <1>11, <1>12, <1>13, Zenon DEF Next, Spi

(* What a step leaves of an order, ...                                     *)
LEMMA SeenStays ==
    ASSUME TypeInv, World, ViewInv, TypeInv', World', Grows, NEW r \in Refs,
           mapOrder'[r] = mapOrder[r],
           hts'[r].st <= CCL_DONE,
           Hanging(hts[r]) => Hanging(hts'[r]) \/ mapOrder[r].st \notin Reported \ Final
    PROVE  Seen(r)'
<1>1. Seen(r)
  BY DEF ViewInv
<1>2. CASE mapOrder[r].st = "none"
  BY <1>2 DEF Seen, Reported
<1>3. CASE mapOrder[r].st # "none"
  <2>1. Reached(r) /\ r \in 1 .. Len(order)
    <3>1. Reached(r)
      BY <1>1, <1>3 DEF Seen
    <3>2. r <= Len(order)
      BY <3>1, OrderFacts, CoreAssumption DEF World, WaitsOnce, Reached, TypeInv, Refs
    <3> QED
      BY <3>1, <3>2, OrderFacts, CoreAssumption DEF TypeInv, Refs
  <2>2. Reached(r)' /\ order'[r] = order[r]
    BY <2>1 DEF Grows
  <2> QED
    BY <1>1, <1>3, <2>2 DEF Seen
<1> QED
  BY <1>2, <1>3

LEMMA ViewNext ==
    ASSUME TypeInv, World, ViewInv, TypeInv', World', Grows, [Next]_vars
    PROVE  ViewInv'
<1>1. hts \in [Refs -> Entry] /\ hts' \in [Refs -> Entry] /\ mapOrder \in [Refs -> Report]
  BY DEF TypeInv, TableInv, BooksInv
<1>2. \A r \in Refs : hts[r].st <= CCL_DONE
  BY DEF ViewInv, Seen
<1>3. CASE UNCHANGED <<hts, mapOrder>>
  BY <1>2, <1>3, SeenStays DEF ViewInv
<1>4. ASSUME NEW x \in Refs, NEW s \in Stamps, Stamping(x, s), UNCHANGED mapOrder
      PROVE  ViewInv'
  <2>1. ASSUME NEW r \in Refs
        PROVE  hts'[r].st <= CCL_DONE /\ (Hanging(hts[r]) => Hanging(hts'[r]))
    <3>1. CASE r = x
      BY <1>1, <1>2, <1>4, <3>1, StampAt DEF Stamping
    <3>2. CASE r # x
      BY <1>1, <1>2, <1>4, <3>2 DEF Stamping
    <3> QED
      BY <3>1, <3>2
  <2> QED
    BY <1>4, <2>1, SeenStays DEF ViewInv
<1>5. ASSUME NEW x \in Refs, Erases(x), mapOrder[x].st \notin Reported \ Final, UNCHANGED mapOrder
      PROVE  ViewInv'
  <2>1. hts'[x].st <= CCL_DONE /\ \A r \in Refs : r # x => hts'[r] = hts[r]
    BY <1>1, <1>5 DEF Erases, NoEntry, INIT, CCL_DONE
  <2> QED
    BY <1>2, <1>5, <2>1, SeenStays DEF ViewInv
<1>6. ASSUME NEW m \in Message, m.kind = "order", Tells(m), StoreOrder(m)
      PROVE  ViewInv'
  <2>1. PICK x \in Refs : x = m.ref
    BY <1>6, OrderFacts DEF Tells, TypeInv
  <2>2. CASE UNCHANGED <<hts, mapOrder>>
    BY <1>3, <2>2
  <2>3. CASE /\ mapOrder' = [mapOrder EXCEPT ![x] = [st |-> m.st, rem |-> m.n]]
             /\ Stamping(x, IF m.st = "part" THEN TRADED_PART ELSE ORDED)
    <3>1. PICK s \in {ORDED, TRADED_PART} : Stamping(x, s)
      BY <2>3
    <3>2. s \in Stamps
      BY DEF Stamps
    <3>3. hts'[x].st <= CCL_DONE /\ Hanging(hts'[x])
      BY <1>1, <1>2, <3>1, <3>2, StampAt DEF Stamping
    <3>4. ASSUME NEW r \in Refs, r # x
          PROVE  Seen(r)'
      <4>1. hts'[r] = hts[r] /\ mapOrder'[r] = mapOrder[r]
        BY <1>1, <2>3, <3>1, <3>4 DEF Stamping
      <4> QED
        BY <1>2, <4>1, SeenStays
    <3>5. Seen(x)'
      <4>1. mapOrder'[x].st = m.st /\ mapOrder'[x].rem = m.n
        BY <1>1, <2>3
      <4>2. Reached(x) /\ x \in 1 .. Len(order) /\ (m.st = "queueing" => m.n = order[x].vol)
        BY <1>6, <2>1 DEF Tells
      <4>3. Reached(x)' /\ order'[x] = order[x]
        BY <4>2 DEF Grows
      <4> QED
        BY <3>3, <4>1, <4>2, <4>3 DEF Seen
    <3> QED
      BY <3>4, <3>5 DEF ViewInv
  <2> QED
    BY <1>6, <2>1, <2>2, <2>3 DEF StoreOrder, Stamping
<1>7. TableMoves
  BY TableMovesAll
<1> QED
  BY <1>3, <1>4, <1>5, <1>6, <1>7, Zenon DEF TableMoves

LEMMA ViewInit == Init => ViewInv
BY DEF Init, ViewInv, Seen, NoEntry, NoReport, Reported, INIT, CCL_DONE

(* A sum over some of the elements is one over all of them.                *)
LEMMA SumExtend ==
    ASSUME NEW S, IsFiniteSet(S), NEW T \in SUBSET S, NEW h \in [T -> Int],
           NEW g, g = [x \in S |-> IF x \in T THEN h[x] ELSE 0]
    PROVE  g \in [S -> Int] /\ SumFunction(h) = SumFunction(g)
<1>1. g \in [S -> Int]
  OBVIOUS
<1>2. Supports(S, T, g, h)
  BY <1>1 DEF Supports
<1> QED
  BY <1>1, <1>2, SumSupport

-----------------------------------------------------------------------------
(* The terms of View and of Exposed, over all orders.                      *)
LiveTerms == [r \in 1 .. Len(order) |-> IF r \in AtExchange THEN Signed(r, Left(r)) ELSE 0]
BookTerms == [r \in 1 .. Len(order) |->
                 IF Booked(r) THEN Signed(r, order[r].vol - mapOrder[r].rem) ELSE 0]
PendingTerms(side) == [r \in 1 .. Len(order) |->
                          IF Pending(r) /\ order[r].side = side THEN mapOrder[r].rem ELSE 0]

LEMMA OrderValues ==
    ASSUME TypeInv, World, NEW r \in 1 .. Len(order)
    PROVE  /\ r \in Refs /\ Kept(r)
           /\ order[r].side \in Sides /\ order[r].vol \in Nat /\ exch[r].done \in Nat
           /\ Left(r) \in Int /\ mapOrder[r].rem \in Nat
           /\ \A n \in Int : Signed(r, n) \in Int
           /\ exch[r].st \in {"none", "live", "all", "canceled", "rejected"}
           /\ mapOrder[r].st \in Reported \cup {"none"}
<1>1. r \in Refs /\ order[r].side \in Sides /\ order[r].vol \in Nat
  BY OrderFacts DEF TypeInv
<1>2. Kept(r) /\ exch[r] \in ExchRec /\ mapOrder[r] \in Report
  BY <1>1 DEF World, Exchange, TypeInv, BrokerInv, BooksInv
<1>3. exch[r].done \in Nat /\ mapOrder[r].rem \in Nat
  BY <1>2, CoreAssumption DEF ExchRec, Report
<1>4. Left(r) \in Int
  BY <1>1, <1>3 DEF Left
<1>5. exch[r].st \in {"none", "live", "all", "canceled", "rejected"}
      /\ mapOrder[r].st \in Reported \cup {"none"}
  BY <1>2 DEF ExchRec, Report
<1> QED
  BY <1>1, <1>2, <1>3, <1>4, <1>5 DEF Signed

LEMMA LiveSum ==
    ASSUME TypeInv, World
    PROVE  /\ LiveTerms \in [1 .. Len(order) -> Int]
           /\ Sum(AtExchange, LAMBDA r : Signed(r, Left(r))) = SumFunction(LiveTerms)
<1>1. PICK N : N = 1 .. Len(order)
  OBVIOUS
<1>2. IsFiniteSet(N) /\ AtExchange \in SUBSET N
  BY <1>1, OrderFacts DEF TypeInv, AtExchange
<1>3. PICK h : h = [r \in AtExchange |-> Signed(r, Left(r))]
  OBVIOUS
<1>4. h \in [AtExchange -> Int]
  BY <1>1, <1>2, <1>3, OrderValues
<1>5. LiveTerms = [r \in N |-> IF r \in AtExchange THEN h[r] ELSE 0]
  BY <1>1, <1>3 DEF LiveTerms
<1>6. LiveTerms \in [N -> Int] /\ SumFunction(h) = SumFunction(LiveTerms)
  BY <1>2, <1>4, <1>5, SumExtend
<1>7. Sum(AtExchange, LAMBDA r : Signed(r, Left(r))) = SumFunction(h)
  BY <1>3, Zenon DEF Sum
<1> QED
  BY <1>1, <1>6, <1>7

LEMMA BookSum ==
    ASSUME TypeInv, World
    PROVE  BookTerms \in [1 .. Len(order) -> Int] /\ OrdersBooked = SumFunction(BookTerms)
<1>1. PICK N : N = 1 .. Len(order)
  OBVIOUS
<1>2. PICK T : T = {r \in N : Booked(r)}
  OBVIOUS
<1>3. IsFiniteSet(N) /\ T \in SUBSET N
  BY <1>1, <1>2, OrderFacts DEF TypeInv
<1>4. PICK h : h = OrderTerms
  OBVIOUS
<1>5. h = [r \in T |-> Signed(r, order[r].vol - mapOrder[r].rem)]
  BY <1>1, <1>2, <1>4 DEF OrderTerms
<1>6. ASSUME NEW r \in T
      PROVE  Signed(r, order[r].vol - mapOrder[r].rem) \in Int
  <2>1. order[r].vol \in Nat /\ mapOrder[r].rem \in Nat
    BY <1>1, <1>3, OrderValues
  <2>2. order[r].vol - mapOrder[r].rem \in Int
    BY <2>1
  <2> QED
    BY <1>1, <1>3, <2>2, OrderValues
<1>7. h \in [T -> Int]
  BY <1>5, <1>6
<1>8. BookTerms = [r \in N |-> IF r \in T THEN h[r] ELSE 0]
  BY <1>1, <1>2, <1>5 DEF BookTerms
<1>9. BookTerms \in [N -> Int] /\ SumFunction(h) = SumFunction(BookTerms)
  BY <1>3, <1>7, <1>8, SumExtend
<1> QED
  BY <1>1, <1>4, <1>9, BookedSums

LEMMA PendingSum ==
    ASSUME TypeInv, World, NEW side
    PROVE  /\ PendingTerms(side) \in [1 .. Len(order) -> Int]
           /\ PendingVol(side) = SumFunction(PendingTerms(side))
<1>1. PICK N : N = 1 .. Len(order)
  OBVIOUS
<1>2. PICK T : T = {r \in N : Pending(r) /\ order[r].side = side}
  OBVIOUS
<1>3. IsFiniteSet(N) /\ T \in SUBSET N
  BY <1>1, <1>2, OrderFacts DEF TypeInv
<1>4. PICK h : h = [r \in T |-> mapOrder[r].rem]
  OBVIOUS
<1>5. h \in [T -> Int]
  <2>1. \A r \in T : mapOrder[r].rem \in Int
    BY <1>1, <1>3, OrderValues
  <2> QED
    BY <1>4, <2>1
<1>6. PendingTerms(side) = [r \in N |-> IF r \in T THEN h[r] ELSE 0]
  BY <1>1, <1>2, <1>4 DEF PendingTerms
<1>7. PendingTerms(side) \in [N -> Int] /\ SumFunction(h) = SumFunction(PendingTerms(side))
  BY <1>3, <1>5, <1>6, SumExtend
<1>8. PendingVol(side) = SumFunction(h)
  BY <1>1, <1>2, <1>4, Zenon DEF PendingVol, Sum
<1> QED
  BY <1>1, <1>7, <1>8

(* An order counts on both sides for the same: what it has done and what   *)
(* is left of it while it is pending, what it has done once it is booked.  *)
Counted(r) ==
    BookTerms[r] + PendingTerms("buy")[r] = HeldTerms[r] + LiveTerms[r] + PendingTerms("sell")[r]

LEMMA OrderCounted ==
    ASSUME TypeInv, World, ViewInv, Acknowledged, NEW r \in 1 .. Len(order)
    PROVE  Counted(r)
<1>1. /\ r \in Refs /\ Kept(r) /\ Seen(r)
      /\ order[r].side \in Sides /\ order[r].vol \in Nat /\ exch[r].done \in Nat
      /\ mapOrder[r].st \in Reported \cup {"none"}
      /\ exch[r].st \in {"none", "live", "all", "canceled", "rejected"}
  BY OrderValues DEF ViewInv
<1>2. r \in Sent => Booked(r) \/ mapOrder[r].st = "queueing"
  BY DEF Acknowledged
<1>3. exch[r].st = "canceled" => Booked(r)
  BY DEF Acknowledged, ToReopen
<1>4. /\ HeldTerms[r] = Signed(r, exch[r].done)
      /\ LiveTerms[r] = IF exch[r].st = "live" THEN Signed(r, Left(r)) ELSE 0
      /\ BookTerms[r] = IF Booked(r) THEN Signed(r, order[r].vol - mapOrder[r].rem) ELSE 0
      /\ \A side : PendingTerms(side)[r] = IF Pending(r) /\ order[r].side = side
                                           THEN mapOrder[r].rem ELSE 0
  BY DEF HeldTerms, LiveTerms, BookTerms, PendingTerms, AtExchange, Live
<1>5. PICK v \in Nat, c \in Nat : v = order[r].vol /\ c = exch[r].done
  BY <1>1
<1>6. Left(r) = v - c
  BY <1>5 DEF Left
<1>7. CASE Booked(r)
  <2>1. /\ mapOrder[r].st \in Final /\ mapOrder[r].rem = v - c
        /\ exch[r].st \in Final
    BY <1>1, <1>6, <1>7 DEF Booked, World, Stored
  <2>2. ~Pending(r) /\ exch[r].st # "live"
    BY <2>1 DEF Pending, Final
  <2>3. order[r].vol - mapOrder[r].rem = c
    BY <1>5, <2>1
  <2>4. /\ BookTerms[r] = Signed(r, c) /\ HeldTerms[r] = Signed(r, c) /\ LiveTerms[r] = 0
        /\ PendingTerms("buy")[r] = 0 /\ PendingTerms("sell")[r] = 0
    BY <1>4, <1>5, <1>7, <2>2, <2>3
  <2>5. Signed(r, c) \in Int
    BY OrderValues
  <2>6. PICK x \in Int : x = Signed(r, c)
    BY <2>5
  <2> QED
    BY <2>4, <2>6 DEF Counted
<1>8. CASE ~Booked(r) /\ mapOrder[r].st = "queueing"
  <2>1. mapOrder[r].rem = v /\ Pending(r)
    BY <1>1, <1>5, <1>8 DEF Seen, Pending, Reported, Final
  <2>2. Reached(r)
    BY <1>1, <1>8 DEF Seen
  <2>3. exch[r].st = "live" \/ (exch[r].st = "all" /\ c = v)
    BY <1>1, <1>3, <1>5, <1>8, <2>2 DEF Reached, Kept
  <2>4. BookTerms[r] = 0
    BY <1>4, <1>8
  <2>5. CASE order[r].side = "buy"
    <3>1. /\ PendingTerms("buy")[r] = v /\ PendingTerms("sell")[r] = 0 /\ HeldTerms[r] = c
          /\ LiveTerms[r] = IF exch[r].st = "live" THEN v - c ELSE 0
      BY <1>4, <1>5, <1>6, <2>1, <2>5 DEF Signed
    <3> QED
      BY <2>3, <2>4, <3>1 DEF Counted
  <2>6. CASE order[r].side = "sell"
    <3>1. /\ PendingTerms("buy")[r] = 0 /\ PendingTerms("sell")[r] = v /\ HeldTerms[r] = 0 - c
          /\ LiveTerms[r] = IF exch[r].st = "live" THEN 0 - (v - c) ELSE 0
      BY <1>4, <1>5, <1>6, <2>1, <2>6 DEF Signed
    <3> QED
      BY <2>3, <2>4, <3>1 DEF Counted
  <2> QED
    BY <1>1, <2>5, <2>6 DEF Sides
<1>9. CASE ~Booked(r) /\ mapOrder[r].st # "queueing"
  <2>1. exch[r].st \in {"none", "rejected"}
    BY <1>1, <1>2, <1>9 DEF Sent
  <2>2. mapOrder[r].st = "none" /\ c = 0
    BY <1>1, <1>5, <2>1 DEF Seen, Reached, Kept
  <2>3. ~Pending(r) /\ exch[r].st # "live"
    BY <2>1, <2>2 DEF Pending
  <2>4. /\ BookTerms[r] = 0 /\ HeldTerms[r] = 0 /\ LiveTerms[r] = 0
        /\ PendingTerms("buy")[r] = 0 /\ PendingTerms("sell")[r] = 0
    BY <1>4, <1>5, <1>9, <2>2, <2>3 DEF Signed
  <2> QED
    BY <2>4 DEF Counted
<1> QED
  BY <1>7, <1>8, <1>9

LEMMA ViewFollows ==
    ASSUME TypeInv, World, OnceInv, ViewInv
    PROVE  ViewExact
<1> SUFFICES ASSUME ~short, Acknowledged
             PROVE  View = Exposed
  BY DEF ViewExact
<1>1. PICK N : N = 1 .. Len(order)
  OBVIOUS
<1>2. PICK H \in [N -> Int] : H = HeldTerms /\ Held = SumFunction(H)
  BY <1>1, AccountTerms
<1>3. PICK L \in [N -> Int] :
         L = LiveTerms /\ Sum(AtExchange, LAMBDA r : Signed(r, Left(r))) = SumFunction(L)
  BY <1>1, LiveSum, Zenon
<1>4. PICK B \in [N -> Int] : B = BookTerms /\ OrdersBooked = SumFunction(B)
  BY <1>1, BookSum
<1>5. PICK P \in [N -> Int] : P = PendingTerms("buy") /\ PendingVol("buy") = SumFunction(P)
  BY <1>1, PendingSum
<1>6. PICK S \in [N -> Int] : S = PendingTerms("sell") /\ PendingVol("sell") = SumFunction(S)
  BY <1>1, PendingSum
<1>7. PICK k : k = [r \in N |-> B[r] + P[r]]
  OBVIOUS
<1>8. IsFiniteSet(N)
  BY <1>1, OrderFacts DEF TypeInv
<1>9. k \in [N -> Int] /\ \A r \in N : k[r] = B[r] + P[r]
  BY <1>7
<1>10. \A r \in N : k[r] = H[r] + L[r] + S[r]
  <2>1. \A r \in N : Counted(r)
    BY <1>1, OrderCounted
  <2> QED
    BY <1>2, <1>3, <1>4, <1>5, <1>6, <1>9, <2>1 DEF Counted
<1>11. SumFunction(k) = SumFunction(B) + SumFunction(P)
  <2>1. Adds(N, B, P, k)
    BY <1>8, <1>9 DEF Adds
  <2> QED
    BY <2>1, SumPlus
<1>12. SumFunction(k) = SumFunction(H) + SumFunction(L) + SumFunction(S)
  BY <1>8, <1>9, <1>10, SumThree
<1>13. PICK h \in Int, l \in Int, b \in Int, p \in Int, s \in Int :
          /\ h = SumFunction(H) /\ l = SumFunction(L) /\ b = SumFunction(B)
          /\ p = SumFunction(P) /\ s = SumFunction(S)
  BY <1>8, SumType
<1>14. b + p = h + l + s
  BY <1>11, <1>12, <1>13
<1>15. posORD = b
  BY <1>4, <1>13 DEF OnceInv, OrdersOnce, Follows
<1>16. View = b - s + p
  BY <1>5, <1>6, <1>13, <1>15 DEF View, Available
<1>17. Exposed = h + l
  BY <1>2, <1>3, <1>13, Zenon DEF Exposed
<1> QED
  BY <1>14, <1>16, <1>17

(* HTP's view of the exposure, as GetPosValid computes it from the order   *)
(* book of positions and the pending orders, is exact whenever every order *)
(* sent has been acknowledged and none is known as partly filled, whatever *)
(* is filled meanwhile and whatever failed, unless a close was cut short.  *)
THEOREM ViewExactAlways == Spec => []ViewExact
<1> DEFINE SightInv == TypeInv /\ World /\ OnceInv /\ ViewInv
<1>1. Init => SightInv
  BY TypeInit, OnceInit, ViewInit
<1>2. SightInv /\ [Next]_vars => SightInv'
  BY TypeNext, OnceNext, ViewNext
<1>3. SightInv => ViewExact
  BY ViewFollows
<1> QED
  <2> HIDE DEF SightInv
  <2> QED
    BY <1>1, <1>2, <1>3, PTL DEF Spec

-----------------------------------------------------------------------------
(* TARGET_LOOP creates orders for all that has to be done, or as much as   *)
(* its turns allow: every order but the last takes nMaxOnce, and the last  *)
(* takes the rest.                                                         *)
LEMMA SplitSum ==
    ASSUME TypeInv, NEW n \in Nat \ {0}
    PROVE  SumFunction(Split(n)) = Smaller(n, Reach)
<1>1. PICK L \in Nat \ {0} : L = Lot
  BY CoreAssumption
<1>2. PICK k \in Nat : k + 1 = Turns(n)
  <2>1. PICK j \in Nat \ {0} : j = Turns(n)
    BY <1>1, TurnsLength
  <2>2. j - 1 \in Nat /\ (j - 1) + 1 = j
    BY <2>1
  <2> QED
    BY <2>1, <2>2
<1>3. /\ \A i \in 1 .. k + 1 : n - (i - 1) * L \in Nat \ {0}
      /\ k + 1 <= MaxTurns /\ (k + 1 = MaxTurns \/ n <= (k + 1) * L)
  BY <1>1, <1>2, TurnsLength
<1>4. PICK s : s = Split(n)
  OBVIOUS
<1>5. s = [i \in 1 .. k + 1 |-> Smaller(L, n - (i - 1) * L)]
  BY <1>1, <1>2, <1>4, Zenon DEF Split
<1>6. ASSUME NEW i \in 1 .. k
      PROVE  s[i] = L
  <2>1. i + 1 \in 1 .. k + 1 /\ i \in 1 .. k + 1 /\ i \in Int
    OBVIOUS
  <2>2. n - i * L \in Nat \ {0}
    <3>1. n - ((i + 1) - 1) * L \in Nat \ {0}
      BY <1>3, <2>1
    <3>2. (i + 1) - 1 = i
      BY <2>1
    <3> QED
      BY <3>1, <3>2
  <2>3. (i - 1) * L = i * L - L
    BY ONLY <2>1, L \in Nat \ {0}
  <2>4. PICK x \in Int, y \in Int : x = i * L /\ y = (i - 1) * L
    BY <2>1
  <2>5. n - y > L
    BY <2>2, <2>3, <2>4
  <2>6. s[i] = Smaller(L, n - y)
    BY <1>5, <2>1, <2>4
  <2> QED
    BY <2>4, <2>5, <2>6 DEF Smaller
<1>7. s[k + 1] = Smaller(L, n - k * L) /\ s[k + 1] \in Int
  <2>1. k + 1 \in 1 .. k + 1 /\ (k + 1) - 1 = k
    OBVIOUS
  <2>2. PICK x \in Int : x = k * L
    OBVIOUS
  <2>3. s[k + 1] = Smaller(L, n - x)
    BY <1>5, <2>1, <2>2
  <2> QED
    BY <2>2, <2>3 DEF Smaller
<1>8. \A i \in 1 .. k + 1 : s[i] \in Int
  <2>1. ASSUME NEW i \in 1 .. k + 1
        PROVE  s[i] \in Int
    <3>1. CASE i \in 1 .. k
      BY <1>6, <3>1
    <3>2. CASE i = k + 1
      BY <1>7, <3>2
    <3> QED
      BY <3>1, <3>2
  <2> QED
    BY <2>1
<1>9. s \in [1 .. k + 1 -> Int]
  BY <1>5, <1>8
<1>10. PICK f : f = [j \in Nat |-> [i \in 1 .. j |-> L]]
  OBVIOUS
<1>11. \A j \in Nat : f[j] \in [1 .. j -> Int] /\ \A i \in 1 .. j : f[j][i] = L
  BY <1>10
<1>12. PICK T : T = {j \in Nat : SumFunction(f[j]) = j * L}
  OBVIOUS
<1>13. 0 \in T
  <2>1. f[0] \in [{} -> Int]
    <3>1. 1 .. 0 = {}
      OBVIOUS
    <3> QED
      BY <1>11, <3>1
  <2>2. SumFunction(f[0]) = 0
    BY <2>1, SumEmpty
  <2>3. 0 * L = 0
    OBVIOUS
  <2> QED
    BY <1>12, <2>2, <2>3
<1>14. ASSUME NEW j \in Nat, j \in T
       PROVE  j + 1 \in T
  <2>1. /\ f[j + 1] \in [1 .. j + 1 -> Int] /\ f[j] \in [1 .. j -> Int]
        /\ \A i \in 1 .. j : f[j][i] = f[j + 1][i]
        /\ f[j + 1][j + 1] = L /\ j + 1 \in Nat
    BY <1>11
  <2>2. SumFunction(f[j + 1]) = SumFunction(f[j]) + f[j + 1][j + 1]
    BY <2>1, SumLast
  <2>3. SumFunction(f[j]) = j * L
    BY <1>12, <1>14
  <2>4. (j + 1) * L = j * L + L
    BY ONLY j \in Nat, L \in Nat \ {0}
  <2>5. SumFunction(f[j + 1]) = (j + 1) * L
    BY <2>1, <2>2, <2>3, <2>4
  <2> QED
    BY <1>12, <2>1, <2>5
<1>15. SumFunction(f[k]) = k * L
  <2>1. Nat \subseteq T
    BY <1>13, <1>14, NatSets
  <2> QED
    BY <1>12, <2>1
<1>16. SumFunction(s) = SumFunction(f[k]) + s[k + 1]
  <2>1. \A i \in 1 .. k : f[k][i] = s[i]
    BY <1>6, <1>11
  <2> QED
    BY <1>9, <1>11, <2>1, SumLast
<1>17. PICK x \in Int, m \in Int, y \in Int : x = k * L /\ m = Reach /\ y = (k + 1) * L
  BY ReachNat
<1>18. y = x + L
  BY ONLY <1>17, k \in Nat, L \in Nat \ {0}
<1>19. SumFunction(s) = Smaller(n, y)
  BY <1>7, <1>15, <1>16, <1>17, <1>18 DEF Smaller
<1>20. CASE k + 1 = MaxTurns
  <2>1. m = y
    BY <1>1, <1>17, <1>20 DEF Reach
  <2> QED
    BY <1>4, <1>17, <1>19, <2>1
<1>21. CASE n <= y
  <2>1. PICK d \in Nat : MaxTurns = (k + 1) + d
    <3>1. MaxTurns - (k + 1) \in Nat /\ MaxTurns = (k + 1) + (MaxTurns - (k + 1))
      BY <1>3, ReachNat
    <3> QED
      BY <3>1
  <2>2. ((k + 1) + d) * L = (k + 1) * L + d * L /\ d * L >= 0 /\ d * L \in Int
    BY ONLY k \in Nat, d \in Nat, L \in Nat \ {0}
  <2>3. m = ((k + 1) + d) * L
    BY <1>1, <1>17, <2>1 DEF Reach
  <2>4. PICK e \in Int : e = d * L
    BY <2>2
  <2>5. m = y + e /\ e >= 0
    BY <1>17, <2>2, <2>3, <2>4
  <2> QED
    BY <1>4, <1>17, <1>19, <1>21, <2>5 DEF Smaller
<1> QED
  BY <1>3, <1>17, <1>20, <1>21

(* A worker that has not settled its target yet has no orders to create.   *)
Settling == {"ready", "compared"}
Bare == \A t \in Workers : worker[t].pc \in Settling => worker[t].todo = <<>>

LEMMA BareStep ==
    ASSUME TypeInv, Bare, NEW t \in Workers, CheckDoing(t) \/ Proceed(t)
    PROVE  Bare'
<1>1. PICK w : w = worker[t]
  OBVIOUS
<1>2. WorkerOK(w) /\ worker = [u \in Workers |-> worker[u]]
  BY <1>1, WorkerNow DEF TypeInv, WorkersInv
<1>3. ASSUME NEW v, Goto(t, v), v.pc \in Settling => v.todo = <<>>
      PROVE  Bare'
  <2>1. worker'[t] = v /\ \A u \in Workers : u # t => worker'[u] = worker[u]
    BY <1>2, <1>3 DEF Goto
  <2> QED
    BY <1>3, <2>1 DEF Bare
<1>4. \A p : [NoWork EXCEPT !.pc = p].todo = <<>>
  BY DEF NoWork
<1>5. NoWork.todo = <<>>
  BY DEF NoWork
<1>6. /\ \A p : [w EXCEPT !.pc = p].pc = p
      /\ \A p : [w EXCEPT !.pc = p].todo = w.todo
  BY <1>2 DEF WorkerOK, WorkerRec
<1>7. ASSUME NEW base, WorkerOK(base), NEW c, NEW otherwise, Scan(t, base, c, otherwise),
             otherwise.pc \in Settling => otherwise.todo = <<>>
      PROVE  Bare'
  <2>1. PICK E : Goto(t, IF E = {} THEN otherwise
                         ELSE [base EXCEPT !.pc = "cancel", !.cset = E, !.ctx = c])
    BY <1>7, Zenon DEF Scan
  <2>2. CASE E = {}
    BY <1>3, <1>7, <2>1, <2>2
  <2>3. CASE E # {}
    <3>1. PICK v : v = [base EXCEPT !.pc = "cancel", !.cset = E, !.ctx = c]
      OBVIOUS
    <3>2. v.pc = "cancel"
      BY <1>7, <3>1 DEF WorkerOK, WorkerRec
    <3>3. Goto(t, v)
      BY <2>1, <2>3, <3>1, Zenon
    <3> QED
      BY <1>3, <3>2, <3>3 DEF Settling
  <2> QED
    BY <2>2, <2>3
<1>8. ASSUME NEW v, WorkerOK(v), Goto(t, AfterCancel(v))
      PROVE  Bare'
  <2>1. PICK y : y = AfterCancel(v)
    OBVIOUS
  <2>2. y = [v EXCEPT !.pc = "cancel", !.ref = 0] \/ y = [v EXCEPT !.pc = "pop", !.ref = 0]
        \/ y = NoWork
    BY <2>1, Zenon DEF AfterCancel
  <2>3. y.pc \in {"cancel", "pop", "idle"}
    <3>1. \A p : [v EXCEPT !.pc = p, !.ref = 0].pc = p
      BY <1>8 DEF WorkerOK, WorkerRec
    <3>2. NoWork.pc = "idle"
      BY DEF NoWork
    <3> QED
      BY <2>2, <3>1, <3>2
  <2> QED
    BY <1>3, <1>8, <2>1, <2>3 DEF Settling
<1>9. CASE Goto(t, NoWork)
  BY <1>3, <1>5, <1>9
<1>10. CASE CheckDoing(t)
  <2>1. PICK p : Goto(t, [NoWork EXCEPT !.pc = p])
    BY <1>10, Zenon DEF CheckDoing
  <2> QED
    BY <1>3, <1>4, <2>1
<1>11. CASE GetTarget(t)
  <2>1. CASE Goto(t, [NoWork EXCEPT !.pc = "scan"])
    BY <1>3, <1>4, <2>1
  <2>2. CASE Goto(t, [NoWork EXCEPT !.pc = "ready", !.tgt = plan.queue[plan.due]])
    <3>1. PICK v : v = [NoWork EXCEPT !.pc = "ready", !.tgt = plan.queue[plan.due]]
      OBVIOUS
    <3>2. v.todo = <<>>
      BY <3>1 DEF NoWork
    <3> QED
      BY <1>3, <2>2, <3>1, <3>2
  <2> QED
    BY <1>11, <2>1, <2>2 DEF GetTarget
<1>12. CASE ScanIdle(t)
  BY <1>5, <1>7, <1>12, NoWorkOK DEF ScanIdle
<1>13. CASE CompareORTD(t)
  <2>1. w.pc = "ready" /\ (Goto(t, NoWork) \/ Goto(t, [w EXCEPT !.pc = "compared"]))
    BY <1>1, <1>13 DEF CompareORTD
  <2>2. w.todo = <<>>
    BY <1>1, <2>1 DEF Bare, Settling
  <2> QED
    BY <1>3, <1>6, <1>9, <2>1, <2>2
<1>14. CASE TargetWay(t)
  <2>1. CASE Goto(t, [w EXCEPT !.pc = "pop"])
    BY <1>3, <1>6, <2>1 DEF Settling
  <2>2. CASE Scan(t, w, "turn", NoWork)
    BY <1>2, <1>5, <1>7, <2>2
  <2>3. ASSUME NEW d, NEW s, NEW c,
               Goto(t, [w EXCEPT !.pc = "push", !.side = d, !.todo = s, !.ctx = c])
        PROVE  Bare'
    <3>1. PICK v : v = [w EXCEPT !.pc = "push", !.side = d, !.todo = s, !.ctx = c]
      OBVIOUS
    <3>2. v.pc = "push"
      BY <1>2, <3>1 DEF WorkerOK, WorkerRec
    <3> QED
      BY <1>3, <2>3, <3>1, <3>2 DEF Settling
  <2> QED
    BY <1>1, <1>9, <1>14, <2>1, <2>2, <2>3, Zenon DEF TargetWay
<1>15. CASE PushOrder(t)
  <2>1. PICK v : v = [w EXCEPT !.pc = "stamp", !.todo = Tail(@), !.ref = Len(order')]
    OBVIOUS
  <2>2. Goto(t, v)
    BY <1>1, <1>15, <2>1, Zenon DEF PushOrder
  <2>3. v.pc = "stamp"
    BY <1>2, <2>1 DEF WorkerOK, WorkerRec
  <2> QED
    BY <1>3, <2>2, <2>3 DEF Settling
<1>16. CASE StampNew(t)
  <2>1. \/ \E p \in {"late", "push"} : Goto(t, [w EXCEPT !.pc = p, !.ref = 0])
        \/ Goto(t, NoWork)
    BY <1>1, <1>16, Zenon DEF StampNew, AfterStamp
  <2>2. ASSUME NEW p \in {"late", "push"}, Goto(t, [w EXCEPT !.pc = p, !.ref = 0])
        PROVE  Bare'
    <3>1. PICK v : v = [w EXCEPT !.pc = p, !.ref = 0]
      OBVIOUS
    <3>2. v.pc = p
      BY <1>2, <3>1 DEF WorkerOK, WorkerRec
    <3> QED
      BY <1>3, <2>2, <3>1, <3>2 DEF Settling
  <2> QED
    BY <1>9, <2>1, <2>2
<1>17. CASE ScanLate(t)
  <2>1. Scan(t, w, "late", [w EXCEPT !.pc = "pop"])
    BY <1>1, <1>17, Zenon DEF ScanLate
  <2>2. [w EXCEPT !.pc = "pop"].pc \notin Settling
    BY <1>6 DEF Settling
  <2> QED
    BY <1>2, <1>7, <2>1, <2>2
<1>18. CASE CancelCheck(t)
  <2>1. PICK r \in w.cset :
           \/ Goto(t, [[w EXCEPT !.cset = w.cset \ {r}] EXCEPT !.pc = "mark", !.ref = r])
           \/ Goto(t, AfterCancel([w EXCEPT !.cset = w.cset \ {r}]))
    BY <1>1, <1>18, Zenon DEF CancelCheck
  <2>2. PICK v : v = [w EXCEPT !.cset = w.cset \ {r}]
    OBVIOUS
  <2>3. WorkerOK(v)
    <3>1. w.pc \notin {"push", "mark"} /\ w.cset \ {r} \in SUBSET Refs
      BY <1>1, <1>2, <1>18 DEF CancelCheck, WorkerOK, WorkerRec
    <3> QED
      BY <1>2, <2>2, <3>1, WorkerRest
  <2>4. [v EXCEPT !.pc = "mark", !.ref = r].pc = "mark"
    BY <2>3 DEF WorkerOK, WorkerRec
  <2>5. CASE Goto(t, [v EXCEPT !.pc = "mark", !.ref = r])
    <3>1. PICK z : z = [v EXCEPT !.pc = "mark", !.ref = r]
      OBVIOUS
    <3> QED
      BY <1>3, <2>4, <2>5, <3>1 DEF Settling
  <2> QED
    BY <1>8, <2>1, <2>2, <2>3, <2>5
<1>19. CASE CancelMark(t)
  BY <1>1, <1>2, <1>8, <1>19 DEF CancelMark
<1>20. CASE PopTarget(t)
  BY <1>9, <1>20 DEF PopTarget
<1> QED
  BY <1>10, <1>11, <1>12, <1>13, <1>14, <1>15, <1>16, <1>17, <1>18, <1>19, <1>20, Zenon DEF Proceed

(* A step of the next-state relation is one worker's, or moves none.       *)
LEMMA WhoMoves ==
    ASSUME [Next]_vars
    PROVE  UNCHANGED worker \/ \E t \in Workers : CheckDoing(t) \/ Proceed(t)
<1>1. SlotDue \/ ThreadTime \/ Trading \/ Spi \/ Disconnect \/ Relogin \/ UNCHANGED vars
        => UNCHANGED worker
  BY DEF SlotDue, ThreadTime, ReqQryOrder, ReqQryTrade, EraseSyn, Disconnect, Relogin, Trading,
         TakeOrder, ReqOrderInsert, OrderSent, TakeAction, ReqOrderAction, ActionSent, Spi,
         OnRtn, OnRspQry, AllTraded, OrderCanceled, ReopenStamp, vars
<1>2. ASSUME NEW r \in 1 .. Len(order), Broker(r)
      PROVE  UNCHANGED worker
  BY <1>2 DEF Broker, CancelRequested, ExchangeCancels, Cancel, Fill
<1> QED
  BY <1>1, <1>2, Zenon DEF Next

LEMMA BareNext ==
    ASSUME TypeInv, Bare, [Next]_vars
    PROVE  Bare'
<1>1. CASE UNCHANGED worker
  BY <1>1 DEF Bare
<1> QED
  BY <1>1, BareStep, WhoMoves

LEMMA BareInit == Init => Bare
BY DEF Init, Bare, NoWork

(* What one worker does leaves the others alone.                           *)
LEMMA OthersRest ==
    ASSUME TypeInv, NEW t \in Workers, NEW u \in Workers, u # t, CheckDoing(u) \/ Proceed(u)
    PROVE  worker'[t] = worker[t]
<1>1. PICK v : Goto(u, v)
  BY Zenon DEF CheckDoing, Proceed, GetTarget, ScanIdle, CompareORTD, TargetWay, PushOrder, StampNew,
               ScanLate, CancelCheck, CancelMark, PopTarget, Scan
<1> QED
  BY <1>1 DEF Goto, TypeInv, WorkersInv

(* What a worker has settled is what is missing to the target.             *)
LEMMA TargetSettled ==
    ASSUME TypeInv, Bare, NEW t \in Workers, TargetWay(t), worker'[t].pc \in {"push", "pop"}
    PROVE  Todo(t)' = InReach(worker[t].tgt - View)
<1>1. PICK w : w = worker[t]
  OBVIOUS
<1>2. WorkerOK(w) /\ WorkersInv /\ w.tgt \in Nat /\ w.pc = "compared" /\ w.todo = <<>>
  BY <1>1, WorkerNow DEF TypeInv, WorkerOK, WorkerRec, TargetWay, Bare, Settling
<1>3. PICK d \in Int : d = NDoAll(w.tgt)
  BY <1>2, ViewInt DEF TypeInv
<1>4. View \in Int /\ w.tgt - View = d
  <2>1. PICK a \in Int, b \in Int : a = Available /\ b = PendingVol("buy")
    BY <1>2, ViewInt, PendingInt DEF TypeInv
  <2> QED
    BY <1>2, <1>3, <2>1 DEF View, NDoAll
<1>5. Todo(t)' = IF worker'[t].side = "buy" THEN SumFunction(worker'[t].todo)
                 ELSE 0 - SumFunction(worker'[t].todo)
  BY DEF Todo
<1>6. ASSUME NEW v, Goto(t, v)
      PROVE  worker'[t] = v
  BY <1>2, <1>6 DEF WorkersInv, Goto
<1>11. Reach \in Nat
  BY ReachNat
<1>7. CASE d = 0 /\ Goto(t, [w EXCEPT !.pc = "pop"])
  <2>1. worker'[t] = [w EXCEPT !.pc = "pop"]
    BY <1>6, <1>7
  <2>2. worker'[t].todo = <<>>
    BY <1>2, <2>1 DEF WorkerOK, WorkerRec
  <2>3. SumFunction(worker'[t].todo) = 0
    <3>1. PICK g : g = worker'[t].todo
      OBVIOUS
    <3>2. g \in [{} -> Int]
      BY <2>2, <3>1
    <3> QED
      BY <3>1, <3>2, SumEmpty
  <2>4. Todo(t)' = 0
    BY <1>5, <2>3
  <2> QED
    BY <1>1, <1>4, <1>7, <1>11, <2>4 DEF InReach
<1>8. CASE /\ d # 0
           /\ Goto(t, [w EXCEPT !.pc = "push", !.side = IF d > 0 THEN "buy" ELSE "sell",
                           !.todo = Split(IF d > 0 THEN d ELSE 0 - d),
                           !.ctx = IF (IF d > 0 THEN d ELSE 0 - d) > Reach THEN "cut"
                                   ELSE "none"])
  <2>0. PICK c : c = IF (IF d > 0 THEN d ELSE 0 - d) > Reach THEN "cut" ELSE "none"
    OBVIOUS
  <2>1. PICK n \in Nat \ {0} : n = IF d > 0 THEN d ELSE 0 - d
    BY <1>8
  <2>2. PICK s \in Sides : s = IF d > 0 THEN "buy" ELSE "sell"
    BY DEF Sides
  <2>3. PICK u \in Seq(1 .. Lot) : u = Split(n)
    BY SplitSeq
  <2>4. Goto(t, [w EXCEPT !.pc = "push", !.side = s, !.todo = u, !.ctx = c])
    BY <1>8, <2>0, <2>1, <2>2, <2>3, Zenon
  <2>5. worker'[t] = [w EXCEPT !.pc = "push", !.side = s, !.todo = u, !.ctx = c]
    BY <1>6, <2>4
  <2>6. worker'[t].side = s /\ worker'[t].todo = u
    BY <1>2, <2>5 DEF WorkerOK, WorkerRec
  <2>7. SumFunction(worker'[t].todo) = Smaller(n, Reach)
    BY <2>3, <2>6, SplitSum
  <2>8. Todo(t)' = InReach(d)
    BY <1>5, <1>8, <1>11, <2>1, <2>2, <2>6, <2>7 DEF InReach, Smaller
  <2> QED
    BY <1>1, <1>4, <2>8
<1>9. ASSUME Goto(t, NoWork) \/ Scan(t, w, "turn", NoWork)
      PROVE  worker'[t].pc \notin {"push", "pop"}
  <2>1. NoWork.pc = "idle"
    BY DEF NoWork
  <2>2. CASE Goto(t, NoWork)
    BY <1>6, <2>1, <2>2
  <2>3. CASE Scan(t, w, "turn", NoWork)
    <3>1. PICK E : Goto(t, IF E = {} THEN NoWork
                           ELSE [w EXCEPT !.pc = "cancel", !.cset = E, !.ctx = "turn"])
      BY <2>3, Zenon DEF Scan
    <3>2. PICK v : v = [w EXCEPT !.pc = "cancel", !.cset = E, !.ctx = "turn"]
      OBVIOUS
    <3>3. v.pc = "cancel"
      BY <1>2, <3>2 DEF WorkerOK, WorkerRec
    <3>4. Goto(t, NoWork) \/ Goto(t, v)
      BY <3>1, <3>2
    <3> QED
      BY <1>6, <2>1, <3>3, <3>4
  <2> QED
    BY <1>9, <2>2, <2>3
<1>10. \/ Goto(t, NoWork) \/ Scan(t, w, "turn", NoWork)
       \/ d = 0 /\ Goto(t, [w EXCEPT !.pc = "pop"])
       \/ /\ d # 0
          /\ Goto(t, [w EXCEPT !.pc = "push", !.side = IF d > 0 THEN "buy" ELSE "sell",
                          !.todo = Split(IF d > 0 THEN d ELSE 0 - d),
                          !.ctx = IF (IF d > 0 THEN d ELSE 0 - d) > Reach THEN "cut"
                                  ELSE "none"])
  BY <1>1, <1>3, Zenon DEF TargetWay
<1> QED
  BY <1>7, <1>8, <1>9, <1>10

(* The property of one step.                                               *)
Meets ==
    \A t \in Workers :
        (/\ ~short /\ Acknowledged
         /\ worker[t].pc = "compared" /\ worker'[t].pc \in {"push", "pop"})
            => Todo(t)' = InReach(worker[t].tgt - Exposed)

LEMMA TargetMetNext ==
    ASSUME TypeInv, World, OnceInv, ViewInv, Bare, [Next]_vars
    PROVE  Meets
<1> SUFFICES ASSUME NEW t \in Workers, ~short, Acknowledged,
                    worker[t].pc = "compared", worker'[t].pc \in {"push", "pop"}
             PROVE  Todo(t)' = InReach(worker[t].tgt - Exposed)
  BY DEF Meets
<1>1. View = Exposed
  BY ViewFollows DEF ViewExact
<1>2. worker'[t] # worker[t]
  OBVIOUS
<1>3. CheckDoing(t) \/ Proceed(t)
  BY <1>2, WhoMoves, OthersRest
<1>4. TargetWay(t)
  BY <1>3 DEF CheckDoing, Proceed, GetTarget, ScanIdle, CompareORTD, PushOrder, StampNew,
              ScanLate, CancelCheck, CancelMark, PopTarget
<1> QED
  BY <1>1, <1>4, TargetSettled

(* Whenever TargetWay settles a target and every order sent has been       *)
(* acknowledged, the orders it is going to create, or that it needs none,  *)
(* bring the exposure to the target, or as far towards it as the turns of  *)
(* TARGET_LOOP go, for any plan, faults, lot, turns and workers, unless a  *)
(* close was cut short before.                                             *)
THEOREM TargetMetAlways == Spec => TargetMet
<1> DEFINE SightInv == TypeInv /\ World /\ OnceInv /\ ViewInv /\ Bare
<1>1. Init => SightInv
  BY TypeInit, OnceInit, ViewInit, BareInit
<1>2. SightInv /\ [Next]_vars => SightInv'
  BY TypeNext, OnceNext, ViewNext, BareNext
<1>3. SightInv /\ [Next]_vars => Meets
  BY TargetMetNext
<1>4. Spec => [][Meets]_vars
  <2> HIDE DEF SightInv
  <2> QED
    BY <1>1, <1>2, <1>3, PTL DEF Spec
<1>5. [][Meets]_vars => TargetMet
  BY PTL DEF Meets, TargetMet
<1> QED
  BY <1>4, <1>5, PTL

-----------------------------------------------------------------------------
(* What becomes of what was ordered, as long as ThreadAlgo is the only     *)
(* caller of TargetWay and one target is due.                              *)

(* Faults that lose an order.                                              *)
Harmless == \A name \in {"reject", "offline", "risk", "send"} : ~Fault(name)

(* An order is open while somebody is going to execute it; it then counts  *)
(* for its volume, afterwards for what is filled.                          *)
InQueue(r)   == \E i \in DOMAIN cqOrder : cqOrder[i] = r
Inserting(r) == trader.pc = "insert" /\ trader.ref = r
Open(r)  == r \in Unsent \cup AtExchange \cup ToReopen
Share(r) == IF Open(r) THEN order[r].vol ELSE exch[r].done
Shares   == [r \in 1 .. Len(order) |-> Share(r)]

Buys == noReopen = {} /\ \A r \in 1 .. Len(order) : order[r].side = "buy"

(* On a link that holds HTP stays on line.                                 *)
Linked ==
    ~Fault("offline") =>
        /\ link /\ online
        /\ \A m \in Elems(rtn) \cup Elems(answers) : m.kind # "down"

(* An order that a step leaves: it is not opened again, and closed only by *)
(* its last fill or a fault.                                               *)
Steady(r) ==
    /\ Open(r)' => Open(r)
    /\ Open(r) \/ exch'[r].done = exch[r].done
    /\ Harmless /\ Open(r) => Open(r)' \/ exch'[r].st = "all"

LEMMA OpenMeans ==
    ASSUME NEW r \in 1 .. Len(order)
    PROVE  Open(r) <=> \/ InQueue(r) \/ Inserting(r) \/ exch[r].st = "live"
                       \/ exch[r].st = "canceled" /\ ~Booked(r)
<1>1. r \in Unsent <=> InQueue(r) \/ Inserting(r)
  BY DEF Unsent, InQueue, Inserting
<1>2. r \in AtExchange <=> exch[r].st = "live"
  BY DEF AtExchange, Live
<1>3. r \in ToReopen <=> exch[r].st = "canceled" /\ ~Booked(r)
  BY DEF ToReopen
<1> QED
  BY <1>1, <1>2, <1>3 DEF Open

LEMMA OpenMeansNext ==
    ASSUME NEW r \in 1 .. Len(order')
    PROVE  Open(r)' <=> \/ InQueue(r)' \/ Inserting(r)' \/ exch'[r].st = "live"
                        \/ exch'[r].st = "canceled" /\ ~Booked(r)'
<1>1. Unsent' = {cqOrder'[i] : i \in DOMAIN cqOrder'} \cup
                (IF trader'.pc = "insert" THEN {trader'.ref} ELSE {})
  BY DEF Unsent
<1>2. r \in Unsent' <=> InQueue(r)' \/ Inserting(r)'
  BY <1>1 DEF InQueue, Inserting
<1>3. r \in AtExchange' <=> exch'[r].st = "live"
  BY DEF AtExchange, Live
<1>4. r \in ToReopen' <=> exch'[r].st = "canceled" /\ ~Booked(r)'
  BY DEF ToReopen
<1> QED
  BY <1>2, <1>3, <1>4 DEF Open

(* The orders that are open are orders.                                    *)
LEMMA OpenOrders ==
    ASSUME TypeInv, World
    PROVE  Unsent \cup AtExchange \cup ToReopen \subseteq 1 .. Len(order)
<1>1. AtExchange \cup ToReopen \subseteq 1 .. Len(order)
  BY DEF AtExchange, ToReopen
<1>2. \A r \in Refs : r <= Len(order) => r \in 1 .. Len(order)
  BY OrderFacts, CoreAssumption DEF Refs, TypeInv
<1>3. \A i \in DOMAIN cqOrder : cqOrder[i] \in Refs /\ cqOrder[i] <= Len(order)
  BY DEF TypeInv, OrdersInv, World, WaitsOnce
<1>4. trader.pc = "insert" => trader.ref \in Refs /\ trader.ref <= Len(order)
  BY DEF TypeInv, TableInv, World, WaitsOnce
<1>5. Unsent \subseteq 1 .. Len(order)
  BY <1>2, <1>3, <1>4 DEF Unsent
<1> QED
  BY <1>1, <1>5

(* As long as all orders are buys, what they are going to hold is the sum  *)
(* of what each counts for.                                                *)
LEMMA ShareValues ==
    ASSUME TypeInv, World
    PROVE  Shares \in [1 .. Len(order) -> Nat]
<1>1. ASSUME NEW r \in 1 .. Len(order)
      PROVE  Share(r) \in Nat
  BY OrderValues DEF Share
<1> QED
  BY <1>1 DEF Shares

LEMMA CommittedShares ==
    ASSUME TypeInv, World, Buys
    PROVE  Committed = SumFunction(Shares) + Sum(Workers, Todo)
<1>1. PICK N : N = 1 .. Len(order)
  OBVIOUS
<1>2. PICK U : U = Unsent \cup AtExchange \cup ToReopen
  OBVIOUS
<1>3. IsFiniteSet(N) /\ U \in SUBSET N
  BY <1>1, <1>2, OrderFacts, OpenOrders DEF TypeInv
<1>4. PICK g \in [N -> Int] : g = HeldTerms /\ Held = SumFunction(g)
  BY <1>1, AccountTerms
<1>5. PICK h : h = [r \in U |-> Signed(r, Left(r))]
  OBVIOUS
<1>6. \A r \in N : /\ Signed(r, Left(r)) = Left(r) /\ Signed(r, exch[r].done) = exch[r].done
                   /\ Left(r) \in Int /\ order[r].vol \in Nat /\ exch[r].done \in Nat
                   /\ Left(r) = order[r].vol - exch[r].done
  BY <1>1, OrderValues DEF Buys, Signed, Left
<1>7. h \in [U -> Int]
  BY <1>3, <1>5, <1>6
<1>8. PICK k : k = [r \in N |-> IF r \in U THEN h[r] ELSE 0]
  OBVIOUS
<1>9. k \in [N -> Int] /\ SumFunction(h) = SumFunction(k)
  BY <1>3, <1>7, <1>8, SumExtend
<1>10. PICK s : s = Shares
  OBVIOUS
<1>11. s \in [N -> Int]
  BY <1>1, <1>10, ShareValues
<1>12. \A r \in N : s[r] = IF r \in U THEN order[r].vol ELSE exch[r].done
  BY <1>1, <1>2, <1>10 DEF Shares, Share, Open
<1>13. \A r \in N : s[r] = g[r] + k[r]
  <2>1. \A r \in N : g[r] = exch[r].done
    BY <1>1, <1>4, <1>6 DEF HeldTerms
  <2>2. \A r \in N : k[r] = IF r \in U THEN order[r].vol - exch[r].done ELSE 0
    BY <1>3, <1>5, <1>6, <1>8
  <2> QED
    BY <1>6, <1>12, <2>1, <2>2
<1>14. SumFunction(s) = SumFunction(g) + SumFunction(k)
  <2>1. Adds(N, g, k, s)
    BY <1>3, <1>9, <1>11, <1>13 DEF Adds
  <2> QED
    BY <2>1, SumPlus
<1>15. Sum(Unsent \cup AtExchange \cup ToReopen, LAMBDA r : Signed(r, Left(r))) = SumFunction(h)
  BY <1>2, <1>5, Zenon DEF Sum
<1> QED
  BY <1>4, <1>9, <1>10, <1>14, <1>15, Zenon DEF Committed

(* The sum after steps that leave every order steady: nothing is ordered   *)
(* beyond, and without a fault nothing is lost.                            *)
LEMMA ShareSteady ==
    ASSUME TypeInv, World, World', NEW r \in 1 .. Len(order), order'[r] = order[r],
           exch'[r].done \in Nat, exch'[r].st \in {"none", "live", "all", "canceled", "rejected"},
           Steady(r)
    PROVE  Share(r)' <= Share(r) /\ (Harmless => Share(r)' = Share(r))
<1>1. Share(r)' = IF Open(r)' THEN order'[r].vol ELSE exch'[r].done
  BY DEF Share
<1>2. order[r].vol \in Nat /\ exch[r].done \in Nat /\ r \in Refs
  BY OrderValues
<1>3. Kept(r)'
  BY <1>2 DEF World, Exchange, Refs
<1>4. exch'[r].done <= order[r].vol /\ (exch'[r].st = "all" => exch'[r].done = order[r].vol)
  BY <1>2, <1>3 DEF Kept
<1>5. CASE Open(r)
  BY <1>1, <1>2, <1>4, <1>5 DEF Steady, Share
<1>6. CASE ~Open(r)
  BY <1>1, <1>2, <1>6 DEF Steady, Share
<1> QED
  BY <1>5, <1>6

LEMMA SharesSteady ==
    ASSUME TypeInv, World, TypeInv', World', UNCHANGED order,
           \A r \in 1 .. Len(order) : Steady(r)
    PROVE  /\ SumFunction(Shares') <= SumFunction(Shares)
           /\ Harmless => SumFunction(Shares') = SumFunction(Shares)
<1>1. PICK N : N = 1 .. Len(order)
  OBVIOUS
<1>2. IsFiniteSet(N) /\ N \subseteq Refs
  BY <1>1, OrderFacts DEF TypeInv
<1>3. PICK g : g = Shares
  OBVIOUS
<1>4. PICK h : h = Shares'
  OBVIOUS
<1>5. exch' \in [Refs -> ExchRec]
  BY DEF TypeInv, BrokerInv, Refs, ExchRec
<1>6. ASSUME NEW r \in N
      PROVE  Share(r)' <= Share(r) /\ (Harmless => Share(r)' = Share(r)) /\ Share(r)' \in Nat
  <2>1. exch'[r] \in ExchRec
    BY <1>2, <1>5
  <2>2. exch'[r].done \in Nat /\ exch'[r].st \in {"none", "live", "all", "canceled", "rejected"}
    BY <2>1, CoreAssumption DEF ExchRec
  <2>3. Share(r)' \in Nat
    BY <1>1, <2>2, OrderValues DEF Share
  <2> QED
    BY <1>1, <2>2, <2>3, ShareSteady
<1>7. g \in [N -> Nat]
  BY <1>1, <1>3, ShareValues
<1>8. \A r \in N : g[r] = Share(r)
  BY <1>1, <1>3 DEF Shares
<1>9. h = [r \in N |-> Share(r)']
  BY <1>1, <1>4 DEF Shares
<1>10. h \in [N -> Nat]
  BY <1>6, <1>9
<1>11. \A r \in N : h[r] <= g[r] /\ (Harmless => h[r] = g[r])
  BY <1>6, <1>8, <1>9
<1>12. SumFunction(h) <= SumFunction(g)
  <2>1. g \in [N -> Int] /\ h \in [N -> Int] /\ \A r \in N : h[r] <= g[r]
    BY <1>7, <1>10, <1>11
  <2> QED
    BY <1>2, <2>1, SumMonotonic
<1>13. Harmless => h = g
  BY <1>7, <1>10, <1>11
<1> QED
  BY <1>3, <1>4, <1>12, <1>13

(* A step that leaves an order where it is.                                *)
LEMMA SteadyFrame ==
    ASSUME NEW r \in 1 .. Len(order), r \in 1 .. Len(order'),
           InQueue(r)' <=> InQueue(r), Inserting(r)' <=> Inserting(r),
           exch'[r].st = exch[r].st, exch'[r].done = exch[r].done,
           exch[r].st = "canceled" => (Booked(r)' <=> Booked(r))
    PROVE  Steady(r)
BY OpenMeans, OpenMeansNext DEF Steady

LEMMA SteadyFrames ==
    ASSUME UNCHANGED <<order, cqOrder, mapOrder, spi>>,
           UNCHANGED trader \/ (trader.pc # "insert" /\ trader'.pc # "insert"),
           \A r \in 1 .. Len(order) : exch'[r].st = exch[r].st /\ exch'[r].done = exch[r].done,
           NEW r \in 1 .. Len(order)
    PROVE  Steady(r)
<1>1. InQueue(r)' <=> InQueue(r)
  BY DEF InQueue
<1>2. Inserting(r)' <=> Inserting(r)
  BY DEF Inserting
<1>3. Booked(r)' <=> Booked(r)
  BY DEF Booked, Handling
<1> QED
  BY <1>1, <1>2, <1>3, SteadyFrame

-----------------------------------------------------------------------------
(* Every order is steady in every step, except the one that is reopened.   *)
LEMMA PushSteady ==
    ASSUME TypeInv, World, Grows, NEW t \in Workers, PushOrder(t), NEW r \in 1 .. Len(order)
    PROVE  Steady(r)
<1>1. /\ cqOrder' = Append(cqOrder, Len(order')) /\ UNCHANGED <<books, trader, spi, ext>>
  BY DEF PushOrder
<1>2. UNCHANGED <<mapOrder, spi, trader, exch>>
  BY <1>1 DEF books, ext
<1>3. Len(order) \in Nat /\ Len(order') = Len(order) + 1
  BY DEF PushOrder, TypeInv, OrdersInv
<1>4. cqOrder \in Seq(Refs)
  BY DEF TypeInv, OrdersInv
<1>5. PICK n \in Nat : n = Len(order')
  BY <1>3
<1>6. n # r /\ r \in 1 .. Len(order')
  BY <1>3, <1>5
<1>7. InQueue(r)' <=> InQueue(r)
  <2>1. cqOrder' = Append(cqOrder, n)
    BY <1>1, <1>5
  <2>2. PICK c : c = cqOrder
    OBVIOUS
  <2>3. PICK d : d = cqOrder'
    OBVIOUS
  <2>4. /\ DOMAIN c = 1 .. Len(c) /\ Len(c) \in Nat /\ DOMAIN d = 1 .. Len(c) + 1
        /\ d[Len(c) + 1] = n /\ \A i \in 1 .. Len(c) : d[i] = c[i]
    BY <1>4, <2>1, <2>2, <2>3
  <2>5. (\E i \in DOMAIN d : d[i] = r) <=> \E i \in DOMAIN c : c[i] = r
    BY <1>6, <2>4
  <2> QED
    BY <2>2, <2>3, <2>5 DEF InQueue
<1>8. (Inserting(r)' <=> Inserting(r)) /\ (Booked(r)' <=> Booked(r))
  BY <1>2 DEF Inserting, Booked, Handling
<1> QED
  BY <1>2, <1>6, <1>7, <1>8, SteadyFrame

LEMMA WorkerSteady ==
    ASSUME TypeInv, World, Grows, NEW t \in Workers, CheckDoing(t) \/ Proceed(t),
           NEW r \in 1 .. Len(order)
    PROVE  Steady(r)
<1>1. CASE PushOrder(t)
  BY <1>1, PushSteady
<1>2. CASE ~PushOrder(t)
  <2>1. UNCHANGED <<books, trader, spi, ext, order, cqOrder>>
    BY <1>2 DEF CheckDoing, Proceed, GetTarget, ScanIdle, CompareORTD, TargetWay, StampNew,
                ScanLate, CancelCheck, CancelMark, PopTarget, queues
  <2>2. UNCHANGED <<order, cqOrder, mapOrder, spi, trader, exch>>
    BY <2>1 DEF books, ext
  <2> QED
    BY <2>2, SteadyFrames
<1> QED
  BY <1>1, <1>2

LEMMA TakeOrderSteady ==
    ASSUME TypeInv, World, Linked, TakeOrder, NEW r \in 1 .. Len(order)
    PROVE  Steady(r)
<1>1. PICK q : q = Head(cqOrder)
  OBVIOUS
<1>2. /\ cqOrder # <<>> /\ cqOrder' = Tail(cqOrder) /\ trader.pc \in {"orders", "actions"}
      /\ \/ (~online \/ Fault("risk")) /\ trader' = [trader EXCEPT !.pc = "orders"]
         \/ online /\ trader' = [trader EXCEPT !.pc = "insert", !.ref = q]
      /\ UNCHANGED <<order, mapOrder, spi, exch>>
  BY <1>1 DEF TakeOrder, books, ext
<1>3. PICK c : c = cqOrder
  OBVIOUS
<1>4. /\ c \in Seq(Refs) /\ DOMAIN c = 1 .. Len(c) /\ c[1] = q /\ 1 \in DOMAIN c /\ Len(c) \in Nat
      /\ DOMAIN Tail(c) = 1 .. Len(c) - 1 /\ \A i \in 1 .. Len(c) - 1 : Tail(c)[i] = c[i + 1]
  BY <1>1, <1>2, <1>3 DEF TypeInv, OrdersInv
<1>5. trader \in Traders
  BY DEF TypeInv, TableInv
<1>6. trader'.pc \in {"orders", "insert"} /\ (trader'.pc = "insert" => trader'.ref = q)
      /\ (online /\ ~Fault("risk") => trader'.pc = "insert" /\ trader'.ref = q)
  BY <1>2, <1>5 DEF Traders
<1>7. (Booked(r)' <=> Booked(r)) /\ ~Inserting(r) /\ r \in 1 .. Len(order')
  BY <1>2 DEF Booked, Handling, Inserting
<1>8. CASE r # q
  <2>1. InQueue(r)' <=> InQueue(r)
    <3>1. (\E i \in DOMAIN Tail(c) : Tail(c)[i] = r) <=> \E i \in DOMAIN c : c[i] = r
      <4>1. ASSUME NEW i \in DOMAIN c, c[i] = r
            PROVE  i - 1 \in DOMAIN Tail(c) /\ Tail(c)[i - 1] = r
        <5>1. i # 1 /\ i \in 1 .. Len(c)
          BY <1>4, <1>8, <4>1
        <5>2. i - 1 \in 1 .. Len(c) - 1 /\ (i - 1) + 1 = i
          BY <1>4, <5>1
        <5> QED
          BY <1>4, <4>1, <5>2
      <4>2. ASSUME NEW i \in DOMAIN Tail(c), Tail(c)[i] = r
            PROVE  i + 1 \in DOMAIN c /\ c[i + 1] = r
        BY <1>4, <4>2
      <4> QED
        BY <4>1, <4>2
    <3> QED
      BY <1>2, <1>3, <3>1 DEF InQueue
  <2>2. ~Inserting(r)'
    BY <1>6, <1>8 DEF Inserting
  <2> QED
    BY <1>2, <1>7, <2>1, <2>2, SteadyFrame
<1>9. CASE r = q
  <2>1. InQueue(r)
    BY <1>3, <1>4, <1>9 DEF InQueue
  <2>2. Open(r)
    BY <2>1, OpenMeans
  <2>3. Harmless => Inserting(r)'
    BY <1>6, <1>9 DEF Harmless, Linked, Inserting
  <2>4. Harmless => Open(r)'
    BY <1>7, <2>3, OpenMeansNext
  <2> QED
    BY <2>2, <2>4 DEF Steady
<1> QED
  BY <1>8, <1>9

LEMMA InsertSteady ==
    ASSUME TypeInv, World, Linked, Buys, ReqOrderInsert, NEW r \in 1 .. Len(order)
    PROVE  Steady(r)
<1>1. PICK q : q = trader.ref
  OBVIOUS
<1>2. /\ trader.pc = "insert" /\ trader' = [trader EXCEPT !.pc = "sent", !.ok = trader'.ok]
      /\ \/ (~link \/ Fault("send")) /\ UNCHANGED exch
         \/ link /\ (Accept(q) \/ Reject(q))
      /\ UNCHANGED <<order, cqOrder, mapOrder, spi>>
  <2>1. trader \in Traders
    BY DEF TypeInv, TableInv
  <2>2. \A b \in BOOLEAN : trader' = [trader EXCEPT !.pc = "sent", !.ok = b]
                             => trader'.ok = b
    BY <2>1 DEF Traders
  <2>3. \/ trader' = [trader EXCEPT !.pc = "sent", !.ok = TRUE]
        \/ trader' = [trader EXCEPT !.pc = "sent", !.ok = FALSE]
    BY DEF ReqOrderInsert
  <2>4. trader' = [trader EXCEPT !.pc = "sent", !.ok = trader'.ok]
    BY <2>2, <2>3
  <2> QED
    BY <1>1, <2>4 DEF ReqOrderInsert, queues, books
<1>3. trader'.pc = "sent" /\ q \in Refs /\ q <= Len(order)
  BY <1>1, <1>2 DEF TypeInv, TableInv, Traders, World, WaitsOnce
<1>4. exch \in [Refs -> ExchRec] /\ r \in Refs /\ r \in 1 .. Len(order')
  BY <1>2, OrderFacts DEF TypeInv, BrokerInv
<1>5. \/ UNCHANGED exch \/ exch' = [exch EXCEPT ![q].st = "live"]
      \/ exch' = [exch EXCEPT ![q].st = "rejected"]
  BY <1>2 DEF Accept, Reject
<1>6. (InQueue(r)' <=> InQueue(r)) /\ (Booked(r)' <=> Booked(r)) /\ ~Inserting(r)'
  BY <1>2, <1>3 DEF InQueue, Booked, Handling, Inserting
<1>7. CASE r # q
  <2>1. exch'[r] = exch[r]
    BY <1>4, <1>5, <1>7
  <2>2. ~Inserting(r)
    BY <1>1, <1>7 DEF Inserting
  <2> QED
    BY <1>4, <1>6, <2>1, <2>2, SteadyFrame
<1>8. CASE r = q
  <2>1. Open(r)
    BY <1>1, <1>2, <1>8, OpenMeans DEF Inserting
  <2>2. Harmless => exch' = [exch EXCEPT ![q].st = "live"]
    <3>1. order[q].side = "buy"
      BY <1>8 DEF Buys
    <3> QED
      BY <1>2, <3>1 DEF Harmless, Linked, Accept, Reject
  <2>3. Harmless => exch'[r].st = "live"
    BY <1>4, <1>8, <2>2 DEF ExchRec
  <2>4. Harmless => Open(r)'
    BY <1>4, <2>3, OpenMeansNext
  <2> QED
    BY <2>1, <2>4 DEF Steady
<1> QED
  BY <1>7, <1>8

LEMMA TradingSteady ==
    ASSUME TypeInv, World, Linked, Buys, Trading, NEW r \in 1 .. Len(order)
    PROVE  Steady(r)
<1>1. trader \in Traders /\ exch \in [Refs -> ExchRec] /\ \A x \in 1 .. Len(order) : x \in Refs
  BY OrderFacts DEF TypeInv, TableInv, BrokerInv
<1>2. CASE OrderSent \/ TakeAction \/ ReqOrderAction \/ ActionSent
  <2>1. UNCHANGED <<order, cqOrder, mapOrder, spi>>
    BY <1>2 DEF OrderSent, TakeAction, ReqOrderAction, ActionSent, queues, books
  <2>2. trader.pc # "insert" /\ trader'.pc # "insert"
    <3>1. trader.pc # "insert"
      BY <1>2 DEF OrderSent, TakeAction, ReqOrderAction, ActionSent
    <3>2. ASSUME NEW p \in {"action", "acted", "ended"}, NEW x,
                 trader' = [trader EXCEPT !.pc = p] \/ trader' = [trader EXCEPT !.pc = p, !.ref = x]
          PROVE  trader'.pc # "insert"
      BY <1>1, <3>2 DEF Traders
    <3>3. CASE OrderSent \/ ActionSent
      BY <3>1, <3>3 DEF OrderSent, ActionSent
    <3>4. CASE TakeAction
      BY <3>1, <3>2, <3>4 DEF TakeAction
    <3>5. CASE ReqOrderAction
      <4>1. \/ trader' = [pc |-> "actions", ref |-> 0, ok |-> TRUE]
            \/ trader' = [trader EXCEPT !.pc = "acted"]
        BY <3>5 DEF ReqOrderAction
      <4>2. [pc |-> "actions", ref |-> 0, ok |-> TRUE].pc # "insert"
        OBVIOUS
      <4>3. trader' = [trader EXCEPT !.pc = "acted"] => trader'.pc # "insert"
        BY <3>2
      <4> QED
        BY <3>1, <4>1, <4>2, <4>3
    <3> QED
      BY <1>2, <3>1, <3>3, <3>4, <3>5
  <2>3. UNCHANGED exch \/ exch' = [exch EXCEPT ![trader.ref].cxl = TRUE]
    BY <1>2 DEF OrderSent, TakeAction, ReqOrderAction, ActionSent, ext
  <2>4. \A x \in 1 .. Len(order) : exch'[x].st = exch[x].st /\ exch'[x].done = exch[x].done
    BY <1>1, <2>3 DEF ExchRec
  <2> QED
    BY <2>1, <2>2, <2>4, SteadyFrames
<1> QED
  BY <1>2, TakeOrderSteady, InsertSteady DEF Trading

(* A callback stores a report, but the end it may tell has yet to be       *)
(* booked.                                                                 *)
LEMMA ReceiveSteady ==
    ASSUME TypeInv, World, NEW m, Tells(m), Receive(m), spi.pc = "idle",
           UNCHANGED <<order, cqOrder, trader, exch>>, NEW r \in 1 .. Len(order)
    PROVE  Steady(r)
<1>1. mapOrder \in [Refs -> Report] /\ r \in Refs
  BY OrderFacts DEF TypeInv, BooksInv
<1>2. CASE UNCHANGED <<mapOrder, spi>>
  BY <1>2, SteadyFrames
<1>3. CASE m.kind = "order" /\ StoreOrder(m) /\ mapOrder[m.ref].st \notin Final
  <2>1. PICK x \in Refs : x = m.ref
    BY <1>3, OrderFacts DEF Tells, TypeInv
  <2>2. PICK e : e = [st |-> m.st, rem |-> m.n]
    OBVIOUS
  <2>3. mapOrder' = [mapOrder EXCEPT ![x] = e]
        /\ spi' = IF m.st \in Final THEN [pc |-> "final", msg |-> e, ref |-> x] ELSE Quiet
    BY <1>3, <2>1, <2>2, Zenon DEF StoreOrder
  <2>4. e.st = m.st
    BY <2>2
  <2>5. spi'.pc = "final" <=> m.st \in Final
    BY <2>3, SpiOK
  <2>6. spi'.pc = "final" => spi'.ref = x
    BY <2>3, <2>5
  <2>7. CASE r = x
    <3>1. mapOrder'[r].st = m.st /\ ~Booked(r)
      BY <1>1, <1>3, <2>1, <2>3, <2>4, <2>7 DEF Booked
    <3>2. ~Booked(r)'
      BY <2>5, <2>6, <2>7, <3>1, <2>3 DEF Booked, Handling
    <3> QED
      BY <3>1, <3>2, SteadyFrame DEF InQueue, Inserting
  <2>8. CASE r # x
    <3>1. mapOrder'[r] = mapOrder[r]
      BY <1>1, <2>3, <2>8
    <3>2. Booked(r)' <=> Booked(r)
      BY <2>6, <2>8, <3>1 DEF Booked, Handling
    <3> QED
      BY <3>2, SteadyFrame DEF InQueue, Inserting
  <2> QED
    BY <2>7, <2>8
<1> QED
  BY <1>2, <1>3, Zenon DEF Receive, StoreOrder, books

LEMMA FinalSteady ==
    ASSUME TypeInv, World, AllTraded \/ OrderCanceled \/ ReopenStamp, NEW r \in 1 .. Len(order)
    PROVE  Steady(r) \/ (OrderCanceled /\ spi.ref = r)
<1>1. UNCHANGED <<mapOrder, trader, exch>> /\ spi.pc # "idle" /\ spi \in SpiRec
  BY DEF AllTraded, OrderCanceled, ReopenStamp, books, ext, TypeInv, BooksInv
<1>2. spi'.pc # "final"
  BY <1>1, SpiOK DEF AllTraded, OrderCanceled, ReopenStamp, SpiRec
<1>3. Len(order) \in Nat /\ cqOrder \in Seq(Refs) /\ order \in Seq(OrderRec)
  BY DEF TypeInv, OrdersInv
<1>4. \/ UNCHANGED <<order, cqOrder>>
      \/ \E x : order' = Append(order, x) /\ cqOrder' = Append(cqOrder, Len(order'))
  BY Zenon DEF AllTraded, OrderCanceled, ReopenStamp, queues
<1>5. r \in 1 .. Len(order') /\ (InQueue(r)' <=> InQueue(r))
  <2>1. CASE UNCHANGED <<order, cqOrder>>
    BY <2>1 DEF InQueue
  <2>2. CASE \E x : order' = Append(order, x) /\ cqOrder' = Append(cqOrder, Len(order'))
    <3>1. Len(order') = Len(order) + 1
      BY <1>3, <2>2
    <3>2. PICK n \in Nat : n = Len(order')
      BY <1>3, <3>1
    <3>3. n # r /\ r \in 1 .. n
      BY <1>3, <3>1, <3>2
    <3>4. PICK c : c = cqOrder
      OBVIOUS
    <3>5. PICK d : d = cqOrder'
      OBVIOUS
    <3>6. d = Append(c, n)
      BY <2>2, <3>2, <3>4, <3>5
    <3>7. /\ DOMAIN c = 1 .. Len(c) /\ Len(c) \in Nat /\ DOMAIN d = 1 .. Len(c) + 1
          /\ d[Len(c) + 1] = n /\ \A i \in 1 .. Len(c) : d[i] = c[i]
      BY <1>3, <3>4, <3>6
    <3>8. (\E i \in DOMAIN d : d[i] = r) <=> \E i \in DOMAIN c : c[i] = r
      BY <3>3, <3>7
    <3> QED
      BY <3>2, <3>3, <3>4, <3>5, <3>8 DEF InQueue
  <2> QED
    BY <1>4, <2>1, <2>2
<1>6. Inserting(r)' <=> Inserting(r)
  BY <1>1 DEF Inserting
<1>7. CASE spi.pc = "final" /\ spi.ref = r
  <2>1. CASE AllTraded
    <3>1. exch[r].st # "canceled"
      BY <1>7, <2>1, FinalFacts DEF AllTraded
    <3> QED
      BY <1>1, <1>5, <1>6, <3>1, SteadyFrame
  <2>2. CASE ReopenStamp
    BY <1>7, <2>2 DEF ReopenStamp
  <2> QED
    BY <1>7, <2>1, <2>2
<1>8. CASE ~(spi.pc = "final" /\ spi.ref = r)
  <2>1. Booked(r)' <=> Booked(r)
    BY <1>1, <1>2, <1>8 DEF Booked, Handling
  <2> QED
    BY <1>1, <1>5, <1>6, <2>1, SteadyFrame
<1> QED
  BY <1>7, <1>8

LEMMA SpiSteady ==
    ASSUME TypeInv, World, Spi, NEW r \in 1 .. Len(order)
    PROVE  Steady(r) \/ (OrderCanceled /\ spi.ref = r)
<1>1. CASE OnRtn
  <2>1. PICK m : m = Head(rtn)
    OBVIOUS
  <2>2. Tells(m) /\ Receive(m)
    BY <1>1, <2>1, HeadTold DEF World, Streams, OnRtn, TypeInv, BrokerInv
  <2>3. spi.pc = "idle" /\ UNCHANGED <<order, cqOrder, trader, exch>>
    BY <1>1 DEF OnRtn, queues
  <2> QED
    BY <2>2, <2>3, ReceiveSteady
<1>2. CASE OnRspQry
  <2>1. PICK m : m = Head(answers)
    OBVIOUS
  <2>2. Tells(m) /\ Receive(m)
    BY <1>2, <2>1, HeadTold DEF World, Streams, OnRspQry, TypeInv, BrokerInv
  <2>3. spi.pc = "idle" /\ UNCHANGED <<order, cqOrder, trader, exch>>
    BY <1>2 DEF OnRspQry, queues
  <2> QED
    BY <2>2, <2>3, ReceiveSteady
<1> QED
  BY <1>1, <1>2, FinalSteady DEF Spi

(* The broker executes or cancels what is open.                            *)
LEMMA BrokerSteady ==
    ASSUME TypeInv, World, NEW x \in 1 .. Len(order), Broker(x), NEW r \in 1 .. Len(order)
    PROVE  Steady(r)
<1>1. UNCHANGED <<order, cqOrder, mapOrder, spi, trader>> /\ Live(x)
  BY DEF Broker, CancelRequested, ExchangeCancels, Cancel, Fill, queues, books
<1>2. exch \in [Refs -> ExchRec] /\ x \in Refs /\ r \in Refs /\ r \in 1 .. Len(order')
  BY <1>1, OrderFacts DEF TypeInv, BrokerInv
<1>3. (InQueue(r)' <=> InQueue(r)) /\ (Inserting(r)' <=> Inserting(r)) /\ (Booked(r)' <=> Booked(r))
  BY <1>1 DEF InQueue, Inserting, Booked, Handling
<1>4. \/ exch' = [exch EXCEPT ![x].st = "canceled"]
      \/ \E d, s : s \in {"all", "live"} /\ exch' = [exch EXCEPT ![x].done = d, ![x].st = s]
  <2>1. CASE Cancel(x)
    BY <2>1 DEF Cancel
  <2>2. ASSUME NEW n, Fill(x, n)
        PROVE  \E d, s : s \in {"all", "live"} /\ exch' = [exch EXCEPT ![x].done = d, ![x].st = s]
    <3>1. PICK st : st = IF exch[x].done + n = order[x].vol THEN "all" ELSE "part"
      OBVIOUS
    <3>2. exch' = [exch EXCEPT ![x].done = exch[x].done + n,
                               ![x].st = IF st = "all" THEN "all" ELSE "live"]
      BY <2>2, <3>1, Zenon DEF Fill
    <3>3. PICK s \in {"all", "live"} : s = IF st = "all" THEN "all" ELSE "live"
      OBVIOUS
    <3> QED
      BY <3>2, <3>3
  <2> QED
    BY <2>1, <2>2, Zenon DEF Broker, CancelRequested, ExchangeCancels
<1>5. CASE r # x
  <2>1. exch'[r] = exch[r]
    BY <1>2, <1>4, <1>5
  <2> QED
    BY <1>2, <1>3, <2>1, SteadyFrame
<1>6. CASE r = x
  <2>1. exch[r].st = "live" /\ Open(r)
    BY <1>1, <1>6, OpenMeans DEF Live
  <2>2. mapOrder[r].st \notin Final
    BY <1>2, <2>1 DEF World, Stored, Final
  <2>3. exch'[r].st \in {"canceled", "all", "live"}
    BY <1>2, <1>4, <1>6 DEF ExchRec
  <2>4. ~Booked(r)'
    BY <1>3, <2>2 DEF Booked
  <2> QED
    BY <1>2, <2>1, <2>3, <2>4, OpenMeansNext DEF Steady
<1> QED
  BY <1>5, <1>6

LEMMA AllSteady ==
    ASSUME TypeInv, World, Grows, Linked, Buys, [Next]_vars, NEW r \in 1 .. Len(order)
    PROVE  Steady(r) \/ (OrderCanceled /\ spi.ref = r)
<1>1. CASE SlotDue \/ ThreadTime \/ Disconnect \/ Relogin \/ UNCHANGED vars
  <2>1. UNCHANGED <<order, cqOrder, mapOrder, spi, trader, exch>>
    BY <1>1 DEF SlotDue, ThreadTime, ReqQryOrder, ReqQryTrade, EraseSyn, Disconnect, Relogin,
                queues, books, ext, vars
  <2> QED
    BY <2>1, SteadyFrames
<1>2. ASSUME NEW t \in Workers, CheckDoing(t) \/ Proceed(t)
      PROVE  Steady(r)
  BY <1>2, WorkerSteady
<1>3. ASSUME NEW x \in 1 .. Len(order), Broker(x)
      PROVE  Steady(r)
  BY <1>3, BrokerSteady
<1> QED
  BY <1>1, <1>2, <1>3, TradingSteady, SpiSteady, Zenon DEF Next

-----------------------------------------------------------------------------
(* Without the fault a link holds.                                         *)
LEMMA InsertSends ==
    ASSUME TypeInv, ReqOrderInsert
    PROVE  \A m \in Elems(rtn') : m \in Elems(rtn) \/ m.kind # "down"
<1>1. PICK q \in Refs : q = trader.ref
  BY DEF ReqOrderInsert, TypeInv, TableInv
<1>2. IsSeq(rtn)
  BY DEF TypeInv, BrokerInv, IsSeq
<1>3. CASE UNCHANGED rtn
  BY <1>3
<1>4. CASE Accept(q)
  <2>1. PICK a : a = OrderMsg(q, "unknown", order[q].vol)
    OBVIOUS
  <2>2. PICK b : b = OrderMsg(q, "queueing", order[q].vol)
    OBVIOUS
  <2>3. a.kind = "order" /\ b.kind = "order"
    BY <2>1, <2>2 DEF OrderMsg
  <2>4. Emit(<<a, b>>)
    BY <1>4, <2>1, <2>2, Zenon DEF Accept
  <2>5. IsSeq(<<a, b>>) /\ Elems(<<a, b>>) = {a, b}
    BY PairSeq, Zenon
  <2> QED
    BY <1>2, <2>3, <2>4, <2>5, EmitSeq
<1>5. CASE Reject(q)
  <2>1. PICK a : a = ErrorMsg(q)
    OBVIOUS
  <2>2. a.kind = "error"
    BY <2>1 DEF ErrorMsg
  <2>3. Emit(<<a>>)
    BY <1>5, <2>1, Zenon DEF Reject
  <2>4. IsSeq(<<a>>) /\ Elems(<<a>>) = {a}
    BY PairSeq, Zenon
  <2> QED
    BY <1>2, <2>2, <2>3, <2>4, EmitSeq
<1> QED
  BY <1>1, <1>3, <1>4, <1>5, Zenon DEF ReqOrderInsert

LEMMA BrokerSends ==
    ASSUME TypeInv, NEW x \in 1 .. Len(order), Broker(x)
    PROVE  \A m \in Elems(rtn') : m \in Elems(rtn) \/ m.kind # "down"
<1>1. IsSeq(rtn)
  BY DEF TypeInv, BrokerInv, IsSeq
<1>2. CASE Cancel(x)
  <2>1. PICK a : a = OrderMsg(x, "canceled", Left(x))
    OBVIOUS
  <2>2. a.kind = "order"
    BY <2>1 DEF OrderMsg
  <2>3. Emit(<<a>>)
    BY <1>2, <2>1, Zenon DEF Cancel
  <2>4. IsSeq(<<a>>) /\ Elems(<<a>>) = {a}
    BY PairSeq, Zenon
  <2> QED
    BY <1>1, <2>2, <2>3, <2>4, EmitSeq
<1>3. ASSUME NEW n, Fill(x, n)
      PROVE  \A m \in Elems(rtn') : m \in Elems(rtn) \/ m.kind # "down"
  <2>1. PICK st, k, b : b = TradeMsg(x, Len(deals) + 1, n) /\ Emit(<<OrderMsg(x, st, k), b>>)
    BY <1>3, Zenon DEF Fill
  <2>2. PICK a : a = OrderMsg(x, st, k)
    OBVIOUS
  <2>3. a.kind = "order" /\ b.kind = "trade"
    BY <2>1, <2>2 DEF OrderMsg, TradeMsg
  <2>4. Emit(<<a, b>>) /\ IsSeq(<<a, b>>) /\ Elems(<<a, b>>) = {a, b}
    BY <2>1, <2>2, PairSeq, Zenon
  <2> QED
    BY <1>1, <2>3, <2>4, EmitSeq
<1> QED
  BY <1>2, <1>3, Zenon DEF Broker, CancelRequested, ExchangeCancels

LEMMA TimeAnswers ==
    ASSUME TypeInv, World, ThreadTime
    PROVE  \A m \in Elems(answers') : m \in Elems(answers) \/ m.kind # "down"
<1>1. CASE EraseSyn
  BY <1>1 DEF EraseSyn, ext
<1>2. CASE ReqQryTrade
  <2>1. \A m \in Elems(deals) : m.kind = "trade"
    BY DEF World, Dealt, Elems, TypeInv, BrokerInv
  <2>2. answers' = deals \/ answers' = answers
    BY <1>2 DEF ReqQryTrade, Ask
  <2> QED
    BY <2>1, <2>2
<1>3. CASE ReqQryOrder
  <2>1. PICK s \in InOrder(Sent) : Ask([i \in DOMAIN s |-> QryOrder(s[i])])
    BY <1>3, Zenon DEF ReqQryOrder
  <2>2. PICK u : u = [i \in DOMAIN s |-> QryOrder(s[i])]
    OBVIOUS
  <2>3. \A i \in DOMAIN u : u[i].kind = "order"
    BY <2>2 DEF QryOrder, OrderMsg
  <2>4. answers' = u \/ answers' = answers
    BY <2>1, <2>2 DEF Ask
  <2> QED
    BY <2>3, <2>4 DEF Elems
<1> QED
  BY <1>1, <1>2, <1>3 DEF ThreadTime

LEMMA LinkedNext ==
    ASSUME TypeInv, World, Linked, [Next]_vars
    PROVE  Linked'
<1> SUFFICES ASSUME ~Fault("offline")
             PROVE  /\ link' /\ online'
                    /\ \A m \in Elems(rtn') \cup Elems(answers') : m.kind # "down"
  <2>1. Fault("offline")' <=> Fault("offline")
    BY ScnKept
  <2> QED
    BY <2>1 DEF Linked, Elems
<1>1. /\ link /\ online
      /\ \A m \in Elems(rtn) \cup Elems(answers) : m.kind # "down"
  BY DEF Linked
<1>2. IsSeq(rtn) /\ IsSeq(answers)
  BY DEF TypeInv, BrokerInv, IsSeq
<1>3. CASE OnRtn
  <2>1. PICK h : h = Head(rtn)
    OBVIOUS
  <2>2. rtn # <<>> /\ rtn' = Tail(rtn) /\ Receive(h) /\ UNCHANGED <<link, answers>>
    BY <1>3, <2>1 DEF OnRtn
  <2>3. h \in Elems(rtn) /\ \A m \in Elems(rtn') : m \in Elems(rtn)
    BY <1>2, <2>1, <2>2, TailSeq, Zenon
  <2>4. h.kind # "down"
    BY <1>1, <2>3
  <2>5. UNCHANGED online
    BY <2>2, <2>4 DEF Receive
  <2> QED
    BY <1>1, <2>2, <2>3, <2>5
<1>4. CASE OnRspQry
  <2>1. PICK h : h = Head(answers)
    OBVIOUS
  <2>2. answers # <<>> /\ answers' = Tail(answers) /\ Receive(h) /\ UNCHANGED <<link, rtn>>
    BY <1>4, <2>1 DEF OnRspQry
  <2>3. h \in Elems(answers) /\ \A m \in Elems(answers') : m \in Elems(answers)
    BY <1>2, <2>1, <2>2, TailSeq, Zenon
  <2>4. h.kind # "down"
    BY <1>1, <2>3
  <2>5. UNCHANGED online
    BY <2>2, <2>4 DEF Receive
  <2> QED
    BY <1>1, <2>2, <2>3, <2>5
<1>5. CASE ReqOrderInsert
  BY <1>1, <1>5, InsertSends DEF ReqOrderInsert
<1>6. ASSUME NEW x \in 1 .. Len(order), Broker(x)
      PROVE  UNCHANGED <<link, online, answers>>
  BY <1>6 DEF Broker, CancelRequested, ExchangeCancels, Cancel, Fill
<1>7. ASSUME NEW x \in 1 .. Len(order), Broker(x)
      PROVE  /\ link' /\ online'
             /\ \A m \in Elems(rtn') \cup Elems(answers') : m.kind # "down"
  BY <1>1, <1>6, <1>7, BrokerSends
<1>8. CASE ThreadTime
  <2>1. UNCHANGED <<link, online, rtn>>
    BY <1>8 DEF ThreadTime, ReqQryOrder, ReqQryTrade, EraseSyn, ext
  <2> QED
    BY <1>1, <1>8, <2>1, TimeAnswers
<1>9. CASE Disconnect \/ Relogin
  BY <1>1, <1>9 DEF Disconnect, Relogin
<1>10. UNCHANGED <<link, online, rtn, answers>>
          => /\ link' /\ online'
             /\ \A m \in Elems(rtn') \cup Elems(answers') : m.kind # "down"
  BY <1>1
<1>11. CASE TakeOrder \/ OrderSent \/ TakeAction \/ ReqOrderAction \/ ActionSent
  BY <1>10, <1>11 DEF TakeOrder, OrderSent, TakeAction, ReqOrderAction, ActionSent, ext
<1>12. CASE AllTraded \/ OrderCanceled \/ ReopenStamp \/ SlotDue \/ UNCHANGED vars
  BY <1>10, <1>12 DEF AllTraded, OrderCanceled, ReopenStamp, SlotDue, ext, vars
<1>13. ASSUME NEW t \in Workers, CheckDoing(t) \/ Proceed(t)
       PROVE  /\ link' /\ online'
              /\ \A m \in Elems(rtn') \cup Elems(answers') : m.kind # "down"
  <2>1. UNCHANGED <<online, ext>>
    BY <1>13 DEF CheckDoing, Proceed, GetTarget, ScanIdle, CompareORTD, TargetWay, PushOrder,
                 StampNew, ScanLate, CancelCheck, CancelMark, PopTarget
  <2> QED
    BY <1>10, <2>1 DEF ext
<1> QED
  BY <1>3, <1>4, <1>5, <1>7, <1>8, <1>9, <1>11, <1>12, <1>13, Zenon DEF Next, Spi, Trading

-----------------------------------------------------------------------------
(* What is ordered, and what TargetWay is still going to order.            *)
TodoOf(w) == IF w.side = "buy" THEN SumFunction(w.todo) ELSE 0 - SumFunction(w.todo)
Total == SumFunction(Shares) + Sum(Workers, Todo)

LEMMA SumSingle ==
    ASSUME NEW t, NEW g \in [{t} -> Int]
    PROVE  SumFunction(g) = g[t]
<1>1. PICK h : h = [x \in {} |-> 0]
  OBVIOUS
<1>2. h \in [{} -> Int]
  BY <1>1
<1>3. IsFiniteSet({t})
  BY FS_Singleton
<1>4. PICK E, S : E = {} /\ S = {t}
  OBVIOUS
<1>5. t \notin E /\ S = E \cup {t} /\ h \in [E -> Int] /\ g \in [S -> Int] /\ IsFiniteSet(S)
      /\ \A y \in E : h[y] = g[y]
  BY <1>2, <1>3, <1>4
<1>6. SumFunction(g) = g[t] + SumFunction(h)
  BY <1>5, SumAdd
<1>7. SumFunction(h) = 0
  BY <1>2, SumEmpty
<1>8. g[t] \in Int
  OBVIOUS
<1> QED
  BY <1>6, <1>7, <1>8

(* One worker's orders to create.                                          *)
LEMMA OneTodo ==
    ASSUME NEW t, Workers = {t}, TypeInv, TypeInv'
    PROVE  /\ Sum(Workers, Todo) = TodoOf(worker[t]) /\ TodoOf(worker[t]) \in Int
           /\ Sum(Workers, Todo)' = TodoOf(worker'[t]) /\ TodoOf(worker'[t]) \in Int
<1>1. ASSUME NEW s \in Seq(1 .. Lot)
      PROVE  SumFunction(s) \in Int
  <2>1. PICK n \in Nat : n = Len(s)
    BY <1>1
  <2>2. s \in [1 .. n -> 1 .. Lot] /\ 1 .. Lot \subseteq Int
    BY <1>1, <2>1, CoreAssumption
  <2>3. s \in [1 .. n -> Int] /\ IsFiniteSet(1 .. n)
    BY <2>2, FS_Interval
  <2> QED
    BY <2>3, SumType
<1>2. worker[t].todo \in Seq(1 .. Lot) /\ worker'[t].todo \in Seq(1 .. Lot)
  BY DEF TypeInv, WorkersInv, WorkerOK, WorkerRec
<1>3. TodoOf(worker[t]) \in Int /\ TodoOf(worker'[t]) \in Int
  BY <1>1, <1>2 DEF TodoOf
<1>4. ASSUME NEW g \in [{t} -> Int]
      PROVE  SumFunction(g) = g[t]
  BY SumSingle
<1>5. PICK g : g = [x \in {t} |-> TodoOf(worker[x])]
  OBVIOUS
<1>6. PICK h : h = [x \in {t} |-> TodoOf(worker'[x])]
  OBVIOUS
<1>7. g \in [{t} -> Int] /\ g[t] = TodoOf(worker[t]) /\ h \in [{t} -> Int] /\ h[t] = TodoOf(worker'[t])
  BY <1>3, <1>5, <1>6
<1>8. Sum(Workers, Todo) = SumFunction(g)
  BY <1>5, Zenon DEF Sum, Todo, TodoOf
<1>9. Sum(Workers, Todo)' = SumFunction(h)
  BY <1>6, Zenon DEF Sum, Todo, TodoOf
<1> QED
  BY <1>3, <1>4, <1>7, <1>8, <1>9

(* No orders to create.                                                    *)
LEMMA NoTodo ==
    ASSUME NEW w, w.todo = <<>>
    PROVE  TodoOf(w) = 0
<1>1. PICK g : g = w.todo
  OBVIOUS
<1>2. g \in [{} -> Int]
  BY <1>1
<1>3. SumFunction(g) = 0
  BY <1>2, SumEmpty
<1> QED
  BY <1>1, <1>3 DEF TodoOf

LEMMA OneIdle ==
    ASSUME NEW t, Workers = {t}, worker[t].todo = <<>>
    PROVE  Sum(Workers, Todo) = 0
<1>1. PICK g : g = [x \in {t} |-> TodoOf(worker[x])]
  OBVIOUS
<1>2. TodoOf(worker[t]) = 0
  BY NoTodo
<1>3. g \in [{t} -> Int] /\ g[t] = 0
  BY <1>1, <1>2
<1>4. Sum(Workers, Todo) = SumFunction(g)
  BY <1>1, Zenon DEF Sum, Todo, TodoOf
<1> QED
  BY <1>3, <1>4, SumSingle

LEMMA ShareValuesNext ==
    TypeInv' /\ World' => Shares' \in [1 .. Len(order') -> Nat]
<1> DEFINE Says == Shares \in [1 .. Len(order) -> Nat]
<1>1. TypeInv /\ World => Says
  BY ShareValues
<1>2. TypeInv' /\ World' => Says'
  <2> HIDE DEF Says
  <2> QED
    BY <1>1, PTL
<1> QED
  BY <1>2

(* The sum once there is one more order.                                   *)
LEMMA SharesGrow ==
    ASSUME TypeInv, World, TypeInv', World', Len(order') = Len(order) + 1,
           NEW f \in [1 .. Len(order) -> Int], NEW last, last = Len(order'),
           \A r \in 1 .. Len(order) : Share(r)' <= f[r] /\ (Harmless => Share(r)' = f[r])
    PROVE  /\ SumFunction(Shares') <= SumFunction(f) + Share(last)'
           /\ Harmless => SumFunction(Shares') = SumFunction(f) + Share(last)'
<1>1. PICK n \in Nat : n = Len(order)
  BY DEF TypeInv, OrdersInv
<1>2. PICK s : s = Shares'
  OBVIOUS
<1>3. s \in [1 .. n + 1 -> Int] /\ \A r \in 1 .. n + 1 : s[r] = Share(r)'
  <2>1. s \in [1 .. Len(order') -> Nat]
    BY <1>2, ShareValuesNext
  <2>2. s = [r \in 1 .. Len(order') |-> Share(r)']
    BY <1>2 DEF Shares
  <2> QED
    BY <1>1, <2>1, <2>2
<1>4. PICK h : h = [r \in 1 .. n |-> s[r]]
  OBVIOUS
<1>5. h \in [1 .. n -> Int] /\ \A i \in 1 .. n : h[i] = s[i]
  BY <1>1, <1>3, <1>4
<1>6. SumFunction(s) = SumFunction(h) + s[n + 1]
  BY <1>3, <1>5, SumLast
<1>7. f \in [1 .. n -> Int] /\ \A r \in 1 .. n : h[r] <= f[r] /\ (Harmless => h[r] = f[r])
  BY <1>1, <1>3, <1>5
<1>8. IsFiniteSet(1 .. n)
  BY FS_Interval
<1>9. SumFunction(h) <= SumFunction(f)
  BY <1>5, <1>7, <1>8, SumMonotonic
<1>10. Harmless => h = f
  BY <1>5, <1>7
<1>11. SumFunction(h) \in Int /\ SumFunction(f) \in Int /\ s[n + 1] \in Int
  BY <1>3, <1>5, <1>7, <1>8, SumType
<1>12. s[n + 1] = Share(last)'
  <2>1. last \in 1 .. n + 1 /\ last = n + 1
    BY <1>1
  <2> QED
    BY <1>3, <2>1
<1> QED
  BY <1>2, <1>6, <1>9, <1>10, <1>11, <1>12

(* An order that was just queued counts for its volume.                    *)
LEMMA NewShare ==
    ASSUME TypeInv', NEW n, n = Len(order'), n \in 1 .. Len(order'),
           NEW x, order'[n] = x, cqOrder' = Append(cqOrder, Len(order')), TypeInv
    PROVE  Share(n)' = x.vol
<1>1. cqOrder \in Seq(Refs)
  BY DEF TypeInv, OrdersInv
<1>2. PICK c : c = cqOrder
  OBVIOUS
<1>3. PICK d : d = cqOrder'
  OBVIOUS
<1>4. d = Append(c, n) /\ c \in Seq(Refs)
  BY <1>1, <1>2, <1>3
<1>5. Len(c) + 1 \in DOMAIN d /\ d[Len(c) + 1] = n
  BY <1>4
<1>6. InQueue(n)'
  BY <1>3, <1>5 DEF InQueue
<1>7. Open(n)'
  BY <1>6, OpenMeansNext
<1> QED
  BY <1>7 DEF Share

LEMMA ShareSum ==
    ASSUME TypeInv, World
    PROVE  SumFunction(Shares) \in Nat
<1>1. PICK n \in Nat : n = Len(order)
  BY DEF TypeInv, OrdersInv
<1>2. PICK s : s = Shares
  OBVIOUS
<1>3. s \in [1 .. n -> Nat] /\ IsFiniteSet(1 .. n)
  BY <1>1, <1>2, ShareValues, FS_Interval
<1> QED
  BY <1>2, <1>3, SumNat

LEMMA ShareSumNext ==
    TypeInv' /\ World' => SumFunction(Shares') \in Nat
<1> DEFINE Says == SumFunction(Shares) \in Nat
<1>1. TypeInv /\ World => Says
  BY ShareSum
<1>2. TypeInv' /\ World' => Says'
  <2> HIDE DEF Says
  <2> QED
    BY <1>1, PTL
<1> QED
  BY <1>2

(* The first of a sequence and the rest.                                   *)
LEMMA SeqFun ==
    ASSUME NEW S, NEW q \in Seq(S), NEW k \in Nat, k = Len(q)
    PROVE  q \in [1 .. k -> S]
OBVIOUS

LEMMA SumHead ==
    ASSUME NEW s \in Seq(1 .. Lot), s # <<>>
    PROVE  SumFunction(s) = Head(s) + SumFunction(Tail(s))
<1>1. PICK u : u = Tail(s)
  OBVIOUS
<1>2. PICK n \in Nat : n = Len(u) /\ Len(s) = n + 1
  BY <1>1
<1>3. PICK g \in [1 .. 1 -> Int] : g[1] = s[1]
  <2>1. PICK e \in Int : e = s[1]
    BY <1>2, CoreAssumption
  <2>2. PICK g : g = [i \in 1 .. 1 |-> e]
    OBVIOUS
  <2>3. g \in [1 .. 1 -> Int] /\ g[1] = e
    BY <2>2
  <2> QED
    BY <2>1, <2>3
<1>4. u \in [1 .. n -> Int] /\ s \in [1 .. 1 + n -> Int]
  <2>1. u \in [1 .. n -> 1 .. Lot] /\ s \in [1 .. n + 1 -> 1 .. Lot]
    <3>1. PICK S : S = 1 .. Lot
      OBVIOUS
    <3>2. u \in Seq(1 .. Lot)
      BY <1>1, SeqTail
    <3>3. n + 1 \in Nat
      OBVIOUS
    <3>4. u \in [1 .. n -> S]
      BY <1>2, <3>1, <3>2, SeqFun
    <3>5. s \in [1 .. n + 1 -> S]
      BY <1>2, <3>1, <3>3, SeqFun
    <3> QED
      BY <3>1, <3>4, <3>5
  <2>2. 1 .. Lot \subseteq Int /\ 1 + n = n + 1
    BY CoreAssumption
  <2> QED
    BY <2>1, <2>2
<1>5. /\ \A i \in 1 .. 1 : s[i] = g[i]
      /\ \A i \in 1 .. n : s[1 + i] = u[i]
  BY <1>1, <1>2, <1>3
<1>6. PICK m \in Nat : m = 1
  OBVIOUS
<1>7. SumFunction(s) = SumFunction(g) + SumFunction(u)
  <2>1. /\ g \in [1 .. m -> Int] /\ s \in [1 .. m + n -> Int]
        /\ \A i \in 1 .. m : s[i] = g[i]
        /\ \A i \in 1 .. n : s[m + i] = u[i]
    BY <1>3, <1>4, <1>5, <1>6
  <2> QED
    BY <1>4, <2>1, SumConcat
<1>8. SumFunction(g) = s[1]
  BY <1>3, SumOne
<1> QED
  BY <1>1, <1>7, <1>8

(* TARGET_LOOP's turn moves an order from what is to be created to what is *)
(* queued.                                                                 *)
LEMMA PushTotal ==
    ASSUME TypeInv, World, TypeInv', World', Grows, NEW t, Workers = {t}, PushOrder(t),
           worker[t].side = "buy"
    PROVE  /\ Total' <= Total /\ (Harmless => Total' = Total)
           /\ worker'[t].side = "buy" /\ worker'[t].pc = "stamp"
           /\ worker'[t].ctx = worker[t].ctx
<1>1. PICK w : w = worker[t]
  OBVIOUS
<1>2. WorkerOK(w) /\ w.pc = "push" /\ w.side = "buy"
  BY <1>1, WorkerNow DEF PushOrder
<1>3. PICK s \in Seq(1 .. Lot) : s = w.todo /\ s # <<>>
  BY <1>2 DEF WorkerOK, WorkerRec
<1>4. PICK u : u = Tail(s)
  OBVIOUS
<1>5. PICK h : h = Head(s)
  OBVIOUS
<1>6. u \in Seq(1 .. Lot) /\ h \in 1 .. Lot /\ Lot \in Nat
  BY <1>3, <1>4, <1>5, SeqTail, CoreAssumption
<1>7. PICK n : n = Len(order')
  OBVIOUS
<1>8. worker'[t] = [w EXCEPT !.pc = "stamp", !.todo = u, !.ref = n]
  BY <1>1, <1>3, <1>4, <1>7 DEF PushOrder, Goto, TypeInv, WorkersInv
<1>9. /\ worker'[t].todo = u /\ worker'[t].side = "buy" /\ worker'[t].pc = "stamp"
      /\ worker'[t].ctx = w.ctx
  BY <1>2, <1>8 DEF WorkerOK, WorkerRec
<1>10. PICK x \in OrderRec : x = [side |-> "buy", vol |-> h]
  BY <1>6 DEF OrderRec, Sides
<1>11. order' = Append(order, x) /\ cqOrder' = Append(cqOrder, Len(order'))
  BY <1>1, <1>2, <1>3, <1>5, <1>10, Zenon DEF PushOrder
<1>12. /\ Len(order') = Len(order) + 1 /\ n \in 1 .. Len(order') /\ order'[n] = x
       /\ \A r \in 1 .. Len(order) : order'[r] = order[r]
  BY <1>7, <1>11 DEF TypeInv, OrdersInv
<1>13. Share(n)' = h
  <2>1. Share(n)' = x.vol
    BY <1>7, <1>11, <1>12, NewShare
  <2> QED
    BY <1>10, <2>1
<1>14. PICK f : f = Shares
  OBVIOUS
<1>15. f \in [1 .. Len(order) -> Nat] /\ \A r \in 1 .. Len(order) : f[r] = Share(r)
  BY <1>14, ShareValues DEF Shares
<1>16. ASSUME NEW r \in 1 .. Len(order)
       PROVE  Share(r)' <= f[r] /\ (Harmless => Share(r)' = f[r])
  <2>1. UNCHANGED exch /\ Steady(r)
    BY PushSteady DEF PushOrder, ext
  <2>2. order'[r] = order[r] /\ exch'[r].done \in Nat
        /\ exch'[r].st \in {"none", "live", "all", "canceled", "rejected"}
    BY <1>12, <2>1, OrderValues
  <2> QED
    BY <1>15, <2>1, <2>2, ShareSteady
<1>17. /\ SumFunction(Shares') <= SumFunction(f) + h
       /\ Harmless => SumFunction(Shares') = SumFunction(f) + h
  <2>1. f \in [1 .. Len(order) -> Int]
    BY <1>15
  <2> QED
    BY <1>7, <1>12, <1>13, <1>16, <2>1, SharesGrow
<1>18. SumFunction(s) = h + SumFunction(u)
  BY <1>3, <1>4, <1>5, <1>6, SumHead
<1>19. TodoOf(w) = SumFunction(s) /\ TodoOf(worker'[t]) = SumFunction(u)
  BY <1>2, <1>3, <1>9 DEF TodoOf
<1>20. /\ Sum(Workers, Todo) = SumFunction(s) /\ SumFunction(s) \in Int
       /\ Sum(Workers, Todo)' = SumFunction(u) /\ SumFunction(u) \in Int
  BY <1>1, <1>19, OneTodo
<1>21. SumFunction(Shares) \in Nat /\ SumFunction(Shares)' \in Nat /\ SumFunction(Shares)' = SumFunction(Shares')
  BY ShareSum, ShareSumNext
<1>22. Total = SumFunction(f) + SumFunction(s) /\ Total' = SumFunction(Shares') + SumFunction(u)
  BY <1>14, <1>20, <1>21 DEF Total
<1>23. Total' <= Total /\ (Harmless => Total' = Total)
  BY <1>6, <1>14, <1>17, <1>18, <1>20, <1>21, <1>22
<1> QED
  BY <1>1, <1>9, <1>23

(* A cancelled order gives up its rest to the one it is reopened as.       *)
LEMMA CanceledTotal ==
    ASSUME TypeInv, World, TypeInv', World', Grows, Buys, OrderCanceled
    PROVE  /\ SumFunction(Shares') <= SumFunction(Shares)
           /\ Harmless => SumFunction(Shares') = SumFunction(Shares)
           /\ \A r \in 1 .. Len(order') : order'[r].side = "buy"
<1>1. PICK r : r = spi.ref
  OBVIOUS
<1>2. PICK rem : rem = spi.msg.rem
  OBVIOUS
<1>3. spi.pc = "final" /\ spi.msg.st = "canceled" /\ UNCHANGED <<mapOrder, trader, exch>>
  BY DEF OrderCanceled, ext
<1>4. /\ r \in Refs /\ r \in 1 .. Len(order) /\ mapOrder[r].st \in Final
      /\ exch[r].st = "canceled" /\ rem = Left(r) /\ rem \in 0 .. order[r].vol /\ rem > 0
  BY <1>1, <1>2, <1>3, FinalFacts
<1>5. order[r].side = "buy" /\ r \notin noReopen
  BY <1>4 DEF Buys
<1>6. order[r].vol \in 1 .. Lot /\ order[r].vol \in Nat /\ exch[r].done \in Nat
      /\ rem = order[r].vol - exch[r].done
  BY <1>4, OrderFacts, OrderValues DEF TypeInv, Left
<1>7. PICK x \in OrderRec : x = [side |-> "buy", vol |-> rem]
  <2>1. rem \in 1 .. Lot
    BY <1>4, <1>6, CoreAssumption
  <2> QED
    BY <2>1 DEF OrderRec, Sides
<1>8. /\ order' = Append(order, x) /\ cqOrder' = Append(cqOrder, Len(order'))
      /\ spi' = [spi EXCEPT !.pc = "stamp", !.ref = Len(order')]
  <2>1. ~Lacks(posORD, order[r].side, FilledOf(r, rem))
    BY <1>5 DEF Lacks
  <2> QED
    BY <1>1, <1>2, <1>5, <1>7, <2>1, Zenon DEF OrderCanceled, ReopenVol
<1>9. PICK n : n = Len(order')
  OBVIOUS
<1>10. /\ Len(order') = Len(order) + 1 /\ n \in 1 .. Len(order') /\ order'[n] = x
       /\ \A q \in 1 .. Len(order) : order'[q] = order[q]
       /\ \A q \in 1 .. Len(order') : q = n \/ q \in 1 .. Len(order)
  BY <1>8, <1>9 DEF TypeInv, OrdersInv
<1>11. Share(n)' = rem
  <2>1. Share(n)' = x.vol
    BY <1>8, <1>9, <1>10, NewShare
  <2> QED
    BY <1>7, <2>1
<1>12. Share(r) = order[r].vol
  <2>1. ~Booked(r)
    BY <1>1, <1>3 DEF Booked, Handling
  <2>2. Open(r)
    BY <1>4, <2>1, OpenMeans
  <2> QED
    BY <2>2 DEF Share
<1>13. Share(r)' = exch[r].done
  <2>1. spi'.pc = "stamp"
    BY <1>8 DEF TypeInv, BooksInv, SpiRec
  <2>2. Booked(r)'
    BY <1>3, <1>4, <2>1 DEF Booked, Handling
  <2>3. exch'[r].st = "canceled" /\ r \in 1 .. Len(order')
    BY <1>3, <1>4, <1>10
  <2>4. ~InQueue(r)' /\ ~Inserting(r)'
    BY <2>3 DEF InQueue, Inserting, World, WaitsOnce
  <2>5. ~Open(r)'
    BY <2>2, <2>3, <2>4, OpenMeansNext
  <2> QED
    BY <1>3, <2>5 DEF Share
<1>14. PICK f : f = Shares
  OBVIOUS
<1>15. f \in [1 .. Len(order) -> Nat] /\ \A q \in 1 .. Len(order) : f[q] = Share(q)
  BY <1>14, ShareValues DEF Shares
<1>16. PICK g : g = [f EXCEPT ![r] = exch[r].done]
  OBVIOUS
<1>17. /\ g \in [1 .. Len(order) -> Int] /\ g[r] = exch[r].done
       /\ \A q \in 1 .. Len(order) : q # r => g[q] = f[q]
  BY <1>4, <1>6, <1>15, <1>16
<1>18. ASSUME NEW q \in 1 .. Len(order)
       PROVE  Share(q)' <= g[q] /\ (Harmless => Share(q)' = g[q])
  <2>1. CASE q = r
    BY <1>6, <1>13, <1>17, <2>1
  <2>2. CASE q # r
    <3>1. Steady(q)
      BY <1>1, <2>2, FinalSteady
    <3>2. order'[q] = order[q] /\ exch'[q].done \in Nat
          /\ exch'[q].st \in {"none", "live", "all", "canceled", "rejected"}
      BY <1>3, <1>10, OrderValues
    <3>3. Share(q)' <= Share(q) /\ (Harmless => Share(q)' = Share(q))
      BY <3>1, <3>2, ShareSteady
    <3> QED
      BY <1>15, <1>17, <2>2, <3>3
  <2> QED
    BY <2>1, <2>2
<1>19. /\ SumFunction(Shares') <= SumFunction(g) + rem
       /\ Harmless => SumFunction(Shares') = SumFunction(g) + rem
  BY <1>9, <1>10, <1>11, <1>17, <1>18, SharesGrow
<1>20. SumFunction(g) = SumFunction(f) + (exch[r].done - order[r].vol)
  <2>1. PICK N : N = 1 .. Len(order)
    OBVIOUS
  <2>2. IsFiniteSet(N) /\ f \in [N -> Int] /\ g \in [N -> Int] /\ r \in N
        /\ \A q \in N \ {r} : g[q] = f[q]
    BY <1>4, <1>15, <1>17, <2>1, OrderFacts DEF TypeInv
  <2>3. SumFunction(g) = SumFunction(f) + (g[r] - f[r])
    BY <2>2, SumChange
  <2>4. g[r] = exch[r].done /\ f[r] = order[r].vol
    BY <1>4, <1>12, <1>15, <1>17
  <2> QED
    BY <2>3, <2>4
<1>21. SumFunction(f) \in Nat /\ SumFunction(Shares') \in Nat
  BY <1>14, ShareSum, ShareSumNext
<1>22. \A q \in 1 .. Len(order') : order'[q].side = "buy"
  BY <1>7, <1>10 DEF Buys
<1> QED
  BY <1>6, <1>14, <1>19, <1>20, <1>21, <1>22

(* The other steps order nothing.                                          *)
LEMMA SameTotal ==
    ASSUME TypeInv, World, TypeInv', World', UNCHANGED order,
           \A r \in 1 .. Len(order) : Steady(r),
           Sum(Workers, Todo)' = Sum(Workers, Todo), Sum(Workers, Todo) \in Int
    PROVE  Total' <= Total /\ (Harmless => Total' = Total)
<1>1. PICK a \in Nat : a = SumFunction(Shares)
  BY ShareSum
<1>2. PICK b \in Nat : b = SumFunction(Shares')
  BY ShareSumNext
<1>3. b <= a /\ (Harmless => b = a)
  BY <1>1, <1>2, SharesSteady
<1>4. PICK c \in Int : c = Sum(Workers, Todo)
  OBVIOUS
<1>5. Total = a + c /\ Total' = b + c
  BY <1>1, <1>2, <1>4 DEF Total
<1> QED
  BY <1>3, <1>5

-----------------------------------------------------------------------------
(* How far the first target is.  Before it is settled nothing is ordered;  *)
(* TargetWay creates its orders and gives the target back; then they are   *)
(* only reopened.                                                          *)
Waits(w) ==
    /\ w.todo = <<>> /\ w.pc \in {"idle", "get", "scan", "ready", "compared"}
    /\ w.pc \in Settling => plan.due > 0 /\ w.tgt = plan.queue[1]
Creates(w) ==
    \/ w.pc \in {"push", "stamp"} /\ w.side = "buy" /\ w.ctx # "cut"
    \/ w.todo = <<>> /\ w.pc \in {"late", "pop"}
    \/ w.todo = <<>> /\ w.pc \in {"cancel", "mark"} /\ w.ctx = "late"
Rests(w) ==
    /\ w.todo = <<>>
    /\ \/ w.pc \in {"idle", "get", "scan"}
       \/ w.pc \in {"cancel", "mark"} /\ w.ctx = "scan"

NotYet ==
    /\ order = <<>> /\ posORD = 0 /\ plan.queue = plan.scn.slots
    /\ \A t \in Workers : Waits(worker[t])
Creating ==
    /\ plan.due = 1 /\ Len(plan.queue) = Len(plan.scn.slots)
    /\ \A t \in Workers : Creates(worker[t])
Settled ==
    /\ plan.due = 0 /\ Len(plan.queue) + 1 = Len(plan.scn.slots)
    /\ \A t \in Workers : Rests(worker[t])

(* What is ordered by then is the first target, or less.                   *)
Within ==
    /\ Len(plan.scn.slots) > 0
    /\ Total <= plan.scn.slots[1] /\ (Harmless => Total = plan.scn.slots[1])

Stage == Buys /\ (NotYet \/ (Within /\ (Creating \/ Settled)))
StageInv == Linked /\ (DueSlots <= 1 /\ AtOnce => Stage)

LEMMA SlotsNat ==
    ASSUME TypeInv
    PROVE  /\ plan.scn.slots \in Seq(Nat) /\ Len(plan.scn.slots) \in Nat
           /\ plan.queue \in Seq(Nat) /\ Len(plan.queue) \in Nat
           /\ plan.due \in Nat /\ plan.due <= Len(plan.queue)
           /\ DueSlots \in Int /\ DueSlots = Len(plan.scn.slots) - Len(plan.queue) + plan.due
<1>1. plan \in PlanRec /\ plan.due <= Len(plan.queue)
  BY DEF TypeInv, PlanInv
<1>2. plan.scn \in Scenarios /\ plan.queue \in Seq(Nat) /\ plan.due \in Nat
  BY <1>1 DEF PlanRec
<1>3. PICK s \in Seq(Nat) : s = plan.scn.slots
  BY <1>2, CoreAssumption
<1>4. PICK q \in Seq(Nat) : q = plan.queue
  BY <1>2
<1>5. PICK d \in Nat : d = plan.due
  BY <1>2
<1>6. Len(s) \in Nat /\ Len(q) \in Nat
  OBVIOUS
<1>7. Len(s) - Len(q) + d \in Int
  BY <1>6
<1>8. DueSlots = Len(s) - Len(q) + d
  BY <1>3, <1>4, <1>5 DEF DueSlots
<1> QED
  BY <1>1, <1>3, <1>4, <1>5, <1>6, <1>7, <1>8

LEMMA DueInt == TypeInv' => DueSlots' \in Int
<1> DEFINE Says == DueSlots \in Int
<1>1. TypeInv => Says
  BY SlotsNat
<1>2. TypeInv' => Says'
  <2> HIDE DEF Says
  <2> QED
    BY <1>1, PTL
<1> QED
  BY <1>2

(* What the steps do to the plan.                                          *)
LEMMA PlanGoes ==
    ASSUME TypeInv, [Next]_vars
    PROVE  /\ plan'.scn = plan.scn
           /\ \/ UNCHANGED plan
              \/ SlotDue /\ plan'.due = plan.due + 1 /\ plan'.queue = plan.queue
              \/ /\ plan.due > 0 /\ plan'.due = 1
                 /\ plan'.queue = SubSeq(plan.queue, plan.due, Len(plan.queue))
                 /\ \E t \in Workers : GetTarget(t)
              \/ /\ plan.queue # <<>> /\ plan'.queue = Tail(plan.queue)
                 /\ plan'.due = IF plan.due = 0 THEN 0 ELSE plan.due - 1
                 /\ \E t \in Workers : PopTarget(t)
<1>1. plan'.scn = plan.scn
  BY ScnKept
<1>2. plan \in PlanRec
  BY DEF TypeInv, PlanInv
<1>3. SlotDue => plan'.due = plan.due + 1 /\ plan'.queue = plan.queue
  BY <1>2 DEF SlotDue, PlanRec
<1>4. ASSUME NEW t \in Workers, GetTarget(t)
      PROVE  \/ UNCHANGED plan
             \/ /\ plan.due > 0 /\ plan'.due = 1
                /\ plan'.queue = SubSeq(plan.queue, plan.due, Len(plan.queue))
  BY <1>2, <1>4 DEF GetTarget, AfterGet, PlanRec
<1>5. ASSUME NEW t \in Workers, PopTarget(t)
      PROVE  \/ UNCHANGED plan
             \/ /\ plan.queue # <<>> /\ plan'.queue = Tail(plan.queue)
                /\ plan'.due = IF plan.due = 0 THEN 0 ELSE plan.due - 1
  BY <1>2, <1>5 DEF PopTarget, AfterPop, PlanRec
<1>6. ASSUME NEW t \in Workers, CheckDoing(t) \/ Proceed(t)
      PROVE  GetTarget(t) \/ PopTarget(t) \/ UNCHANGED plan
  BY <1>6 DEF CheckDoing, Proceed, ScanIdle, CompareORTD, TargetWay, PushOrder, StampNew,
              ScanLate, CancelCheck, CancelMark
<1>7. Trading \/ Spi \/ ThreadTime \/ Disconnect \/ Relogin \/ UNCHANGED vars => UNCHANGED plan
  BY DEF ThreadTime, ReqQryOrder, ReqQryTrade, EraseSyn, Disconnect, Relogin, Trading,
         TakeOrder, ReqOrderInsert, OrderSent, TakeAction, ReqOrderAction, ActionSent,
         Spi, OnRtn, OnRspQry, AllTraded, OrderCanceled, ReopenStamp, vars
<1>8. ASSUME NEW r \in 1 .. Len(order), Broker(r)
      PROVE  UNCHANGED plan
  BY <1>8 DEF Broker, CancelRequested, ExchangeCancels, Cancel, Fill
<1>9. \/ SlotDue \/ UNCHANGED plan
      \/ \E t \in Workers : GetTarget(t) \/ PopTarget(t)
  BY <1>6, <1>7, <1>8, Zenon DEF Next
<1> QED
  BY <1>1, <1>3, <1>4, <1>5, <1>9

(* A target that was due stays so.                                         *)
LEMMA DueGrows ==
    ASSUME TypeInv, TypeInv', [Next]_vars
    PROVE  DueSlots' >= DueSlots
<1>1. PICK q \in Seq(Nat) : q = plan.queue
  BY SlotsNat
<1>2. PICK d \in Nat, n \in Nat : d = plan.due /\ n = Len(q) /\ d <= n
  BY <1>1, SlotsNat
<1>3. PICK s \in Nat : s = Len(plan.scn.slots) /\ DueSlots = s - n + d
  BY <1>1, <1>2, SlotsNat
<1>4. PICK p : p = plan'.queue
  OBVIOUS
<1>5. plan'.scn = plan.scn
  BY ScnKept
<1>6. DueSlots' = s - Len(p) + plan'.due
  BY <1>3, <1>4, <1>5 DEF DueSlots
<1>7. \/ UNCHANGED plan
      \/ plan'.due = d + 1 /\ p = q
      \/ d > 0 /\ plan'.due = 1 /\ p = SubSeq(q, d, n)
      \/ q # <<>> /\ p = Tail(q) /\ plan'.due = IF d = 0 THEN 0 ELSE d - 1
  BY <1>1, <1>2, <1>4, PlanGoes
<1>8. CASE UNCHANGED plan
  <2>1. p = q /\ plan'.due = d
    BY <1>1, <1>2, <1>4, <1>8
  <2> QED
    BY <1>2, <1>3, <1>6, <2>1
<1>9. CASE plan'.due = d + 1 /\ p = q
  BY <1>2, <1>3, <1>6, <1>9
<1>10. CASE d > 0 /\ plan'.due = 1 /\ p = SubSeq(q, d, n)
  <2>1. Len(p) = n - d + 1
    BY <1>2, <1>10
  <2> QED
    BY <1>3, <1>6, <1>10, <2>1
<1>11. CASE q # <<>> /\ p = Tail(q) /\ plan'.due = IF d = 0 THEN 0 ELSE d - 1
  <2>1. n > 0 /\ Len(p) = n - 1
    BY <1>2, <1>11
  <2>2. PICK e \in Nat : e = plan'.due /\ e >= d - 1
    <3>1. (IF d = 0 THEN 0 ELSE d - 1) \in Nat /\ (IF d = 0 THEN 0 ELSE d - 1) >= d - 1
      BY ONLY d \in Nat
    <3> QED
      BY <1>11, <3>1
  <2>3. s - (n - 1) + e >= s - n + d
    BY ONLY s \in Nat, n \in Nat, d \in Nat, e \in Nat, <2>2
  <2> QED
    BY <1>3, <1>6, <2>1, <2>2, <2>3
<1> QED
  BY <1>7, <1>8, <1>9, <1>10, <1>11

(* ThreadAlgo alone: what holds of every worker holds of it.               *)
LEMMA AlgoGoes ==
    ASSUME TypeInv, NEW t, Workers = {t}, NEW v, Goto(t, v)
    PROVE  worker'[t] = v
BY DEF TypeInv, WorkersInv, Goto

LEMMA ScanGoes ==
    ASSUME NEW t \in Workers, NEW base, NEW c, NEW otherwise, Scan(t, base, c, otherwise)
    PROVE  \E E \in Expired :
               \/ E = {} /\ Goto(t, otherwise)
               \/ Goto(t, [base EXCEPT !.pc = "cancel", !.cset = E, !.ctx = c])
<1>1. PICK E \in Expired : Goto(t, IF E = {} THEN otherwise
                                   ELSE [base EXCEPT !.pc = "cancel", !.cset = E, !.ctx = c])
  BY Zenon DEF Scan
<1> QED
  BY <1>1

(* CancelWay's list, from the cancels of TargetWay's end and those of an   *)
(* idle tick.                                                              *)
LEMMA CancelGoes ==
    ASSUME NEW w, WorkerOK(w), w.pc \in {"cancel", "mark"}, w.ctx \in {"late", "scan"}, w.todo = <<>>
    PROVE  /\ AfterCancel(w).todo = <<>>
           /\ w.ctx = "late" => \/ AfterCancel(w).pc = "pop"
                                \/ AfterCancel(w).pc = "cancel" /\ AfterCancel(w).ctx = "late"
           /\ w.ctx = "scan" => \/ AfterCancel(w).pc = "idle"
                                \/ AfterCancel(w).pc = "cancel" /\ AfterCancel(w).ctx = "scan"
<1>1. NoWork.pc = "idle" /\ NoWork.todo = <<>>
  BY DEF NoWork
<1>2. PICK a : a = [w EXCEPT !.pc = "cancel", !.ref = 0]
  OBVIOUS
<1>3. a.pc = "cancel" /\ a.todo = <<>> /\ a.ctx = w.ctx
  BY <1>2 DEF WorkerOK, WorkerRec
<1>4. PICK b : b = [w EXCEPT !.pc = "pop", !.ref = 0]
  OBVIOUS
<1>5. b.pc = "pop" /\ b.todo = <<>>
  BY <1>4 DEF WorkerOK, WorkerRec
<1>6. AfterCancel(w) = IF w.cset # {} THEN a ELSE IF w.ctx = "late" THEN b ELSE NoWork
  BY <1>2, <1>4, Zenon DEF AfterCancel
<1>7. "late" # "scan"
  OBVIOUS
<1> QED
  BY <1>1, <1>3, <1>5, <1>6, <1>7

LEMMA ListGoes ==
    ASSUME TypeInv, NEW t, Workers = {t}, NEW w, w = worker[t], w.todo = <<>>,
           w.ctx \in {"late", "scan"}, CancelCheck(t) \/ CancelMark(t)
    PROVE  /\ w.pc \in {"cancel", "mark"}
           /\ worker'[t].todo = <<>>
           /\ w.ctx = "late" => \/ worker'[t].pc = "pop"
                                \/ worker'[t].pc \in {"cancel", "mark"} /\ worker'[t].ctx = "late"
           /\ w.ctx = "scan" => \/ worker'[t].pc = "idle"
                                \/ worker'[t].pc \in {"cancel", "mark"} /\ worker'[t].ctx = "scan"
           /\ noReopen = {} => noReopen' = {}
<1>1. WorkerOK(w)
  BY WorkerNow
<1>2. CASE CancelMark(t)
  <2>1. /\ w.pc = "mark" /\ Goto(t, AfterCancel(w))
        /\ noReopen' = IF w.ctx = "turn" THEN noReopen \cup {w.ref} ELSE noReopen \ {w.ref}
    BY <1>2 DEF CancelMark
  <2>2. worker'[t] = AfterCancel(w)
    BY <2>1, AlgoGoes
  <2>3. noReopen = {} => noReopen' = {}
    BY <2>1
  <2> QED
    BY <1>1, <2>1, <2>2, <2>3, CancelGoes
<1>3. CASE CancelCheck(t)
  <2>1. PICK r \in w.cset :
           \/ Goto(t, [[w EXCEPT !.cset = w.cset \ {r}] EXCEPT !.pc = "mark", !.ref = r])
           \/ Goto(t, AfterCancel([w EXCEPT !.cset = w.cset \ {r}]))
    BY <1>3 DEF CancelCheck
  <2>2. w.pc = "cancel" /\ UNCHANGED noReopen /\ w.cset \in SUBSET Refs
    BY <1>1, <1>3 DEF CancelCheck, queues, WorkerOK, WorkerRec
  <2>3. PICK rest : rest = [w EXCEPT !.cset = w.cset \ {r}]
    OBVIOUS
  <2>4. WorkerOK(rest) /\ rest.pc = "cancel" /\ rest.ctx = w.ctx /\ rest.todo = <<>>
    <3>1. w.cset \ {r} \in SUBSET Refs /\ w.pc \notin {"push", "mark"}
      BY <2>2
    <3>2. WorkerOK(rest)
      BY <1>1, <2>3, <3>1, WorkerRest
    <3> QED
      BY <1>1, <2>2, <2>3, <3>2 DEF WorkerOK, WorkerRec
  <2>5. PICK m : m = [rest EXCEPT !.pc = "mark", !.ref = r]
    OBVIOUS
  <2>6. m.pc = "mark" /\ m.ctx = w.ctx /\ m.todo = <<>>
    BY <2>4, <2>5 DEF WorkerOK, WorkerRec
  <2>7. worker'[t] = m \/ worker'[t] = AfterCancel(rest)
    <3>1. Goto(t, m) \/ Goto(t, AfterCancel(rest))
      BY <2>1, <2>3, <2>5
    <3> QED
      BY <3>1, AlgoGoes
  <2>8. CASE worker'[t] = m
    BY <2>2, <2>6, <2>8
  <2>9. CASE worker'[t] = AfterCancel(rest)
    BY <2>2, <2>4, <2>9, CancelGoes
  <2> QED
    BY <2>7, <2>8, <2>9
<1> QED
  BY <1>2, <1>3

-----------------------------------------------------------------------------
(* The target is settled: only what hangs is cancelled and reopened.       *)
LEMMA RestsOn ==
    ASSUME TypeInv, NEW t, t = "algo", Workers = {t}, CheckDoing(t) \/ Proceed(t),
           Rests(worker[t]), plan.due = 0
    PROVE  /\ Rests(worker'[t]) /\ UNCHANGED <<plan, order>>
           /\ noReopen = {} => noReopen' = {}
<1>1. PICK w : w = worker[t]
  OBVIOUS
<1>2. WorkerOK(w) /\ w.todo = <<>> /\ w.ctx \in Ctxs
  BY <1>1, WorkerNow DEF Rests, WorkerOK, WorkerRec
<1>3. NoWork.todo = <<>> /\ NoWork.pc = "idle"
  BY DEF NoWork
<1>4. ASSUME NEW p, Goto(t, [NoWork EXCEPT !.pc = p]), p \in {"get", "scan"}
      PROVE  Rests(worker'[t])
  <2>1. PICK v : v = [NoWork EXCEPT !.pc = p]
    OBVIOUS
  <2>2. v.pc = p /\ v.todo = <<>>
    BY <2>1 DEF NoWork
  <2>3. worker'[t] = v
    BY <1>4, <2>1, AlgoGoes
  <2> QED
    BY <1>4, <2>2, <2>3 DEF Rests
<1>5. CASE CheckDoing(t)
  <2>1. PICK p \in {"get", "scan"} : p = IF Blockers = {} THEN "get" ELSE "scan"
    OBVIOUS
  <2>2. Goto(t, [NoWork EXCEPT !.pc = p]) /\ UNCHANGED <<plan, queues>>
    BY <1>5, <2>1 DEF CheckDoing
  <2> QED
    BY <1>4, <2>2 DEF queues
<1>6. CASE GetTarget(t)
  <2>1. Goto(t, [NoWork EXCEPT !.pc = "scan"]) /\ UNCHANGED <<plan, queues>>
    BY <1>6 DEF GetTarget
  <2> QED
    BY <1>4, <2>1 DEF queues
<1>7. CASE ScanIdle(t)
  <2>1. UNCHANGED <<plan, queues>>
    BY <1>7 DEF ScanIdle
  <2>2. PICK E \in Expired :
           \/ E = {} /\ Goto(t, NoWork)
           \/ Goto(t, [NoWork EXCEPT !.pc = "cancel", !.cset = E, !.ctx = "scan"])
    BY <1>7, ScanGoes DEF ScanIdle
  <2>3. PICK v : v = [NoWork EXCEPT !.pc = "cancel", !.cset = E, !.ctx = "scan"]
    OBVIOUS
  <2>4. v.pc = "cancel" /\ v.todo = <<>> /\ v.ctx = "scan"
    BY <2>3 DEF NoWork
  <2>5. worker'[t] = NoWork \/ worker'[t] = v
    BY <2>2, <2>3, AlgoGoes
  <2> QED
    BY <1>3, <2>1, <2>4, <2>5 DEF Rests, queues
<1>8. CASE CancelCheck(t) \/ CancelMark(t)
  <2>1. w.pc \in {"cancel", "mark"} /\ UNCHANGED <<plan, order>>
    BY <1>1, <1>8 DEF CancelCheck, CancelMark, queues
  <2>2. w.ctx = "scan"
    BY <1>1, <2>1 DEF Rests
  <2> QED
    BY <1>1, <1>2, <1>8, <2>1, <2>2, ListGoes DEF Rests
<1>9. CASE CompareORTD(t) \/ TargetWay(t) \/ PushOrder(t) \/ StampNew(t) \/ ScanLate(t) \/ PopTarget(t)
  <2>1. w.pc \in {"ready", "compared", "push", "stamp", "late", "pop"}
    BY <1>1, <1>9 DEF CompareORTD, TargetWay, PushOrder, StampNew, ScanLate, PopTarget
  <2> QED
    BY <1>1, <2>1 DEF Rests
<1> QED
  BY <1>5, <1>6, <1>7, <1>8, <1>9 DEF Proceed

-----------------------------------------------------------------------------
(* TargetWay creates its orders, cancels what hangs, gives the target back. *)
LEMMA CreatesOn ==
    ASSUME TypeInv, NEW t, t = "algo", Workers = {t}, CheckDoing(t) \/ Proceed(t),
           ~PushOrder(t), ~PopTarget(t), Creates(worker[t])
    PROVE  /\ Creates(worker'[t]) /\ UNCHANGED <<plan, order>>
           /\ TodoOf(worker'[t]) = TodoOf(worker[t])
           /\ noReopen = {} => noReopen' = {}
<1>1. PICK w : w = worker[t]
  OBVIOUS
<1>2. WorkerOK(w) /\ w.ctx \in Ctxs
  BY <1>1, WorkerNow DEF WorkerOK, WorkerRec
<1>3. CASE StampNew(t)
  <2>0. w.pc = "stamp" /\ Goto(t, AfterStamp(w)) /\ UNCHANGED <<plan, queues>>
    BY <1>1, <1>3 DEF StampNew
  <2>10. w.ctx # "cut"
    BY <1>1, <2>0 DEF Creates
  <2>1. PICK p : p = IF w.todo = <<>> THEN "late" ELSE "push"
    OBVIOUS
  <2>2. Goto(t, [w EXCEPT !.pc = p, !.ref = 0])
    BY <2>0, <2>1, <2>10 DEF AfterStamp
  <2>3. PICK v : v = [w EXCEPT !.pc = p, !.ref = 0]
    OBVIOUS
  <2>4. v.pc = p /\ v.todo = w.todo /\ v.side = w.side /\ v.ctx = w.ctx
    BY <1>2, <2>3 DEF WorkerOK, WorkerRec
  <2>5. worker'[t] = v
    BY <2>2, <2>3, AlgoGoes
  <2>6. w.side = "buy"
    BY <1>1, <2>0 DEF Creates
  <2>7. TodoOf(v) = TodoOf(w)
    BY <2>4 DEF TodoOf
  <2>8. Creates(v)
    BY <2>1, <2>4, <2>6, <2>10 DEF Creates
  <2> QED
    BY <1>1, <2>0, <2>5, <2>7, <2>8 DEF queues
<1>4. CASE ScanLate(t)
  <2>1. w.pc = "late" /\ w.todo = <<>> /\ UNCHANGED <<plan, queues>>
    BY <1>1, <1>4 DEF ScanLate, Creates
  <2>2. PICK E \in Expired :
           \/ E = {} /\ Goto(t, [w EXCEPT !.pc = "pop"])
           \/ Goto(t, [w EXCEPT !.pc = "cancel", !.cset = E, !.ctx = "late"])
    BY <1>1, <1>4, ScanGoes DEF ScanLate
  <2>3. PICK a : a = [w EXCEPT !.pc = "pop"]
    OBVIOUS
  <2>4. PICK b : b = [w EXCEPT !.pc = "cancel", !.cset = E, !.ctx = "late"]
    OBVIOUS
  <2>5. a.pc = "pop" /\ a.todo = <<>> /\ b.pc = "cancel" /\ b.todo = <<>> /\ b.ctx = "late"
    BY <1>2, <2>1, <2>3, <2>4 DEF WorkerOK, WorkerRec
  <2>6. worker'[t] = a \/ worker'[t] = b
    BY <2>2, <2>3, <2>4, AlgoGoes
  <2>7. worker'[t].todo = <<>> /\ Creates(worker'[t])
    BY <2>5, <2>6 DEF Creates
  <2> QED
    BY <1>1, <2>1, <2>7, NoTodo DEF queues
<1>5. CASE CancelCheck(t) \/ CancelMark(t)
  <2>1. w.pc \in {"cancel", "mark"} /\ UNCHANGED <<plan, order>>
    BY <1>1, <1>5 DEF CancelCheck, CancelMark, queues
  <2>2. w.ctx = "late" /\ w.todo = <<>>
    BY <1>1, <2>1 DEF Creates
  <2>3. worker'[t].todo = <<>> /\ Creates(worker'[t]) /\ (noReopen = {} => noReopen' = {})
    BY <1>1, <1>5, <2>2, ListGoes DEF Creates
  <2> QED
    BY <1>1, <2>1, <2>2, <2>3, NoTodo
<1>6. CASE CheckDoing(t) \/ GetTarget(t) \/ ScanIdle(t) \/ CompareORTD(t) \/ TargetWay(t)
  <2>1. w.pc \in {"idle", "get", "scan", "ready", "compared"}
    BY <1>1, <1>6 DEF CheckDoing, GetTarget, ScanIdle, CompareORTD, TargetWay
  <2> QED
    BY <1>1, <2>1 DEF Creates
<1> QED
  BY <1>3, <1>4, <1>5, <1>6 DEF Proceed

-----------------------------------------------------------------------------
(* Without an order nothing hangs and nothing is ordered.                  *)
LEMMA NothingOrdered ==
    ASSUME TypeInv, order = <<>>
    PROVE  /\ \A side : PendingVol(side) = 0
           /\ \A E \in Expired : E = {}
           /\ SumFunction(Shares) = 0
<1>1. Len(order) = 0 /\ 1 .. Len(order) = {}
  BY DEF TypeInv, OrdersInv
<1>2. ASSUME NEW side
      PROVE  PendingVol(side) = 0
  <2>1. PICK S : S = {r \in 1 .. Len(order) : Pending(r) /\ order[r].side = side}
    OBVIOUS
  <2>2. PICK f : f = [r \in S |-> mapOrder[r].rem]
    OBVIOUS
  <2>3. f \in [{} -> Int]
    BY <1>1, <2>1, <2>2
  <2>4. SumFunction(f) = 0
    BY <2>3, SumEmpty
  <2> QED
    BY <2>1, <2>2, <2>4, Zenon DEF PendingVol, Sum
<1>3. \A E \in Expired : E = {}
  BY <1>1 DEF Expired
<1>4. SumFunction(Shares) = 0
  <2>1. PICK f : f = Shares
    OBVIOUS
  <2>2. f \in [{} -> Int]
    BY <1>1, <2>1 DEF Shares
  <2> QED
    BY <2>1, <2>2, SumEmpty
<1> QED
  BY <1>2, <1>3, <1>4

(* The first target waits for the position books and for TargetWay, whose  *)
(* loop has turns enough for it.                                           *)
LEMMA WaitsOn ==
    ASSUME TypeInv, NEW t, t = "algo", Workers = {t}, CheckDoing(t) \/ Proceed(t),
           Waits(worker[t]), order = <<>>, posORD = 0, plan.due <= 1, plan.queue[1] <= Reach
    PROVE  /\ UNCHANGED <<order, posORD, noReopen>> /\ plan'.queue = plan.queue
           /\ \/ Waits(worker[t])'
              \/ /\ UNCHANGED plan /\ plan.due = 1
                 /\ Creates(worker'[t]) /\ TodoOf(worker'[t]) = plan.queue[1]
<1>1. PICK w : w = worker[t]
  OBVIOUS
<1>2. WorkerOK(w) /\ w.todo = <<>> /\ w.pc \in {"idle", "get", "scan", "ready", "compared"}
      /\ w.tgt \in Nat
  BY <1>1, WorkerNow DEF Waits, WorkerOK, WorkerRec
<1>3. plan \in PlanRec /\ plan.due \in Nat /\ plan.queue \in Seq(Nat) /\ plan.due <= Len(plan.queue)
  BY DEF TypeInv, PlanInv, PlanRec
<1>4. ASSUME NEW v, worker'[t] = v, v.todo = <<>>, v.pc \in {"idle", "get", "scan"}
      PROVE  Waits(worker[t])'
  BY <1>4 DEF Waits, Settling
<1>5. NoWork.pc = "idle" /\ NoWork.todo = <<>>
  BY DEF NoWork
<1>6. CASE CheckDoing(t)
  <2>1. PICK p \in {"get", "scan"} : p = IF Blockers = {} THEN "get" ELSE "scan"
    OBVIOUS
  <2>2. Goto(t, [NoWork EXCEPT !.pc = p]) /\ UNCHANGED <<plan, order, posORD, noReopen>>
    BY <1>6, <2>1 DEF CheckDoing, queues, books
  <2>3. PICK v : v = [NoWork EXCEPT !.pc = p]
    OBVIOUS
  <2>4. v.pc = p /\ v.todo = <<>>
    BY <2>3 DEF NoWork
  <2>5. worker'[t] = v
    BY <2>2, <2>3, AlgoGoes
  <2> QED
    BY <1>4, <2>2, <2>4, <2>5
<1>7. CASE GetTarget(t)
  <2>1. UNCHANGED <<order, posORD, noReopen>>
    BY <1>7 DEF GetTarget, queues, books
  <2>2. CASE plan.due = 0
    <3>1. Goto(t, [NoWork EXCEPT !.pc = "scan"]) /\ UNCHANGED plan
      BY <1>7, <2>2 DEF GetTarget
    <3>2. PICK v : v = [NoWork EXCEPT !.pc = "scan"]
      OBVIOUS
    <3>3. v.pc = "scan" /\ v.todo = <<>>
      BY <3>2 DEF NoWork
    <3>4. worker'[t] = v
      BY <3>1, <3>2, AlgoGoes
    <3> QED
      BY <1>4, <2>1, <3>1, <3>3, <3>4
  <2>3. CASE plan.due > 0
    <3>1. plan.due = 1
      BY <1>3, <2>3
    <3>2. plan' = AfterGet /\ Goto(t, [NoWork EXCEPT !.pc = "ready", !.tgt = plan.queue[1]])
      BY <1>7, <3>1 DEF GetTarget
    <3>3. PICK q \in Seq(Nat) : q = plan.queue
      BY <1>3
    <3>4. SubSeq(q, 1, Len(q)) = q
      OBVIOUS
    <3>5. plan' = [plan EXCEPT !.queue = q, !.due = 1]
      BY <3>1, <3>2, <3>3, <3>4 DEF AfterGet
    <3>6. plan'.queue = q /\ plan'.due = 1
      BY <1>3, <3>5 DEF PlanRec
    <3>7. PICK v : v = [NoWork EXCEPT !.pc = "ready", !.tgt = plan.queue[1]]
      OBVIOUS
    <3>8. v.pc = "ready" /\ v.todo = <<>> /\ v.tgt = q[1]
      BY <3>3, <3>7 DEF NoWork
    <3>9. worker'[t] = v
      BY <3>2, <3>7, AlgoGoes
    <3>10. Waits(worker[t])'
      BY <3>6, <3>8, <3>9 DEF Waits
    <3> QED
      BY <2>1, <3>3, <3>6, <3>10
  <2> QED
    BY <1>3, <2>2, <2>3
<1>8. CASE ScanIdle(t)
  <2>1. UNCHANGED <<plan, order, posORD, noReopen>> /\ Scan(t, NoWork, "scan", NoWork)
    BY <1>8 DEF ScanIdle, queues, books
  <2>2. Goto(t, NoWork)
    BY <2>1, NothingOrdered DEF Scan
  <2>3. worker'[t] = NoWork
    BY <2>2, AlgoGoes
  <2> QED
    BY <1>4, <1>5, <2>1, <2>3
<1>9. CASE CompareORTD(t)
  <2>1. /\ w.pc = "ready" /\ UNCHANGED <<plan, order, posORD, noReopen>>
        /\ Goto(t, NoWork) \/ Goto(t, [w EXCEPT !.pc = "compared"])
    BY <1>1, <1>9 DEF CompareORTD, queues, books
  <2>2. PICK v : v = [w EXCEPT !.pc = "compared"]
    OBVIOUS
  <2>3. v.pc = "compared" /\ v.todo = <<>> /\ v.tgt = w.tgt
    BY <1>2, <2>2 DEF WorkerOK, WorkerRec
  <2>4. worker'[t] = NoWork \/ worker'[t] = v
    BY <2>1, <2>2, AlgoGoes
  <2>5. CASE worker'[t] = NoWork
    BY <1>4, <1>5, <2>1, <2>5
  <2>6. CASE worker'[t] = v
    <3>1. plan'.due > 0 /\ v.tgt = plan'.queue[1]
      BY <1>1, <2>1, <2>3 DEF Waits, Settling
    <3>2. Waits(worker[t])'
      BY <2>3, <2>6, <3>1 DEF Waits
    <3> QED
      BY <2>1, <3>2
  <2> QED
    BY <2>4, <2>5, <2>6
<1>10. CASE TargetWay(t)
  <2>1. w.pc = "compared" /\ UNCHANGED <<plan, order, posORD, noReopen>>
    BY <1>1, <1>10 DEF TargetWay, queues, books
  <2>2. plan.due = 1 /\ w.tgt = plan.queue[1]
    BY <1>1, <1>3, <2>1 DEF Waits, Settling
  <2>3. NDoAll(w.tgt) = w.tgt
    <3>1. PendingVol("sell") = 0 /\ PendingVol("buy") = 0
      BY NothingOrdered
    <3> QED
      BY <1>2, <3>1 DEF NDoAll, Available
  <2>4. \/ Goto(t, NoWork)
        \/ Scan(t, w, "turn", NoWork)
        \/ w.tgt = 0 /\ Goto(t, [w EXCEPT !.pc = "pop"])
        \/ /\ w.tgt # 0
           /\ Goto(t, [w EXCEPT !.pc = "push", !.side = IF w.tgt > 0 THEN "buy" ELSE "sell",
                           !.todo = Split(IF w.tgt > 0 THEN w.tgt ELSE 0 - w.tgt),
                           !.ctx = IF (IF w.tgt > 0 THEN w.tgt ELSE 0 - w.tgt) > Reach
                                   THEN "cut" ELSE "none"])
    BY <1>1, <1>10, <2>3, Zenon DEF TargetWay
  <2>5. CASE Goto(t, NoWork) \/ Scan(t, w, "turn", NoWork)
    <3>1. Goto(t, NoWork)
      BY <2>5, NothingOrdered DEF Scan
    <3>2. worker'[t] = NoWork
      BY <3>1, AlgoGoes
    <3> QED
      BY <1>4, <1>5, <2>1, <3>2
  <2>6. CASE w.tgt = 0 /\ Goto(t, [w EXCEPT !.pc = "pop"])
    <3>1. PICK v : v = [w EXCEPT !.pc = "pop"]
      OBVIOUS
    <3>2. v.pc = "pop" /\ v.todo = <<>>
      BY <1>2, <3>1 DEF WorkerOK, WorkerRec
    <3>3. worker'[t] = v
      BY <2>6, <3>1, AlgoGoes
    <3>4. Creates(v) /\ TodoOf(v) = 0
      BY <3>2, NoTodo DEF Creates
    <3> QED
      BY <2>1, <2>2, <2>6, <3>3, <3>4
  <2>7. CASE /\ w.tgt # 0
             /\ Goto(t, [w EXCEPT !.pc = "push", !.side = IF w.tgt > 0 THEN "buy" ELSE "sell",
                             !.todo = Split(IF w.tgt > 0 THEN w.tgt ELSE 0 - w.tgt),
                             !.ctx = IF (IF w.tgt > 0 THEN w.tgt ELSE 0 - w.tgt) > Reach
                                     THEN "cut" ELSE "none"])
    <3>0. Reach \in Nat /\ w.tgt <= Reach
      BY <2>2, ReachNat
    <3>1. PICK n \in Nat \ {0} : n = w.tgt
      BY <1>2, <2>7
    <3>2. PICK u \in Seq(1 .. Lot) : u = Split(n)
      BY SplitSeq
    <3>3. Goto(t, [w EXCEPT !.pc = "push", !.side = "buy", !.todo = u, !.ctx = "none"])
      <4>1. (IF n > 0 THEN "buy" ELSE "sell") = "buy" /\ (IF n > 0 THEN n ELSE 0 - n) = n
        OBVIOUS
      <4>2. (IF n > Reach THEN "cut" ELSE "none") = "none"
        BY <3>0, <3>1
      <4> QED
        BY <2>7, <3>1, <3>2, <4>1, <4>2, Zenon
    <3>4. PICK v : v = [w EXCEPT !.pc = "push", !.side = "buy", !.todo = u, !.ctx = "none"]
      OBVIOUS
    <3>5. v.pc = "push" /\ v.side = "buy" /\ v.todo = u /\ v.ctx = "none"
      BY <1>2, <3>4 DEF WorkerOK, WorkerRec
    <3>6. worker'[t] = v
      BY <3>3, <3>4, AlgoGoes
    <3>7. TodoOf(v) = n
      <4>1. Smaller(n, Reach) = n
        BY <3>0, <3>1 DEF Smaller
      <4> QED
        BY <3>2, <3>5, <4>1, SplitSum DEF TodoOf
    <3>8. Creates(v)
      BY <3>5 DEF Creates
    <3> QED
      BY <2>1, <2>2, <3>1, <3>6, <3>7, <3>8
  <2> QED
    BY <2>4, <2>5, <2>6, <2>7
<1>11. CASE PushOrder(t) \/ StampNew(t) \/ ScanLate(t) \/ CancelCheck(t) \/ CancelMark(t) \/ PopTarget(t)
  <2>1. w.pc \in {"push", "stamp", "late", "cancel", "mark", "pop"}
    BY <1>1, <1>11 DEF PushOrder, StampNew, ScanLate, CancelCheck, CancelMark, PopTarget
  <2> QED
    BY <1>2, <2>1
<1> QED
  BY <1>6, <1>7, <1>8, <1>9, <1>10, <1>11 DEF Proceed

-----------------------------------------------------------------------------
(* What the other threads and the broker leave alone.                      *)
Others == \/ SlotDue \/ ThreadTime \/ Trading \/ Spi \/ Disconnect \/ Relogin
          \/ UNCHANGED vars \/ \E r \in 1 .. Len(order) : Broker(r)

LEMMA OthersLeave ==
    ASSUME TypeInv, World, Others
    PROVE  /\ UNCHANGED <<worker, noReopen>>
           /\ UNCHANGED plan \/ SlotDue
           /\ UNCHANGED order \/ OrderCanceled
           /\ order = <<>> => UNCHANGED <<order, posORD>>
<1>1. SlotDue => UNCHANGED <<worker, noReopen, order, posORD>>
  BY DEF SlotDue, queues, books
<1>2. ThreadTime \/ Disconnect \/ Relogin \/ UNCHANGED vars
        => UNCHANGED <<worker, noReopen, plan, order, posORD>>
  BY DEF ThreadTime, ReqQryOrder, ReqQryTrade, EraseSyn, Disconnect, Relogin, queues, books, vars
<1>3. Trading => UNCHANGED <<worker, noReopen, plan, order, posORD>>
  BY DEF Trading, TakeOrder, ReqOrderInsert, OrderSent, TakeAction, ReqOrderAction, ActionSent,
         queues, books
<1>4. OnRtn \/ OnRspQry \/ ReopenStamp => UNCHANGED <<worker, noReopen, plan, order, posORD>>
  BY DEF OnRtn, OnRspQry, Receive, ReopenStamp, queues, books
<1>5. AllTraded \/ OrderCanceled => UNCHANGED <<worker, noReopen, plan>>
  BY DEF AllTraded, OrderCanceled, queues
<1>6. AllTraded => UNCHANGED order
  BY DEF AllTraded, queues
<1>7. order = <<>> => ~AllTraded /\ ~OrderCanceled
  BY DEF World, AtHand, AllTraded, OrderCanceled
<1>8. ASSUME NEW r \in 1 .. Len(order), Broker(r)
      PROVE  UNCHANGED <<worker, noReopen, plan, order, posORD>>
  BY <1>8 DEF Broker, CancelRequested, ExchangeCancels, Cancel, Fill, queues, books
<1> QED
  BY <1>1, <1>2, <1>3, <1>4, <1>5, <1>6, <1>7, <1>8, Zenon DEF Others, Spi

(* What counts in the end stays what the target asked for.                 *)
LEMMA TodoSame ==
    ASSUME NEW t, Workers = {t}, TypeInv, TypeInv', TodoOf(worker'[t]) = TodoOf(worker[t])
    PROVE  Sum(Workers, Todo)' = Sum(Workers, Todo) /\ Sum(Workers, Todo) \in Int
BY OneTodo

LEMMA TotalInt ==
    ASSUME NEW t, Workers = {t}, TypeInv, World, TypeInv', World'
    PROVE  Total \in Int /\ Total' \in Int
<1>1. PICK a \in Nat : a = SumFunction(Shares)
  BY ShareSum
<1>2. PICK b \in Nat : b = SumFunction(Shares')
  BY ShareSumNext
<1>3. PICK c \in Int : c = Sum(Workers, Todo)
  BY OneTodo
<1>4. PICK d \in Int : d = Sum(Workers, Todo)'
  BY OneTodo
<1>5. Total = a + c /\ Total' = b + d
  BY <1>1, <1>2, <1>3, <1>4 DEF Total
<1> QED
  BY <1>5

LEMMA WithinKept ==
    ASSUME NEW t, Workers = {t}, TypeInv, World, TypeInv', World', [Next]_vars, Within,
           Total' <= Total, Harmless => Total' = Total
    PROVE  Within'
<1>1. PICK a \in Int : a = Total
  BY TotalInt
<1>2. PICK b \in Int : b = Total'
  BY TotalInt
<1>3. plan'.scn = plan.scn
  BY ScnKept
<1>4. PICK s \in Seq(Nat) : s = plan.scn.slots
  BY SlotsNat
<1>5. Harmless' => Harmless
  BY <1>3 DEF Harmless, Fault
<1>6. Len(s) > 0 /\ s[1] \in Nat
  BY <1>4 DEF Within
<1>7. a <= s[1] /\ (Harmless => a = s[1]) /\ b <= a /\ (Harmless => b = a)
  BY <1>1, <1>2, <1>4 DEF Within
<1>8. b <= s[1] /\ (Harmless => b = s[1])
  BY <1>6, <1>7
<1> QED
  BY <1>2, <1>3, <1>4, <1>5, <1>6, <1>8 DEF Within

LEMMA OthersTotal ==
    ASSUME NEW t, Workers = {t}, TypeInv, World, TypeInv', World', Grows, Linked, Buys,
           [Next]_vars, Others
    PROVE  Total' <= Total /\ (Harmless => Total' = Total) /\ Buys'
<1>1. UNCHANGED <<worker, noReopen>> /\ (UNCHANGED order \/ OrderCanceled)
  BY OthersLeave
<1>2. Sum(Workers, Todo)' = Sum(Workers, Todo) /\ Sum(Workers, Todo) \in Int
  BY <1>1, TodoSame
<1>3. CASE OrderCanceled
  <2>1. /\ SumFunction(Shares') <= SumFunction(Shares)
        /\ Harmless => SumFunction(Shares') = SumFunction(Shares)
        /\ \A r \in 1 .. Len(order') : order'[r].side = "buy"
    BY <1>3, CanceledTotal
  <2>2. Buys'
    BY <1>1, <2>1 DEF Buys
  <2>3. PICK a \in Nat : a = SumFunction(Shares)
    BY ShareSum
  <2>4. PICK b \in Nat : b = SumFunction(Shares')
    BY ShareSumNext
  <2>5. PICK c \in Int : c = Sum(Workers, Todo)
    BY <1>2
  <2>6. Total = a + c /\ Total' = b + c
    BY <1>2, <2>3, <2>4, <2>5 DEF Total
  <2>7. b <= a /\ (Harmless => b = a)
    BY <2>1, <2>3, <2>4
  <2> QED
    BY <2>2, <2>6, <2>7
<1>4. CASE ~OrderCanceled
  <2>1. UNCHANGED order /\ \A r \in 1 .. Len(order) : Steady(r)
    BY <1>1, <1>4, AllSteady
  <2>2. Buys'
    BY <1>1, <2>1 DEF Buys
  <2> QED
    BY <1>2, <2>1, <2>2, SameTotal
<1> QED
  BY <1>3, <1>4

(* A target that comes due would be the second.                            *)
LEMMA StageOthers ==
    ASSUME NEW t, Workers = {t}, TypeInv, World, TypeInv', World', Grows, Linked, Stage,
           [Next]_vars, Others, DueSlots' <= 1
    PROVE  Stage'
<1>1. /\ UNCHANGED <<worker, noReopen>> /\ (UNCHANGED plan \/ SlotDue)
      /\ order = <<>> => UNCHANGED <<order, posORD>>
  BY OthersLeave
<1>2. Total' <= Total /\ (Harmless => Total' = Total) /\ Buys'
  BY OthersTotal DEF Stage
<1>3. SlotDue => plan'.due = plan.due + 1 /\ plan'.queue = plan.queue
  BY DEF SlotDue, TypeInv, PlanInv, PlanRec
<1>4. plan'.scn = plan.scn
  BY ScnKept
<1>5. CASE NotYet
  <2>1. order' = <<>> /\ posORD' = 0 /\ plan'.queue = plan'.scn.slots
    BY <1>1, <1>3, <1>4, <1>5 DEF NotYet
  <2>2. plan'.due >= plan.due /\ plan.due \in Nat /\ plan'.due \in Nat /\ plan'.queue = plan.queue
    BY <1>1, <1>3, SlotsNat
  <2>3. ASSUME NEW u \in Workers
        PROVE  Waits(worker[u])'
    BY <1>1, <1>5, <2>2 DEF NotYet, Waits
  <2>4. NotYet'
    BY <2>1, <2>3 DEF NotYet
  <2> QED
    BY <1>2, <2>4 DEF Stage
<1>6. CASE Within /\ (Creating \/ Settled)
  <2>1. Within'
    BY <1>2, <1>6, WithinKept
  <2>2. PICK s \in Nat, n \in Nat, d \in Nat :
           s = Len(plan.scn.slots) /\ n = Len(plan.queue) /\ d = plan.due /\ DueSlots = s - n + d
    BY SlotsNat
  <2>3. s - n + d = 1
    <3>1. (n = s /\ d = 1) \/ (n + 1 = s /\ d = 0)
      BY <1>6, <2>2 DEF Creating, Settled
    <3> QED
      BY ONLY <3>1, s \in Nat, n \in Nat, d \in Nat
  <2>4. ~SlotDue
    <3>1. ASSUME SlotDue
          PROVE  DueSlots' = s - n + (d + 1)
      <4>1. DueSlots' = Len(plan'.scn.slots) - Len(plan'.queue) + plan'.due
        BY DEF DueSlots
      <4>2. plan'.due = d + 1 /\ plan'.queue = plan.queue /\ plan'.scn.slots = plan.scn.slots
        BY <1>3, <1>4, <2>2, <3>1
      <4> QED
        BY <2>2, <4>1, <4>2
    <3>2. s - n + (d + 1) = 2
      BY ONLY <2>3, s \in Nat, n \in Nat, d \in Nat
    <3> QED
      BY <3>1, <3>2
  <2>5. UNCHANGED <<plan, worker>>
    BY <1>1, <2>4
  <2>6. Creating' \/ Settled'
    BY <1>6, <2>5 DEF Creating, Settled, Creates, Rests
  <2> QED
    BY <1>2, <2>1, <2>6 DEF Stage
<1> QED
  BY <1>5, <1>6 DEF Stage

(* A worker's step that queues no order.                                   *)
LEMMA WorkerTotal ==
    ASSUME NEW t, Workers = {t}, TypeInv, World, TypeInv', World', Grows,
           CheckDoing(t) \/ Proceed(t), UNCHANGED order,
           TodoOf(worker'[t]) = TodoOf(worker[t])
    PROVE  Total' <= Total /\ (Harmless => Total' = Total)
<1>1. Sum(Workers, Todo)' = Sum(Workers, Todo) /\ Sum(Workers, Todo) \in Int
  BY TodoSame
<1>2. \A r \in 1 .. Len(order) : Steady(r)
  BY WorkerSteady
<1> QED
  BY <1>1, <1>2, SameTotal

LEMMA PushBuys ==
    ASSUME TypeInv, NEW t, Workers = {t}, PushOrder(t), Creates(worker[t]), Buys
    PROVE  Buys' /\ UNCHANGED plan /\ worker[t].side = "buy"
<1>1. PICK w : w = worker[t]
  OBVIOUS
<1>2. w.pc = "push" /\ w.side = "buy" /\ UNCHANGED <<plan, noReopen>>
  BY <1>1 DEF PushOrder, Creates
<1>3. PICK x : x = [side |-> w.side, vol |-> Head(w.todo)]
  OBVIOUS
<1>4. order' = Append(order, x) /\ x.side = "buy"
  BY <1>1, <1>2, <1>3 DEF PushOrder
<1>5. \A r \in 1 .. Len(order') : order'[r] = x \/ (r \in 1 .. Len(order) /\ order'[r] = order[r])
  BY <1>4 DEF TypeInv, OrdersInv
<1> QED
  BY <1>1, <1>2, <1>4, <1>5 DEF Buys

(* PopTarget after the orders: the target is behind.                       *)
LEMMA PopSettles ==
    ASSUME TypeInv, NEW t, Workers = {t}, PopTarget(t), Creating
    PROVE  /\ Settled' /\ UNCHANGED <<order, noReopen>>
           /\ TodoOf(worker'[t]) = TodoOf(worker[t])
<1>1. PICK w : w = worker[t]
  OBVIOUS
<1>2. /\ w.pc = "pop" /\ plan' = AfterPop /\ Goto(t, NoWork) /\ UNCHANGED <<order, noReopen>>
  BY <1>1 DEF PopTarget, queues
<1>3. worker'[t] = NoWork /\ NoWork.pc = "idle" /\ NoWork.todo = <<>>
  BY <1>2, AlgoGoes DEF NoWork
<1>4. w.todo = <<>>
  BY <1>1, <1>2 DEF Creating, Creates
<1>5. TodoOf(worker'[t]) = TodoOf(w)
  BY <1>3, <1>4, NoTodo
<1>6. PICK q \in Seq(Nat) : q = plan.queue
  BY SlotsNat
<1>7. plan \in PlanRec /\ plan.due = 1 /\ 1 <= Len(q) /\ Len(q) = Len(plan.scn.slots)
  BY <1>6 DEF TypeInv, PlanInv, Creating
<1>8. q # <<>> /\ Len(Tail(q)) = Len(q) - 1 /\ Len(q) \in Nat
  BY <1>6, <1>7
<1>9. plan' = [plan EXCEPT !.queue = Tail(q), !.due = IF plan.due = 0 THEN 0 ELSE plan.due - 1]
  BY <1>2, <1>6, <1>8 DEF AfterPop
<1>10. plan'.queue = Tail(q) /\ plan'.scn = plan.scn /\ plan'.due = 0
  BY <1>7, <1>9 DEF PlanRec
<1>11. Len(plan'.queue) + 1 = Len(plan'.scn.slots)
  BY <1>7, <1>8, <1>10
<1>12. Rests(worker[t])'
  BY <1>3 DEF Rests
<1> QED
  BY <1>1, <1>2, <1>5, <1>10, <1>11, <1>12 DEF Settled

(* The first target and no other.                                          *)
LEMMA StageAlgo ==
    ASSUME NEW t, t = "algo", Workers = {t}, TypeInv, World, TypeInv', World', Grows, Stage,
           [Next]_vars, CheckDoing(t) \/ Proceed(t), DueSlots <= 1, AtOnce
    PROVE  Stage'
<1>1. PICK w : w = worker[t]
  OBVIOUS
<1>2. plan'.scn = plan.scn
  BY ScnKept
<1>3. noReopen = {} /\ \A r \in 1 .. Len(order) : order[r].side = "buy"
  BY DEF Stage, Buys
<1>4. CASE NotYet
  <2>1. order = <<>> /\ posORD = 0 /\ plan.queue = plan.scn.slots /\ Waits(worker[t])
    BY <1>4 DEF NotYet
  <2>2. PICK n \in Nat, d \in Nat : n = Len(plan.queue) /\ d = plan.due /\ d <= n
    BY SlotsNat
  <2>3. d <= 1
    <3>1. DueSlots = n - n + d
      BY <2>1, <2>2, SlotsNat
    <3>2. n - n + d = d
      BY ONLY n \in Nat, d \in Nat
    <3> QED
      BY <3>1, <3>2
  <2>4. /\ UNCHANGED <<order, posORD, noReopen>> /\ plan'.queue = plan.queue
        /\ \/ Waits(worker[t])'
           \/ /\ UNCHANGED plan /\ plan.due = 1
              /\ Creates(worker'[t]) /\ TodoOf(worker'[t]) = plan.queue[1]
    BY <2>1, <2>2, <2>3, WaitsOn DEF AtOnce
  <2>5. Buys'
    BY <1>3, <2>4 DEF Buys
  <2>6. CASE Waits(worker[t])'
    <3>1. NotYet'
      BY <1>2, <2>1, <2>4, <2>6 DEF NotYet
    <3> QED
      BY <2>5, <3>1 DEF Stage
  <2>7. CASE UNCHANGED plan /\ plan.due = 1 /\ Creates(worker'[t])
             /\ TodoOf(worker'[t]) = plan.queue[1]
    <3>1. Creating'
      BY <2>1, <2>7 DEF Creating, Creates
    <3>2. PICK s \in Nat : s = plan.queue[1]
      BY <2>2, <2>7, SlotsNat
    <3>3. Sum(Workers, Todo)' = s
      BY <2>7, <3>2, OneTodo
    <3>4. SumFunction(Shares') = 0
      <4>1. PICK f : f = Shares'
        OBVIOUS
      <4>2. order' = <<>>
        BY <2>1, <2>4
      <4>3. 1 .. Len(order') = {}
        BY <4>2
      <4>4. f \in [{} -> Int]
        BY <4>1, <4>3 DEF Shares
      <4> QED
        BY <4>1, <4>4, SumEmpty
    <3>5. Total' = s
      <4>1. Total' = SumFunction(Shares') + Sum(Workers, Todo)'
        BY DEF Total
      <4> QED
        BY <3>3, <3>4, <4>1
    <3>6. plan'.scn.slots[1] = s /\ Len(plan'.scn.slots) > 0
      BY <2>1, <2>2, <2>7, <3>2
    <3>7. Within'
      BY <3>5, <3>6 DEF Within
    <3> QED
      BY <2>5, <3>1, <3>7 DEF Stage
  <2> QED
    BY <2>4, <2>6, <2>7
<1>5. CASE Within /\ Creating
  <2>1. Creates(worker[t])
    BY <1>5 DEF Creating
  <2>2. CASE PushOrder(t)
    <3>1. Buys' /\ UNCHANGED plan /\ worker[t].side = "buy"
      BY <2>1, <2>2, PushBuys DEF Stage
    <3>2. /\ Total' <= Total /\ (Harmless => Total' = Total)
          /\ worker'[t].side = "buy" /\ worker'[t].pc = "stamp"
          /\ worker'[t].ctx = worker[t].ctx
      BY <2>2, <3>1, PushTotal
    <3>5. worker[t].ctx # "cut"
      BY <2>1, <2>2 DEF Creates, PushOrder
    <3>3. Within'
      BY <1>5, <3>2, WithinKept
    <3>4. Creating'
      BY <1>5, <3>1, <3>2, <3>5 DEF Creating, Creates
    <3> QED
      BY <3>1, <3>3, <3>4 DEF Stage
  <2>3. CASE PopTarget(t)
    <3>1. /\ Settled' /\ UNCHANGED <<order, noReopen>>
          /\ TodoOf(worker'[t]) = TodoOf(worker[t])
      BY <1>5, <2>3, PopSettles
    <3>2. Total' <= Total /\ (Harmless => Total' = Total)
      BY <3>1, WorkerTotal
    <3>3. Within' /\ Buys'
      BY <1>3, <1>5, <3>1, <3>2, WithinKept DEF Buys
    <3> QED
      BY <3>1, <3>3 DEF Stage
  <2>4. CASE ~PushOrder(t) /\ ~PopTarget(t)
    <3>1. /\ Creates(worker'[t]) /\ UNCHANGED <<plan, order>>
          /\ TodoOf(worker'[t]) = TodoOf(worker[t]) /\ noReopen' = {}
      BY <1>3, <2>1, <2>4, CreatesOn
    <3>2. Total' <= Total /\ (Harmless => Total' = Total)
      BY <3>1, WorkerTotal
    <3>3. Within' /\ Buys'
      BY <1>3, <1>5, <3>1, <3>2, WithinKept DEF Buys
    <3>4. Creating'
      BY <1>5, <3>1 DEF Creating, Creates
    <3> QED
      BY <3>3, <3>4 DEF Stage
  <2> QED
    BY <2>2, <2>3, <2>4
<1>6. CASE Within /\ Settled
  <2>1. Rests(worker[t]) /\ plan.due = 0
    BY <1>6 DEF Settled
  <2>2. Rests(worker'[t]) /\ UNCHANGED <<plan, order>> /\ noReopen' = {}
    BY <1>3, <2>1, RestsOn
  <2>3. TodoOf(worker'[t]) = TodoOf(worker[t])
    BY <2>1, <2>2, NoTodo DEF Rests
  <2>4. Total' <= Total /\ (Harmless => Total' = Total)
    BY <2>2, <2>3, WorkerTotal
  <2>5. Within' /\ Buys'
    BY <1>3, <1>6, <2>2, <2>4, WithinKept DEF Buys
  <2>6. Settled'
    BY <1>6, <2>2 DEF Settled, Rests
  <2> QED
    BY <2>5, <2>6 DEF Stage
<1> QED
  BY <1>4, <1>5, <1>6 DEF Stage

LEMMA StageInit ==
    ASSUME NEW t, Workers = {t}, Init
    PROVE  StageInv
<1>1. /\ worker[t] = NoWork /\ order = <<>> /\ posORD = 0 /\ noReopen = {}
      /\ plan.queue = plan.scn.slots
      /\ link /\ online /\ rtn = <<>> /\ answers = <<>>
  BY DEF Init
<1>2. Linked
  BY <1>1 DEF Linked, Elems
<1>3. Waits(worker[t])
  BY <1>1 DEF Waits, NoWork, Settling
<1>4. Len(order) = 0 /\ Buys
  BY <1>1 DEF Buys
<1>5. NotYet
  BY <1>1, <1>3 DEF NotYet
<1> QED
  BY <1>2, <1>4, <1>5 DEF StageInv, Stage

LEMMA StageNext ==
    ASSUME Workers = {"algo"}, TypeInv, World, StageInv, [Next]_vars
    PROVE  StageInv'
<1>1. TypeInv' /\ World' /\ Grows
  BY TypeNext
<1>2. Linked /\ Linked'
  BY LinkedNext DEF StageInv
<1>3. ASSUME DueSlots' <= 1, AtOnce'
      PROVE  Stage'
  <2>1. DueSlots <= 1
    <3>1. DueSlots' >= DueSlots /\ DueSlots \in Int
      BY <1>1, DueGrows, SlotsNat
    <3>2. DueSlots' \in Int
      BY <1>1, DueInt
    <3> QED
      BY <1>3, <3>1, <3>2
  <2>8. AtOnce
    BY <1>3, ScnKept DEF AtOnce, Reach, MaxTurns
  <2>2. Stage
    BY <2>1, <2>8 DEF StageInv
  <2>3. PICK t : t = "algo"
    OBVIOUS
  <2>4. Workers = {t}
    BY <2>3
  <2>5. Others \/ CheckDoing(t) \/ Proceed(t)
    BY <2>4, Zenon DEF Next, Others
  <2>6. CASE Others
    BY <1>1, <1>2, <1>3, <2>2, <2>4, <2>6, StageOthers
  <2>7. CASE CheckDoing(t) \/ Proceed(t)
    BY <1>1, <2>1, <2>2, <2>3, <2>4, <2>7, <2>8, StageAlgo
  <2> QED
    BY <2>5, <2>6, <2>7
<1> QED
  BY <1>2, <1>3 DEF StageInv

(* What the invariant says of the exposure.                                *)
LEMMA StageCommits ==
    ASSUME Workers = {"algo"}, TypeInv, World, StageInv, DueSlots = 1, AtOnce
    PROVE  /\ Committed <= plan.scn.slots[1]
           /\ Harmless /\ order # <<>> => Committed = plan.scn.slots[1]
<1>1. Stage
  BY DEF StageInv
<1>2. Committed = Total
  BY <1>1, CommittedShares DEF Stage, Total
<1>3. CASE NotYet
  <2>1. order = <<>> /\ plan.queue = plan.scn.slots
    BY <1>3 DEF NotYet
  <2>2. PICK n \in Nat, d \in Nat : n = Len(plan.queue) /\ d = plan.due /\ d <= n
    BY SlotsNat
  <2>3. d = 1
    <3>1. n - n + d = 1
      BY <2>1, <2>2, SlotsNat
    <3> QED
      BY ONLY <3>1, n \in Nat, d \in Nat
  <2>4. plan.scn.slots[1] \in Nat
    BY <2>1, <2>2, <2>3, SlotsNat
  <2>5. SumFunction(Shares) = 0
    BY <2>1, NothingOrdered
  <2>6. Sum(Workers, Todo) = 0
    <3>1. worker["algo"].todo = <<>>
      BY <1>3 DEF NotYet, Waits
    <3>2. PICK t : t = "algo"
      OBVIOUS
    <3> QED
      BY <3>1, <3>2, OneIdle
  <2>7. Total = 0
    BY <2>5, <2>6 DEF Total
  <2> QED
    BY <1>2, <2>1, <2>4, <2>7
<1>4. CASE Within
  BY <1>2, <1>4 DEF Within
<1> QED
  BY <1>1, <1>3, <1>4 DEF Stage

AlgoInv == TypeInv /\ World /\ StageInv

LEMMA AlgoAlways ==
    ASSUME Workers = {"algo"}
    PROVE  Spec => []AlgoInv
<1>1. Init => AlgoInv
  <2>1. PICK t : t = "algo"
    OBVIOUS
  <2>2. Workers = {t}
    BY <2>1
  <2> QED
    BY <2>2, TypeInit, StageInit DEF AlgoInv
<1>2. AlgoInv /\ [Next]_vars => AlgoInv'
  BY TypeNext, StageNext DEF AlgoInv
<1> QED
  BY <1>1, <1>2, PTL DEF Spec

(* With ThreadAlgo as the only caller of TargetWay, lost links, lost       *)
(* reports, rejections and repeated queries never make HTP order more than *)
(* the first target while no second one has come due, for any plan, lot,   *)
(* turns and faults, when the turns of TARGET_LOOP suffice for it.         *)
THEOREM NeverOverAlways ==
    ASSUME Workers = {"algo"}
    PROVE  Spec => []NeverOver
<1>1. AlgoInv => NeverOver
  BY StageCommits DEF AlgoInv, NeverOver
<1> QED
  BY <1>1, AlgoAlways, PTL

(* Without the faults that lose an order it stays exactly the target:      *)
(* through splitting, partial fills, cancels, reopens and repeated reports *)
(* nothing is lost and nothing is ordered twice.                           *)
THEOREM ExposureKeptAlways ==
    ASSUME Workers = {"algo"}
    PROVE  Spec => [](Harmless => ExposureKept)
<1>1. AlgoInv => (Harmless => ExposureKept)
  BY StageCommits DEF AlgoInv, ExposureKept
<1> QED
  BY <1>1, AlgoAlways, PTL
=============================================================================
