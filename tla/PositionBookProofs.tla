------------------------- MODULE PositionBookProofs -------------------------
(***************************************************************************)
(* That the position books are exact, that closes are covered and that a   *)
(* target stays kept, for all accounts, targets, order sizes, limits and   *)
(* numbers of orders. The invariant says of each order how far it got, of  *)
(* the reports on their way that they fit their orders and account for     *)
(* their fills, that what is active goes one way, and gives both books,    *)
(* what is covered and where the orders lead as totals over the orders.    *)
(* Every total is a sum over all orders of what counts of each (Tot), so a *)
(* step that alters one order changes it by what this order changes.       *)
(***************************************************************************)
EXTENDS PositionBook, SumLemmas


(* The orders by what they are, with all their fields.                     *)
Dirs == {"buy", "sell"}
OrderRec ==
    [dir : Dirs, flag : Flags, vol : 1 .. MaxOnce, rem : Nat, traded : Nat,
     rep : {"none", "hang", "done"}, cxl : {"no", "reopen", "drop"},
     st : {"queued", "live", "ended"}, left : Nat]
Kinds == {"queueing", "part", "all", "canceled", "error", "trade"}
Message == [kind : Kinds, ref : Nat, n : Nat]

(* What counts of an order o, by its place in the life of the order:       *)
(* its fills not booked yet, its fills whose trades are not, what it still *)
(* leads to, what HTP knows to hang, what the exchange holds.              *)
Ways == {"unbooked", "untraded", "open", "hangs", "live"}
OpenOf(o) == IF o.st # "ended" \/ (o.cxl = "reopen" /\ o.rep # "done") THEN o.left ELSE 0
Counts(k, o) ==
    IF k = "unbooked" THEN IF o.rep = "done" THEN 0 ELSE o.vol - o.left
    ELSE IF k = "untraded" THEN o.vol - o.left - o.traded
    ELSE IF k = "open" THEN OpenOf(o)
    ELSE IF k = "hangs" THEN IF o.rep = "hang" THEN o.rem ELSE 0
    ELSE IF o.st = "live" THEN o.left ELSE 0

Of(s, f, o) == o.flag = f /\ SideOf(o.dir, f) = s
Weight(k, s, f, o) == IF Of(s, f, o) THEN Counts(k, o) ELSE 0
Weights(k, s, f, ord) == [r \in 1 .. Len(ord) |-> Weight(k, s, f, ord[r])]

(* What the orders of a side that open or close it come to.                *)
Tot(k, s, f, ord) == SumFunction(Weights(k, s, f, ord))

(* The trades of order r in the stream.                                    *)
Trades(r, str) ==
    [i \in 1 .. Len(str) |-> IF str[i].kind = "trade" /\ str[i].ref = r THEN str[i].n ELSE 0]
Coming(r, str) == SumFunction(Trades(r, str))

Ending(m) == m.kind \in {"all", "canceled", "error"}

-----------------------------------------------------------------------------
TypeInv ==
    /\ apart \in BOOLEAN
    /\ posORD \in Book /\ posTRD \in Book
    /\ account \in Holding
    /\ order \in Seq(OrderRec)
    /\ stream \in Seq(Message)
    /\ goal \in [on : BOOLEAN, pos : Int, open : BOOLEAN]
    /\ blind \in BOOLEAN

OrderOK(o) ==
    /\ o.left <= o.rem /\ o.rem <= o.vol
    /\ o.rep = "none" => o.rem = o.vol /\ o.cxl = "no"
    /\ o.rep = "hang" => o.rem > 0
    /\ o.rep = "done" => o.st = "ended"
    /\ o.st = "queued" => o.rep = "none" /\ o.left = o.vol
    /\ o.st = "live" => o.left > 0
    /\ o.st = "ended" /\ o.cxl = "no" /\ o.rep = "hang" => o.left = 0

OrdersAt(ord) == \A r \in 1 .. Len(ord) : OrderOK(ord[r])

ReportOK(m, o) ==
    /\ o.st # "queued"
    /\ m.kind \in {"queueing", "part"} =>
          /\ o.left <= m.n /\ 0 < m.n /\ m.n <= o.vol
          /\ o.st = "ended" /\ o.cxl = "no" => o.left = 0
    /\ m.kind # "trade" => o.rep # "done"
    /\ Ending(m) => o.st = "ended"
    /\ m.kind = "all" => o.left = 0
    /\ m.kind = "canceled" => m.n = o.left /\ 0 < m.n /\ o.cxl # "no"
    /\ m.kind = "error" => o.left = o.vol /\ o.rep = "none"
    /\ m.kind = "trade" => 0 < m.n

StreamAt(str, ord) ==
    /\ \A i \in 1 .. Len(str) : str[i].ref \in 1 .. Len(ord) /\ ReportOK(str[i], ord[str[i].ref])
    /\ \A i, j \in 1 .. Len(str) :
          str[i].ref = str[j].ref /\ Ending(str[i]) /\ str[j].kind # "trade" => j <= i
    /\ \A i, j \in 1 .. Len(str) :
          str[i].ref = str[j].ref /\ str[i].kind = "error" => i = j

TradesAt(str, ord) ==
    \A r \in 1 .. Len(ord) : ord[r].traded + Coming(r, str) = ord[r].vol - ord[r].left

Active(o) == o.rep # "done" \/ o.traded < o.vol - o.left

(* Orders under way, or with trades to come, all go the same way.          *)
OneWayAt(ord) == \A q, r \in 1 .. Len(ord) :
                     Active(ord[q]) /\ Active(ord[r]) => ord[q].dir = ord[r].dir

CoveredAt(acc, ord) ==
    \A s \in Sides : /\ Tot("live", s, "today", ord) <= acc[s].td
                     /\ Tot("live", s, "yesterday", ord) <= acc[s].yd

BookAt(sep, book, k, acc, ord) ==
    \A s \in Sides :
        /\ book[s].today = acc[s].td - Tot(k, s, "open", ord) + Tot(k, s, "today", ord)
        /\ (IF sep THEN book[s].hist ELSE book[s].pos - book[s].today)
               = acc[s].yd + Tot(k, s, "yesterday", ord)
        /\ sep => book[s].pos = book[s].today

FreeTd(acc, ord, s) == acc[s].td - Tot("open", s, "today", ord)
FreeYd(acc, ord, s) == acc[s].yd - Tot("open", s, "yesterday", ord)
FreeAt(bl, acc, ord) ==
    ~bl => \A s \in Sides : FreeTd(acc, ord, s) >= 0 /\ FreeYd(acc, ord, s) >= 0

(* The net position the orders lead to.                                    *)
Net(acc, ord, s) == acc[s].td + acc[s].yd + Tot("open", s, "open", ord)
                      - Tot("open", s, "today", ord) - Tot("open", s, "yesterday", ord)
Leads(acc, ord) == Net(acc, ord, "long") - Net(acc, ord, "short")

AllGo(dir, ord) == \A r \in 1 .. Len(ord) : ord[r].rep # "done" => ord[r].dir = dir

(* Nothing of a side is left to close, and nothing goes the other way.     *)
Spent(acc, ord, s) == /\ FreeTd(acc, ord, s) = 0 /\ FreeYd(acc, ord, s) = 0
                      /\ AllGo(IF s = "short" THEN "buy" ELSE "sell", ord)

GoalAt(g, bl, acc, ord) ==
    (g.on /\ ~bl) =>
        /\ \A r \in 1 .. Len(ord) : ord[r].cxl = "drop" => ord[r].rep = "done"
        /\ \/ Leads(acc, ord) = g.pos
           \/ /\ ~g.open
              /\ Leads(acc, ord) < g.pos => Spent(acc, ord, "short")
              /\ Leads(acc, ord) > g.pos => Spent(acc, ord, "long")

Reserve(ord) == {r \in 1 .. Len(ord) : ord[r].cxl = "reopen" /\ ord[r].rep # "done"}
RoomAt(ord) == Len(ord) + Cardinality(Reserve(ord)) <= MaxRef

IInv == /\ TypeInv /\ OrdersAt(order) /\ StreamAt(stream, order) /\ TradesAt(stream, order)
        /\ OneWayAt(order) /\ CoveredAt(account, order)
        /\ BookAt(apart, posORD, "unbooked", account, order)
        /\ BookAt(apart, posTRD, "untraded", account, order)
        /\ FreeAt(blind, account, order) /\ GoalAt(goal, blind, account, order)
        /\ RoomAt(order)

-----------------------------------------------------------------------------
(* The sums over the orders.                                               *)

(* The fields of an order.                                                 *)
LEMMA RecFields ==
    ASSUME NEW o \in OrderRec
    PROVE  /\ o.dir \in Dirs /\ o.flag \in Flags /\ o.vol \in 1 .. MaxOnce
           /\ o.vol \in Nat /\ o.rem \in Nat /\ o.traded \in Nat /\ o.left \in Nat
           /\ o.rep \in {"none", "hang", "done"} /\ o.cxl \in {"no", "reopen", "drop"}
           /\ o.st \in {"queued", "live", "ended"}
BY BookAssumption DEF OrderRec

(* What counts of an order is an integer, whichever way it is counted.     *)
LEMMA CountsInt ==
    ASSUME NEW o \in OrderRec, NEW k
    PROVE  Counts(k, o) \in Int
BY RecFields DEF Counts, OpenOf

(* The terms and the total are integers.                                   *)
LEMMA WeightsType ==
    ASSUME NEW ord \in Seq(OrderRec), NEW k, NEW s, NEW f
    PROVE  /\ Weights(k, s, f, ord) \in [1 .. Len(ord) -> Int]
           /\ \A r \in 1 .. Len(ord) : Weights(k, s, f, ord)[r] = Weight(k, s, f, ord[r])
           /\ IsFiniteSet(1 .. Len(ord))
           /\ Tot(k, s, f, ord) \in Int
<1>1. \A r \in 1 .. Len(ord) : Weight(k, s, f, ord[r]) \in Int
  BY CountsInt DEF Weight
<1>2. Weights(k, s, f, ord) \in [1 .. Len(ord) -> Int]
  BY <1>1 DEF Weights
<1>3. IsFiniteSet(1 .. Len(ord))
  BY FS_Interval
<1>4. Tot(k, s, f, ord) \in Int
  BY <1>2, <1>3, SumType DEF Tot
<1> QED
  BY <1>2, <1>3, <1>4 DEF Weights

(* No orders, no total.                                                    *)
LEMMA TotEmpty == ASSUME NEW k, NEW s, NEW f PROVE Tot(k, s, f, <<>>) = 0
<1>1. Weights(k, s, f, <<>>) \in [{} -> Int]
  BY DEF Weights
<1> QED
  BY <1>1, SumEmpty DEF Tot

(* A total changes by what one of its orders changes.                      *)
LEMMA TotChange ==
    ASSUME NEW ord \in Seq(OrderRec), NEW new \in Seq(OrderRec), NEW r \in 1 .. Len(ord),
           Len(new) = Len(ord), \A q \in 1 .. Len(ord) : q # r => new[q] = ord[q],
           NEW k, NEW s, NEW f
    PROVE  Tot(k, s, f, new)
               = Tot(k, s, f, ord) + (Weight(k, s, f, new[r]) - Weight(k, s, f, ord[r]))
<1>1. PICK S : S = 1 .. Len(ord)
  OBVIOUS
<1>2. PICK g : g = Weights(k, s, f, ord)
  OBVIOUS
<1>3. PICK h : h = Weights(k, s, f, new)
  OBVIOUS
<1>4. IsFiniteSet(S) /\ g \in [S -> Int] /\ h \in [S -> Int] /\ r \in S
  BY <1>1, <1>2, <1>3, WeightsType
<1>5. \A q \in S \ {r} : h[q] = g[q]
  BY <1>1, <1>2, <1>3, WeightsType
<1>6. SumFunction(h) = SumFunction(g) + (h[r] - g[r])
  BY ONLY <1>4, <1>5, SumChange, Zenon
<1>7. h[r] = Weight(k, s, f, new[r]) /\ g[r] = Weight(k, s, f, ord[r])
  BY <1>2, <1>3, WeightsType
<1> QED
  BY <1>2, <1>3, <1>6, <1>7 DEF Tot

(* The total of orders before and after.                                   *)
LEMMA TotConcat ==
    ASSUME NEW ord \in Seq(OrderRec), NEW more \in Seq(OrderRec), NEW k, NEW s, NEW f
    PROVE  Tot(k, s, f, ord \o more) = Tot(k, s, f, ord) + Tot(k, s, f, more)
<1>1. PICK m \in Nat, n \in Nat : m = Len(ord) /\ n = Len(more)
  OBVIOUS
<1>2. PICK all : all = ord \o more
  OBVIOUS
<1>3. all \in Seq(OrderRec) /\ Len(all) = m + n
      /\ (\A i \in 1 .. m : i \in 1 .. Len(all) /\ all[i] = ord[i])
      /\ (\A i \in 1 .. n : m + i \in 1 .. Len(all) /\ all[m + i] = more[i])
  BY <1>1, <1>2
<1>4. PICK g : g = Weights(k, s, f, ord)
  OBVIOUS
<1>5. PICK h : h = Weights(k, s, f, more)
  OBVIOUS
<1>6. PICK j : j = Weights(k, s, f, all)
  OBVIOUS
<1>7. g \in [1 .. m -> Int] /\ h \in [1 .. n -> Int] /\ j \in [1 .. m + n -> Int]
  BY <1>1, <1>3, <1>4, <1>5, <1>6, WeightsType
<1>8. \A i \in 1 .. m : j[i] = g[i]
  <2> SUFFICES ASSUME NEW i \in 1 .. m
               PROVE  j[i] = g[i]
    OBVIOUS
  <2>1. i \in 1 .. Len(all) /\ i \in 1 .. Len(ord) /\ all \in Seq(OrderRec)
    BY <1>1, <1>3
  <2>2. j[i] = Weight(k, s, f, all[i])
    BY ONLY <1>6, <2>1, WeightsType, Zenon
  <2>3. g[i] = Weight(k, s, f, ord[i])
    BY <1>4, <2>1, WeightsType
  <2> QED
    BY <1>3, <2>2, <2>3
<1>9. \A i \in 1 .. n : j[m + i] = h[i]
  <2> SUFFICES ASSUME NEW i \in 1 .. n
               PROVE  j[m + i] = h[i]
    OBVIOUS
  <2>1. m + i \in 1 .. Len(all) /\ all \in Seq(OrderRec)
    BY <1>3
  <2>2. j[m + i] = Weight(k, s, f, all[m + i])
    BY ONLY <1>6, <2>1, WeightsType, Zenon
  <2>3. h[i] = Weight(k, s, f, more[i])
    BY <1>1, <1>5, WeightsType
  <2> QED
    BY <1>3, <2>2, <2>3
<1>10. SumFunction(j) = SumFunction(g) + SumFunction(h)
  BY ONLY <1>7, <1>8, <1>9, m \in Nat, n \in Nat, SumConcat, ZenonT(30)
<1> QED
  BY <1>2, <1>4, <1>5, <1>6, <1>10 DEF Tot

(* The total with one order more.                                          *)
LEMMA TotAppend ==
    ASSUME NEW ord \in Seq(OrderRec), NEW o \in OrderRec, NEW k, NEW s, NEW f
    PROVE  Tot(k, s, f, Append(ord, o)) = Tot(k, s, f, ord) + Weight(k, s, f, o)
<1>1. <<o>> \in Seq(OrderRec) /\ Append(ord, o) = ord \o <<o>> /\ Len(<<o>>) = 1
  OBVIOUS
<1>2. PICK g : g = Weights(k, s, f, <<o>>)
  OBVIOUS
<1>3. g \in [1 .. 1 -> Int] /\ g[1] = Weight(k, s, f, o)
  <2>1. PICK one \in Seq(OrderRec) : one = <<o>>
    BY <1>1
  <2>2. Len(one) = 1 /\ one[1] = o
    BY <2>1
  <2>3. Weights(k, s, f, one) \in [1 .. Len(one) -> Int]
        /\ \A r \in 1 .. Len(one) : Weights(k, s, f, one)[r] = Weight(k, s, f, one[r])
    BY WeightsType
  <2> QED
    BY <1>2, <2>1, <2>2, <2>3
<1>4. Tot(k, s, f, <<o>>) = Weight(k, s, f, o)
  BY <1>2, <1>3, SumOne DEF Tot
<1>5. PICK one \in Seq(OrderRec) : one = <<o>>
  BY <1>1
<1>6. Tot(k, s, f, ord \o one) = Tot(k, s, f, ord) + Tot(k, s, f, one)
  BY TotConcat
<1> QED
  BY <1>1, <1>4, <1>5, <1>6

(* Where the orders are the same but for what does not count.              *)
LEMMA TotSame ==
    ASSUME NEW ord \in Seq(OrderRec), NEW new \in Seq(OrderRec), NEW k, NEW s, NEW f,
           Len(new) = Len(ord),
           \A r \in 1 .. Len(ord) : Weight(k, s, f, new[r]) = Weight(k, s, f, ord[r])
    PROVE  Tot(k, s, f, new) = Tot(k, s, f, ord)
BY DEF Tot, Weights

(* A total of naturals is no less than any of its terms.                   *)
LEMMA TotNat ==
    ASSUME NEW ord \in Seq(OrderRec), NEW k, NEW s, NEW f,
           \A r \in 1 .. Len(ord) : Weight(k, s, f, ord[r]) >= 0
    PROVE  /\ Tot(k, s, f, ord) \in Nat
           /\ \A r \in 1 .. Len(ord) : Weight(k, s, f, ord[r]) <= Tot(k, s, f, ord)
<1>1. PICK S : S = 1 .. Len(ord)
  OBVIOUS
<1>2. PICK g : g = Weights(k, s, f, ord)
  OBVIOUS
<1>3. IsFiniteSet(S) /\ g \in [S -> Int] /\ \A r \in S : g[r] = Weight(k, s, f, ord[r])
  BY <1>1, <1>2, WeightsType
<1>4. g \in [S -> Nat]
  BY <1>1, <1>3
<1>5. SumFunction(g) \in Nat /\ \A r \in S : g[r] <= SumFunction(g)
  BY ONLY <1>3, <1>4, SumNat, Zenon
<1> QED
  BY <1>1, <1>2, <1>3, <1>5 DEF Tot

(* The total of orders that do not count.                                  *)
LEMMA TotZero ==
    ASSUME NEW ord \in Seq(OrderRec), NEW k, NEW s, NEW f,
           \A r \in 1 .. Len(ord) : Weight(k, s, f, ord[r]) = 0
    PROVE  Tot(k, s, f, ord) = 0
<1>1. PICK S : S = 1 .. Len(ord)
  OBVIOUS
<1>2. PICK g : g = Weights(k, s, f, ord)
  OBVIOUS
<1>3. IsFiniteSet(S) /\ g \in [S -> Int] /\ \A r \in S : g[r] = 0
  BY <1>1, <1>2, WeightsType
<1>4. SumFunction(g) = 0
  BY ONLY <1>3, SumZero, Zenon
<1> QED
  BY <1>2, <1>4 DEF Tot

(* One way of counting is the sum of two others.                           *)
LEMMA TotPlus ==
    ASSUME NEW ord \in Seq(OrderRec), NEW s, NEW f, NEW k, NEW k1, NEW k2,
           \A r \in 1 .. Len(ord) : Of(s, f, ord[r]) =>
               Counts(k, ord[r]) = Counts(k1, ord[r]) + Counts(k2, ord[r])
    PROVE  Tot(k, s, f, ord) = Tot(k1, s, f, ord) + Tot(k2, s, f, ord)
<1>1. PICK S : S = 1 .. Len(ord)
  OBVIOUS
<1>2. PICK g : g = Weights(k1, s, f, ord)
  OBVIOUS
<1>3. PICK h : h = Weights(k2, s, f, ord)
  OBVIOUS
<1>4. PICK j : j = Weights(k, s, f, ord)
  OBVIOUS
<1>5. IsFiniteSet(S) /\ g \in [S -> Int] /\ h \in [S -> Int] /\ j \in [S -> Int]
  BY <1>1, <1>2, <1>3, <1>4, WeightsType
<1>6. \A r \in S : j[r] = g[r] + h[r]
  <2> SUFFICES ASSUME NEW r \in 1 .. Len(ord)
               PROVE  j[r] = g[r] + h[r]
    BY <1>1
  <2>1. j[r] = Weight(k, s, f, ord[r]) /\ g[r] = Weight(k1, s, f, ord[r])
        /\ h[r] = Weight(k2, s, f, ord[r])
    BY <1>2, <1>3, <1>4, WeightsType
  <2> QED
    BY <2>1 DEF Weight
<1>7. SumFunction(j) = SumFunction(g) + SumFunction(h)
  <2>1. Adds(S, g, h, j)
    BY <1>5, <1>6 DEF Adds
  <2> QED
    BY <2>1, SumPlus
<1> QED
  BY <1>2, <1>3, <1>4, <1>7 DEF Tot

-----------------------------------------------------------------------------
(* The trades in the stream.                                               *)

(* The trades to come of an order, none of which exceeds their sum.        *)
LEMMA TradesType ==
    ASSUME NEW str \in Seq(Message), NEW r
    PROVE  /\ Trades(r, str) \in [1 .. Len(str) -> Nat]
           /\ Coming(r, str) \in Nat
           /\ \A i \in 1 .. Len(str) :
                 str[i].kind = "trade" /\ str[i].ref = r => str[i].n <= Coming(r, str)
<1>1. \A i \in 1 .. Len(str) : str[i].n \in Nat
  <2>1. \A i \in 1 .. Len(str) : str[i] \in Message
    OBVIOUS
  <2> QED
    BY <2>1 DEF Message
<1>2. Trades(r, str) \in [1 .. Len(str) -> Nat]
  BY <1>1 DEF Trades
<1>3. PICK S : S = 1 .. Len(str)
  OBVIOUS
<1>4. PICK g : g = Trades(r, str)
  OBVIOUS
<1>5. IsFiniteSet(S) /\ g \in [S -> Nat]
  BY <1>2, <1>3, <1>4, FS_Interval
<1>6. SumFunction(g) \in Nat /\ \A i \in S : g[i] <= SumFunction(g)
  BY ONLY <1>5, SumNat, Zenon
<1>7. \A i \in S : str[i].kind = "trade" /\ str[i].ref = r => g[i] = str[i].n
  BY <1>3, <1>4 DEF Trades
<1> QED
  BY <1>2, <1>3, <1>4, <1>6, <1>7 DEF Coming

(* No stream, no trades to come.                                           *)
LEMMA ComingEmpty == ASSUME NEW r PROVE Coming(r, <<>>) = 0
<1>1. Trades(r, <<>>) \in [{} -> Int]
  BY DEF Trades
<1> QED
  BY <1>1, SumEmpty DEF Coming

(* The trades to come of two parts of the stream.                          *)
LEMMA ComingConcat ==
    ASSUME NEW str \in Seq(Message), NEW more \in Seq(Message), NEW r
    PROVE  Coming(r, str \o more) = Coming(r, str) + Coming(r, more)
<1>1. PICK m \in Nat, n \in Nat : m = Len(str) /\ n = Len(more)
  OBVIOUS
<1>2. PICK all : all = str \o more
  OBVIOUS
<1>3. all \in Seq(Message) /\ Len(all) = m + n
      /\ (\A i \in 1 .. m : all[i] = str[i]) /\ (\A i \in 1 .. n : all[m + i] = more[i])
  BY <1>1, <1>2
<1>4. PICK g : g = Trades(r, str)
  OBVIOUS
<1>5. PICK h : h = Trades(r, more)
  OBVIOUS
<1>6. PICK j : j = Trades(r, all)
  OBVIOUS
<1>7. g \in [1 .. m -> Int] /\ h \in [1 .. n -> Int] /\ j \in [1 .. m + n -> Int]
  BY <1>1, <1>3, <1>4, <1>5, <1>6, TradesType
<1>8. \A i \in 1 .. m : j[i] = g[i]
  BY <1>1, <1>3, <1>4, <1>6 DEF Trades
<1>9. \A i \in 1 .. n : j[m + i] = h[i]
  <2> SUFFICES ASSUME NEW i \in 1 .. n
               PROVE  j[m + i] = h[i]
    OBVIOUS
  <2>1. m + i \in 1 .. Len(all) /\ all[m + i] = more[i]
    BY <1>3
  <2> QED
    BY <1>1, <1>5, <1>6, <2>1 DEF Trades
<1>10. SumFunction(j) = SumFunction(g) + SumFunction(h)
  BY ONLY <1>7, <1>8, <1>9, m \in Nat, n \in Nat, SumConcat, ZenonT(30)
<1> QED
  BY <1>2, <1>4, <1>5, <1>6, <1>10 DEF Coming

(* The trades of a stream of one report.                                   *)
LEMMA ComingOne ==
    ASSUME NEW m \in Message, NEW r
    PROVE  Coming(r, <<m>>) = IF m.kind = "trade" /\ m.ref = r THEN m.n ELSE 0
<1>1. PICK g : g = Trades(r, <<m>>)
  OBVIOUS
<1>2. <<m>> \in Seq(Message) /\ Len(<<m>>) = 1
  OBVIOUS
<1>3. g \in [1 .. 1 -> Int] /\ g[1] = IF m.kind = "trade" /\ m.ref = r THEN m.n ELSE 0
  <2>1. PICK str \in Seq(Message) : str = <<m>>
    BY <1>2
  <2>2. Trades(r, str) \in [1 .. Len(str) -> Nat]
    BY TradesType
  <2>3. Len(str) = 1 /\ str[1] = m
    BY <2>1
  <2>4. g[1] = IF str[1].kind = "trade" /\ str[1].ref = r THEN str[1].n ELSE 0
    BY <1>1, <2>1, <2>3 DEF Trades
  <2> QED
    BY <1>1, <2>1, <2>2, <2>3, <2>4
<1> QED
  BY <1>1, <1>3, SumOne DEF Coming

(* A report sent adds its trade to those to come.                          *)
LEMMA ComingAppend ==
    ASSUME NEW str \in Seq(Message), NEW m \in Message, NEW r
    PROVE  Coming(r, Append(str, m))
               = Coming(r, str) + (IF m.kind = "trade" /\ m.ref = r THEN m.n ELSE 0)
<1>1. <<m>> \in Seq(Message) /\ Append(str, m) = str \o <<m>>
  OBVIOUS
<1> QED
  <2>1. PICK one \in Seq(Message) : one = <<m>>
    BY <1>1
  <2>2. Coming(r, str \o one) = Coming(r, str) + Coming(r, one)
    BY ComingConcat
  <2> QED
    BY <1>1, <2>1, <2>2, ComingOne

(* A report handled takes its trade from those to come.                    *)
LEMMA ComingTail ==
    ASSUME NEW str \in Seq(Message), str # <<>>, NEW r
    PROVE  Coming(r, str) = Coming(r, Tail(str))
               + (IF Head(str).kind = "trade" /\ Head(str).ref = r THEN Head(str).n ELSE 0)
<1>1. PICK m \in Message : m = Head(str)
  OBVIOUS
<1>2. <<m>> \in Seq(Message) /\ Tail(str) \in Seq(Message) /\ str = <<m>> \o Tail(str)
  BY <1>1
<1>3. PICK one \in Seq(Message), rest \in Seq(Message) : one = <<m>> /\ rest = Tail(str)
  BY <1>2
<1>4. Coming(r, one \o rest) = Coming(r, one) + Coming(r, rest)
  BY ComingConcat
<1>5. Coming(r, rest) \in Nat
  BY TradesType
<1>6. m.n \in Nat
  BY DEF Message
<1> QED
  <2>1. Coming(r, one) = IF m.kind = "trade" /\ m.ref = r THEN m.n ELSE 0
    BY <1>3, ComingOne
  <2>2. str = one \o rest
    BY <1>2, <1>3
  <2>3. Coming(r, str) = Coming(r, one) + Coming(r, rest)
    BY <1>4, <2>2
  <2> QED
    BY <1>1, <1>3, <1>5, <1>6, <2>1, <2>3

-----------------------------------------------------------------------------
(* The operators of the model.                                             *)

(* An order that NewOrder makes counts as open with all its volume, and in *)
(* no other way.                                                           *)
LEMMA OneOrder ==
    ASSUME NEW dir \in Dirs, NEW flag \in Flags, NEW v \in 1 .. MaxOnce
    PROVE  /\ NewOrder(dir, flag, v) \in OrderRec /\ OrderOK(NewOrder(dir, flag, v))
           /\ NewOrder(dir, flag, v).dir = dir /\ NewOrder(dir, flag, v).flag = flag
           /\ NewOrder(dir, flag, v).rep = "none" /\ NewOrder(dir, flag, v).cxl = "no"
           /\ NewOrder(dir, flag, v).traded = 0 /\ NewOrder(dir, flag, v).left = v
           /\ NewOrder(dir, flag, v).vol = v
           /\ \A k : Counts(k, NewOrder(dir, flag, v)) = IF k = "open" THEN v ELSE 0
<1>1. MaxOnce \in Nat /\ v \in Nat
  BY BookAssumption
<1>2. PICK o : o = NewOrder(dir, flag, v)
  OBVIOUS
<1>3. o \in OrderRec /\ OrderOK(o)
  BY <1>1, <1>2 DEF NewOrder, OrderRec, OrderOK, Dirs
<1>4. \A k : Counts(k, o) = IF k = "open" THEN v ELSE 0
  BY <1>1, <1>2 DEF NewOrder, Counts, OpenOf
<1> QED
  BY <1>2, <1>3, <1>4 DEF NewOrder

(* The portions of a volume are at most nMaxOnce lots each and come to the *)
(* volume.                                                                 *)
LEMMA PortionsOK ==
    ASSUME NEW v \in Nat
    PROVE  /\ Portions(v) \in Seq(1 .. MaxOnce)
           /\ Portions(v) \in [1 .. Len(Portions(v)) -> Int]
           /\ SumFunction(Portions(v)) = v
<1>1. MaxOnce \in Nat /\ MaxOnce > 0
  BY BookAssumption
<1>2. PICK k \in Nat : k = (v + MaxOnce - 1) \div MaxOnce /\ k * MaxOnce >= v
                        /\ k * MaxOnce < v + MaxOnce
  BY <1>1
<1>3. PICK p : p = Portions(v)
  OBVIOUS
<1>4. p = [i \in 1 .. k |-> Lesser(MaxOnce, v - (i - 1) * MaxOnce)]
  BY <1>2, <1>3 DEF Portions
<1>5. \A i \in 1 .. k : p[i] = Lesser(MaxOnce, v - (i - 1) * MaxOnce) /\ p[i] \in 1 .. MaxOnce
  <2> SUFFICES ASSUME NEW i \in 1 .. k
               PROVE  Lesser(MaxOnce, v - (i - 1) * MaxOnce) \in 1 .. MaxOnce
    BY <1>4
  <2>1. PICK j \in Nat : j = i - 1 /\ j + 1 <= k
    OBVIOUS
  <2>2. (j + 1) * MaxOnce <= k * MaxOnce
    BY <1>1, <2>1
  <2>3. j * MaxOnce + MaxOnce = (j + 1) * MaxOnce
    BY <1>1
  <2>4. j * MaxOnce \in Int /\ k * MaxOnce \in Int
    BY <1>1
  <2>5. v - j * MaxOnce > 0
    BY <1>1, <1>2, <2>2, <2>3, <2>4
  <2> QED
    BY <1>1, <2>1, <2>4, <2>5 DEF Lesser
<1>6. p \in Seq(1 .. MaxOnce) /\ Len(p) = k
  BY <1>4, <1>5
<1>7. p \in [1 .. k -> Int]
  <2>1. \A i \in 1 .. k : p[i] \in Int
    BY <1>1, <1>5
  <2>2. DOMAIN p = 1 .. k /\ p = [i \in 1 .. k |-> p[i]]
    BY <1>4
  <2> QED
    BY <2>1, <2>2
<1>8. PICK P : P = [j \in Nat |-> [i \in 1 .. j |-> p[i]]]
  OBVIOUS
<1>9. \A j \in Nat : j <= k => P[j] \in [1 .. j -> Int] /\ \A i \in 1 .. j : P[j][i] = p[i]
  <2> SUFFICES ASSUME NEW j \in Nat, j <= k
               PROVE  P[j] \in [1 .. j -> Int] /\ \A i \in 1 .. j : P[j][i] = p[i]
    OBVIOUS
  <2>1. P[j] = [i \in 1 .. j |-> p[i]]
    BY <1>8
  <2>2. \A i \in 1 .. j : p[i] \in Int
    BY <1>7
  <2> QED
    BY <2>1, <2>2
<1>10. PICK N : N = {j \in Nat : j <= k => SumFunction(P[j]) = Lesser(j * MaxOnce, v)}
  OBVIOUS
<1>11. 0 \in N
  <2>1. P[0] \in [{} -> Int]
    BY <1>9
  <2>2. SumFunction(P[0]) = 0
    BY <2>1, SumEmpty
  <2>3. 0 * MaxOnce = 0
    BY <1>1
  <2> QED
    BY <1>10, <2>2, <2>3 DEF Lesser
<1>12. ASSUME NEW j \in Nat, j \in N
       PROVE  j + 1 \in N
  <2> SUFFICES ASSUME j + 1 <= k
               PROVE  SumFunction(P[j + 1]) = Lesser((j + 1) * MaxOnce, v)
    BY <1>10
  <2>1. SumFunction(P[j]) = Lesser(j * MaxOnce, v)
    BY <1>10, <1>12
  <2>2. PICK g \in [1 .. j + 1 -> Int] : g = P[j + 1]
    BY <1>9
  <2>3. PICK h \in [1 .. j -> Int] : h = P[j]
    BY <1>9
  <2>4. \A i \in 1 .. j : h[i] = g[i]
    BY <1>9, <2>2, <2>3
  <2>5. SumFunction(g) = SumFunction(h) + g[j + 1]
    BY <2>4, SumLast
  <2>6. g[j + 1] = Lesser(MaxOnce, v - j * MaxOnce)
    BY <1>5, <1>9, <2>2
  <2>7. PICK a \in Int : a = j * MaxOnce
    BY <1>1
  <2>8. (j + 1) * MaxOnce = a + MaxOnce
    BY <1>1, <2>7
  <2>9. (j + 1) * MaxOnce <= k * MaxOnce
    BY <1>1
  <2>10. a < v
    BY <1>1, <1>2, <2>8, <2>9
  <2> QED
    BY <1>1, <2>1, <2>2, <2>3, <2>5, <2>6, <2>7, <2>8, <2>10 DEF Lesser
<1>13. Nat \subseteq N
  BY <1>11, <1>12, NatSets, Zenon
<1>14. P[k] = p
  BY <1>7, <1>9
<1>15. SumFunction(p) = v
  BY <1>1, <1>2, <1>10, <1>13, <1>14 DEF Lesser
<1> QED
  BY <1>3, <1>6, <1>7, <1>15

(* Orders for v lots.                                                      *)
Made(dir, flag, v) == [i \in DOMAIN Portions(v) |-> NewOrder(dir, flag, Portions(v)[i])]

(* The orders made for a volume are as new, and come to the volume on the  *)
(* side that they open or close.                                           *)
LEMMA MadeOK ==
    ASSUME NEW dir \in Dirs, NEW flag \in Flags, NEW v \in Nat
    PROVE  /\ Made(dir, flag, v) \in Seq(OrderRec)
           /\ \A i \in 1 .. Len(Made(dir, flag, v)) : \E n \in 1 .. MaxOnce :
                  Made(dir, flag, v)[i] = NewOrder(dir, flag, n)
           /\ \A k, s, f : Tot(k, s, f, Made(dir, flag, v))
                  = IF k = "open" /\ f = flag /\ s = SideOf(dir, f) THEN v ELSE 0
<1>1. PICK p : p = Portions(v)
  OBVIOUS
<1>2. p \in Seq(1 .. MaxOnce) /\ p \in [1 .. Len(p) -> Int] /\ SumFunction(p) = v
  BY <1>1, PortionsOK
<1>3. PICK q : q = Made(dir, flag, v)
  OBVIOUS
<1>4. q = [i \in 1 .. Len(p) |-> NewOrder(dir, flag, p[i])]
  BY <1>1, <1>2, <1>3 DEF Made
<1>5. \A i \in 1 .. Len(p) : q[i] = NewOrder(dir, flag, p[i]) /\ p[i] \in 1 .. MaxOnce
  <2>1. \A i \in 1 .. Len(p) : q[i] = NewOrder(dir, flag, p[i])
    BY <1>4
  <2>2. \A i \in 1 .. Len(p) : p[i] \in 1 .. MaxOnce
    <3>1. PICK M : M = 1 .. MaxOnce
      OBVIOUS
    <3>2. p \in Seq(M)
      BY <1>2, <3>1
    <3>3. \A i \in 1 .. Len(p) : p[i] \in M
      BY ONLY <3>2
    <3> QED
      BY <3>1, <3>3
  <2> QED
    BY <2>1, <2>2
<1>6. q \in Seq(OrderRec) /\ Len(q) = Len(p)
  <2>1. \A i \in 1 .. Len(p) : q[i] \in OrderRec
    BY <1>5, OneOrder
  <2> QED
    BY <1>2, <1>4, <2>1
<1>7. ASSUME NEW k, NEW s, NEW f
      PROVE  Tot(k, s, f, q) = IF k = "open" /\ f = flag /\ s = SideOf(dir, f) THEN v ELSE 0
  <2>1. \A i \in 1 .. Len(q) : Weight(k, s, f, q[i])
            = IF k = "open" /\ f = flag /\ s = SideOf(dir, f) THEN p[i] ELSE 0
    <3> SUFFICES ASSUME NEW i \in 1 .. Len(p)
                 PROVE  Weight(k, s, f, q[i])
            = IF k = "open" /\ f = flag /\ s = SideOf(dir, f) THEN p[i] ELSE 0
      BY <1>6
    <3>1. q[i].dir = dir /\ q[i].flag = flag /\ Counts(k, q[i]) = IF k = "open" THEN p[i] ELSE 0
      BY <1>5, OneOrder
    <3> QED
      BY <3>1 DEF Weight, Of
  <2>2. CASE k = "open" /\ f = flag /\ s = SideOf(dir, f)
    <3>1. Weights(k, s, f, q) = p
      BY <1>2, <1>6, <2>1, <2>2, WeightsType
    <3> QED
      BY <1>2, <2>2, <3>1 DEF Tot
  <2>3. CASE ~(k = "open" /\ f = flag /\ s = SideOf(dir, f))
    <3>1. \A i \in 1 .. Len(q) : Weight(k, s, f, q[i]) = 0
      BY <2>1, <2>3
    <3> QED
      BY <1>6, <2>3, <3>1, TotZero
  <2> QED
    BY <2>2, <2>3
<1>8. \A i \in 1 .. Len(q) : \E n \in 1 .. MaxOnce : q[i] = NewOrder(dir, flag, n)
  BY <1>5, <1>6
<1> QED
  BY <1>3, <1>6, <1>7, <1>8

(* PositionUpdate is exact where the side holds what is closed.            *)
LEMMA MovedReads ==
    ASSUME NEW b \in [pos : Int, today : Int, hist : Int], apart \in BOOLEAN,
           NEW flag \in Flags, NEW n \in Nat, apart => b.pos = b.today,
           flag # "open" => Read(b).td >= 0 /\ Read(b).yd >= 0,
           flag = "today" => n <= Read(b).td, flag = "yesterday" => n <= Read(b).yd
    PROVE  /\ Moved(b, flag, n) \in [pos : Int, today : Int, hist : Int]
           /\ Read(Moved(b, flag, n)).td = Read(b).td
                 + (IF flag = "open" THEN n ELSE IF flag = "today" THEN -n ELSE 0)
           /\ Read(Moved(b, flag, n)).yd = Read(b).yd + (IF flag = "yesterday" THEN -n ELSE 0)
           /\ apart => Moved(b, flag, n).pos = Moved(b, flag, n).today
           /\ flag # "open" => Closable(b, flag, n) = n
<1>0. b.pos \in Int /\ b.today \in Int /\ b.hist \in Int
      /\ b = [pos |-> b.pos, today |-> b.today, hist |-> b.hist]
  OBVIOUS
<1>1. CASE flag = "open"
  <2>1. PICK c : c = [b EXCEPT !.pos = @ + n, !.today = @ + n]
    OBVIOUS
  <2>2. Moved(b, flag, n) = c
    BY <1>1, <2>1 DEF Moved, Opened
  <2>3. c.pos = b.pos + n /\ c.today = b.today + n /\ c.hist = b.hist
    BY <2>1
  <2>4. c \in [pos : Int, today : Int, hist : Int]
    <3>1. PICK d : d = [b EXCEPT !.pos = @ + n]
      OBVIOUS
    <3>2. d \in [pos : Int, today : Int, hist : Int] /\ d.today = b.today
      BY <3>1
    <3>3. c = [d EXCEPT !.today = @ + n]
      BY <2>1, <3>1, <3>2
    <3> QED
      BY <3>2, <3>3
  <2> QED
    BY <1>0, <1>1, <2>2, <2>3, <2>4 DEF Read
<1>2. CASE flag = "today"
  <2>0. Closable(b, flag, n) = n
    BY <1>0, <1>2 DEF Closable, Lesser, Read
  <2>1. PICK c : c = [b EXCEPT !.pos = @ - n, !.today = @ - n]
    OBVIOUS
  <2>2. Moved(b, flag, n) = c
    BY <1>2, <2>0, <2>1 DEF Moved, ClosedTd
  <2>3. c.pos = b.pos - n /\ c.today = b.today - n /\ c.hist = b.hist
    BY <2>1
  <2>4. c \in [pos : Int, today : Int, hist : Int]
    <3>1. PICK d : d = [b EXCEPT !.pos = @ - n]
      OBVIOUS
    <3>2. d \in [pos : Int, today : Int, hist : Int] /\ d.today = b.today
      BY <3>1
    <3>3. c = [d EXCEPT !.today = @ - n]
      BY <2>1, <3>1, <3>2
    <3> QED
      BY <3>2, <3>3
  <2> QED
    BY <1>0, <1>2, <2>0, <2>2, <2>3, <2>4 DEF Read
<1>3. CASE flag = "yesterday"
  <2>0. Closable(b, flag, n) = n
    BY <1>0, <1>3 DEF Closable, Lesser, Read
  <2>1. PICK c : c = [pos |-> IF apart THEN b.pos ELSE b.pos - n, today |-> b.today,
                      hist |-> IF apart THEN b.hist - n ELSE b.hist]
    OBVIOUS
  <2>2. Moved(b, flag, n) = c
    BY <1>0, <1>3, <2>0, <2>1 DEF Moved, ClosedYd
  <2>3. c \in [pos : Int, today : Int, hist : Int] /\ c.today = b.today
        /\ c.pos = (IF apart THEN b.pos ELSE b.pos - n)
        /\ c.hist = (IF apart THEN b.hist - n ELSE b.hist)
    BY <1>0, <2>1
  <2> QED
    BY <1>0, <1>3, <2>0, <2>2, <2>3 DEF Read
<1> QED
  BY <1>1, <1>2, <1>3 DEF Flags

-----------------------------------------------------------------------------
(* A step that changes one order.                                          *)
Alters(ord, new, r) ==
    /\ ord \in Seq(OrderRec) /\ new \in Seq(OrderRec)
    /\ r \in 1 .. Len(ord) /\ Len(new) = Len(ord)
    /\ \A q \in 1 .. Len(ord) : q # r => new[q] = ord[q]
    /\ new[r].dir = ord[r].dir /\ new[r].flag = ord[r].flag /\ new[r].vol = ord[r].vol

(* An order replaced by one of the same direction, flag and volume.        *)
LEMMA AlterOne ==
    ASSUME NEW ord \in Seq(OrderRec), NEW r \in 1 .. Len(ord), NEW o \in OrderRec,
           o.dir = ord[r].dir, o.flag = ord[r].flag, o.vol = ord[r].vol,
           NEW new, new = [ord EXCEPT ![r] = o]
    PROVE  Alters(ord, new, r) /\ new[r] = o
<1>1. new \in Seq(OrderRec) /\ Len(new) = Len(ord) /\ new[r] = o
  OBVIOUS
<1>2. \A q \in 1 .. Len(ord) : q # r => new[q] = ord[q]
  OBVIOUS
<1> QED
  BY <1>1, <1>2 DEF Alters

(* An altered order changes the totals it counts for by what it changes,   *)
(* and no other.                                                           *)
LEMMA AlterTot ==
    ASSUME NEW ord, NEW new, NEW r, Alters(ord, new, r), NEW k, NEW s, NEW f
    PROVE  /\ Tot(k, s, f, ord) \in Int
           /\ Tot(k, s, f, new) = Tot(k, s, f, ord)
                 + (IF Of(s, f, ord[r]) THEN Counts(k, new[r]) - Counts(k, ord[r]) ELSE 0)
<1>1. ord \in Seq(OrderRec) /\ new \in Seq(OrderRec) /\ r \in 1 .. Len(ord)
      /\ Len(new) = Len(ord) /\ (\A q \in 1 .. Len(ord) : q # r => new[q] = ord[q])
      /\ new[r].dir = ord[r].dir /\ new[r].flag = ord[r].flag
  BY DEF Alters
<1>2. Tot(k, s, f, new)
          = Tot(k, s, f, ord) + (Weight(k, s, f, new[r]) - Weight(k, s, f, ord[r]))
  BY ONLY <1>1, TotChange
<1>3. Tot(k, s, f, ord) \in Int
  BY <1>1, WeightsType
<1>4. Of(s, f, new[r]) <=> Of(s, f, ord[r])
  BY <1>1 DEF Of
<1>5. ord[r] \in OrderRec /\ new[r] \in OrderRec
  BY <1>1
<1>6. Counts(k, ord[r]) \in Int /\ Counts(k, new[r]) \in Int
  BY <1>5, CountsInt
<1> QED
  BY <1>2, <1>3, <1>4, <1>6 DEF Weight

(* An order altered to a good one leaves the orders good.                  *)
LEMMA AlterOrders ==
    ASSUME NEW ord, NEW new, NEW r, Alters(ord, new, r), OrdersAt(ord), OrderOK(new[r])
    PROVE  OrdersAt(new)
BY DEF Alters, OrdersAt

(* An altered order leaves the direction, unless it becomes active.        *)
LEMMA AlterWay ==
    ASSUME NEW ord, NEW new, NEW r, Alters(ord, new, r), OneWayAt(ord),
           Active(new[r]) => Active(ord[r])
    PROVE  OneWayAt(new)
BY DEF Alters, OneWayAt

(* An altered order leaves the stream right, when its reports still fit.   *)
LEMMA AlterStream ==
    ASSUME NEW str \in Seq(Message), NEW ord, NEW new, NEW r, Alters(ord, new, r),
           StreamAt(str, ord),
           \A i \in 1 .. Len(str) :
               str[i].ref = r /\ ReportOK(str[i], ord[r]) => ReportOK(str[i], new[r])
    PROVE  StreamAt(str, new)
<1>1. \A i \in 1 .. Len(str) : str[i].ref \in 1 .. Len(new) /\ ReportOK(str[i], new[str[i].ref])
  BY DEF StreamAt, Alters
<1> QED
  BY <1>1 DEF StreamAt

(* A step that changes no position: the accounts and how orders count.     *)
LEMMA AlterSame ==
    ASSUME NEW ord, NEW new, NEW r, Alters(ord, new, r), NEW k,
           Counts(k, new[r]) = Counts(k, ord[r])
    PROVE  \A s, f : Tot(k, s, f, new) = Tot(k, s, f, ord)
<1> TAKE s, f
<1>1. ord[r] \in OrderRec
  BY DEF Alters
<1>2. Counts(k, ord[r]) \in Int
  BY <1>1, CountsInt
<1>3. Tot(k, s, f, ord) \in Int
      /\ Tot(k, s, f, new) = Tot(k, s, f, ord)
            + (IF Of(s, f, ord[r]) THEN Counts(k, new[r]) - Counts(k, ord[r]) ELSE 0)
  BY AlterTot
<1> QED
  BY <1>2, <1>3

(* A book depends on the orders by their totals only, ...                  *)
LEMMA SameBook ==
    ASSUME NEW ord, NEW new, NEW k, NEW sep, NEW book, NEW acc, BookAt(sep, book, k, acc, ord),
           \A s, f : Tot(k, s, f, new) = Tot(k, s, f, ord)
    PROVE  BookAt(sep, book, k, acc, new)
BY DEF BookAt

(* ... and so does what the exchange covers, ...                           *)
LEMMA SameCovered ==
    ASSUME NEW ord, NEW new, NEW acc, CoveredAt(acc, ord),
           \A s, f : Tot("live", s, f, new) = Tot("live", s, f, ord)
    PROVE  CoveredAt(acc, new)
BY DEF CoveredAt

(* ... what is free to close and where the orders lead.                    *)
LEMMA SameFree ==
    ASSUME NEW ord, NEW new, NEW acc,
           \A s, f : Tot("open", s, f, new) = Tot("open", s, f, ord)
    PROVE  /\ \A bl : FreeAt(bl, acc, ord) => FreeAt(bl, acc, new)
           /\ \A s : FreeTd(acc, new, s) = FreeTd(acc, ord, s)
           /\ \A s : FreeYd(acc, new, s) = FreeYd(acc, ord, s)
           /\ Leads(acc, new) = Leads(acc, ord)
BY DEF FreeAt, FreeTd, FreeYd, Leads, Net

(* No order is under way or dropped that was not.                          *)
Calm(ord, new) ==
    /\ Len(new) = Len(ord)
    /\ \A q \in 1 .. Len(ord) :
          /\ new[q].rep # "done" => ord[q].rep # "done" /\ new[q].dir = ord[q].dir
          /\ new[q].cxl = "drop" /\ new[q].rep # "done" => ord[q].cxl = "drop"

(* The target stays kept when the totals stay and nothing starts to go the *)
(* other way.                                                              *)
LEMMA SameGoal ==
    ASSUME NEW ord, NEW new, NEW acc, NEW g, NEW bl, GoalAt(g, bl, acc, ord),
           \A s, f : Tot("open", s, f, new) = Tot("open", s, f, ord), Calm(ord, new)
    PROVE  GoalAt(g, bl, acc, new)
<1>1. /\ \A s : FreeTd(acc, new, s) = FreeTd(acc, ord, s)
      /\ \A s : FreeYd(acc, new, s) = FreeYd(acc, ord, s)
      /\ Leads(acc, new) = Leads(acc, ord)
  BY ONLY \A s, f : Tot("open", s, f, new) = Tot("open", s, f, ord), SameFree, SMTT(20)
<1>2. \A d : AllGo(d, ord) => AllGo(d, new)
  BY DEF AllGo, Calm
<1>3. \A s : Spent(acc, ord, s) => Spent(acc, new, s)
  BY <1>1, <1>2 DEF Spent
<1> QED
  BY <1>1, <1>3 DEF GoalAt, Calm

(* No further reopened orders need a reference.                            *)
LEMMA SameRoom ==
    ASSUME NEW ord \in Seq(OrderRec), NEW new, RoomAt(ord), Len(new) = Len(ord),
           \A q \in 1 .. Len(ord) :
               new[q].cxl = "reopen" /\ new[q].rep # "done"
                   => ord[q].cxl = "reopen" /\ ord[q].rep # "done"
    PROVE  RoomAt(new)
<1>1. Reserve(new) \subseteq Reserve(ord)
  BY DEF Reserve
<1>2. IsFiniteSet(Reserve(ord))
  <2>1. Reserve(ord) \subseteq 1 .. Len(ord) /\ IsFiniteSet(1 .. Len(ord))
    BY FS_Interval DEF Reserve
  <2> QED
    BY <2>1, FS_Subset
<1>3. Cardinality(Reserve(new)) <= Cardinality(Reserve(ord))
      /\ Cardinality(Reserve(new)) \in Nat /\ Cardinality(Reserve(ord)) \in Nat
  BY <1>1, <1>2, FS_Subset, FS_CardinalityType
<1> QED
  BY <1>3, BookAssumption DEF RoomAt

-----------------------------------------------------------------------------
(* The books.                                                              *)

(* What is counted of good orders is natural, so no order counts for more  *)
(* than the total.                                                         *)
LEMMA Counted ==
    ASSUME NEW ord \in Seq(OrderRec), NEW str \in Seq(Message), OrdersAt(ord),
           TradesAt(str, ord), NEW k \in Ways
    PROVE  /\ \A r \in 1 .. Len(ord) : Counts(k, ord[r]) \in Nat
           /\ \A s, f : /\ Tot(k, s, f, ord) \in Nat
                        /\ \A r \in 1 .. Len(ord) :
                              Of(s, f, ord[r]) => Counts(k, ord[r]) <= Tot(k, s, f, ord)
<1>1. \A r \in 1 .. Len(ord) : Counts(k, ord[r]) \in Nat
  <2> SUFFICES ASSUME NEW r \in 1 .. Len(ord)
               PROVE  Counts(k, ord[r]) \in Nat
    OBVIOUS
  <2>1. PICK o \in OrderRec : o = ord[r]
    OBVIOUS
  <2>2. OrderOK(o) /\ o.vol \in Nat /\ o.rem \in Nat /\ o.traded \in Nat /\ o.left \in Nat
    BY <2>1, RecFields DEF OrdersAt
  <2>3. Coming(r, str) \in Nat /\ o.traded + Coming(r, str) = o.vol - o.left
    BY <2>1, TradesType DEF TradesAt
  <2> QED
    BY <2>1, <2>2, <2>3 DEF Counts, OpenOf, OrderOK, Ways
<1>2. \A s, f, r : r \in 1 .. Len(ord) => Weight(k, s, f, ord[r]) >= 0
  BY <1>1 DEF Weight
<1>3. ASSUME NEW s, NEW f
      PROVE  /\ Tot(k, s, f, ord) \in Nat
             /\ \A r \in 1 .. Len(ord) : Of(s, f, ord[r]) => Counts(k, ord[r]) <= Tot(k, s, f, ord)
  <2>1. /\ Tot(k, s, f, ord) \in Nat
        /\ \A r \in 1 .. Len(ord) : Weight(k, s, f, ord[r]) <= Tot(k, s, f, ord)
    BY <1>2, TotNat
  <2> QED
    BY <2>1 DEF Weight
<1> QED
  BY <1>1, <1>3

(* What the orders of one way would have opened of a side, had they gone   *)
(* the other way.                                                          *)
LEMMA NoneOther ==
    ASSUME NEW ord \in Seq(OrderRec), OneWayAt(ord), NEW r \in 1 .. Len(ord), Active(ord[r]),
           ord[r].flag # "open", NEW k \in {"unbooked", "untraded"},
           NEW str \in Seq(Message), OrdersAt(ord), TradesAt(str, ord)
    PROVE  Tot(k, SideOf(ord[r].dir, ord[r].flag), "open", ord) = 0
<1>1. PICK s : s = SideOf(ord[r].dir, ord[r].flag)
  OBVIOUS
<1>2. \A q \in 1 .. Len(ord) : Weight(k, s, "open", ord[q]) = 0
  <2> SUFFICES ASSUME NEW q \in 1 .. Len(ord), Of(s, "open", ord[q]), Counts(k, ord[q]) # 0
               PROVE  FALSE
    BY DEF Weight
  <2>1. Counts(k, ord[q]) \in Nat
    BY Counted DEF Ways
  <2>2. ord[q] \in OrderRec
    OBVIOUS
  <2>3. Active(ord[q])
    BY <2>1, <2>2, RecFields, SMTT(20) DEF Active, Counts
  <2>4. ord[q].dir = ord[r].dir
    BY <2>3 DEF OneWayAt
  <2> QED
    BY <1>1, <2>4 DEF Of, SideOf
<1>3. Tot(k, s, "open", ord) = 0
  BY <1>2, TotZero
<1> QED
  BY <1>1, <1>3

(* An order opens or closes longs or shorts.                               *)
LEMMA SideType == \A d, f : SideOf(d, f) \in Sides
BY DEF SideOf, Sides

(* What n lots of an order not counted yet do to a book.                   *)
LEMMA BookMove ==
    ASSUME NEW ord, NEW new, NEW r, Alters(ord, new, r), NEW str \in Seq(Message),
           OrdersAt(ord), TradesAt(str, ord), OneWayAt(ord), Active(ord[r]),
           NEW k \in {"unbooked", "untraded"}, NEW n \in Nat, n <= Counts(k, ord[r]),
           Counts(k, new[r]) = Counts(k, ord[r]) - n,
           apart \in BOOLEAN, NEW acc \in Holding, NEW book \in Book,
           BookAt(apart, book, k, acc, ord)
    PROVE  /\ Update(book, ord[r], n) \in Book
           /\ BookAt(apart, Update(book, ord[r], n), k, acc, new)
           /\ Fits(book, ord[r], n)
<1>1. ord \in Seq(OrderRec) /\ r \in 1 .. Len(ord)
  BY DEF Alters
<1>2. PICK o \in OrderRec : o = ord[r]
  BY <1>1
<1>3. o.flag \in Flags
  BY RecFields
<1>4. PICK s \in Sides : s = SideOf(o.dir, o.flag)
  BY SideType
<1>5. PICK b \in [pos : Int, today : Int, hist : Int] : b = book[s]
  BY DEF Book
<1>6. acc[s].td \in Nat /\ acc[s].yd \in Nat
  BY DEF Holding
<1>7. \A t, f : Tot(k, t, f, ord) \in Nat
  BY <1>1, Counted DEF Ways
<1>8. n <= Tot(k, s, o.flag, ord)
  <2>1. Of(s, o.flag, ord[r])
    BY <1>2, <1>4 DEF Of
  <2>2. Counts(k, ord[r]) <= Tot(k, s, o.flag, ord) /\ Counts(k, ord[r]) \in Nat
    BY <1>1, <2>1, Counted DEF Ways
  <2> QED
    BY <1>7, <2>2
<1>9. o.flag # "open" => Tot(k, s, "open", ord) = 0
  BY <1>1, <1>2, <1>4, NoneOther
<1>10. /\ b.today = acc[s].td - Tot(k, s, "open", ord) + Tot(k, s, "today", ord)
       /\ (IF apart THEN b.hist ELSE b.pos - b.today) = acc[s].yd + Tot(k, s, "yesterday", ord)
       /\ apart => b.pos = b.today
  BY <1>5 DEF BookAt
<1>11. Read(b).td = b.today /\ Read(b).yd = (IF apart THEN b.hist ELSE b.pos - b.today)
  BY DEF Read
<1>12. PICK c : c = Moved(b, o.flag, n)
  OBVIOUS
<1>13. /\ c \in [pos : Int, today : Int, hist : Int]
       /\ Read(c).td = Read(b).td + (IF o.flag = "open" THEN n ELSE IF o.flag = "today" THEN -n ELSE 0)
       /\ Read(c).yd = Read(b).yd + (IF o.flag = "yesterday" THEN -n ELSE 0)
       /\ apart => c.pos = c.today
       /\ o.flag # "open" => Closable(b, o.flag, n) = n
  <2>1. o.flag # "open" => Read(b).td >= 0 /\ Read(b).yd >= 0
    BY <1>6, <1>7, <1>9, <1>10, <1>11, SMTT(20)
  <2>2. o.flag = "today" => n <= Read(b).td
    BY <1>6, <1>7, <1>8, <1>9, <1>10, <1>11
  <2>3. o.flag = "yesterday" => n <= Read(b).yd
    <3> SUFFICES ASSUME o.flag = "yesterday"
                 PROVE  n <= Read(b).yd
      OBVIOUS
    <3>1. Tot(k, s, "yesterday", ord) \in Nat /\ n <= Tot(k, s, "yesterday", ord)
      BY <1>7, <1>8
    <3>2. Read(b).yd = acc[s].yd + Tot(k, s, "yesterday", ord)
      BY <1>10, <1>11
    <3> QED
      BY <1>6, <3>1, <3>2
  <2>4. apart => b.pos = b.today
    BY <1>10
  <2>5. /\ Moved(b, o.flag, n) \in [pos : Int, today : Int, hist : Int]
        /\ Read(Moved(b, o.flag, n)).td = Read(b).td
              + (IF o.flag = "open" THEN n ELSE IF o.flag = "today" THEN -n ELSE 0)
        /\ Read(Moved(b, o.flag, n)).yd = Read(b).yd + (IF o.flag = "yesterday" THEN -n ELSE 0)
        /\ apart => Moved(b, o.flag, n).pos = Moved(b, o.flag, n).today
        /\ o.flag # "open" => Closable(b, o.flag, n) = n
    BY ONLY <1>3, <2>1, <2>2, <2>3, <2>4, apart \in BOOLEAN, n \in Nat,
            b \in [pos : Int, today : Int, hist : Int], MovedReads, ZenonT(30)
  <2> QED
    BY <1>12, <2>5
<1>14. Read(c).td = c.today /\ Read(c).yd = (IF apart THEN c.hist ELSE c.pos - c.today)
  BY DEF Read
<1>15. PICK u : u = Update(book, o, n)
  OBVIOUS
<1>16. u \in Book /\ u[s] = c /\ \A t \in Sides : t # s => u[t] = book[t]
  <2>1. u = [book EXCEPT ![s] = c]
    BY <1>4, <1>5, <1>12, <1>15 DEF Update
  <2> QED
    BY <1>13, <2>1 DEF Book
<1>17. \A t, f : Tot(k, t, f, new)
           = Tot(k, t, f, ord) - (IF t = s /\ f = o.flag THEN n ELSE 0)
  <2> TAKE t, f
  <2>1. Of(t, f, ord[r]) <=> t = s /\ f = o.flag
    BY <1>2, <1>4 DEF Of
  <2>2. Counts(k, ord[r]) \in Nat
    BY <1>1, Counted DEF Ways
  <2>3. Tot(k, t, f, ord) \in Int
        /\ Tot(k, t, f, new) = Tot(k, t, f, ord)
              + (IF Of(t, f, ord[r]) THEN Counts(k, new[r]) - Counts(k, ord[r]) ELSE 0)
    BY AlterTot
  <2> QED
    BY <2>1, <2>2, <2>3
<1>18. ASSUME NEW t \in Sides
       PROVE  /\ u[t].today = acc[t].td - Tot(k, t, "open", new) + Tot(k, t, "today", new)
              /\ (IF apart THEN u[t].hist ELSE u[t].pos - u[t].today)
                     = acc[t].yd + Tot(k, t, "yesterday", new)
              /\ apart => u[t].pos = u[t].today
  <2>1. CASE t = s
    <3>1. /\ Tot(k, s, "open", new) = Tot(k, s, "open", ord) - (IF o.flag = "open" THEN n ELSE 0)
          /\ Tot(k, s, "today", new) = Tot(k, s, "today", ord) - (IF o.flag = "today" THEN n ELSE 0)
          /\ Tot(k, s, "yesterday", new)
                = Tot(k, s, "yesterday", ord) - (IF o.flag = "yesterday" THEN n ELSE 0)
      BY <1>17
    <3>2. Tot(k, s, "open", ord) \in Nat /\ Tot(k, s, "today", ord) \in Nat
          /\ Tot(k, s, "yesterday", ord) \in Nat
      BY <1>7
    <3>3. c.today = b.today + (IF o.flag = "open" THEN n ELSE IF o.flag = "today" THEN -n ELSE 0)
      BY <1>11, <1>13, <1>14
    <3>4. (IF apart THEN c.hist ELSE c.pos - c.today)
              = (IF apart THEN b.hist ELSE b.pos - b.today)
                    + (IF o.flag = "yesterday" THEN -n ELSE 0)
      BY <1>11, <1>13, <1>14
    <3>5. b.today \in Int /\ (IF apart THEN b.hist ELSE b.pos - b.today) \in Int
      OBVIOUS
    <3>6. c.today = acc[s].td - Tot(k, s, "open", new) + Tot(k, s, "today", new)
      <4>1. b.today = acc[s].td - Tot(k, s, "open", ord) + Tot(k, s, "today", ord)
        BY <1>10
      <4>2. CASE o.flag = "open"
        <5>1. c.today = b.today + n
          BY <3>3, <3>5, <4>2
        <5>2. Tot(k, s, "open", new) = Tot(k, s, "open", ord) - n
          BY <3>1, <3>2, <4>2
        <5>3. Tot(k, s, "today", new) = Tot(k, s, "today", ord)
          BY <3>1, <3>2, <4>2
        <5>4. PICK A \in Int, U \in Int, T \in Int : A = acc[s].td /\ U = Tot(k, s, "open", ord)
                  /\ T = Tot(k, s, "today", ord)
          BY <1>6, <3>2
        <5>5. c.today = A - (U - n) + T
          BY ONLY <4>1, <5>1, <5>4, n \in Nat, A \in Int, U \in Int, T \in Int, SMTT(20)
        <5> QED
          BY <5>2, <5>3, <5>4, <5>5
      <4>3. CASE o.flag = "today"
        <5>1. c.today = b.today - n
          BY <3>3, <3>5, <4>3
        <5>2. Tot(k, s, "open", new) = Tot(k, s, "open", ord)
          BY <3>1, <3>2, <4>3
        <5>3. Tot(k, s, "today", new) = Tot(k, s, "today", ord) - n
          BY <3>1, <3>2, <4>3
        <5> QED
          BY ONLY <1>6, <3>2, <4>1, <5>1, <5>2, <5>3, n \in Nat, SMTT(20)
      <4>4. CASE o.flag = "yesterday"
        BY ONLY <1>6, <3>1, <3>2, <3>3, <4>1, <4>4, n \in Nat
      <4> QED
        BY <1>3, <4>2, <4>3, <4>4 DEF Flags
    <3>7. (IF apart THEN c.hist ELSE c.pos - c.today) = acc[s].yd + Tot(k, s, "yesterday", new)
      <4>1. PICK y : y = IF apart THEN b.hist ELSE b.pos - b.today
        OBVIOUS
      <4>2. PICK z : z = IF apart THEN c.hist ELSE c.pos - c.today
        OBVIOUS
      <4>3. y = acc[s].yd + Tot(k, s, "yesterday", ord)
            /\ z = y + (IF o.flag = "yesterday" THEN -n ELSE 0)
        BY <1>10, <3>4, <4>1, <4>2
      <4>4. z = acc[s].yd + Tot(k, s, "yesterday", new)
        <5>1. CASE o.flag = "yesterday"
          <6>1. z = y - n
            BY <3>5, <4>1, <4>3, <5>1
          <6>2. Tot(k, s, "yesterday", new) = Tot(k, s, "yesterday", ord) - n
            BY <3>1, <3>2, <5>1
          <6> QED
            BY ONLY <1>6, <3>2, <4>3, <6>1, <6>2, n \in Nat, SMTT(20)
        <5>2. CASE o.flag # "yesterday"
          BY ONLY <1>6, <3>1, <3>2, <4>3, <5>2, n \in Nat
        <5> QED
          BY <5>1, <5>2
      <4> QED
        BY <4>2, <4>4
    <3> QED
      BY <1>13, <1>16, <2>1, <3>6, <3>7
  <2>2. CASE t # s
    <3>1. \A f : Tot(k, t, f, new) = Tot(k, t, f, ord)
      BY <1>7, <1>17, <2>2
    <3> QED
      BY <1>16, <2>2, <3>1 DEF BookAt
  <2> QED
    BY <2>1, <2>2
<1>19. BookAt(apart, u, k, acc, new)
  BY <1>18 DEF BookAt
<1>20. Fits(book, o, n)
  BY <1>4, <1>5, <1>13 DEF Fits
<1> QED
  BY <1>2, <1>15, <1>16, <1>19, <1>20

-----------------------------------------------------------------------------
(* The stream.                                                             *)

(* The trades to come of the altered order and of the others account for   *)
(* their fills.                                                            *)
LEMMA AlterTrades ==
    ASSUME NEW ord, NEW new, NEW r, Alters(ord, new, r), NEW str, NEW str2,
           TradesAt(str, ord), \A q : q # r => Coming(q, str2) = Coming(q, str),
           new[r].traded + Coming(r, str2) = new[r].vol - new[r].left
    PROVE  TradesAt(str2, new)
BY DEF Alters, TradesAt

(* An order altered in neither its fills nor its trades.                   *)
LEMMA AlterTradesNone ==
    ASSUME NEW ord, NEW new, NEW r, Alters(ord, new, r), NEW str, TradesAt(str, ord),
           new[r].traded = ord[r].traded, new[r].left = ord[r].left
    PROVE  TradesAt(str, new)
BY DEF Alters, TradesAt

(* The first report fits its order; what follows it of the same order are  *)
(* trades, when it ends the order, and nothing when it refuses it.         *)
LEMMA StreamTail ==
    ASSUME NEW str \in Seq(Message), str # <<>>, NEW ord, StreamAt(str, ord)
    PROVE  /\ Head(str) \in Message /\ Head(str).ref \in 1 .. Len(ord)
           /\ ReportOK(Head(str), ord[Head(str).ref])
           /\ Tail(str) \in Seq(Message) /\ StreamAt(Tail(str), ord)
           /\ \A i \in 1 .. Len(Tail(str)) :
                 Tail(str)[i].ref = Head(str).ref =>
                     /\ Ending(Head(str)) => Tail(str)[i].kind = "trade"
                     /\ Head(str).kind # "error"
<1>0. Head(str) \in Message /\ Tail(str) \in Seq(Message)
  OBVIOUS
<1>1. PICK m \in Message, t \in Seq(Message) : m = Head(str) /\ t = Tail(str)
  BY <1>0
<1>2. PICK n \in Nat : n = Len(t)
  OBVIOUS
<1>3. Len(str) = n + 1 /\ str[1] = m /\ \A i \in 1 .. n : t[i] = str[i + 1]
  BY <1>1, <1>2
<1>4. m.ref \in 1 .. Len(ord) /\ ReportOK(m, ord[m.ref])
  BY <1>2, <1>3 DEF StreamAt
<1>5. \A i \in 1 .. n : i + 1 \in 1 .. Len(str)
  BY <1>3
<1>6. StreamAt(t, ord)
  <2>1. \A i \in 1 .. n : t[i].ref \in 1 .. Len(ord) /\ ReportOK(t[i], ord[t[i].ref])
    BY <1>3, <1>5 DEF StreamAt
  <2>2. ASSUME NEW i \in 1 .. n, NEW j \in 1 .. n, t[i].ref = t[j].ref, Ending(t[i]),
               t[j].kind # "trade"
        PROVE  j <= i
    <3>1. j + 1 <= i + 1
      BY <1>3, <1>5, <2>2 DEF StreamAt
    <3> QED
      BY <3>1
  <2>3. ASSUME NEW i \in 1 .. n, NEW j \in 1 .. n, t[i].ref = t[j].ref, t[i].kind = "error"
        PROVE  i = j
    <3>1. i + 1 = j + 1
      BY <1>3, <1>5, <2>3 DEF StreamAt
    <3> QED
      BY <3>1
  <2> QED
    BY <1>2, <2>1, <2>2, <2>3 DEF StreamAt
<1>7. ASSUME NEW i \in 1 .. n, t[i].ref = m.ref
      PROVE  (Ending(m) => t[i].kind = "trade") /\ m.kind # "error"
  <2>1. str[i + 1].ref = str[1].ref /\ i + 1 \in 1 .. Len(str) /\ 1 \in 1 .. Len(str) /\ i + 1 > 1
    BY <1>2, <1>3, <1>5, <1>7
  <2>2. Ending(m) => t[i].kind = "trade"
    <3> SUFFICES ASSUME Ending(m), t[i].kind # "trade"
                 PROVE  FALSE
      OBVIOUS
    <3>1. i + 1 <= 1
      BY <1>3, <2>1 DEF StreamAt
    <3> QED
      BY <2>1, <3>1
  <2>3. m.kind # "error"
    <3> SUFFICES ASSUME m.kind = "error"
                 PROVE  FALSE
      OBVIOUS
    <3>1. i + 1 = 1
      BY <1>3, <2>1 DEF StreamAt
    <3> QED
      BY <2>1, <3>1
  <2> QED
    BY <2>2, <2>3
<1> QED
  BY <1>1, <1>2, <1>4, <1>6, <1>7

(* A report follows: no report that ended the order came before, or a      *)
(* trade follows the report of the fill.                                   *)
LEMMA StreamAppend ==
    ASSUME NEW str \in Seq(Message), NEW ord, StreamAt(str, ord), NEW m \in Message,
           m.ref \in 1 .. Len(ord), ReportOK(m, ord[m.ref]),
           \A i \in 1 .. Len(str) : str[i].ref = m.ref =>
               /\ m.kind # "trade" => ~Ending(str[i])
               /\ str[i].kind # "error" /\ m.kind # "error"
    PROVE  Append(str, m) \in Seq(Message) /\ StreamAt(Append(str, m), ord)
<1>1. PICK n \in Nat : n = Len(str)
  OBVIOUS
<1>0. Append(str, m) \in Seq(Message)
  OBVIOUS
<1>2. PICK t \in Seq(Message) : t = Append(str, m)
  BY <1>0
<1>3. Len(t) = n + 1 /\ t[n + 1] = m /\ \A i \in 1 .. n : t[i] = str[i]
  BY <1>1, <1>2
<1>4. \A i \in 1 .. n + 1 : i \in 1 .. n \/ i = n + 1
  OBVIOUS
<1>5. \A i \in 1 .. n + 1 : t[i].ref \in 1 .. Len(ord) /\ ReportOK(t[i], ord[t[i].ref])
  BY <1>1, <1>3, <1>4 DEF StreamAt
<1>6. ASSUME NEW i \in 1 .. n + 1, NEW j \in 1 .. n + 1, t[i].ref = t[j].ref, Ending(t[i]),
             t[j].kind # "trade"
      PROVE  j <= i
  <2>1. CASE i = n + 1
    BY <2>1
  <2>2. CASE i \in 1 .. n /\ j = n + 1
    BY <1>1, <1>3, <1>6, <2>2
  <2>3. CASE i \in 1 .. n /\ j \in 1 .. n
    BY <1>1, <1>3, <1>6, <2>3 DEF StreamAt
  <2> QED
    BY <1>4, <2>1, <2>2, <2>3
<1>7. ASSUME NEW i \in 1 .. n + 1, NEW j \in 1 .. n + 1, t[i].ref = t[j].ref, t[i].kind = "error"
      PROVE  i = j
  <2>1. CASE i = n + 1 /\ j \in 1 .. n
    BY <1>1, <1>3, <1>7, <2>1
  <2>2. CASE i \in 1 .. n /\ j = n + 1
    BY <1>1, <1>3, <1>7, <2>2
  <2>3. CASE i \in 1 .. n /\ j \in 1 .. n
    BY <1>1, <1>3, <1>7, <2>3 DEF StreamAt
  <2> QED
    BY <1>4, <2>1, <2>2, <2>3
<1> QED
  BY <1>2, <1>3, <1>5, <1>6, <1>7 DEF StreamAt

(* New orders at the end leave the reports their orders.                   *)
LEMMA StreamMore ==
    ASSUME NEW str \in Seq(Message), NEW ord \in Seq(OrderRec), StreamAt(str, ord),
           NEW more \in Seq(OrderRec)
    PROVE  StreamAt(str, ord \o more)
<1>1. Len(ord \o more) >= Len(ord) /\ \A r \in 1 .. Len(ord) : (ord \o more)[r] = ord[r]
  OBVIOUS
<1> QED
  BY <1>1 DEF StreamAt

(* Of an order not in the stream no trades are to come.                    *)
LEMMA ComingNone ==
    ASSUME NEW str \in Seq(Message), NEW r, \A i \in 1 .. Len(str) : str[i].ref # r
    PROVE  Coming(r, str) = 0
<1>1. PICK S : S = 1 .. Len(str)
  OBVIOUS
<1>2. PICK g : g = Trades(r, str)
  OBVIOUS
<1>3. IsFiniteSet(S) /\ g \in [S -> Int] /\ \A i \in S : g[i] = 0
  <2>1. g \in [1 .. Len(str) -> Int]
    BY <1>2, TradesType
  <2>2. \A i \in 1 .. Len(str) : g[i] = 0
    BY <1>2 DEF Trades
  <2>3. IsFiniteSet(1 .. Len(str))
    BY FS_Interval
  <2> QED
    BY <1>1, <2>1, <2>2, <2>3
<1>4. SumFunction(g) = 0
  BY ONLY <1>3, SumZero, Zenon
<1> QED
  BY <1>2, <1>4 DEF Coming

(* New orders have no fills and no trades to come.                         *)
LEMMA TradesMore ==
    ASSUME NEW str \in Seq(Message), NEW ord \in Seq(OrderRec), StreamAt(str, ord),
           TradesAt(str, ord), NEW more \in Seq(OrderRec),
           \A r \in 1 .. Len(more) : more[r].traded = 0 /\ more[r].left = more[r].vol
    PROVE  TradesAt(str, ord \o more)
<1>0. ord \o more \in Seq(OrderRec) /\ Len(ord) \in Nat /\ Len(more) \in Nat
  OBVIOUS
<1>1. PICK all \in Seq(OrderRec), n \in Nat, m \in Nat :
          all = ord \o more /\ n = Len(ord) /\ m = Len(more)
  BY <1>0
<1>2. Len(all) = n + m
      /\ (\A r \in 1 .. n : all[r] = ord[r])
      /\ (\A r \in n + 1 .. n + m : r - n \in 1 .. m /\ all[r] = more[r - n])
  BY <1>1
<1>3. ASSUME NEW r \in 1 .. n + m
      PROVE  all[r].traded + Coming(r, str) = all[r].vol - all[r].left
  <2>1. CASE r \in 1 .. n
    BY <1>1, <1>2, <2>1 DEF TradesAt
  <2>2. CASE r \in n + 1 .. n + m
    <3>1. Coming(r, str) = 0
      BY <1>1, <2>2, ComingNone, SMTT(20) DEF StreamAt
    <3>2. all[r].traded = 0 /\ all[r].left = all[r].vol /\ all[r] \in OrderRec
      BY <1>1, <1>2, <2>2
    <3>3. all[r].vol \in Nat
      BY <3>2, RecFields
    <3> QED
      BY <3>1, <3>2, <3>3
  <2> QED
    BY <2>1, <2>2
<1> QED
  BY <1>1, <1>2, <1>3 DEF TradesAt

-----------------------------------------------------------------------------
(* The actions.                                                            *)

(* The conjuncts of the invariant.                                         *)
LEMMA Parts ==
    ASSUME IInv
    PROVE  /\ apart \in BOOLEAN /\ posORD \in Book /\ posTRD \in Book /\ account \in Holding
           /\ order \in Seq(OrderRec) /\ stream \in Seq(Message)
           /\ goal \in [on : BOOLEAN, pos : Int, open : BOOLEAN] /\ blind \in BOOLEAN
           /\ Refs = 1 .. Len(order) /\ Len(order) \in Nat
           /\ \A r \in 1 .. Len(order) : order[r] \in OrderRec /\ OrderOK(order[r])
           /\ OrdersAt(order) /\ StreamAt(stream, order) /\ TradesAt(stream, order)
           /\ OneWayAt(order) /\ CoveredAt(account, order)
           /\ BookAt(apart, posORD, "unbooked", account, order)
           /\ BookAt(apart, posTRD, "untraded", account, order)
           /\ FreeAt(blind, account, order) /\ GoalAt(goal, blind, account, order)
           /\ RoomAt(order)
BY DEF IInv, TypeInv, OrdersAt, Refs

(* The invariant from its conjuncts.                                       *)
LEMMA Whole ==
    ASSUME apart' \in BOOLEAN, posORD' \in Book, posTRD' \in Book, account' \in Holding,
           order' \in Seq(OrderRec), stream' \in Seq(Message),
           goal' \in [on : BOOLEAN, pos : Int, open : BOOLEAN], blind' \in BOOLEAN,
           OrdersAt(order'), StreamAt(stream', order'), TradesAt(stream', order'),
           OneWayAt(order'), CoveredAt(account', order'),
           BookAt(apart', posORD', "unbooked", account', order'),
           BookAt(apart', posTRD', "untraded", account', order'),
           FreeAt(blind', account', order'), GoalAt(goal', blind', account', order'),
           RoomAt(order')
    PROVE  IInv'
BY DEF IInv, TypeInv

(* CancelWay keeps the invariant.                                          *)
LEMMA CancelStep ==
    ASSUME IInv, NEW r \in Refs, CancelWay(r)
    PROVE  IInv'
<1>1. r \in 1 .. Len(order) /\ order \in Seq(OrderRec)
  BY Parts
<1>2. PICK o \in OrderRec : o = order[r]
  BY <1>1
<1>3. PICK p : p = [o EXCEPT !.cxl = "reopen"]
  OBVIOUS
<1>4. o.rep = "hang" /\ o.cxl = "no" /\ order' = [order EXCEPT ![r] = p]
      /\ Len(order) + Reserved < MaxRef
      /\ UNCHANGED <<apart, posORD, posTRD, account, stream, goal, blind>>
  BY <1>1, <1>2, <1>3 DEF CancelWay, Hanging
<1>5. p \in OrderRec /\ p.cxl = "reopen" /\ p.dir = o.dir /\ p.flag = o.flag /\ p.vol = o.vol
      /\ p.rem = o.rem /\ p.traded = o.traded /\ p.rep = o.rep /\ p.st = o.st /\ p.left = o.left
  BY <1>3 DEF OrderRec
<1>6. Alters(order, order', r) /\ order'[r] = p
  <2>1. p.dir = order[r].dir /\ p.flag = order[r].flag /\ p.vol = order[r].vol
    BY <1>2, <1>5
  <2> QED
    BY ONLY <1>1, <1>4, <2>1, <1>5, AlterOne
<1>7. OrderOK(o) /\ o.left \in Nat
  BY <1>1, <1>2, Parts, RecFields
<1>8. OrderOK(p)
  BY <1>4, <1>5, <1>7 DEF OrderOK
<1>9. OrdersAt(order')
  BY <1>6, <1>8, Parts, AlterOrders
<1>10. StreamAt(stream, order')
  <2>1. \A m : ReportOK(m, o) => ReportOK(m, p)
    BY <1>5, <1>4 DEF ReportOK
  <2> QED
    BY <1>2, <1>6, <2>1, Parts, AlterStream
<1>11. TradesAt(stream, order')
  <2>1. order'[r].traded = order[r].traded /\ order'[r].left = order[r].left
    BY <1>2, <1>5, <1>6
  <2> QED
    BY <1>6, <2>1, Parts, AlterTradesNone
<1>12. OneWayAt(order')
  BY <1>2, <1>5, <1>6, Parts, AlterWay DEF Active
<1>13. \A k : Counts(k, p) = Counts(k, o)
  BY <1>4, <1>5, <1>7 DEF Counts, OpenOf, OrderOK
<1>14. \A k, s, f : Tot(k, s, f, order') = Tot(k, s, f, order)
  BY <1>2, <1>6, <1>13, AlterSame
<1>15. CoveredAt(account, order')
  BY <1>14, Parts, SameCovered
<1>16. BookAt(apart, posORD, "unbooked", account, order')
       /\ BookAt(apart, posTRD, "untraded", account, order')
  BY <1>14, Parts, SameBook
<1>17. FreeAt(blind, account, order')
  BY <1>14, Parts, SameFree
<1>18. GoalAt(goal, blind, account, order')
  <2>1. Calm(order, order')
    BY <1>2, <1>4, <1>5, <1>6 DEF Alters, Calm
  <2>2. \A s, f : Tot("open", s, f, order') = Tot("open", s, f, order)
    BY <1>14
  <2> QED
    BY <2>1, <2>2, Parts, SameGoal
<1>19. RoomAt(order')
  <2>1. Reserve(order') \subseteq Reserve(order) \cup {r}
    BY <1>6 DEF Reserve, Alters
  <2>2. IsFiniteSet(Reserve(order))
    <3>1. Reserve(order) \subseteq 1 .. Len(order) /\ IsFiniteSet(1 .. Len(order))
      BY Parts, FS_Interval DEF Reserve
    <3> QED
      BY <3>1, FS_Subset
  <2>3. IsFiniteSet(Reserve(order) \cup {r})
        /\ Cardinality(Reserve(order) \cup {r}) <= Cardinality(Reserve(order)) + 1
        /\ Cardinality(Reserve(order)) \in Nat
    <3>1. PICK R : R = Reserve(order)
      OBVIOUS
    <3>2. IsFiniteSet(R)
      BY <2>2, <3>1
    <3>3. Cardinality(R) \in Nat
      BY <3>2, FS_CardinalityType
    <3>4. IsFiniteSet(R \cup {r})
          /\ Cardinality(R \cup {r}) = IF r \in R THEN Cardinality(R) ELSE Cardinality(R) + 1
      BY ONLY <3>2, FS_AddElement
    <3> QED
      BY <3>1, <3>3, <3>4
  <2>4. Cardinality(Reserve(order')) <= Cardinality(Reserve(order) \cup {r})
        /\ Cardinality(Reserve(order')) \in Nat /\ Cardinality(Reserve(order) \cup {r}) \in Nat
    BY <2>1, <2>3, FS_Subset, FS_CardinalityType
  <2>5. Reserved = Cardinality(Reserve(order))
    BY Parts DEF Reserved, Reserve
  <2>6. Len(order') = Len(order) /\ Len(order) \in Nat
    BY <1>6, Parts DEF Alters
  <2> QED
    BY <1>4, <2>3, <2>4, <2>5, <2>6, BookAssumption DEF RoomAt
<1>20. order' \in Seq(OrderRec)
  BY <1>6 DEF Alters
<1> QED
  BY <1>4, <1>9, <1>10, <1>11, <1>12, <1>15, <1>16, <1>17, <1>18, <1>19, <1>20, Parts, Whole

(* A sum over the orders that count is the total over all of them.         *)
LEMMA SumTot ==
    ASSUME NEW ord \in Seq(OrderRec), NEW k, NEW s, NEW f, NEW T \in SUBSET (1 .. Len(ord)),
           NEW g, g = [r \in T |-> g[r]], \A r \in T : g[r] = Weight(k, s, f, ord[r]),
           \A r \in (1 .. Len(ord)) \ T : Weight(k, s, f, ord[r]) = 0
    PROVE  SumFunction(g) = Tot(k, s, f, ord)
<1>1. PICK S : S = 1 .. Len(ord)
  OBVIOUS
<1>2. PICK h : h = Weights(k, s, f, ord)
  OBVIOUS
<1>3. IsFiniteSet(S) /\ h \in [S -> Int] /\ \A r \in S : h[r] = Weight(k, s, f, ord[r])
  BY <1>1, <1>2, WeightsType
<1>4. T \in SUBSET S /\ \A r \in T : g[r] = h[r]
  BY <1>1, <1>3
<1>5. g \in [T -> Int]
  BY <1>3, <1>4
<1>6. \A r \in S \ T : h[r] = 0
  BY <1>1, <1>3
<1>7. SumFunction(h) = SumFunction(g)
  <2>1. Supports(S, T, h, g)
    BY <1>3, <1>4, <1>5, <1>6 DEF Supports
  <2> QED
    BY <2>1, SumSupport
<1> QED
  BY <1>2, <1>7 DEF Tot

(* The exchange's test by the total of what it holds.                      *)
LEMMA CoveredSum ==
    ASSUME IInv, NEW r \in 1 .. Len(order), NEW f, f = order[r].flag, f # "open",
           NEW s, s = SideOf(order[r].dir, f)
    PROVE  Covered(order[r]) <=>
               order[r].vol + Tot("live", s, f, order)
                   <= (IF f = "today" THEN account[s].td ELSE account[s].yd)
<1>2. PICK T : T = {q \in Refs : Live(q) /\ order[q].flag = f /\ SideOf(order[q].dir, f) = s}
  OBVIOUS
<1>3. PICK g : g = [q \in T |-> order[q].left]
  OBVIOUS
<1>4. Covered(order[r]) <=>
          order[r].vol + SumFunction(g) <= (IF f = "today" THEN account[s].td ELSE account[s].yd)
  BY <1>2, <1>3 DEF Covered, Sum
<1>5. \A q \in 1 .. Len(order) : Weight("live", s, f, order[q]) = IF q \in T THEN g[q] ELSE 0
  BY <1>2, <1>3, Parts DEF Weight, Of, Counts, Live
<1>6. T \in SUBSET (1 .. Len(order))
  BY <1>2, Parts
<1>7. order \in Seq(OrderRec)
  BY Parts
<1>8. SumFunction(g) = Tot("live", s, f, order)
  <2>1. g = [q \in T |-> g[q]]
    BY <1>3
  <2>2. \A q \in T : g[q] = Weight("live", s, f, order[q])
    BY <1>5, <1>6
  <2>3. \A q \in (1 .. Len(order)) \ T : Weight("live", s, f, order[q]) = 0
    BY <1>5
  <2> QED
    BY ONLY <1>6, <1>7, <2>1, <2>2, <2>3, SumTot
<1> QED
  BY <1>4, <1>8

(* An order queued has no reports yet.                                     *)
LEMMA Unreported ==
    ASSUME IInv, NEW r \in 1 .. Len(order), order[r].st = "queued"
    PROVE  \A i \in 1 .. Len(stream) : stream[i].ref # r
BY Parts DEF StreamAt, ReportOK

(* Sending an order, taken or refused, keeps the invariant.                *)
LEMMA InsertStep ==
    ASSUME IInv, NEW r \in Refs, Insert(r)
    PROVE  IInv'
<1>1. r \in 1 .. Len(order) /\ order \in Seq(OrderRec)
  BY Parts
<1>2. PICK o \in OrderRec : o = order[r]
  BY <1>1
<1>3. PICK st \in {"live", "ended"} : st = IF Covered(o) THEN "live" ELSE "ended"
  OBVIOUS
<1>4. PICK p : p = [o EXCEPT !.st = st]
  OBVIOUS
<1>5. OrderOK(o) /\ o.left \in Nat /\ o.vol \in 1 .. MaxOnce /\ o.vol \in Nat /\ o.traded \in Nat
      /\ o.flag \in Flags
  BY <1>1, <1>2, Parts, RecFields
<1>6. PICK m : m = IF Covered(o) THEN Report("queueing", r, o.vol) ELSE Report("error", r, 0)
  OBVIOUS
<1>7. o.st = "queued" /\ order' = [order EXCEPT ![r] = p] /\ stream' = Append(stream, m)
      /\ UNCHANGED <<apart, posORD, posTRD, account, goal, blind>>
  BY <1>1, <1>2, <1>3, <1>4, <1>6 DEF Insert
<1>8. p \in OrderRec /\ p.cxl = o.cxl /\ p.dir = o.dir /\ p.flag = o.flag /\ p.vol = o.vol
      /\ p.rem = o.rem /\ p.traded = o.traded /\ p.rep = o.rep /\ p.st = st /\ p.left = o.left
  BY <1>4 DEF OrderRec
<1>9. o.rep = "none" /\ o.cxl = "no" /\ o.left = o.vol /\ o.rem = o.vol
  BY <1>5, <1>7 DEF OrderOK
<1>10. Alters(order, order', r) /\ order'[r] = p
  <2>1. p.dir = order[r].dir /\ p.flag = order[r].flag /\ p.vol = order[r].vol
    BY <1>2, <1>8
  <2> QED
    BY ONLY <1>1, <1>7, <1>8, <2>1, AlterOne
<1>11. order' \in Seq(OrderRec) /\ Len(order') = Len(order)
  BY <1>10 DEF Alters
<1>12. m \in Message /\ m.ref = r /\ m.kind = (IF Covered(o) THEN "queueing" ELSE "error")
       /\ m.n = (IF Covered(o) THEN o.vol ELSE 0)
  BY <1>1, <1>5, <1>6 DEF Report, Message, Kinds
<1>13. OrdersAt(order')
  <2>1. OrderOK(p)
    BY <1>3, <1>5, <1>7, <1>8, <1>9 DEF OrderOK
  <2> QED
    BY <1>10, <2>1, Parts, AlterOrders
<1>14. stream' \in Seq(Message) /\ StreamAt(stream', order')
  <2>1. \A i \in 1 .. Len(stream) : stream[i].ref # r
    BY <1>1, <1>2, <1>7, Unreported
  <2>2. StreamAt(stream, order')
    BY <1>10, <2>1, Parts, AlterStream
  <2>3. ReportOK(m, p)
    BY <1>3, <1>5, <1>8, <1>9, <1>12 DEF ReportOK, Ending
  <2>4. m.ref \in 1 .. Len(order') /\ ReportOK(m, order'[m.ref])
    BY <1>1, <1>10, <1>11, <1>12, <2>3
  <2> QED
    BY <1>7, <1>12, <2>1, <2>2, <2>4, Parts, StreamAppend
<1>15. TradesAt(stream', order')
  <2>1. \A q : Coming(q, stream') = Coming(q, stream)
    <3> TAKE q
    <3>1. Coming(q, Append(stream, m)) = Coming(q, stream)
              + (IF m.kind = "trade" /\ m.ref = q THEN m.n ELSE 0)
      BY <1>12, Parts, ComingAppend
    <3>2. Coming(q, stream) \in Nat /\ m.kind # "trade"
      BY <1>12, Parts, TradesType
    <3> QED
      BY <1>7, <3>1, <3>2
  <2>2. order'[r].traded + Coming(r, stream') = order'[r].vol - order'[r].left
    BY <1>1, <1>2, <1>8, <1>10, <2>1, Parts DEF TradesAt
  <2> QED
    BY <1>10, <2>1, <2>2, Parts, AlterTrades
<1>16. OneWayAt(order')
  BY <1>2, <1>9, <1>10, Parts, AlterWay DEF Active
<1>17. \A k \in {"unbooked", "untraded"} : Counts(k, p) = Counts(k, o)
  BY <1>8 DEF Counts
<1>18. BookAt(apart, posORD, "unbooked", account, order')
       /\ BookAt(apart, posTRD, "untraded", account, order')
  <2>1. \A k \in {"unbooked", "untraded"} : \A s, f : Tot(k, s, f, order') = Tot(k, s, f, order)
    BY <1>2, <1>10, <1>17, AlterSame
  <2> QED
    BY <2>1, Parts, SameBook
<1>19. RoomAt(order')
  <2>1. \A q \in 1 .. Len(order) :
            order'[q].cxl = "reopen" /\ order'[q].rep # "done"
                => order[q].cxl = "reopen" /\ order[q].rep # "done"
    BY <1>2, <1>8, <1>10 DEF Alters
  <2> QED
    BY <1>11, <2>1, Parts, SameRoom
<1>20. Calm(order, order')
  BY <1>2, <1>8, <1>10 DEF Alters, Calm
<1>21. CASE Covered(o)
  <2>1. Counts("open", p) = Counts("open", o)
    BY <1>3, <1>7, <1>8, <1>21 DEF Counts, OpenOf
  <2>2. \A s, f : Tot("open", s, f, order') = Tot("open", s, f, order)
    BY <1>2, <1>10, <2>1, AlterSame
  <2>3. FreeAt(blind, account, order') /\ GoalAt(goal, blind, account, order')
    BY <1>20, <2>2, Parts, SameFree, SameGoal
  <2>4. CoveredAt(account, order')
    <3> SUFFICES ASSUME NEW s \in Sides, NEW f \in {"today", "yesterday"}
                 PROVE  Tot("live", s, f, order')
                            <= (IF f = "today" THEN account[s].td ELSE account[s].yd)
      BY DEF CoveredAt
    <3>1. Counts("live", p) = o.vol /\ Counts("live", o) = 0
      BY <1>3, <1>7, <1>8, <1>9, <1>21 DEF Counts
    <3>2. Tot("live", s, f, order) \in Int
          /\ Tot("live", s, f, order') = Tot("live", s, f, order)
                + (IF Of(s, f, o) THEN o.vol ELSE 0)
      <4>1. o.vol - 0 = o.vol
        BY <1>5
      <4> QED
        BY <1>2, <1>10, <3>1, <4>1, AlterTot
    <3>3. Tot("live", s, f, order) <= (IF f = "today" THEN account[s].td ELSE account[s].yd)
      BY Parts DEF CoveredAt
    <3>4. CASE Of(s, f, o)
      <4>1. order[r].vol + Tot("live", s, f, order)
                <= (IF f = "today" THEN account[s].td ELSE account[s].yd)
        BY <1>1, <1>2, <1>21, <3>4, CoveredSum DEF Of
      <4> QED
        BY <1>2, <1>5, <3>2, <3>4, <4>1
    <3> QED
      BY <3>2, <3>3, <3>4
  <2> QED
    BY <1>7, <1>11, <1>13, <1>14, <1>15, <1>16, <1>18, <1>19, <2>3, <2>4, Parts, Whole
<1>22. CASE ~Covered(o)
  <2>1. o.flag # "open"
    BY <1>22 DEF Covered
  <2>2. blind
    <3> SUFFICES ASSUME ~blind
                 PROVE  FALSE
      BY Parts
    <3>1. PICK s \in Sides, f \in {"today", "yesterday"} : f = o.flag /\ s = SideOf(o.dir, f)
      BY <1>5, <2>1, SideType DEF Flags
    <3>2. PICK a \in Nat : a = IF f = "today" THEN account[s].td ELSE account[s].yd
      BY Parts DEF Holding
    <3>3. ~(o.vol + Tot("live", s, f, order) <= a)
      BY <1>1, <1>2, <1>22, <3>1, <3>2, CoveredSum
    <3>4. Tot("open", s, f, order) <= a
      <4>1. Tot("open", s, f, order) \in Int
        BY <1>1, WeightsType
      <4> QED
        BY <3>2, <4>1, Parts DEF FreeAt, FreeTd, FreeYd, Holding
    <3>5. o.vol + Tot("live", s, f, order) <= Tot("open", s, f, order)
      <4>1. PICK S : S = 1 .. Len(order)
        OBVIOUS
      <4>2. PICK g : g = Weights("live", s, f, order)
        OBVIOUS
      <4>3. PICK h : h = Weights("open", s, f, order)
        OBVIOUS
      <4>4. IsFiniteSet(S) /\ g \in [S -> Int] /\ h \in [S -> Int] /\ r \in S
            /\ \A q \in S : g[q] = Weight("live", s, f, order[q]) /\ h[q] = Weight("open", s, f, order[q])
        BY <1>1, <4>1, <4>2, <4>3, WeightsType
      <4>5. g[r] = 0 /\ h[r] = o.vol
        BY <1>2, <1>7, <1>9, <3>1, <4>4 DEF Weight, Of, Counts, OpenOf
      <4>6. \A q \in S : g[q] <= h[q]
        <5> SUFFICES ASSUME NEW q \in 1 .. Len(order)
                     PROVE  g[q] <= h[q]
          BY <4>1
        <5>1. order[q].left \in Nat
          BY <1>1, RecFields
        <5> QED
          BY <4>1, <4>4, <5>1 DEF Weight, Counts, OpenOf
      <4>7. PICK l : l = [g EXCEPT ![r] = o.vol]
        OBVIOUS
      <4>8. l \in [S -> Int] /\ l[r] = o.vol /\ \A q \in S \ {r} : l[q] = g[q]
        BY <1>5, <4>4, <4>7
      <4>9. SumFunction(l) = SumFunction(g) + (l[r] - g[r])
        BY ONLY <4>4, <4>8, SumChange
      <4>10. \A q \in S : l[q] <= h[q]
        BY <1>5, <4>4, <4>5, <4>6, <4>8
      <4>11. SumFunction(l) <= SumFunction(h)
        BY ONLY <4>4, <4>8, <4>10, SumMonotonic, Zenon
      <4>12. SumFunction(g) = Tot("live", s, f, order) /\ SumFunction(h) = Tot("open", s, f, order)
        BY <4>2, <4>3 DEF Tot
      <4>13. SumFunction(g) \in Int
        BY <4>4, SumType
      <4> QED
        BY <1>5, <4>5, <4>8, <4>9, <4>11, <4>12, <4>13
    <3>6. Tot("live", s, f, order) \in Int /\ Tot("open", s, f, order) \in Int
      BY <1>1, WeightsType
    <3> QED
      BY <1>5, <3>3, <3>4, <3>5, <3>6
  <2>3. FreeAt(blind, account, order') /\ GoalAt(goal, blind, account, order')
    BY <2>2 DEF FreeAt, GoalAt
  <2>4. Counts("live", p) = Counts("live", o)
    BY <1>3, <1>7, <1>8, <1>22 DEF Counts
  <2>5. CoveredAt(account, order')
    BY <1>2, <1>10, <2>4, Parts, AlterSame, SameCovered
  <2> QED
    BY <1>7, <1>11, <1>13, <1>14, <1>15, <1>16, <1>18, <1>19, <2>3, <2>5, Parts, Whole
<1> QED
  BY <1>21, <1>22

(* n lots of order o, where it opens or closes a side.                     *)
Part(o, n, s, f) == IF Of(s, f, o) THEN n ELSE 0

(* By what a total changes when an order comes to count n more.            *)
LEMMA AlterPart ==
    ASSUME NEW ord, NEW new, NEW r, Alters(ord, new, r), NEW k, NEW n \in Int,
           Counts(k, new[r]) = Counts(k, ord[r]) + n
    PROVE  \A s, f : /\ Tot(k, s, f, ord) \in Int
                     /\ Tot(k, s, f, new) = Tot(k, s, f, ord) + Part(ord[r], n, s, f)
<1> TAKE s, f
<1>1. ord[r] \in OrderRec
  BY DEF Alters
<1>2. Counts(k, ord[r]) \in Int
  BY <1>1, CountsInt
<1>3. Tot(k, s, f, ord) \in Int
      /\ Tot(k, s, f, new) = Tot(k, s, f, ord)
            + (IF Of(s, f, ord[r]) THEN Counts(k, new[r]) - Counts(k, ord[r]) ELSE 0)
  BY AlterTot
<1>4. Counts(k, new[r]) - Counts(k, ord[r]) = n
  BY <1>2
<1> QED
  BY <1>3, <1>4 DEF Part

(* A fill keeps the invariant: what the account gains or loses is not      *)
(* booked yet, its trade is to come, and no longer open.                   *)
LEMMA FillStep ==
    ASSUME IInv, NEW r \in Refs, NEW n \in 1 .. order[r].left, Fill(r, n)
    PROVE  IInv'
<1>1. r \in 1 .. Len(order) /\ order \in Seq(OrderRec)
  BY Parts
<1>2. PICK o \in OrderRec : o = order[r]
  BY <1>1
<1>3. OrderOK(o) /\ o.left \in Nat /\ o.vol \in Nat /\ o.traded \in Nat /\ o.rem \in Nat
      /\ o.flag \in Flags
  BY <1>1, <1>2, Parts, RecFields
<1>4. n \in Nat /\ 0 < n /\ n <= o.left /\ o.st = "live" /\ o.rep # "done"
  BY <1>2, <1>3 DEF Fill, Live, OrderOK
<1>5. PICK st \in {"live", "ended"} : st = IF n = o.left THEN "ended" ELSE "live"
  OBVIOUS
<1>6. PICK d : d = [o EXCEPT !.left = @ - n]
  OBVIOUS
<1>7. PICK p : p = [d EXCEPT !.st = st]
  OBVIOUS
<1>8. p \in OrderRec /\ p.cxl = o.cxl /\ p.dir = o.dir /\ p.flag = o.flag /\ p.vol = o.vol
      /\ p.rem = o.rem /\ p.traded = o.traded /\ p.rep = o.rep /\ p.st = st /\ p.left = o.left - n
  <2>1. d \in OrderRec /\ d.cxl = o.cxl /\ d.dir = o.dir /\ d.flag = o.flag /\ d.vol = o.vol
        /\ d.rem = o.rem /\ d.traded = o.traded /\ d.rep = o.rep /\ d.left = o.left - n
    BY <1>3, <1>4, <1>6 DEF OrderRec
  <2> QED
    BY <1>7, <2>1 DEF OrderRec
<1>9. order' = [order EXCEPT ![r] = p]
  BY <1>1, <1>2, <1>5, <1>6, <1>7 DEF Fill
<1>10. Alters(order, order', r) /\ order'[r] = p
  <2>1. p.dir = order[r].dir /\ p.flag = order[r].flag /\ p.vol = order[r].vol
    BY <1>2, <1>8
  <2> QED
    BY ONLY <1>1, <1>8, <1>9, <2>1, AlterOne
<1>11. order' \in Seq(OrderRec) /\ Len(order') = Len(order)
  BY <1>10 DEF Alters
<1>12. PICK m1 : m1 = Report(IF n = o.left THEN "all" ELSE "part", r, o.left - n)
  OBVIOUS
<1>13. PICK m2 : m2 = Report("trade", r, n)
  OBVIOUS
<1>14. m1 \in Message /\ m1.ref = r /\ m1.kind = (IF n = o.left THEN "all" ELSE "part")
       /\ m1.n = o.left - n /\ m2 \in Message /\ m2.ref = r /\ m2.kind = "trade" /\ m2.n = n
  BY <1>1, <1>3, <1>4, <1>12, <1>13 DEF Report, Message, Kinds
<1>15. stream \in Seq(Message) /\ Append(stream, m1) \in Seq(Message)
       /\ stream' = Append(Append(stream, m1), m2)
       /\ UNCHANGED <<apart, posORD, posTRD, goal, blind>>
  <2>1. stream' = stream \o <<m1, m2>> /\ UNCHANGED <<apart, posORD, posTRD, goal, blind>>
    BY <1>2, <1>12, <1>13 DEF Fill
  <2> QED
    BY <1>14, <2>1, Parts
<1>16. OrdersAt(order')
  <2>1. OrderOK(p)
    BY <1>3, <1>4, <1>5, <1>8 DEF OrderOK
  <2> QED
    BY <1>10, <2>1, Parts, AlterOrders
<1>17. stream' \in Seq(Message) /\ StreamAt(stream', order')
  <2>1. \A i \in 1 .. Len(stream) : stream[i].ref = r =>
            ReportOK(stream[i], o) /\ ~Ending(stream[i]) /\ stream[i].kind # "error"
    BY <1>2, <1>4, Parts DEF StreamAt, ReportOK, Ending
  <2>2. \A i \in 1 .. Len(stream) : stream[i].ref = r /\ ReportOK(stream[i], o) => ReportOK(stream[i], p)
    <3> SUFFICES ASSUME NEW i \in 1 .. Len(stream), stream[i].ref = r, ReportOK(stream[i], o)
                 PROVE  ReportOK(stream[i], p)
      OBVIOUS
    <3>1. stream[i] \in Message
      BY <1>15
    <3>2. stream[i].n \in Nat /\ stream[i].kind \in Kinds /\ ~Ending(stream[i])
      BY <2>1, <3>1 DEF Message
    <3> QED
      BY <1>3, <1>4, <1>5, <1>8, <3>2 DEF ReportOK, Ending, Kinds
  <2>3. StreamAt(stream, order')
    BY <1>2, <1>10, <2>2, Parts, AlterStream
  <2>4. ReportOK(m1, p) /\ ReportOK(m2, p)
    BY <1>3, <1>4, <1>5, <1>8, <1>14 DEF ReportOK, Ending, OrderOK
  <2>5. m1.ref \in 1 .. Len(order') /\ ReportOK(m1, order'[m1.ref])
        /\ m2.ref \in 1 .. Len(order') /\ ReportOK(m2, order'[m2.ref])
    BY <1>1, <1>10, <1>11, <1>14, <2>4
  <2>6. \A i \in 1 .. Len(stream) : stream[i].ref = m1.ref =>
            (m1.kind # "trade" => ~Ending(stream[i])) /\ stream[i].kind # "error" /\ m1.kind # "error"
    BY <1>14, <2>1
  <2>7. StreamAt(Append(stream, m1), order')
    BY <1>14, <1>15, <2>3, <2>5, <2>6, StreamAppend
  <2>8. \A i \in 1 .. Len(Append(stream, m1)) : Append(stream, m1)[i].ref = m2.ref =>
            (m2.kind # "trade" => ~Ending(Append(stream, m1)[i]))
            /\ Append(stream, m1)[i].kind # "error" /\ m2.kind # "error"
    <3> SUFFICES ASSUME NEW i \in 1 .. Len(stream) + 1, Append(stream, m1)[i].ref = r
                 PROVE  Append(stream, m1)[i].kind # "error"
      BY <1>14, <1>15
    <3>1. CASE i \in 1 .. Len(stream)
      BY <1>15, <2>1, <3>1
    <3>2. CASE i = Len(stream) + 1
      BY <1>14, <1>15, <3>2
    <3> QED
      BY <1>15, <3>1, <3>2
  <2> QED
    BY <1>14, <1>15, <2>5, <2>7, <2>8, StreamAppend
<1>18. TradesAt(stream', order')
  <2>1. ASSUME NEW q
        PROVE  Coming(q, stream') = Coming(q, stream) + (IF r = q THEN n ELSE 0)
    <3>1. PICK t \in Seq(Message) : t = Append(stream, m1)
      BY <1>15
    <3>2. Coming(q, t) = Coming(q, stream) + (IF m1.kind = "trade" /\ m1.ref = q THEN m1.n ELSE 0)
      BY <1>14, <1>15, <3>1, ComingAppend
    <3>3. Coming(q, Append(t, m2)) = Coming(q, t) + (IF m2.kind = "trade" /\ m2.ref = q THEN m2.n ELSE 0)
      BY <1>14, ComingAppend
    <3>4. Coming(q, stream) \in Nat
      BY <1>15, TradesType
    <3> QED
      BY <1>14, <1>15, <3>1, <3>2, <3>3, <3>4
  <2>2. \A q : q # r => Coming(q, stream') = Coming(q, stream)
    <3> TAKE q
    <3>1. Coming(q, stream) \in Nat
      BY <1>15, TradesType
    <3> QED
      BY <2>1, <3>1
  <2>3. order'[r].traded + Coming(r, stream') = order'[r].vol - order'[r].left
    <3>1. Coming(r, stream) \in Nat /\ o.traded + Coming(r, stream) = o.vol - o.left
      BY <1>1, <1>2, <1>15, Parts, TradesType DEF TradesAt
    <3>2. Coming(r, stream') = Coming(r, stream) + n
      BY <2>1
    <3> QED
      BY <1>3, <1>4, <1>8, <1>10, <3>1, <3>2
  <2> QED
    BY <1>10, <2>2, <2>3, Parts, AlterTrades
<1>19. OneWayAt(order')
  BY <1>2, <1>4, <1>10, Parts, AlterWay DEF Active
<1>20. /\ \A k \in {"unbooked", "untraded"} : Counts(k, p) = Counts(k, o) + n
       /\ \A k \in {"open", "live"} : Counts(k, p) = Counts(k, o) + -n
  BY <1>3, <1>4, <1>5, <1>8 DEF Counts, OpenOf
<1>21. ASSUME NEW s, NEW f
       PROVE  /\ Part(o, n, s, f) \in Nat
              /\ \A k \in {"unbooked", "untraded"} :
                    /\ Tot(k, s, f, order) \in Int
                    /\ Tot(k, s, f, order') = Tot(k, s, f, order) + Part(o, n, s, f)
              /\ \A k \in {"open", "live"} :
                    /\ Tot(k, s, f, order) \in Int
                    /\ Tot(k, s, f, order') = Tot(k, s, f, order) - Part(o, n, s, f)
  <2>1. Part(o, n, s, f) \in Nat /\ Part(o, -n, s, f) = -Part(o, n, s, f)
    BY <1>4 DEF Part
  <2>2. \A k \in {"unbooked", "untraded"} :
            /\ Tot(k, s, f, order) \in Int
            /\ Tot(k, s, f, order') = Tot(k, s, f, order) + Part(o, n, s, f)
    BY <1>2, <1>10, <1>20, AlterPart
  <2>3. \A k \in {"open", "live"} :
            /\ Tot(k, s, f, order) \in Int
            /\ Tot(k, s, f, order') = Tot(k, s, f, order) + Part(o, -n, s, f)
    <3>1. -n \in Int
      OBVIOUS
    <3> QED
      BY <1>2, <1>10, <1>20, <3>1, AlterPart
  <2> QED
    BY <2>1, <2>2, <2>3
<1>22. account' \in Holding
       /\ \A s \in Sides : /\ account'[s].td = account[s].td + Part(o, n, s, "open") - Part(o, n, s, "today")
                           /\ account'[s].yd = account[s].yd - Part(o, n, s, "yesterday")
  <2>1. PICK t \in Sides : t = SideOf(o.dir, o.flag)
    BY SideType
  <2>2. PICK a \in [td : Nat, yd : Nat] : a = account[t]
    BY Parts DEF Holding
  <2>3. \A f \in {"today", "yesterday"} : n <= Tot("live", t, o.flag, order) \/ o.flag # f
    <3>1. Of(t, o.flag, o)
      BY <2>1 DEF Of
    <3>2. Counts("live", o) <= Tot("live", t, o.flag, order) /\ Counts("live", o) = o.left
      <4>1. Counts("live", order[r]) <= Tot("live", t, o.flag, order)
        BY <1>1, <1>2, <3>1, Parts, Counted DEF Ways
      <4> QED
        BY <1>2, <1>4, <4>1 DEF Counts
    <3>3. Tot("live", t, o.flag, order) \in Int
      BY <1>21
    <3> QED
      BY <1>3, <1>4, <3>2, <3>3
  <2>4. (o.flag = "today" => n <= a.td) /\ (o.flag = "yesterday" => n <= a.yd)
    <3>1. Tot("live", t, "today", order) <= a.td /\ Tot("live", t, "yesterday", order) <= a.yd
      BY <2>2, Parts DEF CoveredAt
    <3>2. Tot("live", t, "today", order) \in Int /\ Tot("live", t, "yesterday", order) \in Int
      BY <1>21
    <3> QED
      BY <1>4, <2>2, <2>3, <3>1, <3>2
  <2>5. PICK c : c = [td |-> a.td + Part(o, n, t, "open") - Part(o, n, t, "today"),
                      yd |-> a.yd - Part(o, n, t, "yesterday")]
    OBVIOUS
  <2>6. \A f : Part(o, n, t, f) = IF f = o.flag THEN n ELSE 0
    BY <2>1 DEF Part, Of
  <2>7. c \in [td : Nat, yd : Nat]
    <3>1. a.td + Part(o, n, t, "open") - Part(o, n, t, "today") \in Nat
      BY <1>4, <2>2, <2>4, <2>6
    <3>2. a.yd - Part(o, n, t, "yesterday") \in Nat
      BY <1>4, <2>2, <2>4, <2>6
    <3> QED
      BY <2>5, <3>1, <3>2
  <2>8. account' = [account EXCEPT ![t] = c]
    <3>1. account \in [Sides -> [td : Nat, yd : Nat]]
      BY Parts DEF Holding
    <3>2. CASE o.flag = "open"
      <4>1. account' = [account EXCEPT ![t].td = @ + n]
        BY <1>2, <2>1, <3>2 DEF Fill
      <4>2. c = [a EXCEPT !.td = @ + n]
        BY <1>4, <2>2, <2>5, <2>6, <3>2
      <4> QED
        BY <2>2, <4>1, <4>2
    <3>3. CASE o.flag = "today"
      <4>1. account' = [account EXCEPT ![t].td = @ - n]
        BY <1>2, <2>1, <3>3 DEF Fill
      <4>2. c = [a EXCEPT !.td = @ - n]
        BY <1>4, <2>2, <2>5, <2>6, <3>3
      <4> QED
        BY <2>2, <4>1, <4>2
    <3>4. CASE o.flag = "yesterday"
      <4>1. account' = [account EXCEPT ![t].yd = @ - n]
        BY <1>2, <2>1, <3>4 DEF Fill
      <4>2. c = [a EXCEPT !.yd = @ - n]
        BY <1>4, <2>2, <2>5, <2>6, <3>4
      <4> QED
        BY <2>2, <4>1, <4>2
    <3> QED
      BY <1>3, <3>2, <3>3, <3>4 DEF Flags
  <2>9. \A s, f : s # t => Part(o, n, s, f) = 0
    BY <2>1 DEF Part, Of
  <2>10. account' \in Holding /\ account'[t] = c /\ \A s \in Sides : s # t => account'[s] = account[s]
    BY <2>7, <2>8, Parts DEF Holding
  <2>11. \A s \in Sides : account[s].td \in Nat /\ account[s].yd \in Nat
    BY Parts DEF Holding
  <2> QED
    BY <2>2, <2>5, <2>9, <2>10, <2>11
<1> DEFINE D(s, f) == Part(o, n, s, f)
<1>23. \A s, f : D(s, f) \in Nat
  BY <1>21
<1>24. \A s \in Sides : account[s].td \in Nat /\ account[s].yd \in Nat
                        /\ account'[s].td = account[s].td + D(s, "open") - D(s, "today")
                        /\ account'[s].yd = account[s].yd - D(s, "yesterday")
  BY <1>22, Parts DEF Holding
<1>25. \A s, f : /\ \A k \in {"unbooked", "untraded"} :
                       /\ Tot(k, s, f, order) \in Int
                       /\ Tot(k, s, f, order') = Tot(k, s, f, order) + D(s, f)
                 /\ \A k \in {"open", "live"} :
                       /\ Tot(k, s, f, order) \in Int
                       /\ Tot(k, s, f, order') = Tot(k, s, f, order) - D(s, f)
  BY <1>21
<1> HIDE DEF D
<1>26. CoveredAt(account', order')
  <2> SUFFICES ASSUME NEW s \in Sides
               PROVE  /\ Tot("live", s, "today", order') <= account'[s].td
                      /\ Tot("live", s, "yesterday", order') <= account'[s].yd
    BY DEF CoveredAt
  <2>1. Tot("live", s, "today", order) <= account[s].td
        /\ Tot("live", s, "yesterday", order) <= account[s].yd
    BY Parts DEF CoveredAt
  <2> QED
    BY <1>23, <1>24, <1>25, <2>1
<1>27. ASSUME NEW book \in Book, NEW k \in {"unbooked", "untraded"},
              BookAt(apart, book, k, account, order)
       PROVE  BookAt(apart, book, k, account', order')
  <2> SUFFICES ASSUME NEW s \in Sides
               PROVE  /\ book[s].today = account'[s].td - Tot(k, s, "open", order') + Tot(k, s, "today", order')
                      /\ (IF apart THEN book[s].hist ELSE book[s].pos - book[s].today)
                             = account'[s].yd + Tot(k, s, "yesterday", order')
                      /\ apart => book[s].pos = book[s].today
    BY DEF BookAt
  <2>1. account'[s].td - Tot(k, s, "open", order') + Tot(k, s, "today", order')
            = account[s].td - Tot(k, s, "open", order) + Tot(k, s, "today", order)
    BY <1>23, <1>24, <1>25
  <2>2. account'[s].yd + Tot(k, s, "yesterday", order') = account[s].yd + Tot(k, s, "yesterday", order)
    BY <1>23, <1>24, <1>25
  <2> QED
    BY <1>27, <2>1, <2>2 DEF BookAt
<1>28. \A s \in Sides : /\ FreeTd(account', order', s) = FreeTd(account, order, s) + D(s, "open")
                        /\ FreeYd(account', order', s) = FreeYd(account, order, s)
                        /\ FreeTd(account, order, s) \in Int /\ FreeYd(account, order, s) \in Int
                        /\ Net(account', order', s) = Net(account, order, s)
  <2> SUFFICES ASSUME NEW s \in Sides
               PROVE  /\ FreeTd(account', order', s) = FreeTd(account, order, s) + D(s, "open")
                      /\ FreeYd(account', order', s) = FreeYd(account, order, s)
                      /\ FreeTd(account, order, s) \in Int /\ FreeYd(account, order, s) \in Int
                      /\ Net(account', order', s) = Net(account, order, s)
    OBVIOUS
  <2> QED
    BY <1>23, <1>24, <1>25 DEF FreeTd, FreeYd, Net
<1>29. FreeAt(blind, account', order')
  BY <1>23, <1>28, Parts DEF FreeAt
<1>30. GoalAt(goal, blind, account', order')
  <2>1. Leads(account', order') = Leads(account, order)
    BY <1>28 DEF Leads, Sides
  <2>2. \A q \in 1 .. Len(order') : order'[q].dir = order[q].dir /\ order'[q].rep = order[q].rep
                                    /\ order'[q].cxl = order[q].cxl
    BY <1>2, <1>8, <1>10 DEF Alters
  <2>3. ASSUME NEW s \in Sides, Spent(account, order, s)
        PROVE  Spent(account', order', s)
    <3>1. o.dir = IF s = "short" THEN "buy" ELSE "sell"
      BY <1>1, <1>2, <1>4, <2>3 DEF Spent, AllGo
    <3>2. D(s, "open") = 0
      BY <3>1 DEF D, Part, Of, SideOf, Sides
    <3>3. FreeTd(account', order', s) = 0 /\ FreeYd(account', order', s) = 0
      <4>1. FreeTd(account, order, s) = 0 /\ FreeYd(account, order, s) = 0
        BY <2>3 DEF Spent
      <4> QED
        BY <1>28, <3>2, <4>1
    <3>4. \A dir : AllGo(dir, order) => AllGo(dir, order')
      BY <1>11, <2>2 DEF AllGo
    <3> QED
      BY <2>3, <3>3, <3>4 DEF Spent
  <2> QED
    BY <1>11, <2>1, <2>2, <2>3, Parts DEF GoalAt, Sides
<1>31. RoomAt(order')
  <2>1. \A q \in 1 .. Len(order) :
            order'[q].cxl = "reopen" /\ order'[q].rep # "done"
                => order[q].cxl = "reopen" /\ order[q].rep # "done"
    BY <1>2, <1>8, <1>10 DEF Alters
  <2> QED
    BY <1>11, <2>1, Parts, SameRoom
<1> QED
  BY <1>11, <1>15, <1>16, <1>17, <1>18, <1>19, <1>22, <1>26, <1>27, <1>29, <1>30, <1>31, Parts, Whole

(* A cancel at the exchange keeps the invariant.                           *)
LEMMA CancelledStep ==
    ASSUME IInv, NEW r \in Refs, Cancelled(r)
    PROVE  IInv'
<1>1. r \in 1 .. Len(order) /\ order \in Seq(OrderRec)
  BY Parts
<1>2. PICK o \in OrderRec : o = order[r]
  BY <1>1
<1>3. OrderOK(o) /\ o.left \in Nat /\ o.vol \in Nat /\ o.traded \in Nat /\ o.rem \in Nat
      /\ o.cxl \in {"no", "reopen", "drop"}
  BY <1>1, <1>2, Parts, RecFields
<1>4. PICK p : p = [o EXCEPT !.st = "ended"]
  OBVIOUS
<1>5. PICK m : m = Report("canceled", r, o.left)
  OBVIOUS
<1>6. o.st = "live" /\ o.cxl # "no" /\ order' = [order EXCEPT ![r] = p]
      /\ stream' = Append(stream, m)
      /\ UNCHANGED <<apart, posORD, posTRD, account, goal, blind>>
  BY <1>1, <1>2, <1>4, <1>5 DEF Cancelled, Live
<1>7. o.rep = "hang" /\ o.left > 0
  BY <1>3, <1>6, <1>2, RecFields DEF OrderOK
<1>8. p \in OrderRec /\ p.cxl = o.cxl /\ p.dir = o.dir /\ p.flag = o.flag /\ p.vol = o.vol
      /\ p.rem = o.rem /\ p.traded = o.traded /\ p.rep = o.rep /\ p.st = "ended" /\ p.left = o.left
  BY <1>4 DEF OrderRec
<1>9. m \in Message /\ m.kind = "canceled" /\ m.ref = r /\ m.n = o.left
  BY <1>1, <1>3, <1>5 DEF Report, Message, Kinds
<1>10. Alters(order, order', r) /\ order'[r] = p
  <2>1. p.dir = order[r].dir /\ p.flag = order[r].flag /\ p.vol = order[r].vol
    BY <1>2, <1>8
  <2> QED
    BY ONLY <1>1, <1>6, <1>8, <2>1, AlterOne
<1>11. order' \in Seq(OrderRec) /\ Len(order') = Len(order)
  BY <1>10 DEF Alters
<1>12. OrdersAt(order')
  <2>1. OrderOK(p)
    BY <1>3, <1>6, <1>7, <1>8 DEF OrderOK
  <2> QED
    BY <1>10, <2>1, Parts, AlterOrders
<1>13. stream' \in Seq(Message) /\ StreamAt(stream', order')
  <2>1. \A i \in 1 .. Len(stream) : stream[i].ref = r =>
            ReportOK(stream[i], o) /\ ~Ending(stream[i]) /\ stream[i].kind # "error"
    BY <1>2, <1>6, Parts DEF StreamAt, ReportOK, Ending
  <2>2. \A i \in 1 .. Len(stream) : stream[i].ref = r /\ ReportOK(stream[i], o) => ReportOK(stream[i], p)
    BY <1>6, <1>8, <2>1 DEF ReportOK, Ending
  <2>3. StreamAt(stream, order')
    BY <1>2, <1>10, <2>2, Parts, AlterStream
  <2>4. ReportOK(m, p)
    BY <1>6, <1>7, <1>8, <1>9 DEF ReportOK, Ending
  <2>5. m.ref \in 1 .. Len(order') /\ ReportOK(m, order'[m.ref])
    BY <1>1, <1>9, <1>10, <1>11, <2>4
  <2>6. \A i \in 1 .. Len(stream) : stream[i].ref = m.ref =>
            (m.kind # "trade" => ~Ending(stream[i])) /\ stream[i].kind # "error" /\ m.kind # "error"
    BY <1>9, <2>1
  <2> QED
    BY <1>6, <1>9, <2>3, <2>5, <2>6, Parts, StreamAppend
<1>14. TradesAt(stream', order')
  <2>1. \A q : Coming(q, stream') = Coming(q, stream)
    <3> TAKE q
    <3>1. Coming(q, Append(stream, m)) = Coming(q, stream)
              + (IF m.kind = "trade" /\ m.ref = q THEN m.n ELSE 0)
      BY <1>9, Parts, ComingAppend
    <3>2. Coming(q, stream) \in Nat /\ m.kind # "trade"
      BY <1>9, Parts, TradesType
    <3> QED
      BY <1>6, <3>1, <3>2
  <2>2. order'[r].traded + Coming(r, stream') = order'[r].vol - order'[r].left
    BY <1>1, <1>2, <1>8, <1>10, <2>1, Parts DEF TradesAt
  <2> QED
    BY <1>10, <2>1, <2>2, Parts, AlterTrades
<1>15. OneWayAt(order')
  BY <1>2, <1>7, <1>10, Parts, AlterWay DEF Active
<1>16. \A k \in {"unbooked", "untraded"} : Counts(k, p) = Counts(k, o)
  BY <1>8 DEF Counts
<1>17. BookAt(apart, posORD, "unbooked", account, order')
       /\ BookAt(apart, posTRD, "untraded", account, order')
  <2>1. \A k \in {"unbooked", "untraded"} : \A s, f : Tot(k, s, f, order') = Tot(k, s, f, order)
    BY <1>2, <1>10, <1>16, AlterSame
  <2> QED
    BY <2>1, Parts, SameBook
<1>18. RoomAt(order')
  <2>1. \A q \in 1 .. Len(order) :
            order'[q].cxl = "reopen" /\ order'[q].rep # "done"
                => order[q].cxl = "reopen" /\ order[q].rep # "done"
    BY <1>2, <1>8, <1>10 DEF Alters
  <2> QED
    BY <1>11, <2>1, Parts, SameRoom
<1>19. CoveredAt(account, order')
  <2> SUFFICES ASSUME NEW s \in Sides, NEW f \in {"today", "yesterday"}
               PROVE  Tot("live", s, f, order') <= (IF f = "today" THEN account[s].td ELSE account[s].yd)
    BY DEF CoveredAt
  <2>1. Counts("live", p) = Counts("live", o) + -o.left /\ -o.left \in Int
    BY <1>3, <1>6, <1>8 DEF Counts
  <2>2. Tot("live", s, f, order) \in Int
        /\ Tot("live", s, f, order') = Tot("live", s, f, order) + Part(o, -o.left, s, f)
    BY <1>2, <1>10, <2>1, AlterPart
  <2>3. Part(o, -o.left, s, f) \in Int /\ Part(o, -o.left, s, f) <= 0
    BY <1>3 DEF Part
  <2>4. Tot("live", s, f, order) <= (IF f = "today" THEN account[s].td ELSE account[s].yd)
    BY Parts DEF CoveredAt
  <2>5. account[s].td \in Nat /\ account[s].yd \in Nat
    BY Parts DEF Holding
  <2>6. PICK a \in Nat : a = IF f = "today" THEN account[s].td ELSE account[s].yd
    BY <2>5
  <2> QED
    BY <2>2, <2>3, <2>4, <2>6
<1>20. CASE o.cxl = "reopen"
  <2>1. Counts("open", p) = Counts("open", o)
    BY <1>6, <1>7, <1>8, <1>20 DEF Counts, OpenOf
  <2>2. \A s, f : Tot("open", s, f, order') = Tot("open", s, f, order)
    BY <1>2, <1>10, <2>1, AlterSame
  <2>3. Calm(order, order')
    BY <1>2, <1>8, <1>10 DEF Alters, Calm
  <2>4. FreeAt(blind, account, order') /\ GoalAt(goal, blind, account, order')
    BY <2>2, <2>3, Parts, SameFree, SameGoal
  <2> QED
    BY <1>6, <1>11, <1>12, <1>13, <1>14, <1>15, <1>17, <1>18, <1>19, <2>4, Parts, Whole
<1>21. CASE o.cxl = "drop"
  <2>1. Counts("open", p) = Counts("open", o) + -o.left /\ -o.left \in Int
    BY <1>3, <1>6, <1>8, <1>21 DEF Counts, OpenOf
  <2>2. \A s, f : /\ Tot("open", s, f, order) \in Int
                  /\ Tot("open", s, f, order') = Tot("open", s, f, order) + Part(o, -o.left, s, f)
    BY <1>2, <1>10, <2>1, AlterPart
  <2>3. \A s, f : Part(o, -o.left, s, f) \in Int /\ Part(o, -o.left, s, f) <= 0
    BY <1>3 DEF Part
  <2>4. FreeAt(blind, account, order')
    <3> SUFFICES ASSUME ~blind, NEW s \in Sides
                 PROVE  FreeTd(account, order', s) >= 0 /\ FreeYd(account, order', s) >= 0
      BY DEF FreeAt
    <3>1. FreeTd(account, order, s) >= 0 /\ FreeYd(account, order, s) >= 0
      BY Parts DEF FreeAt
    <3>2. account[s].td \in Nat /\ account[s].yd \in Nat
      BY Parts DEF Holding
    <3> QED
      BY <2>2, <2>3, <3>1, <3>2 DEF FreeTd, FreeYd
  <2>5. ~(goal.on /\ ~blind)
    BY <1>1, <1>2, <1>7, <1>21, Parts DEF GoalAt
  <2>6. GoalAt(goal, blind, account, order')
    BY <2>5 DEF GoalAt
  <2> QED
    BY <1>6, <1>11, <1>12, <1>13, <1>14, <1>15, <1>17, <1>18, <1>19, <2>4, <2>6, Parts, Whole
<1> QED
  BY <1>3, <1>6, <1>20, <1>21

(* A report that does not end the order.                                   *)
LEMMA HangsStep ==
    ASSUME IInv, stream # <<>>, OrderHangs(Head(stream)), stream' = Tail(stream),
           UNCHANGED <<apart, account, goal, blind>>
    PROVE  IInv'
<1>1. PICK m \in Message, r \in 1 .. Len(order) : m = Head(stream) /\ r = m.ref
  BY Parts, StreamTail
<1>2. order \in Seq(OrderRec) /\ stream \in Seq(Message) /\ stream' \in Seq(Message)
      /\ ReportOK(m, order[r]) /\ StreamAt(stream', order)
  BY <1>1, Parts, StreamTail
<1>3. PICK o \in OrderRec : o = order[r]
  BY <1>2
<1>4. OrderOK(o) /\ o.left \in Nat /\ o.vol \in Nat /\ o.traded \in Nat /\ o.rem \in Nat
      /\ o.st \in {"queued", "live", "ended"} /\ o.rep \in {"none", "hang", "done"}
  BY <1>1, <1>3, Parts, RecFields
<1>5. m.kind \in {"queueing", "part"} /\ m.n \in Nat
  BY <1>1 DEF OrderHangs, Message
<1>6. o.rep # "done" /\ o.st # "queued" /\ o.left <= m.n /\ 0 < m.n /\ m.n <= o.vol
      /\ (o.st = "ended" /\ o.cxl = "no" => o.left = 0)
  BY <1>2, <1>3, <1>5 DEF ReportOK
<1>7. PICK d : d = [o EXCEPT !.rep = "hang"]
  OBVIOUS
<1>8. PICK p : p = [d EXCEPT !.rem = m.n]
  OBVIOUS
<1>9. p \in OrderRec /\ p.cxl = o.cxl /\ p.dir = o.dir /\ p.flag = o.flag /\ p.vol = o.vol
      /\ p.rem = m.n /\ p.traded = o.traded /\ p.rep = "hang" /\ p.st = o.st /\ p.left = o.left
  <2>1. d \in OrderRec /\ d.cxl = o.cxl /\ d.dir = o.dir /\ d.flag = o.flag /\ d.vol = o.vol
        /\ d.traded = o.traded /\ d.rep = "hang" /\ d.st = o.st /\ d.left = o.left
    BY <1>7 DEF OrderRec
  <2> QED
    BY <1>5, <1>8, <2>1 DEF OrderRec
<1>10. order' = [order EXCEPT ![r] = p] /\ UNCHANGED <<posORD, posTRD>>
  BY <1>1, <1>2, <1>3, <1>7, <1>8 DEF OrderHangs
<1>11. Alters(order, order', r) /\ order'[r] = p
  <2>1. p.dir = order[r].dir /\ p.flag = order[r].flag /\ p.vol = order[r].vol
    BY <1>3, <1>9
  <2>2. r \in 1 .. Len(order) /\ order \in Seq(OrderRec) /\ p \in OrderRec
        /\ order' = [order EXCEPT ![r] = p]
    BY <1>1, <1>2, <1>9, <1>10
  <2> QED
    BY ONLY <2>1, <2>2, <1>9, AlterOne
<1>12. order' \in Seq(OrderRec) /\ Len(order') = Len(order)
  BY <1>11 DEF Alters
<1>13. OrdersAt(order')
  <2>1. OrderOK(p)
    BY <1>4, <1>6, <1>9 DEF OrderOK
  <2> QED
    BY <1>11, <2>1, Parts, AlterOrders
<1>14. StreamAt(stream', order')
  <2>1. ASSUME NEW i \in 1 .. Len(stream'), stream'[i].ref = r, ReportOK(stream'[i], o)
        PROVE  ReportOK(stream'[i], p)
    <3>1. stream'[i].kind # "error"
      <4>1. PICK j \in 1 .. Len(stream) : j = i + 1 /\ stream[j] = stream'[i]
        BY <1>2
      <4>2. 1 \in 1 .. Len(stream) /\ stream[1].ref = r
        BY <1>1, <1>2
      <4>3. stream[j].ref = stream[1].ref /\ j # 1
        BY <2>1, <4>1, <4>2
      <4>4. stream[j].kind # "error"
        BY <4>2, <4>3, Parts DEF StreamAt
      <4> QED
        BY <4>1, <4>4
    <3> QED
      BY <1>6, <1>9, <2>1, <3>1 DEF ReportOK
  <2> QED
    BY <1>2, <1>3, <1>11, <2>1, AlterStream
<1>15. TradesAt(stream', order')
  <2>1. \A q : Coming(q, stream') = Coming(q, stream)
    <3> TAKE q
    <3>1. Coming(q, stream) = Coming(q, Tail(stream))
              + (IF m.kind = "trade" /\ m.ref = q THEN m.n ELSE 0)
      BY <1>1, <1>2, ComingTail
    <3>2. Coming(q, stream') \in Nat
      BY <1>2, TradesType
    <3> QED
      BY <1>5, <3>1, <3>2
  <2>2. order'[r].traded + Coming(r, stream') = order'[r].vol - order'[r].left
    BY <1>3, <1>9, <1>11, <2>1, Parts DEF TradesAt
  <2> QED
    BY <1>11, <2>1, <2>2, Parts, AlterTrades
<1>16. OneWayAt(order')
  BY <1>3, <1>6, <1>11, Parts, AlterWay DEF Active
<1>17. \A k \in Ways \ {"hangs"} : Counts(k, p) = Counts(k, o)
  BY <1>6, <1>9 DEF Counts, OpenOf, Ways
<1>18. \A k \in {"unbooked", "untraded", "open", "live"} : \A s, f : Tot(k, s, f, order') = Tot(k, s, f, order)
  BY <1>3, <1>11, <1>17, AlterSame DEF Ways
<1>19. BookAt(apart, posORD, "unbooked", account, order')
       /\ BookAt(apart, posTRD, "untraded", account, order')
  BY <1>18, Parts, SameBook
<1>20. CoveredAt(account, order')
  BY <1>18, Parts, SameCovered
<1>21. RoomAt(order')
  <2>1. \A q \in 1 .. Len(order) :
            order'[q].cxl = "reopen" /\ order'[q].rep # "done"
                => order[q].cxl = "reopen" /\ order[q].rep # "done"
    BY <1>3, <1>6, <1>9, <1>11 DEF Alters
  <2> QED
    BY <1>12, <2>1, Parts, SameRoom
<1>22. FreeAt(blind, account, order') /\ GoalAt(goal, blind, account, order')
  <2>1. Calm(order, order')
    BY <1>3, <1>6, <1>9, <1>11 DEF Alters, Calm
  <2> QED
    BY <1>18, <2>1, Parts, SameFree, SameGoal
<1> QED
  BY <1>2, <1>10, <1>12, <1>13, <1>14, <1>15, <1>16, <1>19, <1>20, <1>21, <1>22, Parts, Whole

(* A report that ends an order: what does not depend on its kind.          *)
Ended(o, p) ==
    /\ p \in OrderRec /\ p.rep = "done" /\ p.rem \in o.left .. o.vol
    /\ p.cxl = o.cxl /\ p.dir = o.dir /\ p.flag = o.flag /\ p.vol = o.vol
    /\ p.traded = o.traded /\ p.st = o.st /\ p.left = o.left

AfterEnd(r, p, new) ==
    /\ r \in 1 .. Len(order) /\ Alters(order, new, r) /\ new[r] = p
    /\ new \in Seq(OrderRec) /\ Len(new) = Len(order) /\ Tail(stream) \in Seq(Message)
    /\ order[r].rep # "done"
    /\ OrdersAt(new) /\ StreamAt(Tail(stream), new) /\ TradesAt(Tail(stream), new)
    /\ OneWayAt(new) /\ CoveredAt(account, new)
    /\ BookAt(apart, posTRD, "untraded", account, new)
    /\ Counts("unbooked", p) = 0 /\ Counts("unbooked", order[r]) = order[r].vol - order[r].left
    /\ Counts("open", p) = 0 /\ Calm(order, new) /\ RoomAt(new)

(* What the end of an order leaves, before the books move.                 *)
LEMMA EndStep ==
    ASSUME IInv, stream # <<>>, Ending(Head(stream)),
           NEW r, r = Head(stream).ref, NEW p, Ended(order[r], p),
           NEW new, new = [order EXCEPT ![r] = p]
    PROVE  AfterEnd(r, p, new)
<1>1. PICK m \in Message : m = Head(stream)
  BY Parts, StreamTail
<1>2. r \in 1 .. Len(order) /\ order \in Seq(OrderRec) /\ stream \in Seq(Message)
      /\ Tail(stream) \in Seq(Message)
      /\ ReportOK(m, order[r]) /\ StreamAt(Tail(stream), order)
  BY <1>1, Parts, StreamTail
<1>3. PICK o \in OrderRec : o = order[r]
  BY <1>2
<1>4. OrderOK(o) /\ o.left \in Nat /\ o.vol \in Nat /\ o.traded \in Nat /\ o.rem \in Nat
  BY <1>2, <1>3, Parts, RecFields
<1>5. m.kind # "trade" /\ o.rep # "done" /\ o.st = "ended"
  BY <1>1, <1>2, <1>3 DEF ReportOK, Ending
<1>6. /\ p \in OrderRec /\ p.rep = "done" /\ p.rem \in o.left .. o.vol
      /\ p.cxl = o.cxl /\ p.dir = o.dir /\ p.flag = o.flag /\ p.vol = o.vol
      /\ p.traded = o.traded /\ p.st = "ended" /\ p.left = o.left
  BY <1>3, <1>5 DEF Ended
<1>7. Alters(order, new, r) /\ new[r] = p
  <2>1. p.dir = order[r].dir /\ p.flag = order[r].flag /\ p.vol = order[r].vol
    BY <1>3, <1>6
  <2>2. r \in 1 .. Len(order) /\ order \in Seq(OrderRec) /\ p \in OrderRec
        /\ new = [order EXCEPT ![r] = p]
    BY <1>2, <1>6
  <2> QED
    BY ONLY <2>1, <2>2, AlterOne
<1>8. new \in Seq(OrderRec) /\ Len(new) = Len(order)
  BY <1>7 DEF Alters
<1>9. OrdersAt(new)
  <2>1. OrderOK(p)
    BY <1>4, <1>6 DEF OrderOK
  <2> QED
    BY <1>7, <2>1, Parts, AlterOrders
<1>10. StreamAt(Tail(stream), new)
  <2>1. PICK t \in Seq(Message) : t = Tail(stream)
    BY <1>2
  <2>2. \A i \in 1 .. Len(t) : t[i].ref = r => t[i].kind = "trade"
    BY <2>1, Parts, StreamTail
  <2>3. \A i \in 1 .. Len(t) : t[i].ref = r /\ ReportOK(t[i], order[r]) => ReportOK(t[i], new[r])
    BY <1>3, <1>5, <1>6, <1>7, <2>2 DEF ReportOK, Ending
  <2>4. StreamAt(t, order)
    BY <1>2, <2>1
  <2>5. StreamAt(t, new)
    BY ONLY <1>7, <2>3, <2>4, t \in Seq(Message), AlterStream
  <2> QED
    BY <2>1, <2>5
<1>11. TradesAt(Tail(stream), new)
  <2>1. \A q : Coming(q, Tail(stream)) = Coming(q, stream)
    <3> TAKE q
    <3>1. Coming(q, stream) = Coming(q, Tail(stream))
              + (IF m.kind = "trade" /\ m.ref = q THEN m.n ELSE 0)
      BY <1>1, <1>2, ComingTail
    <3>2. Coming(q, Tail(stream)) \in Nat
      BY <1>2, TradesType
    <3> QED
      BY <1>5, <3>1, <3>2
  <2>2. new[r].traded + Coming(r, Tail(stream)) = new[r].vol - new[r].left
    BY <1>2, <1>3, <1>6, <1>7, <2>1, Parts DEF TradesAt
  <2> QED
    BY <1>7, <2>1, <2>2, Parts, AlterTrades
<1>12. OneWayAt(new)
  BY <1>3, <1>5, <1>7, Parts, AlterWay DEF Active
<1>13. Counts("untraded", p) = Counts("untraded", o) /\ Counts("live", p) = Counts("live", o)
       /\ Counts("unbooked", p) = 0 /\ Counts("unbooked", o) = o.vol - o.left
       /\ Counts("open", p) = 0
  BY <1>5, <1>6 DEF Counts, OpenOf
<1>14. \A k \in {"untraded", "live"} : \A s, f : Tot(k, s, f, new) = Tot(k, s, f, order)
  <2>1. \A k \in {"untraded", "live"} : Counts(k, new[r]) = Counts(k, order[r])
    BY <1>3, <1>7, <1>13
  <2> QED
    BY ONLY <1>7, <2>1, AlterSame
<1>15. CoveredAt(account, new) /\ BookAt(apart, posTRD, "untraded", account, new)
  <2>1. \A s, f : Tot("live", s, f, new) = Tot("live", s, f, order)
    BY <1>14
  <2>2. \A s, f : Tot("untraded", s, f, new) = Tot("untraded", s, f, order)
    BY <1>14
  <2>3. CoveredAt(account, order) /\ BookAt(apart, posTRD, "untraded", account, order)
    BY Parts
  <2>4. CoveredAt(account, new)
    BY ONLY <2>1, <2>3, SameCovered
  <2>5. BookAt(apart, posTRD, "untraded", account, new)
    BY ONLY <2>2, <2>3, SameBook
  <2> QED
    BY <2>4, <2>5
<1>16. Calm(order, new)
  BY <1>5, <1>6, <1>7 DEF Alters, Calm
<1>17. RoomAt(new)
  <2>1. \A q \in 1 .. Len(order) :
            new[q].cxl = "reopen" /\ new[q].rep # "done"
                => order[q].cxl = "reopen" /\ order[q].rep # "done"
    BY <1>6, <1>7 DEF Alters
  <2> QED
    BY <1>2, <1>8, <2>1, Parts, SameRoom
<1> QED
  BY <1>2, <1>3, <1>5, <1>7, <1>8, <1>9, <1>10, <1>11, <1>12, <1>13, <1>15, <1>16, <1>17
     DEF AfterEnd

(* A refused order never had a fill, and one that is all traded leads to   *)
(* nothing more.                                                           *)
LEMMA TradedStep ==
    ASSUME IInv, stream # <<>>, OrderTraded(Head(stream)), stream' = Tail(stream),
           UNCHANGED <<apart, account, goal, blind>>
    PROVE  IInv'
<1>1. PICK m, r : m = Head(stream) /\ r = m.ref
  OBVIOUS
<1>2. PICK o : o = order[r]
  OBVIOUS
<1>3. m.kind = "all" /\ Ending(m) /\ m \in Message /\ r \in 1 .. Len(order)
      /\ o \in OrderRec /\ OrderOK(o) /\ ReportOK(m, o)
  BY <1>1, <1>2, Parts, StreamTail DEF OrderTraded, Ending
<1>4. o.left = 0 /\ o.vol \in Nat /\ o.left \in Nat
  BY <1>3, RecFields DEF ReportOK
<1>5. PICK d : d = [o EXCEPT !.rep = "done"]
  OBVIOUS
<1>6. PICK p : p = [d EXCEPT !.rem = 0]
  OBVIOUS
<1>7. Ended(o, p)
  <2>1. d \in OrderRec /\ d.cxl = o.cxl /\ d.dir = o.dir /\ d.flag = o.flag /\ d.vol = o.vol
        /\ d.traded = o.traded /\ d.rep = "done" /\ d.st = o.st /\ d.left = o.left
    BY <1>3, <1>5 DEF OrderRec
  <2>2. p \in OrderRec /\ p.cxl = o.cxl /\ p.dir = o.dir /\ p.flag = o.flag /\ p.vol = o.vol
        /\ p.traded = o.traded /\ p.rep = "done" /\ p.st = o.st /\ p.left = o.left /\ p.rem = 0
    BY <1>6, <2>1 DEF OrderRec
  <2> QED
    BY <1>4, <2>2 DEF Ended
<1>8. order' = [order EXCEPT ![r] = p] /\ posORD' = Update(posORD, o, o.vol) /\ posTRD' = posTRD
  BY <1>1, <1>2, <1>3, <1>5, <1>6, Parts DEF OrderTraded
<1>9. /\ Alters(order, order', r) /\ order'[r] = p
      /\ order' \in Seq(OrderRec) /\ Len(order') = Len(order) /\ stream' \in Seq(Message)
      /\ o.rep # "done"
      /\ OrdersAt(order') /\ StreamAt(stream', order') /\ TradesAt(stream', order')
      /\ OneWayAt(order') /\ CoveredAt(account, order')
      /\ BookAt(apart, posTRD, "untraded", account, order')
      /\ Counts("unbooked", p) = 0 /\ Counts("unbooked", o) = o.vol - o.left
      /\ Counts("open", p) = 0 /\ Calm(order, order') /\ RoomAt(order')
  <2>1. Ending(Head(stream)) /\ r = Head(stream).ref /\ Ended(order[r], p)
        /\ order' = [order EXCEPT ![r] = p]
    BY <1>1, <1>2, <1>3, <1>7, <1>8
  <2>2. AfterEnd(r, p, order')
    BY <2>1, EndStep
  <2> QED
    BY <1>2, <2>2 DEF AfterEnd
<1>10. Update(posORD, o, o.vol) \in Book
       /\ BookAt(apart, Update(posORD, o, o.vol), "unbooked", account, order')
  <2>1. Active(o)
    BY <1>9 DEF Active
  <2>2. o.vol <= Counts("unbooked", o) /\ Counts("unbooked", p) = Counts("unbooked", o) - o.vol
    BY <1>4, <1>9
  <2> QED
    BY <1>2, <1>4, <1>9, <2>1, <2>2, Parts, BookMove
<1>11. Counts("open", o) = 0
  BY <1>3, <1>4 DEF Counts, OpenOf
<1>12. \A s, f : Tot("open", s, f, order') = Tot("open", s, f, order)
  BY <1>2, <1>9, <1>11, AlterSame
<1>13. FreeAt(blind, account, order') /\ GoalAt(goal, blind, account, order')
  BY <1>9, <1>12, Parts, SameFree, SameGoal
<1> QED
  BY <1>8, <1>9, <1>10, <1>13, Parts, Whole

(* A refused order, forgotten, leaves nothing to book.                     *)
LEMMA RefusedStep ==
    ASSUME IInv, stream # <<>>, OrderRefused(Head(stream)), stream' = Tail(stream),
           UNCHANGED <<apart, account, goal, blind>>
    PROVE  IInv'
<1>1. PICK m, r : m = Head(stream) /\ r = m.ref
  OBVIOUS
<1>2. PICK o : o = order[r]
  OBVIOUS
<1>3. m.kind = "error" /\ Ending(m) /\ m \in Message /\ r \in 1 .. Len(order)
      /\ o \in OrderRec /\ OrderOK(o) /\ ReportOK(m, o)
  BY <1>1, <1>2, Parts, StreamTail DEF OrderRefused, Ending
<1>4. o.left = o.vol /\ o.rep = "none" /\ o.st = "ended" /\ o.rem = o.vol /\ o.cxl = "no"
      /\ o.vol \in Nat /\ o.left \in Nat
  BY <1>3, RecFields DEF ReportOK, OrderOK, Ending
<1>5. PICK p : p = [o EXCEPT !.rep = "done"]
  OBVIOUS
<1>7. Ended(o, p)
  <2>1. p \in OrderRec /\ p.cxl = o.cxl /\ p.dir = o.dir /\ p.flag = o.flag /\ p.vol = o.vol
        /\ p.traded = o.traded /\ p.rep = "done" /\ p.st = o.st /\ p.left = o.left /\ p.rem = o.rem
    BY <1>3, <1>5 DEF OrderRec
  <2> QED
    BY <1>4, <2>1 DEF Ended
<1>8. order' = [order EXCEPT ![r] = p] /\ posORD' = posORD /\ posTRD' = posTRD
  BY <1>1, <1>2, <1>3, <1>5, Parts DEF OrderRefused
<1>9. /\ Alters(order, order', r) /\ order'[r] = p
      /\ order' \in Seq(OrderRec) /\ Len(order') = Len(order) /\ stream' \in Seq(Message)
      /\ OrdersAt(order') /\ StreamAt(stream', order') /\ TradesAt(stream', order')
      /\ OneWayAt(order') /\ CoveredAt(account, order')
      /\ BookAt(apart, posTRD, "untraded", account, order')
      /\ Counts("unbooked", p) = 0 /\ Counts("unbooked", o) = o.vol - o.left
      /\ Counts("open", p) = 0 /\ Calm(order, order') /\ RoomAt(order')
  <2>1. Ending(Head(stream)) /\ r = Head(stream).ref /\ Ended(order[r], p)
        /\ order' = [order EXCEPT ![r] = p]
    BY <1>1, <1>2, <1>3, <1>7, <1>8
  <2>2. AfterEnd(r, p, order')
    BY <2>1, EndStep
  <2> QED
    BY <1>2, <2>2 DEF AfterEnd
<1>10. Counts("unbooked", o) = 0
  BY <1>4, <1>9
<1>11. Counts("open", o) = 0
  BY <1>4 DEF Counts, OpenOf
<1>12. \A k \in {"open", "unbooked"} : \A s, f : Tot(k, s, f, order') = Tot(k, s, f, order)
  BY <1>2, <1>9, <1>10, <1>11, AlterSame
<1>13. FreeAt(blind, account, order') /\ GoalAt(goal, blind, account, order')
       /\ BookAt(apart, posORD, "unbooked", account, order')
  BY <1>9, <1>12, Parts, SameFree, SameGoal, SameBook
<1> QED
  BY <1>8, <1>9, <1>13, Parts, Whole

(* New orders of one way.                                                  *)
Fresh(more, dir) ==
    /\ more \in Seq(OrderRec) /\ dir \in Dirs
    /\ \A i \in 1 .. Len(more) :
          /\ OrderOK(more[i]) /\ more[i].dir = dir /\ more[i].rep = "none" /\ more[i].cxl = "no"
          /\ more[i].traded = 0 /\ more[i].left = more[i].vol
          /\ \A k : k # "open" => Counts(k, more[i]) = 0

(* New orders count as open only.                                          *)
LEMMA GrowTot ==
    ASSUME NEW ord \in Seq(OrderRec), NEW more, NEW dir, Fresh(more, dir), NEW k, k # "open"
    PROVE  \A s, f : Tot(k, s, f, ord \o more) = Tot(k, s, f, ord)
<1> TAKE s, f
<1>1. more \in Seq(OrderRec) /\ \A i \in 1 .. Len(more) : Weight(k, s, f, more[i]) = 0
  BY DEF Fresh, Weight
<1>2. Tot(k, s, f, more) = 0
  BY <1>1, TotZero
<1>3. Tot(k, s, f, ord) \in Int
  BY WeightsType
<1>4. Tot(k, s, f, ord \o more) = Tot(k, s, f, ord) + Tot(k, s, f, more)
  BY <1>1, TotConcat
<1> QED
  BY <1>2, <1>3, <1>4

(* New orders that go the way of all that are active.                      *)
Grows(str, ord, more, dir, all) ==
    /\ str \in Seq(Message) /\ ord \in Seq(OrderRec) /\ all = ord \o more
    /\ StreamAt(str, ord) /\ TradesAt(str, ord) /\ OrdersAt(ord) /\ OneWayAt(ord)
    /\ Fresh(more, dir)
    /\ \A r \in 1 .. Len(ord) : Active(ord[r]) => ord[r].dir = dir

(* New orders that go the way of all that are active.                      *)
LEMMA Grow ==
    ASSUME NEW str, NEW ord, NEW more, NEW dir, NEW all, Grows(str, ord, more, dir, all)
    PROVE  /\ all \in Seq(OrderRec) /\ Len(all) = Len(ord) + Len(more)
           /\ OrdersAt(all) /\ StreamAt(str, all) /\ TradesAt(str, all) /\ OneWayAt(all)
           /\ Reserve(all) = Reserve(ord)
           /\ \A r \in 1 .. Len(all) :
                 \/ r \in 1 .. Len(ord) /\ all[r] = ord[r]
                 \/ all[r].dir = dir /\ all[r].cxl = "no"
<1> SUFFICES ASSUME str \in Seq(Message), ord \in Seq(OrderRec), all = ord \o more,
                    StreamAt(str, ord), TradesAt(str, ord), OrdersAt(ord), OneWayAt(ord),
                    Fresh(more, dir), \A r \in 1 .. Len(ord) : Active(ord[r]) => ord[r].dir = dir
             PROVE  /\ all \in Seq(OrderRec) /\ Len(all) = Len(ord) + Len(more)
                    /\ OrdersAt(all) /\ StreamAt(str, all) /\ TradesAt(str, all) /\ OneWayAt(all)
                    /\ Reserve(all) = Reserve(ord)
                    /\ \A r \in 1 .. Len(all) :
                          \/ r \in 1 .. Len(ord) /\ all[r] = ord[r]
                          \/ all[r].dir = dir /\ all[r].cxl = "no"
  BY DEF Grows
<1>1. more \in Seq(OrderRec)
  BY DEF Fresh
<1>2. PICK n \in Nat, m \in Nat : n = Len(ord) /\ m = Len(more)
  BY <1>1
<1>3. all \in Seq(OrderRec) /\ Len(all) = n + m
      /\ (\A r \in 1 .. n : all[r] = ord[r])
      /\ (\A r \in n + 1 .. n + m : r - n \in 1 .. m /\ all[r] = more[r - n])
  BY <1>1, <1>2
<1>4. \A r \in 1 .. n + m :
          \/ r \in 1 .. n /\ all[r] = ord[r]
          \/ /\ r > n /\ OrderOK(all[r]) /\ all[r].dir = dir /\ all[r].cxl = "no"
  <2> SUFFICES ASSUME NEW r \in 1 .. n + m, r \notin 1 .. n
               PROVE  r > n /\ OrderOK(all[r]) /\ all[r].dir = dir /\ all[r].cxl = "no"
    BY <1>3
  <2>1. r \in n + 1 .. n + m
    OBVIOUS
  <2>2. r - n \in 1 .. Len(more) /\ all[r] = more[r - n]
    BY <1>2, <1>3, <2>1
  <2> QED
    BY <2>1, <2>2 DEF Fresh
<1>5. OrdersAt(all)
  BY <1>2, <1>3, <1>4 DEF OrdersAt
<1>6. StreamAt(str, all)
  BY <1>1, StreamMore
<1>7. TradesAt(str, all)
  <2>1. \A r \in 1 .. Len(more) : more[r].traded = 0 /\ more[r].left = more[r].vol
    BY DEF Fresh
  <2> QED
    BY <1>1, <2>1, TradesMore
<1>8. OneWayAt(all)
  <2>1. \A r \in 1 .. n + m : Active(all[r]) => all[r].dir = dir
    BY <1>2, <1>4
  <2> QED
    BY <1>2, <1>3, <2>1 DEF OneWayAt
<1>9. Reserve(all) = Reserve(ord)
  <2>1. \A r \in 1 .. n : r \in 1 .. n + m
    OBVIOUS
  <2> QED
    BY <1>2, <1>3, <1>4, <2>1 DEF Reserve
<1> QED
  BY <1>2, <1>3, <1>4, <1>5, <1>6, <1>7, <1>8, <1>9

(* The orders that will be reopened can be counted.                        *)
LEMMA ReserveFinite ==
    ASSUME NEW ord \in Seq(OrderRec)
    PROVE  IsFiniteSet(Reserve(ord)) /\ Cardinality(Reserve(ord)) \in Nat
<1>1. Reserve(ord) \subseteq 1 .. Len(ord) /\ IsFiniteSet(1 .. Len(ord))
  BY FS_Interval DEF Reserve
<1>2. IsFiniteSet(Reserve(ord))
  BY <1>1, FS_Subset
<1> QED
  BY <1>2, FS_CardinalityType

(* A cancelled order: its fills are booked, never cut short, and its rest  *)
(* is dropped, or reopened one for one.                                    *)
LEMMA CanceledStep ==
    ASSUME IInv, stream # <<>>, OrderCanceled(Head(stream)), stream' = Tail(stream),
           UNCHANGED <<apart, account, goal, blind>>
    PROVE  IInv'
<1>1. PICK m, r : m = Head(stream) /\ r = m.ref
  OBVIOUS
<1>2. PICK o : o = order[r]
  OBVIOUS
<1>3. m.kind = "canceled" /\ Ending(m) /\ m \in Message /\ r \in 1 .. Len(order)
      /\ o \in OrderRec /\ OrderOK(o) /\ ReportOK(m, o)
  BY <1>1, <1>2, Parts, StreamTail DEF OrderCanceled, Ending
<1>4. m.n = o.left /\ o.left > 0 /\ o.cxl # "no" /\ o.rep # "done" /\ o.st = "ended"
      /\ o.vol \in Nat /\ o.left \in Nat /\ o.left <= o.vol /\ o.vol \in 1 .. MaxOnce
      /\ o.dir \in Dirs /\ o.flag \in Flags
  <2>1. o.left \in Nat /\ o.rem \in Nat /\ o.vol \in Nat /\ o.vol \in 1 .. MaxOnce
        /\ o.dir \in Dirs /\ o.flag \in Flags
    BY <1>3, RecFields
  <2> QED
    BY <1>3, <2>1 DEF ReportOK, OrderOK, Ending
<1>5. PICK d : d = [o EXCEPT !.rep = "done"]
  OBVIOUS
<1>6. PICK p : p = [d EXCEPT !.rem = m.n]
  OBVIOUS
<1>7. Ended(o, p)
  <2>1. d \in OrderRec /\ d.cxl = o.cxl /\ d.dir = o.dir /\ d.flag = o.flag /\ d.vol = o.vol
        /\ d.traded = o.traded /\ d.rep = "done" /\ d.st = o.st /\ d.left = o.left
    BY <1>3, <1>5 DEF OrderRec
  <2>2. p \in OrderRec /\ p.cxl = o.cxl /\ p.dir = o.dir /\ p.flag = o.flag /\ p.vol = o.vol
        /\ p.traded = o.traded /\ p.rep = "done" /\ p.st = o.st /\ p.left = o.left /\ p.rem = o.left
    BY <1>4, <1>6, <2>1 DEF OrderRec
  <2> QED
    BY <1>4, <2>2 DEF Ended
<1>8. PICK done : done = [order EXCEPT ![r] = p]
  OBVIOUS
<1>9. AfterEnd(r, p, done)
  BY <1>1, <1>2, <1>3, <1>7, <1>8, EndStep
<1>10. /\ Alters(order, done, r) /\ done[r] = p
       /\ done \in Seq(OrderRec) /\ Len(done) = Len(order) /\ stream' \in Seq(Message)
       /\ OrdersAt(done) /\ StreamAt(stream', done) /\ TradesAt(stream', done)
       /\ OneWayAt(done) /\ CoveredAt(account, done)
       /\ BookAt(apart, posTRD, "untraded", account, done)
       /\ Counts("unbooked", p) = 0 /\ Counts("unbooked", o) = o.vol - o.left
       /\ Counts("open", p) = 0 /\ Calm(order, done) /\ RoomAt(done)
  BY <1>2, <1>9 DEF AfterEnd
<1>11. PICK n \in Nat : n = o.vol - o.left
  BY <1>4
<1>12. Update(posORD, o, n) \in Book /\ Fits(posORD, o, n)
       /\ BookAt(apart, Update(posORD, o, n), "unbooked", account, done)
  <2>1. Active(o)
    BY <1>4 DEF Active
  <2>2. n <= Counts("unbooked", o) /\ Counts("unbooked", p) = Counts("unbooked", o) - n
    BY <1>10, <1>11
  <2> QED
    BY <1>2, <1>10, <2>1, <2>2, Parts, BookMove
<1>13. posORD' = Update(posORD, o, n) /\ posTRD' = posTRD
       /\ order' = IF o.cxl = "reopen" THEN Append(done, NewOrder(o.dir, o.flag, o.left)) ELSE done
  <2>1. done = [order EXCEPT ![r].rep = "done", ![r].rem = m.n]
    BY <1>2, <1>3, <1>5, <1>6, <1>8, Parts
  <2>2. o.vol - m.n = n /\ m.n = o.left
    BY <1>4, <1>11
  <2>3. posORD' = Update(posORD, o, o.vol - m.n) /\ posTRD' = posTRD
    BY <1>1, <1>2 DEF OrderCanceled
  <2>4. order' = IF o.cxl = "reopen" /\ Fits(posORD, o, o.vol - m.n)
                 THEN Append([order EXCEPT ![r].rep = "done", ![r].rem = m.n],
                             NewOrder(o.dir, o.flag, m.n))
                 ELSE [order EXCEPT ![r].rep = "done", ![r].rem = m.n]
    BY <1>1, <1>2, SMTT(20) DEF OrderCanceled
  <2> QED
    BY <1>12, <2>1, <2>2, <2>3, <2>4
<1>14. CASE o.cxl # "reopen"
  <2>1. Counts("open", o) = 0
    BY <1>4, <1>14 DEF Counts, OpenOf
  <2>2. \A s, f : Tot("open", s, f, done) = Tot("open", s, f, order)
    BY <1>2, <1>10, <2>1, AlterSame
  <2>3. FreeAt(blind, account, done) /\ GoalAt(goal, blind, account, done)
    BY <1>10, <2>2, Parts, SameFree, SameGoal
  <2>4. order' = done
    BY <1>13, <1>14
  <2> QED
    BY <1>10, <1>12, <1>13, <2>3, <2>4, Parts, Whole
<1>15. CASE o.cxl = "reopen"
  <2>1. PICK q : q = NewOrder(o.dir, o.flag, o.left)
    OBVIOUS
  <2>2. o.left \in 1 .. MaxOnce
    BY <1>4, BookAssumption
  <2>3. q \in OrderRec /\ OrderOK(q) /\ q.dir = o.dir /\ q.flag = o.flag /\ q.rep = "none"
        /\ q.cxl = "no" /\ q.traded = 0 /\ q.left = q.vol
        /\ \A k : Counts(k, q) = IF k = "open" THEN o.left ELSE 0
    BY <1>4, <2>1, <2>2, OneOrder
  <2>4. PICK more \in Seq(OrderRec) : more = <<q>>
    <3>1. <<q>> \in Seq(OrderRec)
      BY <2>3
    <3> QED
      BY <3>1
  <2>5. order' = done \o more /\ Len(more) = 1 /\ more[1] = q
    BY <1>10, <1>13, <1>15, <2>1, <2>3, <2>4
  <2>6. Fresh(more, o.dir)
    BY <1>4, <2>3, <2>5 DEF Fresh
  <2>7. \A i \in 1 .. Len(done) : Active(done[i]) => done[i].dir = o.dir
    <3>1. \A i \in 1 .. Len(done) : Active(done[i]) => Active(order[i]) /\ done[i].dir = order[i].dir
      BY <1>2, <1>4, <1>10 DEF Alters, Active
    <3>2. \A i \in 1 .. Len(order) : Active(order[i]) => order[i].dir = o.dir
      <4>1. Active(order[r])
        BY <1>2, <1>4 DEF Active
      <4> QED
        BY <1>2, <1>3, <4>1, Parts DEF OneWayAt
    <3> QED
      BY <1>10, <3>1, <3>2
  <2>8. /\ order' \in Seq(OrderRec) /\ Len(order') = Len(done) + 1
        /\ OrdersAt(order') /\ StreamAt(stream', order') /\ TradesAt(stream', order')
        /\ OneWayAt(order') /\ Reserve(order') = Reserve(done)
        /\ \A i \in 1 .. Len(order') :
              \/ i \in 1 .. Len(done) /\ order'[i] = done[i]
              \/ order'[i].dir = o.dir /\ order'[i].cxl = "no"
    <3>1. Grows(stream', done, more, o.dir, order')
      BY <1>10, <2>5, <2>6, <2>7 DEF Grows
    <3>2. /\ order' \in Seq(OrderRec) /\ Len(order') = Len(done) + Len(more)
          /\ OrdersAt(order') /\ StreamAt(stream', order') /\ TradesAt(stream', order')
          /\ OneWayAt(order') /\ Reserve(order') = Reserve(done)
          /\ \A i \in 1 .. Len(order') :
                \/ i \in 1 .. Len(done) /\ order'[i] = done[i]
                \/ order'[i].dir = o.dir /\ order'[i].cxl = "no"
      BY ONLY <3>1, Grow
    <3> QED
      BY <2>5, <3>2
  <2>9. \A k \in {"unbooked", "untraded", "live"} : \A s, f : Tot(k, s, f, order') = Tot(k, s, f, done)
    BY <1>10, <2>5, <2>6, GrowTot
  <2>10. BookAt(apart, posORD', "unbooked", account, order')
         /\ BookAt(apart, posTRD', "untraded", account, order') /\ CoveredAt(account, order')
    BY <1>10, <1>12, <1>13, <2>9, SameBook, SameCovered
  <2>11. \A s, f : Tot("open", s, f, order') = Tot("open", s, f, order)
    <3> TAKE s, f
    <3>1. Counts("open", o) = o.left
      BY <1>4, <1>15 DEF Counts, OpenOf
    <3>2. Counts("open", p) = Counts("open", o) + -o.left /\ -o.left \in Int
      BY <1>4, <1>10, <3>1
    <3>3. Tot("open", s, f, order) \in Int
          /\ Tot("open", s, f, done) = Tot("open", s, f, order) + Part(o, -o.left, s, f)
      BY <1>2, <1>10, <3>2, AlterPart
    <3>4. Tot("open", s, f, order') = Tot("open", s, f, done) + Weight("open", s, f, q)
      <4>1. order' = Append(done, q)
        BY <1>13, <1>15, <2>1
      <4> QED
        BY <1>10, <2>3, <4>1, TotAppend
    <3>5. Weight("open", s, f, q) = IF Of(s, f, o) THEN o.left ELSE 0
      BY <2>3 DEF Weight, Of
    <3>6. Part(o, -o.left, s, f) = IF Of(s, f, o) THEN -o.left ELSE 0
      BY DEF Part
    <3> QED
      BY <1>4, <3>3, <3>4, <3>5, <3>6
  <2>12. FreeAt(blind, account, order') /\ Leads(account, order') = Leads(account, order)
         /\ \A s : /\ FreeTd(account, order', s) = FreeTd(account, order, s)
                   /\ FreeYd(account, order', s) = FreeYd(account, order, s)
    <3>1. FreeAt(blind, account, order)
      BY Parts
    <3>2. PICK all : all = order'
      OBVIOUS
    <3>3. \A s, f : Tot("open", s, f, all) = Tot("open", s, f, order)
      BY <2>11, <3>2
    <3>4. /\ \A bl : FreeAt(bl, account, order) => FreeAt(bl, account, all)
          /\ \A s : FreeTd(account, all, s) = FreeTd(account, order, s)
          /\ \A s : FreeYd(account, all, s) = FreeYd(account, order, s)
          /\ Leads(account, all) = Leads(account, order)
      BY ONLY <3>3, SameFree
    <3> QED
      BY <3>1, <3>2, <3>4
  <2>13. GoalAt(goal, blind, account, order')
    <3>1. \A dir : AllGo(dir, order) => AllGo(dir, order')
      <4>1. order[r].rep # "done" /\ order[r].dir = o.dir
        BY <1>2, <1>4
      <4> QED
        BY <1>3, <1>10, <2>8, <4>1, SMTT(20) DEF AllGo, Calm
    <3>2. \A s : Spent(account, order, s) => Spent(account, order', s)
      BY <2>12, <3>1 DEF Spent
    <3>3. (\A i \in 1 .. Len(order) : order[i].cxl = "drop" => order[i].rep = "done")
              => \A i \in 1 .. Len(order') : order'[i].cxl = "drop" => order'[i].rep = "done"
      <4>1. PICK new : new = order'
        OBVIOUS
      <4>2. \A i \in 1 .. Len(new) : (i \in 1 .. Len(done) /\ new[i] = done[i]) \/ new[i].cxl = "no"
        BY <2>8, <4>1
      <4>3. \A i \in 1 .. Len(done) : i \in 1 .. Len(order)
                /\ (done[i].cxl = "drop" /\ done[i].rep # "done" => order[i].cxl = "drop")
                /\ (done[i].rep # "done" => order[i].rep # "done")
        BY <1>10 DEF Calm, Alters
      <4>4. (\A i \in 1 .. Len(order) : order[i].cxl = "drop" => order[i].rep = "done")
                => \A i \in 1 .. Len(new) : new[i].cxl = "drop" => new[i].rep = "done"
        BY <4>2, <4>3
      <4> QED
        BY <4>1, <4>4
    <3> QED
      BY <2>12, <3>2, <3>3, Parts DEF GoalAt
  <2>14. RoomAt(order')
    <3>1. Reserve(done) = Reserve(order) \ {r} /\ r \in Reserve(order)
      <4>1. p.rep = "done"
        BY <1>7 DEF Ended
      <4> QED
        BY <1>2, <1>3, <1>4, <1>10, <1>15, <4>1 DEF Reserve, Alters
    <3>2. PICK R : R = Reserve(order)
      OBVIOUS
    <3>3. IsFiniteSet(R) /\ Cardinality(R) \in Nat
      BY <3>2, Parts, ReserveFinite
    <3>4. Cardinality(R \ {r}) = Cardinality(R) - 1
      BY ONLY <3>1, <3>2, <3>3, FS_RemoveElement
    <3>5. Len(order) + Cardinality(R) <= MaxRef
      BY <3>2, Parts DEF RoomAt
    <3> QED
      BY <1>10, <2>8, <3>1, <3>2, <3>3, <3>4, <3>5, Parts, BookAssumption DEF RoomAt
  <2> QED
    BY <1>10, <1>12, <1>13, <2>8, <2>10, <2>12, <2>13, <2>14, Parts, Whole
<1> QED
  BY <1>14, <1>15

(* TradeWay keeps the invariant: the book of trades moves by the trade     *)
(* handled.                                                                *)
LEMMA TradeStep ==
    ASSUME IInv, stream # <<>>, Trade(Head(stream)), stream' = Tail(stream),
           UNCHANGED <<apart, account, goal, blind>>
    PROVE  IInv'
<1>1. PICK m, r : m = Head(stream) /\ r = m.ref
  OBVIOUS
<1>2. PICK o : o = order[r]
  OBVIOUS
<1>3. m.kind = "trade" /\ m \in Message /\ r \in 1 .. Len(order) /\ order \in Seq(OrderRec)
      /\ o \in OrderRec /\ OrderOK(o) /\ ReportOK(m, o) /\ stream \in Seq(Message)
      /\ stream' \in Seq(Message) /\ StreamAt(stream', order)
  BY <1>1, <1>2, Parts, StreamTail DEF Trade
<1>4. o.left \in Nat /\ o.vol \in Nat /\ o.traded \in Nat /\ o.rem \in Nat /\ m.n \in Nat
      /\ 0 < m.n
  BY <1>3, RecFields DEF ReportOK, Message
<1>5. \A q : Coming(q, stream) = Coming(q, stream') + (IF q = r THEN m.n ELSE 0)
             /\ Coming(q, stream') \in Nat
  <2> TAKE q
  <2>1. Coming(q, stream) = Coming(q, Tail(stream))
            + (IF m.kind = "trade" /\ m.ref = q THEN m.n ELSE 0)
    BY <1>1, <1>3, ComingTail
  <2>2. Coming(q, stream') \in Nat
    BY <1>3, TradesType
  <2> QED
    BY <1>1, <1>3, <2>1, <2>2
<1>6. o.traded + Coming(r, stream') + m.n = o.vol - o.left /\ Coming(r, stream') \in Nat
  BY <1>2, <1>3, <1>4, <1>5, Parts DEF TradesAt
<1>0. PICK t \in Nat : t = o.traded + m.n
  BY <1>4
<1>7. PICK p : p = [o EXCEPT !.traded = t]
  OBVIOUS
<1>8. p \in OrderRec /\ p.cxl = o.cxl /\ p.dir = o.dir /\ p.flag = o.flag /\ p.vol = o.vol
      /\ p.rem = o.rem /\ p.traded = o.traded + m.n /\ p.rep = o.rep /\ p.st = o.st /\ p.left = o.left
  BY <1>0, <1>3, <1>7 DEF OrderRec
<1>9. order' = [order EXCEPT ![r] = p] /\ posTRD' = Update(posTRD, o, m.n) /\ posORD' = posORD
  BY <1>0, <1>1, <1>2, <1>3, <1>7 DEF Trade
<1>10. Alters(order, order', r) /\ order'[r] = p
  <2>1. p.dir = order[r].dir /\ p.flag = order[r].flag /\ p.vol = order[r].vol
    BY <1>2, <1>8
  <2>2. r \in 1 .. Len(order) /\ order \in Seq(OrderRec) /\ p \in OrderRec
        /\ order' = [order EXCEPT ![r] = p]
    BY <1>3, <1>8, <1>9
  <2> QED
    BY ONLY <2>1, <2>2, AlterOne
<1>11. order' \in Seq(OrderRec) /\ Len(order') = Len(order)
  BY <1>10 DEF Alters
<1>12. OrdersAt(order')
  <2>1. OrderOK(p)
    BY <1>3, <1>8 DEF OrderOK
  <2> QED
    BY <1>10, <2>1, Parts, AlterOrders
<1>13. StreamAt(stream', order')
  <2>1. \A i \in 1 .. Len(stream') :
            stream'[i].ref = r /\ ReportOK(stream'[i], order[r]) => ReportOK(stream'[i], order'[r])
    BY <1>2, <1>8, <1>10 DEF ReportOK
  <2> QED
    BY <1>3, <1>10, <2>1, AlterStream
<1>14. TradesAt(stream', order')
  <2>1. \A q : q # r => Coming(q, stream') = Coming(q, stream)
    BY <1>5
  <2>2. order'[r].traded + Coming(r, stream') = order'[r].vol - order'[r].left
    BY <1>4, <1>6, <1>8, <1>10
  <2> QED
    BY <1>10, <2>1, <2>2, Parts, AlterTrades
<1>15. Active(o)
  BY <1>4, <1>6 DEF Active
<1>16. OneWayAt(order')
  BY <1>2, <1>10, <1>15, Parts, AlterWay
<1>17. /\ \A k \in {"unbooked", "open", "live"} : Counts(k, p) = Counts(k, o)
       /\ m.n <= Counts("untraded", o)
       /\ Counts("untraded", p) = Counts("untraded", o) - m.n
  BY <1>4, <1>6, <1>8 DEF Counts, OpenOf
<1>18. \A k \in {"unbooked", "open", "live"} : \A s, f : Tot(k, s, f, order') = Tot(k, s, f, order)
  BY <1>2, <1>10, <1>17, AlterSame
<1>19. posTRD' \in Book /\ BookAt(apart, posTRD', "untraded", account, order')
  <2>1. Update(posTRD, o, m.n) \in Book
        /\ BookAt(apart, Update(posTRD, o, m.n), "untraded", account, order')
    BY <1>2, <1>4, <1>10, <1>15, <1>17, Parts, BookMove
  <2> QED
    BY <1>9, <2>1
<1>20. BookAt(apart, posORD, "unbooked", account, order') /\ CoveredAt(account, order')
  BY <1>18, Parts, SameBook, SameCovered
<1>21. RoomAt(order')
  <2>1. \A q \in 1 .. Len(order) :
            order'[q].cxl = "reopen" /\ order'[q].rep # "done"
                => order[q].cxl = "reopen" /\ order[q].rep # "done"
    BY <1>2, <1>8, <1>10 DEF Alters
  <2> QED
    BY <1>3, <1>11, <2>1, Parts, SameRoom
<1>22. FreeAt(blind, account, order') /\ GoalAt(goal, blind, account, order')
  <2>1. Calm(order, order')
    BY <1>2, <1>8, <1>10 DEF Alters, Calm
  <2> QED
    BY <1>18, <2>1, Parts, SameFree, SameGoal
<1> QED
  BY <1>3, <1>9, <1>11, <1>12, <1>13, <1>14, <1>16, <1>19, <1>20, <1>21, <1>22, Parts, Whole

-----------------------------------------------------------------------------
(* What TargetWay sees, with no order unreported or being cancelled.       *)

(* ScanGD by the total of what hangs.                                      *)
LEMMA PendingTot ==
    ASSUME IInv, NEW s, NEW f
    PROVE  Pending(s, f) = Tot("hangs", s, f, order)
<1>1. PICK T : T = {r \in Refs : Hanging(r) /\ order[r].flag = f /\ SideOf(order[r].dir, f) = s}
  OBVIOUS
<1>2. PICK g : g = [q \in T |-> order[q].rem]
  OBVIOUS
<1>3. Pending(s, f) = SumFunction(g)
  BY <1>1, <1>2 DEF Pending, Sum
<1>4. \A q \in 1 .. Len(order) : Weight("hangs", s, f, order[q]) = IF q \in T THEN g[q] ELSE 0
  BY <1>1, <1>2, Parts DEF Weight, Of, Counts, Hanging
<1>5. T \in SUBSET (1 .. Len(order)) /\ order \in Seq(OrderRec)
  BY <1>1, Parts
<1>6. SumFunction(g) = Tot("hangs", s, f, order)
  <2>1. g = [q \in T |-> g[q]]
    BY <1>2
  <2>2. \A q \in T : g[q] = Weight("hangs", s, f, order[q])
    BY <1>4, <1>5
  <2>3. \A q \in (1 .. Len(order)) \ T : Weight("hangs", s, f, order[q]) = 0
    BY <1>4
  <2> QED
    BY ONLY <1>5, <2>1, <2>2, <2>3, SumTot
<1> QED
  BY <1>3, <1>6

(* Nothing of a direction is pending: no order hangs that way.             *)
LEMMA PendingNone ==
    ASSUME IInv, NEW dir, ~(PendingDir(dir) > 0)
    PROVE  \A r \in 1 .. Len(order) : order[r].rep = "hang" => order[r].dir # dir
<1>1. PICK T : T = {r \in Refs : Hanging(r) /\ order[r].dir = dir}
  OBVIOUS
<1>2. PICK g : g = [q \in T |-> order[q].rem]
  OBVIOUS
<1>3. PendingDir(dir) = SumFunction(g)
  BY <1>1, <1>2 DEF PendingDir, Sum
<1>4. T \subseteq 1 .. Len(order) /\ IsFiniteSet(T)
  <2>1. T \subseteq 1 .. Len(order) /\ IsFiniteSet(1 .. Len(order))
    BY <1>1, Parts, FS_Interval
  <2> QED
    BY <2>1, FS_Subset
<1>5. \A q \in T : order[q].rem \in Nat
  BY <1>4, Parts, RecFields
<1>6. g \in [T -> Nat]
  BY <1>2, <1>5
<1>7. SumFunction(g) \in Nat /\ \A q \in T : g[q] <= SumFunction(g)
  BY ONLY <1>4, <1>6, SumNat
<1>8. \A q \in T : order[q].rem > 0
  BY <1>1, <1>4, Parts DEF OrderOK, Hanging
<1>9. T = {}
  <2> SUFFICES ASSUME NEW q \in T
               PROVE  FALSE
    OBVIOUS
  <2>1. g[q] = order[q].rem
    BY <1>2
  <2> QED
    BY <1>3, <1>5, <1>7, <1>8, <2>1
<1> QED
  BY <1>1, <1>9, Parts DEF Hanging

(* What the orders lead to, from what the books and the reports say: exact *)
(* unless an order that hangs has filled in part unseen.                   *)
LEMMA SeenOrders ==
    ASSUME IInv, ~HaveDoing
    PROVE  /\ \A r \in 1 .. Len(order) :
                 /\ order[r].rep \in {"hang", "done"} /\ order[r].st # "queued"
                 /\ order[r].rep = "hang" => order[r].cxl = "no"
           /\ ~PartUnseen => \A r \in 1 .. Len(order) :
                 Counts("hangs", order[r]) = Counts("unbooked", order[r]) + Counts("open", order[r])
<1>1. ASSUME NEW r \in 1 .. Len(order)
      PROVE  /\ order[r].rep \in {"hang", "done"} /\ order[r].st # "queued"
             /\ order[r].rep = "hang" => order[r].cxl = "no"
  <2>1. order[r] \in OrderRec /\ OrderOK(order[r])
    BY Parts
  <2>2. order[r].rep # "none" /\ (order[r].rep = "hang" => order[r].cxl = "no")
    BY Parts DEF HaveDoing
  <2> QED
    BY <2>1, <2>2, RecFields DEF OrderOK
<1>2. ASSUME ~PartUnseen, NEW r \in 1 .. Len(order)
      PROVE  Counts("hangs", order[r]) = Counts("unbooked", order[r]) + Counts("open", order[r])
  <2>1. PICK o \in OrderRec : o = order[r]
    BY Parts
  <2>2. OrderOK(o) /\ o.left \in Nat /\ o.vol \in Nat /\ o.rem \in Nat
        /\ o.st \in {"queued", "live", "ended"}
    BY <2>1, Parts, RecFields
  <2>3. o.rep = "hang" => o.rem = o.vol
    <3> SUFFICES ASSUME o.rep = "hang"
                 PROVE  o.rem = o.vol
      OBVIOUS
    <3>1. ~(o.rem < o.vol)
      BY <1>2, <2>1, Parts DEF PartUnseen, Hanging
    <3>2. o.rem <= o.vol
      BY <2>2 DEF OrderOK
    <3> QED
      BY <2>2, <3>1, <3>2
  <2> QED
    BY <1>1, <2>1, <2>2, <2>3 DEF Counts, OpenOf, OrderOK
<1> QED
  BY <1>1, <1>2

(* With nothing unreported, Valid and NDoAll are exact unless an order     *)
(* that hangs has filled in part: that fill is neither pending nor booked. *)
LEMMA SeenExact ==
    ASSUME IInv, ~HaveDoing
    PROVE  /\ \A s \in Sides : /\ Valid(s).td \in Int /\ Valid(s).yd \in Int
                               /\ ValidPos(s) = Valid(s).td + Valid(s).yd
           /\ ~PartUnseen =>
                 /\ \A s \in Sides :
                       /\ Valid(s).td = FreeTd(account, order, s) - Tot("unbooked", s, "open", order)
                       /\ Valid(s).yd = FreeYd(account, order, s)
                       /\ ValidPos(s) + Pending(s, "open") = Net(account, order, s)
                 /\ \A tgt \in Int : NDoAll(tgt) = tgt - Leads(account, order)
<1>1. \A k, s, f : Tot(k, s, f, order) \in Int
  BY Parts, WeightsType
<1>2. \A s \in Sides : account[s].td \in Nat /\ account[s].yd \in Nat
  BY Parts DEF Holding
<1>3. ASSUME NEW s \in Sides
      PROVE  /\ Valid(s).td = account[s].td - Tot("unbooked", s, "open", order)
                   + Tot("unbooked", s, "today", order) - Tot("hangs", s, "today", order)
             /\ Valid(s).yd = account[s].yd + Tot("unbooked", s, "yesterday", order)
                   - Tot("hangs", s, "yesterday", order)
             /\ Valid(s).td \in Int /\ Valid(s).yd \in Int
             /\ ValidPos(s) = Valid(s).td + Valid(s).yd
  <2>1. Read(posORD[s]).td = account[s].td - Tot("unbooked", s, "open", order)
            + Tot("unbooked", s, "today", order)
        /\ Read(posORD[s]).yd = account[s].yd + Tot("unbooked", s, "yesterday", order)
    BY Parts DEF BookAt, Read
  <2>2. Valid(s).td = Read(posORD[s]).td - Tot("hangs", s, "today", order)
        /\ Valid(s).yd = Read(posORD[s]).yd - Tot("hangs", s, "yesterday", order)
    BY PendingTot DEF Valid
  <2>3. ValidPos(s) = Valid(s).td + Valid(s).yd
    BY DEF ValidPos
  <2> QED
    BY <1>1, <1>2, <2>1, <2>2, <2>3
<1>4. ASSUME ~PartUnseen, NEW s \in Sides
      PROVE  /\ Valid(s).td = FreeTd(account, order, s) - Tot("unbooked", s, "open", order)
             /\ Valid(s).yd = FreeYd(account, order, s)
             /\ ValidPos(s) + Pending(s, "open") = Net(account, order, s)
  <2>1. \A r \in 1 .. Len(order) :
            Counts("hangs", order[r]) = Counts("unbooked", order[r]) + Counts("open", order[r])
    BY <1>4, SeenOrders
  <2>2. \A f : Tot("hangs", s, f, order) = Tot("unbooked", s, f, order) + Tot("open", s, f, order)
    BY <2>1, Parts, TotPlus
  <2>3. Pending(s, "open") = Tot("unbooked", s, "open", order) + Tot("open", s, "open", order)
    BY <2>2, PendingTot
  <2>4. Tot("hangs", s, "today", order) = Tot("unbooked", s, "today", order) + Tot("open", s, "today", order)
        /\ Tot("hangs", s, "yesterday", order)
              = Tot("unbooked", s, "yesterday", order) + Tot("open", s, "yesterday", order)
    BY <2>2
  <2>5. Valid(s).td = account[s].td - Tot("unbooked", s, "open", order) - Tot("open", s, "today", order)
    BY <1>1, <1>2, <1>3, <2>4
  <2>6. Valid(s).yd = account[s].yd - Tot("open", s, "yesterday", order)
    BY <1>1, <1>2, <1>3, <2>4
  <2> QED
    BY <1>1, <1>2, <1>3, <2>3, <2>5, <2>6 DEF FreeTd, FreeYd, Net
<1>5. ASSUME ~PartUnseen, NEW tgt \in Int
      PROVE  NDoAll(tgt) = tgt - Leads(account, order)
  <2>1. "long" \in Sides /\ "short" \in Sides
    BY DEF Sides
  <2>2. ValidPos("long") + Pending("long", "open") = Net(account, order, "long")
        /\ ValidPos("short") + Pending("short", "open") = Net(account, order, "short")
    BY <1>4, <1>5, <2>1
  <2>3. ValidPos("long") \in Int /\ ValidPos("short") \in Int
        /\ Pending("long", "open") \in Int /\ Pending("short", "open") \in Int
    BY <1>1, <1>3, <2>1, PendingTot
  <2> QED
    BY <2>2, <2>3 DEF NDoAll, Leads
<1> QED
  BY <1>3, <1>4, <1>5

(* The books agree and nothing hangs the other way: whatever is active     *)
(* goes the way of the target.                                             *)
LEMMA OneDirection ==
    ASSUME IInv, ~HaveDoing, CompareORTD, NEW dir \in Dirs,
           \A r \in 1 .. Len(order) : order[r].rep = "hang" => order[r].dir = dir
    PROVE  \A r \in 1 .. Len(order) : Active(order[r]) => order[r].dir = dir
<1> SUFFICES ASSUME NEW q \in 1 .. Len(order), Active(order[q]), order[q].dir # dir
             PROVE  FALSE
  OBVIOUS
<1>1. \A r \in 1 .. Len(order) : order[r].rep \in {"hang", "done"}
  BY SeenOrders
<1>2. \A r \in 1 .. Len(order) : Active(order[r]) => order[r].dir = order[q].dir
  BY Parts DEF OneWayAt
<1>3. \A r \in 1 .. Len(order) : order[r].rep = "done"
  BY <1>1, <1>2 DEF Active
<1>4. \A s, f : Tot("unbooked", s, f, order) = 0
  <2>1. \A s, f : \A r \in 1 .. Len(order) : Weight("unbooked", s, f, order[r]) = 0
    BY <1>3 DEF Weight, Counts
  <2> QED
    BY <2>1, Parts, TotZero
<1>5. \A r \in 1 .. Len(order) : Counts("untraded", order[r]) \in Nat
  BY Parts, Counted DEF Ways
<1>6. \A s, f : /\ Tot("untraded", s, f, order) \in Nat
                /\ \A r \in 1 .. Len(order) :
                      Of(s, f, order[r]) => Counts("untraded", order[r]) <= Tot("untraded", s, f, order)
  BY Parts, Counted DEF Ways
<1>7. \A r \in 1 .. Len(order) : order[r].dir # order[q].dir => Counts("untraded", order[r]) = 0
  <2> SUFFICES ASSUME NEW r \in 1 .. Len(order), order[r].dir # order[q].dir
               PROVE  Counts("untraded", order[r]) = 0
    OBVIOUS
  <2>1. ~(order[r].traded < order[r].vol - order[r].left)
    BY <1>2 DEF Active
  <2>2. order[r].traded \in Nat /\ order[r].vol \in Nat /\ order[r].left \in Nat
    BY Parts, RecFields
  <2> QED
    BY <1>5, <2>1, <2>2, SMTT(20) DEF Counts
<1>8. PICK s \in Sides : s = SideOf(order[q].dir, order[q].flag)
  BY SideType
<1>9. \A f : SideOf(order[q].dir, f) # s => Tot("untraded", s, f, order) = 0
  <2> SUFFICES ASSUME NEW f, SideOf(order[q].dir, f) # s
               PROVE  Tot("untraded", s, f, order) = 0
    OBVIOUS
  <2>1. \A r \in 1 .. Len(order) : Weight("untraded", s, f, order[r]) = 0
    BY <1>7 DEF Weight, Of
  <2> QED
    BY <2>1, Parts, TotZero
<1>10. order[q].flag \in Flags /\ order[q].dir \in Dirs
  BY Parts, RecFields
<1>11. 0 < Tot("untraded", s, order[q].flag, order)
  <2>1. Of(s, order[q].flag, order[q])
    BY <1>8 DEF Of
  <2>2. Counts("untraded", order[q]) <= Tot("untraded", s, order[q].flag, order)
    BY <1>6, <2>1
  <2>3. order[q].traded < order[q].vol - order[q].left
    BY <1>3 DEF Active
  <2>4. order[q].traded \in Nat /\ order[q].vol \in Nat /\ order[q].left \in Nat
    BY Parts, RecFields
  <2>5. 0 < Counts("untraded", order[q])
    BY <2>3, <2>4 DEF Counts
  <2> QED
    BY <1>5, <1>6, <2>2, <2>5
<1>12. PICK a \in Nat, b \in Nat, c \in Nat :
           /\ a = Tot("untraded", s, "open", order) /\ b = Tot("untraded", s, "today", order)
           /\ c = Tot("untraded", s, "yesterday", order)
  BY <1>6
<1>13. a = 0 \/ (b = 0 /\ c = 0)
  <2>1. CASE order[q].flag = "open"
    <3>1. SideOf(order[q].dir, "today") # s /\ SideOf(order[q].dir, "yesterday") # s
      BY <1>8, <1>10, <2>1 DEF SideOf
    <3> QED
      BY <1>9, <1>12, <3>1
  <2>2. CASE order[q].flag # "open"
    <3>1. SideOf(order[q].dir, "open") # s
      BY <1>8, <1>10, <2>2 DEF SideOf
    <3> QED
      BY <1>9, <1>12, <3>1
  <2> QED
    BY <2>1, <2>2
<1>14. a = 0 /\ b = 0 /\ c = 0
  <2>1. account[s].td \in Nat /\ account[s].yd \in Nat
        /\ posORD[s] \in [pos : Int, today : Int, hist : Int]
        /\ posTRD[s] \in [pos : Int, today : Int, hist : Int]
    BY Parts DEF Holding, Book
  <2>2. /\ posORD[s].today = account[s].td
        /\ (IF apart THEN posORD[s].hist ELSE posORD[s].pos - posORD[s].today) = account[s].yd
        /\ apart => posORD[s].pos = posORD[s].today
    <3>1. Tot("unbooked", s, "open", order) = 0 /\ Tot("unbooked", s, "today", order) = 0
          /\ Tot("unbooked", s, "yesterday", order) = 0
      BY <1>4
    <3>2. /\ posORD[s].today = account[s].td - 0 + 0
          /\ (IF apart THEN posORD[s].hist ELSE posORD[s].pos - posORD[s].today) = account[s].yd + 0
          /\ apart => posORD[s].pos = posORD[s].today
      BY <3>1, Parts DEF BookAt
    <3> QED
      BY <2>1, <3>2
  <2>3. /\ posTRD[s].today = account[s].td - a + b
        /\ (IF apart THEN posTRD[s].hist ELSE posTRD[s].pos - posTRD[s].today) = account[s].yd + c
        /\ apart => posTRD[s].pos = posTRD[s].today
    BY <1>12, Parts DEF BookAt
  <2>4. posORD[s].pos = posTRD[s].pos /\ (apart => posORD[s].hist = posTRD[s].hist)
    BY DEF CompareORTD
  <2>5. PICK td \in Nat, yd \in Nat : td = account[s].td /\ yd = account[s].yd
    BY <2>1
  <2>6. PICK p \in Int, t \in Int, h \in Int :
            p = posTRD[s].pos /\ t = posTRD[s].today /\ h = posTRD[s].hist
    BY <2>1
  <2>7. CASE apart
    <3>1. posORD[s].pos = td /\ posORD[s].hist = yd
      BY <2>2, <2>5, <2>7
    <3>2. p = td /\ h = yd /\ t = p /\ t = td - a + b /\ h = yd + c
      BY <2>3, <2>4, <2>5, <2>6, <2>7, <3>1
    <3> QED
      BY ONLY <1>13, <3>2, a \in Nat, b \in Nat, c \in Nat, td \in Nat, yd \in Nat
  <2>8. CASE ~apart
    <3>1. posORD[s].pos = td + yd
      <4>1. PICK tot \in Int : tot = posORD[s].pos
        BY <2>1
      <4>2. tot - td = yd
        BY <2>2, <2>5, <2>8, <4>1
      <4>3. tot = td + yd
        BY ONLY <4>2, tot \in Int, td \in Nat, yd \in Nat
      <4> QED
        BY <4>1, <4>3
    <3>2. p = td + yd /\ t = td - a + b /\ p - t = yd + c
      BY <2>3, <2>4, <2>5, <2>6, <2>8, <3>1
    <3> QED
      BY ONLY <1>13, <3>2, a \in Nat, b \in Nat, c \in Nat, td \in Nat, yd \in Nat,
              p \in Int, t \in Int
  <2> QED
    BY <2>7, <2>8
<1> QED
  BY <1>10, <1>11, <1>12, <1>14 DEF Flags

(* A target reached already is settled.                                    *)
LEMMA SettleStep ==
    ASSUME IInv, NEW tgt \in Int, NDoAll(tgt) = 0, ~HaveDoing,
           blind' = (blind \/ PartUnseen), goal' = [on |-> TRUE, pos |-> tgt, open |-> BCanOpen],
           UNCHANGED order, UNCHANGED <<apart, posORD, posTRD, account, stream>>
    PROVE  IInv'
<1>1. goal' \in [on : BOOLEAN, pos : Int, open : BOOLEAN] /\ blind' \in BOOLEAN
  BY Parts DEF BCanOpen, PartUnseen
<1>2. FreeAt(blind', account, order)
  BY Parts DEF FreeAt
<1>3. GoalAt(goal', blind', account, order)
  <2> SUFFICES ASSUME ~blind'
               PROVE  /\ \A r \in 1 .. Len(order) : order[r].cxl = "drop" => order[r].rep = "done"
                      /\ Leads(account, order) = tgt
    BY DEF GoalAt
  <2>1. \A r \in 1 .. Len(order) : order[r].cxl = "drop" => order[r].rep = "done"
    BY SeenOrders
  <2>2. NDoAll(tgt) = tgt - Leads(account, order)
    BY SeenExact
  <2>3. Leads(account, order) \in Int
    <3>1. \A k, s, f : Tot(k, s, f, order) \in Int
      BY Parts, WeightsType
    <3>2. \A s \in Sides : account[s].td \in Nat /\ account[s].yd \in Nat
      BY Parts DEF Holding
    <3>3. \A s \in Sides : Net(account, order, s) \in Int
      BY <3>1, <3>2 DEF Net
    <3> QED
      BY <3>3 DEF Leads, Sides
  <2> QED
    BY <2>1, <2>2, <2>3
<1> QED
  BY <1>1, <1>2, <1>3, Parts, Whole

(* A target that turned round drops what hangs and is settled later.       *)
LEMMA TurnStep ==
    ASSUME IInv, ~HaveDoing, NEW D \in SUBSET {r \in Refs : Hanging(r)},
           order' = [r \in Refs |-> IF r \in D THEN [order[r] EXCEPT !.cxl = "drop"] ELSE order[r]],
           goal' = [goal EXCEPT !.on = FALSE], blind' = (blind \/ PartUnseen),
           UNCHANGED <<apart, posORD, posTRD, account, stream>>
    PROVE  IInv'
<1>1. ASSUME NEW r \in 1 .. Len(order)
      PROVE  LET o == order[r]  p == order'[r]
             IN  /\ p \in OrderRec /\ p.dir = o.dir /\ p.flag = o.flag /\ p.vol = o.vol
                 /\ p.rem = o.rem /\ p.traded = o.traded /\ p.rep = o.rep /\ p.st = o.st
                 /\ p.left = o.left
                 /\ p.cxl = o.cxl \/ (p.cxl = "drop" /\ o.cxl = "no" /\ o.rep = "hang")
  <2>1. PICK o \in OrderRec : o = order[r]
    BY Parts
  <2>2. CASE r \in D
    <3>1. PICK p : p = [o EXCEPT !.cxl = "drop"]
      OBVIOUS
    <3>2. p \in OrderRec /\ p.dir = o.dir /\ p.flag = o.flag /\ p.vol = o.vol
          /\ p.rem = o.rem /\ p.traded = o.traded /\ p.rep = o.rep /\ p.st = o.st
          /\ p.left = o.left /\ p.cxl = "drop"
      BY <3>1 DEF OrderRec
    <3>3. order'[r] = p
      BY <2>1, <2>2, <3>1, Parts
    <3>4. o.rep = "hang" /\ o.cxl = "no"
      BY <2>1, <2>2, SeenOrders DEF Hanging
    <3> QED
      BY <2>1, <3>2, <3>3, <3>4
  <2>3. CASE r \notin D
    <3>1. order'[r] = o
      BY <2>1, <2>3, Parts
    <3> QED
      BY <2>1, <3>1
  <2> QED
    BY <2>2, <2>3
<1>2. order' \in Seq(OrderRec) /\ Len(order') = Len(order)
  <2>1. \A r \in 1 .. Len(order) : order'[r] \in OrderRec
    BY <1>1
  <2>2. order' = [r \in 1 .. Len(order) |-> order'[r]] /\ Len(order) \in Nat
    BY Parts
  <2> QED
    BY <2>1, <2>2
<1>3. ASSUME NEW r \in 1 .. Len(order)
      PROVE  /\ OrderOK(order'[r])
             /\ \A m : ReportOK(m, order[r]) => ReportOK(m, order'[r])
             /\ \A k : Counts(k, order'[r]) = Counts(k, order[r])
             /\ \A s, f : Of(s, f, order'[r]) <=> Of(s, f, order[r])
             /\ Active(order'[r]) <=> Active(order[r])
  <2>1. PICK o \in OrderRec, p \in OrderRec : o = order[r] /\ p = order'[r]
    BY <1>1, Parts
  <2>2. /\ p.dir = o.dir /\ p.flag = o.flag /\ p.vol = o.vol
        /\ p.rem = o.rem /\ p.traded = o.traded /\ p.rep = o.rep /\ p.st = o.st
        /\ p.left = o.left
        /\ p.cxl = o.cxl \/ (p.cxl = "drop" /\ o.cxl = "no" /\ o.rep = "hang")
    BY <1>1, <2>1
  <2>3. OrderOK(o) /\ o.left \in Nat
    BY <2>1, Parts, RecFields
  <2>4. OrderOK(p)
    BY <2>2, <2>3 DEF OrderOK
  <2>5. \A m : ReportOK(m, o) => ReportOK(m, p)
    BY <2>2 DEF ReportOK
  <2>6. \A k : Counts(k, p) = Counts(k, o)
    BY <2>2, <2>3 DEF Counts, OpenOf, OrderOK
  <2>7. \A s, f : Of(s, f, p) <=> Of(s, f, o)
    BY <2>2 DEF Of
  <2>8. Active(p) <=> Active(o)
    BY <2>2 DEF Active
  <2> QED
    BY <2>1, <2>4, <2>5, <2>6, <2>7, <2>8
<1>4. OrdersAt(order')
  BY <1>2, <1>3 DEF OrdersAt
<1>5. StreamAt(stream, order')
  <2>1. \A i \in 1 .. Len(stream) : stream[i].ref \in 1 .. Len(order') /\ ReportOK(stream[i], order'[stream[i].ref])
    BY <1>2, <1>3, Parts DEF StreamAt
  <2> QED
    BY <2>1, Parts DEF StreamAt
<1>6. TradesAt(stream, order')
  <2>1. \A r \in 1 .. Len(order) : /\ order'[r].traded = order[r].traded
                                   /\ order'[r].vol = order[r].vol
                                   /\ order'[r].left = order[r].left
    BY <1>1
  <2>2. \A r \in 1 .. Len(order) :
            order[r].traded + Coming(r, stream) = order[r].vol - order[r].left
    BY Parts DEF TradesAt
  <2>3. PICK new : new = order'
    OBVIOUS
  <2>4. TradesAt(stream, new)
    <3>1. \A r \in 1 .. Len(new) : new[r].traded + Coming(r, stream) = new[r].vol - new[r].left
      BY <1>2, <2>1, <2>2, <2>3
    <3> QED
      BY <3>1 DEF TradesAt
  <2> QED
    BY <2>3, <2>4
<1>7. OneWayAt(order')
  <2>1. PICK new : new = order'
    OBVIOUS
  <2>2. Len(new) = Len(order) /\ \A r \in 1 .. Len(order) :
            new[r].dir = order[r].dir /\ (Active(new[r]) <=> Active(order[r]))
    BY <1>1, <1>2, <1>3, <2>1
  <2>3. \A q, r \in 1 .. Len(order) :
            Active(order[q]) /\ Active(order[r]) => order[q].dir = order[r].dir
    BY Parts DEF OneWayAt
  <2>4. \A q, r \in 1 .. Len(new) : Active(new[q]) /\ Active(new[r]) => new[q].dir = new[r].dir
    BY <2>2, <2>3
  <2>5. OneWayAt(new)
    BY <2>4 DEF OneWayAt
  <2> QED
    BY <2>1, <2>5
<1>8. \A k, s, f : Tot(k, s, f, order') = Tot(k, s, f, order)
  <2> TAKE k, s, f
  <2>1. \A r \in 1 .. Len(order) : Weight(k, s, f, order'[r]) = Weight(k, s, f, order[r])
    BY <1>3 DEF Weight
  <2>2. PICK new : new = order'
    OBVIOUS
  <2>3. new \in Seq(OrderRec) /\ Len(new) = Len(order) /\ order \in Seq(OrderRec)
        /\ \A r \in 1 .. Len(order) : Weight(k, s, f, new[r]) = Weight(k, s, f, order[r])
    BY <1>2, <2>1, <2>2, Parts
  <2>4. Tot(k, s, f, new) = Tot(k, s, f, order)
    BY ONLY <2>3, TotSame
  <2> QED
    BY <2>2, <2>4
<1>9. CoveredAt(account, order') /\ BookAt(apart, posORD, "unbooked", account, order')
      /\ BookAt(apart, posTRD, "untraded", account, order')
  BY <1>8, Parts, SameCovered, SameBook
<1>10. FreeAt(blind', account, order')
  <2>1. FreeAt(blind', account, order)
    BY Parts DEF FreeAt
  <2> QED
    BY <1>8, <2>1, SameFree
<1>11. goal' \in [on : BOOLEAN, pos : Int, open : BOOLEAN] /\ ~goal'.on
  BY Parts
<1>12. GoalAt(goal', blind', account, order')
  BY <1>11 DEF GoalAt
<1>13. RoomAt(order')
  <2>1. \A q \in 1 .. Len(order) :
            order'[q].cxl = "reopen" /\ order'[q].rep # "done"
                => order[q].cxl = "reopen" /\ order[q].rep # "done"
    BY <1>1
  <2> QED
    BY <1>2, <2>1, Parts, SameRoom
<1>14. blind' \in BOOLEAN
  BY Parts DEF PartUnseen
<1> QED
  BY <1>2, <1>4, <1>5, <1>6, <1>7, <1>9, <1>10, <1>11, <1>12, <1>13, <1>14, Parts, Whole

-----------------------------------------------------------------------------
(* The orders TargetWay creates.                                           *)

(* y, t and o lots are what n comes to: yesterday's and today's position   *)
(* of the opposite side first, and the rest opens.                         *)
Splits(n, y, t, o) ==
    LET opp == Valid(SideOf(IF n > 0 THEN "buy" ELSE "sell", "today"))
        all == IF n > 0 THEN n ELSE -n
    IN  /\ y + t + o <= all
        /\ y = 0 \/ y <= opp.yd
        /\ t = 0 \/ t <= opp.td
        /\ y + t + o < all => /\ ~BCanOpen /\ o = 0
                              /\ opp.yd >= 0 => y = opp.yd
                              /\ opp.td >= 0 => t = opp.td

(* The orders for n lots are those of its split.                           *)
LEMMA OrdersMade ==
    ASSUME IInv, ~HaveDoing, NEW n \in Int, n # 0,
           NEW dir, dir = IF n > 0 THEN "buy" ELSE "sell"
    PROVE  \E y \in Nat, t \in Nat, o \in Nat :
              /\ OrdersFor(n) = Made(dir, "yesterday", y) \o Made(dir, "today", t) \o Made(dir, "open", o)
              /\ Splits(n, y, t, o)
<1>1. PICK opp \in Sides : opp = SideOf(dir, "today")
  BY SideType
<1>2. PICK all \in Nat : all = IF n > 0 THEN n ELSE -n
  OBVIOUS
<1>3. PICK yd \in Int, td \in Int : yd = Valid(opp).yd /\ td = Valid(opp).td
  BY SeenExact
<1>4. PICK y \in Nat : y = Lesser(all, IF yd > 0 THEN yd ELSE 0)
  BY DEF Lesser
<1>5. y <= all /\ (y = 0 \/ y <= yd) /\ (y < all /\ yd >= 0 => y = yd)
  BY <1>4 DEF Lesser
<1>6. PICK t \in Nat : t = Lesser(all - y, IF td > 0 THEN td ELSE 0)
  BY <1>5 DEF Lesser
<1>7. t <= all - y /\ (t = 0 \/ t <= td) /\ (t < all - y /\ td >= 0 => t = td)
  BY <1>5, <1>6 DEF Lesser
<1>0. PICK rest \in Nat : rest = all - y - t
  BY ONLY <1>5, <1>7, all \in Nat, y \in Nat, t \in Nat
<1>8. PICK o \in Nat : o = IF BCanOpen THEN rest ELSE 0
  OBVIOUS
<1>9. y + t + o <= all /\ (y + t + o < all => ~BCanOpen /\ o = 0 /\ t < all - y /\ y < all)
  BY <1>0, <1>5, <1>7, <1>8
<1>10. Splits(n, y, t, o)
  BY <1>1, <1>2, <1>3, <1>5, <1>7, <1>9 DEF Splits
<1>11. ToClose(Valid(SideOf(dir, "today")), all) = [yesterday |-> y, today |-> t]
  BY <1>1, <1>3, <1>4, <1>6 DEF ToClose
<1>12. OrdersFor(n) = Made(dir, "yesterday", y) \o Made(dir, "today", t) \o Made(dir, "open", o)
  <2>1. PICK v, close : v = Valid(SideOf(dir, "today")) /\ close = ToClose(v, all)
    OBVIOUS
  <2>2. close.yesterday = y /\ close.today = t
    BY <1>11, <2>1
  <2>3. OrdersFor(n) = Made(dir, "yesterday", close.yesterday) \o Made(dir, "today", close.today)
            \o Made(dir, "open", IF BCanOpen THEN all - close.yesterday - close.today ELSE 0)
    BY ONLY dir = (IF n > 0 THEN "buy" ELSE "sell"), <1>2, <2>1 DEF OrdersFor, Made
  <2> QED
    BY <1>0, <1>8, <2>2, <2>3
<1> QED
  BY <1>10, <1>12

(* Orders come to y and t lots that close and o that open.                 *)
Comes(more, dir, y, t, o) ==
    \A s, f : Tot("open", s, f, more) =
        IF s # SideOf(dir, f) THEN 0
        ELSE IF f = "yesterday" THEN y ELSE IF f = "today" THEN t
        ELSE IF f = "open" THEN o ELSE 0

(* They are new, go one way and come to the lots of the split.             *)
LEMMA MoreFresh ==
    ASSUME NEW dir \in Dirs, NEW y \in Nat, NEW t \in Nat, NEW o \in Nat,
           NEW more, more = Made(dir, "yesterday", y) \o Made(dir, "today", t) \o Made(dir, "open", o)
    PROVE  /\ Fresh(more, dir)
           /\ Comes(more, dir, y, t, o)
<1> DEFINE Some(seq, g) ==
       /\ seq \in Seq(OrderRec)
       /\ \A i \in 1 .. Len(seq) : \E n \in 1 .. MaxOnce : seq[i] = NewOrder(dir, g, n)
<1>1. PICK a, b, c : /\ a = Made(dir, "yesterday", y) /\ b = Made(dir, "today", t)
                     /\ c = Made(dir, "open", o)
  OBVIOUS
<1>2. Some(a, "yesterday") /\ Some(b, "today") /\ Some(c, "open")
  BY <1>1, MadeOK DEF Flags
<1>0. a \in Seq(OrderRec) /\ b \in Seq(OrderRec) /\ c \in Seq(OrderRec)
  BY <1>2
<1> HIDE DEF Some
<1>3. /\ \A s, f : Tot("open", s, f, a) = IF f = "yesterday" /\ s = SideOf(dir, f) THEN y ELSE 0
      /\ \A s, f : Tot("open", s, f, b) = IF f = "today" /\ s = SideOf(dir, f) THEN t ELSE 0
      /\ \A s, f : Tot("open", s, f, c) = IF f = "open" /\ s = SideOf(dir, f) THEN o ELSE 0
  BY <1>1, MadeOK DEF Flags
<1>4. PICK ab : ab = a \o b
  OBVIOUS
<1>5. more = ab \o c
  BY <1>1, <1>4
<1>6. ab \in Seq(OrderRec) /\ more \in Seq(OrderRec)
  <2>1. ab \in Seq(OrderRec)
    BY ONLY <1>0, <1>4
  <2> QED
    BY ONLY <1>0, <1>5, <2>1
<1>7. ASSUME NEW i \in 1 .. Len(more)
      PROVE  \E f \in Flags : \E n \in 1 .. MaxOnce : more[i] = NewOrder(dir, f, n)
  <2>1. \A j \in 1 .. Len(ab) : \E f \in Flags : \E n \in 1 .. MaxOnce : ab[j] = NewOrder(dir, f, n)
    <3> SUFFICES ASSUME NEW j \in 1 .. Len(ab)
                 PROVE  \E f \in Flags : \E n \in 1 .. MaxOnce : ab[j] = NewOrder(dir, f, n)
      OBVIOUS
    <3>1. \/ j \in 1 .. Len(a) /\ ab[j] = a[j]
          \/ j - Len(a) \in 1 .. Len(b) /\ ab[j] = b[j - Len(a)]
      BY <1>0, <1>4
    <3> QED
      BY <1>2, <3>1 DEF Flags, Some
  <2>2. \/ i \in 1 .. Len(ab) /\ more[i] = ab[i]
        \/ i - Len(ab) \in 1 .. Len(c) /\ more[i] = c[i - Len(ab)]
    BY ONLY <1>0, <1>5, <1>6, i \in 1 .. Len(more)
  <2> QED
    BY <1>2, <2>1, <2>2 DEF Flags, Some
<1>8. Fresh(more, dir)
  <2>1. ASSUME NEW i \in 1 .. Len(more)
        PROVE  /\ OrderOK(more[i]) /\ more[i].dir = dir /\ more[i].rep = "none"
               /\ more[i].cxl = "no" /\ more[i].traded = 0 /\ more[i].left = more[i].vol
               /\ \A k : k # "open" => Counts(k, more[i]) = 0
    <3>1. PICK f \in Flags, n \in 1 .. MaxOnce : more[i] = NewOrder(dir, f, n)
      BY <1>7, <2>1
    <3>2. PICK q : q = NewOrder(dir, f, n)
      OBVIOUS
    <3>3. OrderOK(q) /\ q.dir = dir /\ q.rep = "none" /\ q.cxl = "no" /\ q.traded = 0
          /\ q.left = q.vol /\ \A k : k # "open" => Counts(k, q) = 0
      BY <3>2, OneOrder
    <3> QED
      BY <3>1, <3>2, <3>3
  <2> QED
    BY <1>6, <2>1 DEF Fresh
<1>9. ASSUME NEW s, NEW f
      PROVE  Tot("open", s, f, more) =
                 IF s # SideOf(dir, f) THEN 0
                 ELSE IF f = "yesterday" THEN y ELSE IF f = "today" THEN t
                 ELSE IF f = "open" THEN o ELSE 0
  <2>1. Tot("open", s, f, ab) = Tot("open", s, f, a) + Tot("open", s, f, b)
    BY ONLY <1>0, <1>4, TotConcat
  <2>2. Tot("open", s, f, more) = Tot("open", s, f, ab) + Tot("open", s, f, c)
    BY ONLY <1>0, <1>5, <1>6, TotConcat
  <2> QED
    BY <1>3, <2>1, <2>2
<1> QED
  BY <1>8, <1>9 DEF Comes

(* The new orders close y and t lots and open o.                           *)
Opens(ord, new, dir, y, t, o) ==
    \A s, f : Tot("open", s, f, new) = Tot("open", s, f, ord) +
        (IF s # SideOf(dir, f) THEN 0
         ELSE IF f = "yesterday" THEN y ELSE IF f = "today" THEN t
         ELSE IF f = "open" THEN o ELSE 0)

(* What the new orders do to what is free and to where the orders lead.    *)
Leans(acc, ord, new, dir, y, t, o) ==
    /\ \A s \in Sides : /\ FreeTd(acc, ord, s) \in Int /\ FreeYd(acc, ord, s) \in Int
                         /\ FreeTd(acc, new, s) = FreeTd(acc, ord, s)
                               - (IF s = SideOf(dir, "today") THEN t ELSE 0)
                         /\ FreeYd(acc, new, s) = FreeYd(acc, ord, s)
                               - (IF s = SideOf(dir, "today") THEN y ELSE 0)
    /\ Leads(acc, ord) \in Int
    /\ Leads(acc, new) = Leads(acc, ord) + (IF dir = "buy" THEN y + t + o ELSE -(y + t + o))

(* They lower what is free to close by what they close and lead on by all  *)
(* their lots.                                                             *)
LEMMA MoreLeads ==
    ASSUME NEW acc \in Holding, NEW ord \in Seq(OrderRec), NEW new, NEW dir \in Dirs,
           NEW y \in Nat, NEW t \in Nat, NEW o \in Nat, Opens(ord, new, dir, y, t, o)
    PROVE  Leans(acc, ord, new, dir, y, t, o)
<1>1. \A s, f : Tot("open", s, f, ord) \in Int
  BY WeightsType
<1>2. \A s \in Sides : acc[s].td \in Nat /\ acc[s].yd \in Nat
  BY DEF Holding
<1>3. ASSUME NEW s \in Sides
      PROVE  /\ Tot("open", s, "open", new) = Tot("open", s, "open", ord)
                    + (IF s = SideOf(dir, "open") THEN o ELSE 0)
             /\ Tot("open", s, "today", new) = Tot("open", s, "today", ord)
                    + (IF s = SideOf(dir, "today") THEN t ELSE 0)
             /\ Tot("open", s, "yesterday", new) = Tot("open", s, "yesterday", ord)
                    + (IF s = SideOf(dir, "today") THEN y ELSE 0)
             /\ (s = SideOf(dir, "open")) = (s # SideOf(dir, "today"))
  <2>1. SideOf(dir, "yesterday") = SideOf(dir, "today")
    BY DEF SideOf
  <2>2. (s = SideOf(dir, "open")) = (s # SideOf(dir, "today"))
    BY DEF SideOf, Sides
  <2> QED
    BY <2>1, <2>2 DEF Opens
<1>4. ASSUME NEW s \in Sides
      PROVE  /\ FreeTd(acc, ord, s) \in Int /\ FreeYd(acc, ord, s) \in Int
             /\ FreeTd(acc, new, s) = FreeTd(acc, ord, s) - (IF s = SideOf(dir, "today") THEN t ELSE 0)
             /\ FreeYd(acc, new, s) = FreeYd(acc, ord, s) - (IF s = SideOf(dir, "today") THEN y ELSE 0)
             /\ Net(acc, ord, s) \in Int
             /\ Net(acc, new, s) = Net(acc, ord, s)
                    + (IF s = SideOf(dir, "today") THEN -(y + t) ELSE o)
  <2>1. PICK a \in Int, b \in Int, c \in Int : /\ a = Tot("open", s, "open", ord)
                                               /\ b = Tot("open", s, "today", ord)
                                               /\ c = Tot("open", s, "yesterday", ord)
    BY <1>1
  <2>2. PICK td \in Nat, yd \in Nat : td = acc[s].td /\ yd = acc[s].yd
    BY <1>2
  <2>3. /\ FreeTd(acc, ord, s) = td - b /\ FreeYd(acc, ord, s) = yd - c
        /\ Net(acc, ord, s) = td + yd + a - b - c
    BY <2>1, <2>2 DEF FreeTd, FreeYd, Net
  <2>4. CASE s = SideOf(dir, "today")
    <3>1. FreeTd(acc, new, s) = td - (b + t) /\ FreeYd(acc, new, s) = yd - (c + y)
          /\ Net(acc, new, s) = td + yd + (a + 0) - (b + t) - (c + y)
      BY <1>3, <2>1, <2>2, <2>4 DEF FreeTd, FreeYd, Net
    <3> QED
      BY <2>3, <2>4, <3>1
  <2>5. CASE s # SideOf(dir, "today")
    <3>1. FreeTd(acc, new, s) = td - (b + 0) /\ FreeYd(acc, new, s) = yd - (c + 0)
          /\ Net(acc, new, s) = td + yd + (a + o) - (b + 0) - (c + 0)
      BY <1>3, <2>1, <2>2, <2>5 DEF FreeTd, FreeYd, Net
    <3> QED
      BY <2>3, <2>5, <3>1
  <2> QED
    BY <2>4, <2>5
<1>5. PICK a \in Int, b \in Int : a = Net(acc, ord, "long") /\ b = Net(acc, ord, "short")
  BY <1>4 DEF Sides
<1>6. Leads(acc, ord) = a - b
  BY <1>5 DEF Leads
<1>7. Leads(acc, new) = Leads(acc, ord) + (IF dir = "buy" THEN y + t + o ELSE -(y + t + o))
  <2>1. CASE dir = "buy"
    <3>1. SideOf(dir, "today") = "short"
      BY <2>1 DEF SideOf
    <3>2. Net(acc, new, "long") = a + o /\ Net(acc, new, "short") = b + -(y + t)
      BY <1>4, <1>5, <3>1 DEF Sides
    <3>3. Leads(acc, new) = (a + o) - (b + -(y + t))
      BY <3>2 DEF Leads
    <3> QED
      BY <1>6, <2>1, <3>3
  <2>2. CASE dir = "sell"
    <3>1. SideOf(dir, "today") = "long"
      BY <2>2 DEF SideOf
    <3>2. Net(acc, new, "long") = a + -(y + t) /\ Net(acc, new, "short") = b + o
      BY <1>4, <1>5, <3>1 DEF Sides
    <3>3. Leads(acc, new) = (a + -(y + t)) - (b + o)
      BY <3>2 DEF Leads
    <3> QED
      BY <1>6, <2>2, <3>3
  <2> QED
    BY <2>1, <2>2 DEF Dirs
<1> QED
  BY <1>4, <1>5, <1>6, <1>7, SMTT(20) DEF Leans

(* No order that hangs goes another way.                                   *)
HangGo(dir, ord) == \A r \in 1 .. Len(ord) : ord[r].rep = "hang" => ord[r].dir = dir

(* The orders lead to the target, or close all of the opposite side.       *)
Reaches(acc, new, tgt, dir) ==
    /\ \A s \in Sides : FreeTd(acc, new, s) >= 0 /\ FreeYd(acc, new, s) >= 0
    /\ \/ Leads(acc, new) = tgt
       \/ /\ ~BCanOpen
          /\ FreeTd(acc, new, SideOf(dir, "today")) = 0
          /\ FreeYd(acc, new, SideOf(dir, "today")) = 0
          /\ IF dir = "buy" THEN Leads(acc, new) < tgt ELSE Leads(acc, new) > tgt

(* With nothing under way seen only in part, what closes is free, and the  *)
(* orders lead to the target or close all they can.                        *)
LEMMA GrowGoal ==
    ASSUME IInv, ~HaveDoing, NEW tgt \in Int, NEW n \in Int, n = NDoAll(tgt), n # 0,
           ~PartUnseen, ~blind,
           NEW dir \in Dirs, dir = IF n > 0 THEN "buy" ELSE "sell",
           HangGo(dir, order),
           NEW y \in Nat, NEW t \in Nat, NEW o \in Nat, Splits(n, y, t, o), NEW new,
           Opens(order, new, dir, y, t, o)
    PROVE  Reaches(account, new, tgt, dir)
<1> SUFFICES /\ \A s \in Sides : FreeTd(account, new, s) >= 0 /\ FreeYd(account, new, s) >= 0
             /\ \/ Leads(account, new) = tgt
                \/ /\ ~BCanOpen
                   /\ FreeTd(account, new, SideOf(dir, "today")) = 0
                   /\ FreeYd(account, new, SideOf(dir, "today")) = 0
                   /\ IF dir = "buy" THEN Leads(account, new) < tgt ELSE Leads(account, new) > tgt
  BY DEF Reaches
<1>1. PICK opp \in Sides : opp = SideOf(dir, "today")
  BY SideType
<1>2. Tot("unbooked", opp, "open", order) = 0
  <2>1. \A r \in 1 .. Len(order) : Weight("unbooked", opp, "open", order[r]) = 0
    <3> SUFFICES ASSUME NEW r \in 1 .. Len(order), Of(opp, "open", order[r])
                 PROVE  order[r].rep = "done"
      BY DEF Weight, Counts
    <3>1. order[r].dir # dir
      BY <1>1 DEF Of, SideOf
    <3> QED
      BY <3>1, SeenOrders DEF HangGo
  <2> QED
    BY <2>1, Parts, TotZero
<1>3. \A s, f : Tot("open", s, f, order) \in Int
  BY Parts, WeightsType
<1>4. /\ \A s \in Sides : /\ FreeTd(account, order, s) \in Int /\ FreeYd(account, order, s) \in Int
                          /\ FreeTd(account, new, s) = FreeTd(account, order, s)
                                - (IF s = SideOf(dir, "today") THEN t ELSE 0)
                          /\ FreeYd(account, new, s) = FreeYd(account, order, s)
                                - (IF s = SideOf(dir, "today") THEN y ELSE 0)
      /\ Leads(account, order) \in Int
      /\ Leads(account, new) = Leads(account, order)
            + (IF dir = "buy" THEN y + t + o ELSE -(y + t + o))
  <2>1. account \in Holding /\ order \in Seq(OrderRec)
    BY Parts
  <2>2. Leans(account, order, new, dir, y, t, o)
    BY ONLY <2>1, dir \in Dirs, y \in Nat, t \in Nat, o \in Nat,
            Opens(order, new, dir, y, t, o), MoreLeads
  <2> QED
    BY <2>2 DEF Leans
<1>5. \A s \in Sides : FreeTd(account, order, s) >= 0 /\ FreeYd(account, order, s) >= 0
  BY Parts DEF FreeAt
<1>6. PICK td \in Nat, yd \in Nat : td = FreeTd(account, order, opp) /\ yd = FreeYd(account, order, opp)
  <2>1. FreeTd(account, order, opp) \in Int /\ FreeYd(account, order, opp) \in Int
        /\ FreeTd(account, order, opp) >= 0 /\ FreeYd(account, order, opp) >= 0
    BY <1>4, <1>5
  <2>2. PICK a, b : a = FreeTd(account, order, opp) /\ b = FreeYd(account, order, opp)
    OBVIOUS
  <2>3. a \in Nat /\ b \in Nat
    BY <2>1, <2>2
  <2> QED
    BY <2>2, <2>3
<1>7. Valid(opp).td = td /\ Valid(opp).yd = yd
  <2>1. Valid(opp).td = FreeTd(account, order, opp) - Tot("unbooked", opp, "open", order)
        /\ Valid(opp).yd = FreeYd(account, order, opp)
    BY SeenExact
  <2> QED
    BY <1>2, <1>6, <2>1
<1>8. PICK all \in Nat : all = IF n > 0 THEN n ELSE -n
  OBVIOUS
<1>9. y <= yd /\ t <= td /\ y + t + o <= all
      /\ (y + t + o < all => ~BCanOpen /\ y = yd /\ t = td)
  BY <1>1, <1>7, <1>8 DEF Splits
<1>10. \A s \in Sides : FreeTd(account, new, s) >= 0 /\ FreeYd(account, new, s) >= 0
  <2> SUFFICES ASSUME NEW s \in Sides
               PROVE  FreeTd(account, new, s) >= 0 /\ FreeYd(account, new, s) >= 0
    OBVIOUS
  <2>1. CASE s = opp
    <3>1. FreeTd(account, new, s) = td - t /\ FreeYd(account, new, s) = yd - y
      BY <1>1, <1>4, <1>6, <2>1
    <3> QED
      BY <1>9, <3>1
  <2>2. CASE s # opp
    <3>1. FreeTd(account, new, s) = FreeTd(account, order, s) - 0
          /\ FreeYd(account, new, s) = FreeYd(account, order, s) - 0
      BY <1>1, <1>4, <2>2
    <3> QED
      BY <1>4, <1>5, <3>1
  <2> QED
    BY <2>1, <2>2
<1>11. PICK l \in Int : l = Leads(account, order)
  BY <1>4
<1>12. n = tgt - l
  BY <1>11, SeenExact
<1>13. FreeTd(account, new, opp) = td - t /\ FreeYd(account, new, opp) = yd - y
  BY <1>1, <1>4, <1>6
<1>14. CASE n > 0
  <2>1. Leads(account, new) = l + (y + t + o) /\ dir = "buy" /\ all = n
    BY <1>4, <1>8, <1>11, <1>14
  <2>2. CASE y + t + o = all
    BY <1>10, <1>12, <2>1, <2>2
  <2>3. CASE y + t + o < all
    <3>1. Leads(account, new) < tgt
      BY <1>12, <2>1, <2>3
    <3>2. FreeTd(account, new, opp) = 0 /\ FreeYd(account, new, opp) = 0 /\ ~BCanOpen
      BY <1>9, <1>13, <2>3
    <3> QED
      BY <1>1, <1>10, <2>1, <3>1, <3>2
  <2> QED
    BY <1>9, <2>2, <2>3
<1>15. CASE ~(n > 0)
  <2>1. Leads(account, new) = l + -(y + t + o) /\ dir = "sell" /\ all = -n
    BY <1>4, <1>8, <1>11, <1>15
  <2>2. CASE y + t + o = all
    <3>1. Leads(account, new) = tgt
      BY <1>12, <2>1, <2>2
    <3> QED
      BY <1>10, <3>1
  <2>3. CASE y + t + o < all
    <3>1. Leads(account, new) > tgt
      BY <1>12, <2>1, <2>3
    <3>2. FreeTd(account, new, opp) = 0 /\ FreeYd(account, new, opp) = 0 /\ ~BCanOpen
      BY <1>9, <1>13, <2>3
    <3> QED
      BY <1>1, <1>10, <2>1, <3>1, <3>2
  <2> QED
    BY <1>9, <2>2, <2>3
<1> QED
  BY <1>14, <1>15

(* Creating the orders for a target keeps the invariant.                   *)
LEMMA GrowStep ==
    ASSUME IInv, ~HaveDoing, CompareORTD, NEW tgt \in Int, NEW n, n = NDoAll(tgt), n # 0, ~Turned(n),
           Len(order) + Reserved + Len(OrdersFor(n)) <= MaxRef, order' = order \o OrdersFor(n),
           blind' = (blind \/ PartUnseen), goal' = [on |-> TRUE, pos |-> tgt, open |-> BCanOpen],
           UNCHANGED <<apart, posORD, posTRD, account, stream>>
    PROVE  IInv'
<1>1. n \in Int
  <2>1. \A s \in Sides : ValidPos(s) \in Int /\ Pending(s, "open") \in Int
    <3>1. order \in Seq(OrderRec)
      BY Parts
    <3>2. \A s \in Sides : Pending(s, "open") = Tot("hangs", s, "open", order)
      BY PendingTot
    <3>3. \A s \in Sides : Tot("hangs", s, "open", order) \in Int
      BY ONLY <3>1, WeightsType
    <3>4. \A s \in Sides : Valid(s).td \in Int /\ Valid(s).yd \in Int
                            /\ ValidPos(s) = Valid(s).td + Valid(s).yd
      BY SeenExact
    <3> QED
      BY ONLY <3>2, <3>3, <3>4
  <2>2. ValidPos("long") \in Int /\ ValidPos("short") \in Int
        /\ Pending("long", "open") \in Int /\ Pending("short", "open") \in Int
    BY <2>1 DEF Sides
  <2> QED
    BY <2>2 DEF NDoAll
<1>2. PICK dir \in Dirs : dir = IF n > 0 THEN "buy" ELSE "sell"
  BY DEF Dirs
<1>3. \A r \in 1 .. Len(order) : order[r].rep = "hang" => order[r].dir = dir
  <2>1. \A r \in 1 .. Len(order) : order[r].dir \in {"buy", "sell"}
    BY Parts, RecFields DEF Dirs
  <2>2. CASE n > 0
    BY <1>2, <2>1, <2>2, PendingNone DEF Turned
  <2>3. CASE n < 0
    BY <1>2, <2>1, <2>3, PendingNone DEF Turned
  <2> QED
    BY <1>1, <2>2, <2>3
<1>4. \A r \in 1 .. Len(order) : Active(order[r]) => order[r].dir = dir
  BY <1>3, OneDirection
<1>5. PICK y \in Nat, t \in Nat, o \in Nat :
          /\ OrdersFor(n) = Made(dir, "yesterday", y) \o Made(dir, "today", t) \o Made(dir, "open", o)
          /\ Splits(n, y, t, o)
  BY <1>1, <1>2, OrdersMade
<1>6. PICK more : more = OrdersFor(n)
  OBVIOUS
<1>7. Fresh(more, dir) /\ Comes(more, dir, y, t, o)
  <2>1. more = Made(dir, "yesterday", y) \o Made(dir, "today", t) \o Made(dir, "open", o)
    BY ONLY <1>5, <1>6
  <2> QED
    BY ONLY <2>1, dir \in Dirs, y \in Nat, t \in Nat, o \in Nat, MoreFresh
<1>8. PICK new : new = order'
  OBVIOUS
<1>9. /\ new \in Seq(OrderRec) /\ Len(new) = Len(order) + Len(more)
      /\ OrdersAt(new) /\ StreamAt(stream, new) /\ TradesAt(stream, new) /\ OneWayAt(new)
      /\ Reserve(new) = Reserve(order)
      /\ \A r \in 1 .. Len(new) :
            \/ r \in 1 .. Len(order) /\ new[r] = order[r]
            \/ new[r].dir = dir /\ new[r].cxl = "no"
  <2>1. Grows(stream, order, more, dir, new)
    BY <1>4, <1>6, <1>7, <1>8, Parts DEF Grows
  <2> QED
    BY ONLY <2>1, Grow
<1>10. \A k \in {"unbooked", "untraded", "live"} : \A s, f : Tot(k, s, f, new) = Tot(k, s, f, order)
  BY <1>6, <1>7, <1>8, Parts, GrowTot
<1>11. CoveredAt(account, new) /\ BookAt(apart, posORD, "unbooked", account, new)
       /\ BookAt(apart, posTRD, "untraded", account, new)
  BY <1>10, Parts, SameBook, SameCovered
<1>12. Opens(order, new, dir, y, t, o)
  <2> SUFFICES ASSUME NEW s, NEW f
               PROVE  Tot("open", s, f, new) = Tot("open", s, f, order) +
                          (IF s # SideOf(dir, f) THEN 0
                           ELSE IF f = "yesterday" THEN y ELSE IF f = "today" THEN t
                           ELSE IF f = "open" THEN o ELSE 0)
    BY DEF Opens
  <2>1. new = order \o more /\ order \in Seq(OrderRec) /\ more \in Seq(OrderRec)
    BY <1>6, <1>7, <1>8, Parts DEF Fresh
  <2>2. Tot("open", s, f, new) = Tot("open", s, f, order) + Tot("open", s, f, more)
    BY ONLY <2>1, TotConcat
  <2> QED
    BY <1>7, <2>2 DEF Comes
<1>13. RoomAt(new)
  <2>1. Reserved = Cardinality(Reserve(order))
    BY Parts DEF Reserved, Reserve
  <2>2. Cardinality(Reserve(order)) \in Nat
    BY Parts, ReserveFinite
  <2>3. PICK a \in Nat, b \in Nat : a = Len(order) /\ b = Len(more)
    BY <1>7, Parts DEF Fresh
  <2> QED
    BY <1>6, <1>9, <2>1, <2>2, <2>3, BookAssumption DEF RoomAt
<1>14. ASSUME ~blind'
       PROVE  FreeAt(blind', account, new) /\ GoalAt(goal', blind', account, new)
  <2>1. ~PartUnseen /\ ~blind
    BY <1>14
  <2>0. Reaches(account, new, tgt, dir)
    <3>1. HangGo(dir, order)
      BY <1>3 DEF HangGo
    <3> QED
      BY ONLY IInv, ~HaveDoing, tgt \in Int, n = NDoAll(tgt), n # 0, <1>1, <1>2, <1>5, <1>12,
              <2>1, <3>1, dir \in Dirs, y \in Nat, t \in Nat, o \in Nat, GrowGoal
  <2>2. /\ \A s \in Sides : FreeTd(account, new, s) >= 0 /\ FreeYd(account, new, s) >= 0
        /\ \/ Leads(account, new) = tgt
           \/ /\ ~BCanOpen
              /\ FreeTd(account, new, SideOf(dir, "today")) = 0
              /\ FreeYd(account, new, SideOf(dir, "today")) = 0
              /\ IF dir = "buy" THEN Leads(account, new) < tgt ELSE Leads(account, new) > tgt
    BY <2>0 DEF Reaches
  <2>3. \A r \in 1 .. Len(new) : new[r].cxl = "drop" => new[r].rep = "done"
    BY <1>9, SeenOrders
  <2>4. AllGo(dir, new)
    BY <1>3, <1>9, SeenOrders DEF AllGo
  <2>8. Leads(account, new) \in Int
    <3>1. account \in Holding /\ order \in Seq(OrderRec)
      BY Parts
    <3>2. Leans(account, order, new, dir, y, t, o)
      BY ONLY <1>12, <3>1, dir \in Dirs, y \in Nat, t \in Nat, o \in Nat, MoreLeads
    <3> QED
      BY <3>2 DEF Leans
  <2>5. \/ Leads(account, new) = tgt
        \/ /\ ~BCanOpen
           /\ Leads(account, new) < tgt => Spent(account, new, "short")
           /\ Leads(account, new) > tgt => Spent(account, new, "long")
    <3>1. CASE Leads(account, new) = tgt
      BY <3>1
    <3>2. CASE Leads(account, new) # tgt /\ dir = "buy"
      <4>1. ~BCanOpen /\ FreeTd(account, new, "short") = 0 /\ FreeYd(account, new, "short") = 0
            /\ Leads(account, new) < tgt
        BY <2>2, <3>2 DEF SideOf
      <4>2. Spent(account, new, "short")
        BY <2>4, <3>2, <4>1 DEF Spent
      <4> QED
        BY <2>8, <4>1, <4>2
    <3>3. CASE Leads(account, new) # tgt /\ dir = "sell"
      <4>1. ~BCanOpen /\ FreeTd(account, new, "long") = 0 /\ FreeYd(account, new, "long") = 0
            /\ Leads(account, new) > tgt
        BY <2>2, <3>3 DEF SideOf
      <4>2. Spent(account, new, "long")
        BY <2>4, <3>3, <4>1 DEF Spent
      <4> QED
        BY <2>8, <4>1, <4>2
    <3> QED
      BY <3>1, <3>2, <3>3 DEF Dirs
  <2>6. goal'.pos = tgt /\ goal'.open = BCanOpen
    OBVIOUS
  <2>7. GoalAt(goal', blind', account, new)
    BY <2>3, <2>5, <2>6 DEF GoalAt
  <2> QED
    BY <2>2, <2>7 DEF FreeAt
<1>15. FreeAt(blind', account, new) /\ GoalAt(goal', blind', account, new)
  BY <1>14 DEF FreeAt, GoalAt
<1>16. goal' \in [on : BOOLEAN, pos : Int, open : BOOLEAN] /\ blind' \in BOOLEAN
  BY Parts DEF BCanOpen, PartUnseen
<1> QED
  BY <1>8, <1>9, <1>11, <1>13, <1>15, <1>16, Parts, Whole

(* TargetWay keeps the invariant.                                          *)
LEMMA TargetStep ==
    ASSUME IInv, NEW tgt \in Targets, TargetWay(tgt)
    PROVE  IInv'
<1>1. PICK n : n = NDoAll(tgt)
  OBVIOUS
<1>2. tgt \in Int /\ ~HaveDoing /\ CompareORTD /\ blind' = (blind \/ PartUnseen)
      /\ UNCHANGED <<apart, posORD, posTRD, account, stream>>
  BY BookAssumption DEF TargetWay
<1>3. CASE /\ n = 0
           /\ goal' = [on |-> TRUE, pos |-> tgt, open |-> BCanOpen]
           /\ UNCHANGED order
  BY <1>1, <1>2, <1>3, SettleStep
<1>4. CASE /\ \E D \in SUBSET {r \in Refs : Hanging(r)} :
                  order' = [r \in Refs |-> IF r \in D THEN [order[r] EXCEPT !.cxl = "drop"]
                                           ELSE order[r]]
           /\ goal' = [goal EXCEPT !.on = FALSE]
  BY <1>2, <1>4, TurnStep
<1>5. CASE /\ n # 0 /\ ~Turned(n)
           /\ Len(order) + Reserved + Len(OrdersFor(n)) <= MaxRef
           /\ order' = order \o OrdersFor(n)
           /\ goal' = [on |-> TRUE, pos |-> tgt, open |-> BCanOpen]
  BY <1>1, <1>2, <1>5, GrowStep
<1> QED
  BY <1>1, <1>3, <1>4, <1>5 DEF TargetWay

(* So do the callbacks.                                                    *)
LEMMA CallbackStep ==
    ASSUME IInv, Callback
    PROVE  IInv'
<1>1. stream # <<>> /\ stream' = Tail(stream) /\ UNCHANGED <<apart, account, goal, blind>>
  BY DEF Callback
<1>2. \/ OrderHangs(Head(stream)) \/ OrderTraded(Head(stream)) \/ OrderCanceled(Head(stream))
      \/ OrderRefused(Head(stream)) \/ Trade(Head(stream))
  BY DEF Callback
<1>3. CASE OrderHangs(Head(stream))
  BY <1>1, <1>3, HangsStep
<1>4. CASE OrderTraded(Head(stream))
  BY <1>1, <1>4, TradedStep
<1>5. CASE OrderCanceled(Head(stream))
  BY <1>1, <1>5, CanceledStep
<1>6. CASE OrderRefused(Head(stream))
  BY <1>1, <1>6, RefusedStep
<1>7. CASE Trade(Head(stream))
  BY <1>1, <1>7, TradeStep
<1> QED
  BY <1>2, <1>3, <1>4, <1>5, <1>6, <1>7

(* Every step keeps the invariant, ...                                     *)
LEMMA Inductive ==
    ASSUME IInv, [Next]_vars
    PROVE  IInv'
<1>1. CASE \E tgt \in Targets : TargetWay(tgt)
  BY <1>1, TargetStep
<1>2. CASE \E r \in Refs : CancelWay(r)
  BY <1>2, CancelStep
<1>3. CASE Exchange
  <2>1. PICK r \in Refs : Insert(r) \/ Cancelled(r) \/ \E n \in 1 .. order[r].left : Fill(r, n)
    BY <1>3 DEF Exchange
  <2>2. CASE Insert(r)
    BY <2>2, InsertStep
  <2>3. CASE Cancelled(r)
    BY <2>3, CancelledStep
  <2>4. CASE \E n \in 1 .. order[r].left : Fill(r, n)
    BY <2>4, FillStep
  <2> QED
    BY <2>1, <2>2, <2>3, <2>4
<1>4. CASE Callback
  BY <1>4, CallbackStep
<1>5. CASE UNCHANGED vars
  BY <1>5 DEF IInv, TypeInv, vars
<1> QED
  BY <1>1, <1>2, <1>3, <1>4, <1>5 DEF Next

(* ... which holds at first.                                               *)
LEMMA Initial ==
    ASSUME Init
    PROVE  IInv
<1>1. account \in Holding
  BY BookAssumption DEF Init
<1>2. \A s \in Sides : account[s].td \in Nat /\ account[s].yd \in Nat
  BY <1>1 DEF Holding
<1>3. posORD \in Book /\ posTRD = posORD
  BY <1>2 DEF Init, Loaded, Book
<1>4. order = <<>> /\ stream = <<>> /\ Len(order) = 0 /\ Len(stream) = 0
  BY DEF Init
<1>5. TypeInv
  <2>1. order \in Seq(OrderRec) /\ stream \in Seq(Message)
    BY <1>4
  <2>2. apart \in BOOLEAN /\ blind \in BOOLEAN /\ goal = [on |-> FALSE, pos |-> 0, open |-> FALSE]
    BY DEF Init
  <2>3. goal \in [on : BOOLEAN, pos : Int, open : BOOLEAN]
    BY <2>2
  <2> QED
    BY <1>1, <1>3, <2>1, <2>2, <2>3 DEF TypeInv
<1>6. OrdersAt(order) /\ StreamAt(stream, order) /\ TradesAt(stream, order) /\ OneWayAt(order)
  BY <1>4 DEF OrdersAt, StreamAt, TradesAt, OneWayAt
<1>7. \A k, s, f : Tot(k, s, f, order) = 0
  BY <1>4, TotEmpty
<1>8. CoveredAt(account, order)
  BY <1>2, <1>7 DEF CoveredAt
<1>9. \A k : BookAt(apart, posORD, k, account, order)
  <2> SUFFICES ASSUME NEW k, NEW s \in Sides
               PROVE  /\ posORD[s].today = account[s].td - Tot(k, s, "open", order)
                             + Tot(k, s, "today", order)
                      /\ (IF apart THEN posORD[s].hist ELSE posORD[s].pos - posORD[s].today)
                             = account[s].yd + Tot(k, s, "yesterday", order)
                      /\ apart => posORD[s].pos = posORD[s].today
    BY DEF BookAt
  <2>1. PICK td \in Nat, yd \in Nat : td = account[s].td /\ yd = account[s].yd
    BY <1>2
  <2>2. posORD[s] = IF apart THEN [pos |-> td, today |-> td, hist |-> yd]
                    ELSE [pos |-> td + yd, today |-> td, hist |-> 0]
    BY <2>1 DEF Init, Loaded
  <2>3. posORD[s].today = td /\ (apart => posORD[s].pos = td /\ posORD[s].hist = yd)
        /\ (~apart => posORD[s].pos = td + yd)
    BY <2>2
  <2>4. Tot(k, s, "open", order) = 0 /\ Tot(k, s, "today", order) = 0
        /\ Tot(k, s, "yesterday", order) = 0
    BY <1>7
  <2> QED
    BY <2>1, <2>3, <2>4
<1>10. FreeAt(blind, account, order)
  BY <1>2, <1>7 DEF FreeAt, FreeTd, FreeYd
<1>11. GoalAt(goal, blind, account, order)
  BY DEF Init, GoalAt
<1>12. RoomAt(order)
  <2>1. Reserve(order) = {}
    BY <1>4 DEF Reserve
  <2> QED
    BY <1>4, <2>1, FS_EmptySet, BookAssumption DEF RoomAt
<1> QED
  BY <1>3, <1>5, <1>6, <1>8, <1>9, <1>10, <1>11, <1>12 DEF IInv

(* The invariant holds for every account at first, all targets, order      *)
(* sizes, limits and any number of orders, on both kinds of exchange.      *)
THEOREM Invariant == Spec => []IInv
<1>1. Init => IInv
  BY Initial
<1>2. IInv /\ [Next]_vars => IInv'
  BY Inductive
<1> QED
  BY <1>1, <1>2, PTL DEF Spec

-----------------------------------------------------------------------------

(* The invariant implies that nothing leaves its range, ...                *)
LEMMA Typed == IInv => TypeOK
<1> SUFFICES ASSUME IInv
             PROVE  TypeOK
  OBVIOUS
<1>1. Len(order) <= MaxRef
  <2>1. Cardinality(Reserve(order)) \in Nat /\ Len(order) \in Nat
    BY Parts, ReserveFinite
  <2>2. Len(order) + Cardinality(Reserve(order)) <= MaxRef
    BY Parts DEF RoomAt
  <2> QED
    BY <2>1, <2>2, BookAssumption
<1>2. ASSUME NEW r \in Refs
      PROVE  LET o == order[r]
             IN  /\ o.dir \in {"buy", "sell"} /\ o.flag \in Flags /\ o.vol \in 1 .. MaxOnce
                 /\ o.left \in 0 .. o.vol /\ o.rem \in o.left .. o.vol /\ o.traded \in 0 .. o.vol
                 /\ o.rep \in {"none", "hang", "done"} /\ o.cxl \in {"no", "reopen", "drop"}
                 /\ o.st \in {"queued", "live", "ended"}
  <2>1. r \in 1 .. Len(order)
    BY Parts
  <2>2. PICK o \in OrderRec : o = order[r]
    BY <2>1, Parts
  <2>3. OrderOK(o) /\ o.left \in Nat /\ o.rem \in Nat /\ o.vol \in Nat /\ o.traded \in Nat
    BY <2>1, <2>2, Parts, RecFields
  <2>4. o.left <= o.rem /\ o.rem <= o.vol
    BY <2>3 DEF OrderOK
  <2>5. o.traded <= o.vol
    <3>1. Coming(r, stream) \in Nat
      BY Parts, TradesType
    <3>2. o.traded + Coming(r, stream) = o.vol - o.left
      BY <2>1, <2>2, Parts DEF TradesAt
    <3> QED
      BY <2>3, <3>1, <3>2
  <2>6. o.left \in 0 .. o.vol /\ o.rem \in o.left .. o.vol /\ o.traded \in 0 .. o.vol
    BY <2>3, <2>4, <2>5
  <2> QED
    BY <2>2, <2>6, RecFields DEF Dirs
<1>3. \A i \in DOMAIN stream : stream[i].ref \in Refs
  BY Parts DEF StreamAt
<1> QED
  BY <1>1, <1>2, <1>3, Parts DEF TypeOK

(* The properties' sums are the totals.                                    *)
LEMMA ChangeTot ==
    ASSUME IInv, NEW s, NEW f
    PROVE  /\ Change(s, f, Unbooked) = Tot("unbooked", s, f, order)
           /\ Change(s, f, Untraded) = Tot("untraded", s, f, order)
           /\ Change(s, f, Open) = Tot("open", s, f, order)
<1>1. PICK T : T = {r \in Refs : order[r].flag = f /\ SideOf(order[r].dir, f) = s}
  OBVIOUS
<1>2. T \in SUBSET (1 .. Len(order)) /\ order \in Seq(OrderRec)
  BY <1>1, Parts
<1>3. \A k : /\ \A r \in T : Weight(k, s, f, order[r]) = Counts(k, order[r])
             /\ \A r \in (1 .. Len(order)) \ T : Weight(k, s, f, order[r]) = 0
  BY <1>1, Parts DEF Weight, Of
<1>4. Change(s, f, Unbooked) = Tot("unbooked", s, f, order)
  <2>1. PICK g : g = [r \in T |-> Unbooked(r)]
    OBVIOUS
  <2>2. Change(s, f, Unbooked) = SumFunction(g)
    BY <1>1, <2>1 DEF Change, Sum
  <2>3. g = [r \in T |-> g[r]] /\ \A r \in T : g[r] = Weight("unbooked", s, f, order[r])
    BY <1>3, <2>1 DEF Counts, Unbooked, Filled
  <2>4. \A r \in (1 .. Len(order)) \ T : Weight("unbooked", s, f, order[r]) = 0
    BY <1>3
  <2>5. SumFunction(g) = Tot("unbooked", s, f, order)
    BY ONLY <1>2, <2>3, <2>4, SumTot
  <2> QED
    BY <2>2, <2>5
<1>5. Change(s, f, Untraded) = Tot("untraded", s, f, order)
  <2>1. PICK g : g = [r \in T |-> Untraded(r)]
    OBVIOUS
  <2>2. Change(s, f, Untraded) = SumFunction(g)
    BY <1>1, <2>1 DEF Change, Sum
  <2>3. g = [r \in T |-> g[r]] /\ \A r \in T : g[r] = Weight("untraded", s, f, order[r])
    BY <1>3, <2>1 DEF Counts, Untraded, Filled
  <2>4. \A r \in (1 .. Len(order)) \ T : Weight("untraded", s, f, order[r]) = 0
    BY <1>3
  <2>5. SumFunction(g) = Tot("untraded", s, f, order)
    BY ONLY <1>2, <2>3, <2>4, SumTot
  <2> QED
    BY <2>2, <2>5
<1>6. Change(s, f, Open) = Tot("open", s, f, order)
  <2>1. PICK g : g = [r \in T |-> Open(r)]
    OBVIOUS
  <2>2. Change(s, f, Open) = SumFunction(g)
    BY <1>1, <2>1 DEF Change, Sum
  <2>3. g = [r \in T |-> g[r]] /\ \A r \in T : g[r] = Weight("open", s, f, order[r])
    BY <1>3, <2>1 DEF Counts, OpenOf, Open
  <2>4. \A r \in (1 .. Len(order)) \ T : Weight("open", s, f, order[r]) = 0
    BY <1>3
  <2>5. SumFunction(g) = Tot("open", s, f, order)
    BY ONLY <1>2, <2>3, <2>4, SumTot
  <2> QED
    BY <2>2, <2>5
<1> QED
  BY <1>4, <1>5, <1>6

(* ... that both books tell the account up to what is not booked, ...      *)
LEMMA Follows == IInv => BooksFollow
<1> SUFFICES ASSUME IInv, NEW s \in Sides
             PROVE  /\ Read(posORD[s]).td = account[s].td - Change(s, "open", Unbooked)
                           + Change(s, "today", Unbooked)
                    /\ Read(posORD[s]).yd = account[s].yd + Change(s, "yesterday", Unbooked)
                    /\ Read(posTRD[s]).td = account[s].td - Change(s, "open", Untraded)
                           + Change(s, "today", Untraded)
                    /\ Read(posTRD[s]).yd = account[s].yd + Change(s, "yesterday", Untraded)
  BY DEF BooksFollow, Lags
<1> QED
  BY ChangeTot, Parts DEF BookAt, Read

(* ... that all closes are covered ...                                     *)
LEMMA Covers == IInv => ClosesCovered
<1> SUFFICES ASSUME IInv, ~blind, NEW s \in Sides
             PROVE  account[s].td - Change(s, "today", Open) >= 0
                    /\ account[s].yd - Change(s, "yesterday", Open) >= 0
  BY DEF ClosesCovered, Free
<1> QED
  BY ChangeTot, Parts DEF FreeAt, FreeTd, FreeYd

(* What the orders still trade is what they open and close, side by side.  *)
LEMMA ExposedLeads ==
    ASSUME IInv
    PROVE  Exposed = Leads(account, order) /\ Leads(account, order) \in Int
<1>1. PICK S : S = 1 .. Len(order)
  OBVIOUS
<1>2. PICK w : w = [s \in Sides |-> [f \in Flags |-> Weights("open", s, f, order)]]
  OBVIOUS
<1>3. \A s \in Sides : \A f \in Flags :
          /\ w[s][f] \in [S -> Int] /\ SumFunction(w[s][f]) = Tot("open", s, f, order)
          /\ Tot("open", s, f, order) \in Int
          /\ \A r \in S : w[s][f][r] = Weight("open", s, f, order[r])
  <2> SUFFICES ASSUME NEW s \in Sides, NEW f \in Flags
               PROVE  /\ w[s][f] \in [S -> Int] /\ SumFunction(w[s][f]) = Tot("open", s, f, order)
                      /\ Tot("open", s, f, order) \in Int
                      /\ \A r \in S : w[s][f][r] = Weight("open", s, f, order[r])
    OBVIOUS
  <2>1. w[s][f] = Weights("open", s, f, order)
    BY <1>2
  <2>2. order \in Seq(OrderRec)
    BY Parts
  <2> QED
    BY <1>1, <2>1, <2>2, WeightsType DEF Tot
<1>4. PICK lo, lt, ly, so, st, sy :
          /\ lo = w["long"]["open"] /\ lt = w["long"]["today"] /\ ly = w["long"]["yesterday"]
          /\ so = w["short"]["open"] /\ st = w["short"]["today"] /\ sy = w["short"]["yesterday"]
  OBVIOUS
<1>5. /\ lo \in [S -> Int] /\ lt \in [S -> Int] /\ ly \in [S -> Int]
      /\ so \in [S -> Int] /\ st \in [S -> Int] /\ sy \in [S -> Int] /\ IsFiniteSet(S)
  <2>1. IsFiniteSet(S)
    BY <1>1, FS_Interval, Parts
  <2>2. "long" \in Sides /\ "short" \in Sides /\ "open" \in Flags /\ "today" \in Flags
        /\ "yesterday" \in Flags
    BY DEF Sides, Flags
  <2> QED
    BY ONLY <1>3, <1>4, <2>1, <2>2
<1>6. PICK buys, sells, e : /\ buys = [r \in S |-> lo[r] + st[r] + sy[r]]
                            /\ sells = [r \in S |-> so[r] + lt[r] + ly[r]]
                            /\ e = [r \in S |-> Signed(order[r].dir, Open(r))]
  OBVIOUS
<1>7. buys \in [S -> Int] /\ sells \in [S -> Int]
      /\ SumFunction(buys) = SumFunction(lo) + SumFunction(st) + SumFunction(sy)
      /\ SumFunction(sells) = SumFunction(so) + SumFunction(lt) + SumFunction(ly)
  <2>1. buys \in [S -> Int] /\ \A r \in S : buys[r] = lo[r] + st[r] + sy[r]
    BY <1>5, <1>6
  <2>2. sells \in [S -> Int] /\ \A r \in S : sells[r] = so[r] + lt[r] + ly[r]
    BY <1>5, <1>6
  <2>3. SumFunction(buys) = SumFunction(lo) + SumFunction(st) + SumFunction(sy)
    <3>1. /\ IsFiniteSet(S) /\ lo \in [S -> Int] /\ st \in [S -> Int] /\ sy \in [S -> Int]
          /\ buys \in [S -> Int] /\ \A r \in S : buys[r] = lo[r] + st[r] + sy[r]
      BY <1>5, <2>1
    <3> QED
      BY ONLY <3>1, SumThree
  <2>4. SumFunction(sells) = SumFunction(so) + SumFunction(lt) + SumFunction(ly)
    <3>1. /\ IsFiniteSet(S) /\ so \in [S -> Int] /\ lt \in [S -> Int] /\ ly \in [S -> Int]
          /\ sells \in [S -> Int] /\ \A r \in S : sells[r] = so[r] + lt[r] + ly[r]
      BY <1>5, <2>2
    <3> QED
      BY ONLY <3>1, SumThree
  <2> QED
    BY <2>1, <2>2, <2>3, <2>4
<1>8. ASSUME NEW r \in S
      PROVE  e[r] \in Int /\ buys[r] = sells[r] + e[r]
  <2>1. PICK o \in OrderRec : o = order[r]
    BY <1>1, Parts
  <2>2. PICK n \in Int : n = Open(r) /\ n = Counts("open", o)
    BY <2>1, CountsInt DEF Open, Counts, OpenOf
  <2>3. o.dir \in {"buy", "sell"} /\ o.flag \in {"open", "today", "yesterday"}
    BY <2>1, RecFields DEF Dirs, Flags
  <2>4. /\ lo[r] = IF Of("long", "open", o) THEN n ELSE 0
        /\ lt[r] = IF Of("long", "today", o) THEN n ELSE 0
        /\ ly[r] = IF Of("long", "yesterday", o) THEN n ELSE 0
        /\ so[r] = IF Of("short", "open", o) THEN n ELSE 0
        /\ st[r] = IF Of("short", "today", o) THEN n ELSE 0
        /\ sy[r] = IF Of("short", "yesterday", o) THEN n ELSE 0
    BY <1>3, <1>4, <2>1, <2>2 DEF Weight, Sides, Flags
  <2>5. e[r] = IF o.dir = "buy" THEN n ELSE -n
    BY <1>6, <2>1, <2>2 DEF Signed
  <2>6. buys[r] = lo[r] + st[r] + sy[r] /\ sells[r] = so[r] + lt[r] + ly[r]
    BY <1>6
  <2>7. CASE o.dir = "buy"
    <3>1. /\ Of("long", "open", o) <=> o.flag = "open"
          /\ Of("short", "today", o) <=> o.flag = "today"
          /\ Of("short", "yesterday", o) <=> o.flag = "yesterday"
          /\ ~Of("short", "open", o) /\ ~Of("long", "today", o) /\ ~Of("long", "yesterday", o)
      BY <2>3, <2>7 DEF Of, SideOf
    <3>2. buys[r] = n /\ sells[r] = 0 /\ e[r] = n
      BY <2>3, <2>4, <2>5, <2>6, <2>7, <3>1
    <3> QED
      BY <3>2
  <2>8. CASE o.dir = "sell"
    <3>1. /\ Of("short", "open", o) <=> o.flag = "open"
          /\ Of("long", "today", o) <=> o.flag = "today"
          /\ Of("long", "yesterday", o) <=> o.flag = "yesterday"
          /\ ~Of("long", "open", o) /\ ~Of("short", "today", o) /\ ~Of("short", "yesterday", o)
      BY <2>3, <2>8 DEF Of, SideOf
    <3>2. buys[r] = 0 /\ sells[r] = n /\ e[r] = -n
      BY <2>3, <2>4, <2>5, <2>6, <2>8, <3>1
    <3> QED
      BY <3>2
  <2> QED
    BY <2>3, <2>7, <2>8
<1>9. SumFunction(buys) = SumFunction(sells) + SumFunction(e) /\ SumFunction(e) \in Int
  <2>1. e \in [S -> Int]
    BY <1>6, <1>8
  <2>2. Adds(S, sells, e, buys)
    BY <1>5, <1>7, <1>8, <2>1 DEF Adds
  <2>3. SumFunction(buys) = SumFunction(sells) + SumFunction(e)
    BY <2>2, SumPlus
  <2> QED
    BY <1>5, <2>1, <2>3, SumType
<1>10. Exposed = account["long"].td + account["long"].yd - account["short"].td
           - account["short"].yd + SumFunction(e)
  BY <1>1, <1>6, Parts DEF Exposed, Sum
<1>11. /\ SumFunction(lo) = Tot("open", "long", "open", order)
       /\ SumFunction(lt) = Tot("open", "long", "today", order)
       /\ SumFunction(ly) = Tot("open", "long", "yesterday", order)
       /\ SumFunction(so) = Tot("open", "short", "open", order)
       /\ SumFunction(st) = Tot("open", "short", "today", order)
       /\ SumFunction(sy) = Tot("open", "short", "yesterday", order)
  BY <1>3, <1>4 DEF Sides, Flags
<1>12. /\ SumFunction(lo) \in Int /\ SumFunction(lt) \in Int /\ SumFunction(ly) \in Int
       /\ SumFunction(so) \in Int /\ SumFunction(st) \in Int /\ SumFunction(sy) \in Int
  BY <1>5, SumType
<1>13. PICK a \in Nat, b \in Nat, c \in Nat, d \in Nat :
           /\ a = account["long"].td /\ b = account["long"].yd
           /\ c = account["short"].td /\ d = account["short"].yd
  BY Parts DEF Holding, Sides
<1>14. Leads(account, order) =
           (a + b + SumFunction(lo) - SumFunction(lt) - SumFunction(ly))
               - (c + d + SumFunction(so) - SumFunction(st) - SumFunction(sy))
  BY <1>11, <1>13 DEF Leads, Net
<1>15. PICK p \in Int, q \in Int, u \in Int :
           /\ p = SumFunction(lo) + SumFunction(st) + SumFunction(sy)
           /\ q = SumFunction(so) + SumFunction(lt) + SumFunction(ly)
           /\ u = SumFunction(e)
  BY <1>9, <1>12
<1>16. Leads(account, order) = a + b - c - d + p - q
  BY ONLY <1>12, <1>14, <1>15, a \in Nat, b \in Nat, c \in Nat, d \in Nat
<1>17. Exposed = a + b - c - d + u /\ p = q + u
  BY <1>7, <1>9, <1>10, <1>13, <1>15
<1> QED
  BY ONLY <1>16, <1>17, p \in Int, q \in Int, u \in Int, a \in Nat, b \in Nat, c \in Nat, d \in Nat

(* ... and that the target is kept.                                        *)
LEMMA Keeps == IInv => TargetKept
<1> SUFFICES ASSUME IInv, goal.on, ~blind
             PROVE  \/ Exposed = goal.pos
                    \/ /\ ~goal.open
                       /\ Exposed < goal.pos => Free("short") = [td |-> 0, yd |-> 0]
                       /\ Exposed > goal.pos => Free("long") = [td |-> 0, yd |-> 0]
  BY DEF TargetKept
<1>1. \A s : /\ FreeTd(account, order, s) = 0 /\ FreeYd(account, order, s) = 0
                  => Free(s) = [td |-> 0, yd |-> 0]
  BY ChangeTot DEF Free, FreeTd, FreeYd
<1>2. \/ Leads(account, order) = goal.pos
      \/ /\ ~goal.open
         /\ Leads(account, order) < goal.pos => Spent(account, order, "short")
         /\ Leads(account, order) > goal.pos => Spent(account, order, "long")
  BY Parts DEF GoalAt
<1> QED
  BY <1>1, <1>2, ExposedLeads DEF Spent

(* No part of the position books' state leaves its range: at most nMaxOnce *)
(* lots to an order, neither more trades nor more fills stored than there  *)
(* are lots.                                                               *)
THEOREM TypeCorrect == Spec => []TypeOK
  BY Invariant, Typed, PTL

(* BooksFollow: both books tell today's and yesterday's longs and shorts   *)
(* exactly, up to the fills not booked yet (PositionUpdate, OrderWay,      *)
(* TradeWay).                                                              *)
THEOREM BooksFollowAlways == Spec => []BooksFollow
  BY Invariant, Follows, PTL

(* ClosesCovered: whatever TargetWay splits, no more is being closed of a  *)
(* kind than the account holds of it, so the exchange refuses no close     *)
(* (GetPosValid, TargetWay).                                               *)
THEOREM ClosesCoveredAlways == Spec => []ClosesCovered
  BY Invariant, Covers, PTL

(* TargetKept: a target settled is what the orders lead to until the next  *)
(* one, through fills, cancels and reopened orders, or all is closed that  *)
(* can be when opening is not allowed (TargetWay, OrderWay).               *)
THEOREM TargetKeptAlways == Spec => []TargetKept
  BY Invariant, Keeps, PTL
=============================================================================
