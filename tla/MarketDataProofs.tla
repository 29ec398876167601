-------------------------- MODULE MarketDataProofs --------------------------
(***************************************************************************)
(* Proofs about MarketData for every length of the hour and the day, every *)
(* period of silence, any number of ticks, changes of status and crashes,  *)
(* and queues of any length.                                               *)
(***************************************************************************)
EXTENDS MarketData, TLAPS

Ticks == [t : Nat, v : Nat]

(* The K-lines under way, from the newest to the oldest.                   *)
Older(k, j) == \A y \in Types : k.vol[y] <= j.vol[y]

(* No volume is 0 once the day has begun, and none is from the future.     *)
TicksSound ==
    /\ market.v > 0
    /\ mapTick # NoTick => 0 < mapTick.v /\ mapTick.v <= market.v
    /\ \A i \in DOMAIN cqLineKTick : 0 < cqLineKTick[i].v /\ cqLineKTick[i].v <= market.v
    /\ th.pc \in {"mark", "invent"} => /\ mapTick # NoTick
                                       /\ 0 < th.tick.v /\ th.tick.v <= mapTick.v

(* What is saved is no newer than what waits to be saved, nor that than    *)
(* the K-line, nor that than the market.                                   *)
LinesSound ==
    /\ lineK # NoLineK => lineK.t \in Nat
    /\ lineK = NoLineK => cqLineK = <<>>
    /\ lineK # NoLineK => Older(db, lineK)
    /\ \A i \in DOMAIN cqLineK : Older(db, cqLineK[i]) /\ Older(cqLineK[i], lineK)
    /\ \A y \in Types : db.vol[y] <= market.v /\ lineK.vol[y] <= market.v

(* The volumes of the ticks that may still reach CalcLineK are at least v. *)
AllFrom(v) ==
    /\ IF mapTick = NoTick THEN v <= market.v ELSE v <= mapTick.v
    /\ \A i \in DOMAIN cqLineKTick : v <= cqLineKTick[i].v
    /\ th.pc \in {"mark", "invent"} => v <= th.tick.v

(* Until the first tick is calculated none overtakes it.                   *)
FirstIsLeast ==
    lineK = NoLineK =>
        /\ \A y \in Types : AllFrom(db.vol[y])
        /\ cqLineKTick # <<>> => AllFrom(Head(cqLineKTick).v)
        /\ cqLineKTick = <<>> => /\ mapTick # NoTick => md # "idle"
                                 /\ th.pc \in {"mark", "invent"} => th.tick.v = mapTick.v

(* The bars of a K-line have seen the same volume, or no tick is to come   *)
(* that any of them refuses.                                               *)
BarsLevel ==
    lineK # NoLineK => \/ \A y \in Types : lineK.vol[y] = lineK.vol[MINUTE]
                       \/ \A y \in Types : AllFrom(lineK.vol[y])

LineInv == TypeOK /\ TicksSound /\ LinesSound /\ FirstIsLeast /\ BarsLevel /\ NeverHalfDone

GateInv ==
    /\ tickCnt <= fresh \/ fresh = UnsetTimes
    /\ md \in {"check", "set", "compare"} => fresh = UnsetTimes \/ crossed

-----------------------------------------------------------------------------
(* K-lines.                                                                *)

LEMMA TypesAre == Types = 0 .. 3 /\ MINUTE \in Types /\ MINUTE = 0 /\ SETTLE = 3 /\ SETTLE \in Types
  BY DEF Types, MINUTE, SETTLE

LEMMA ZeroIs == NoLineK \in LineKs /\ NoLineK.t = -1 /\ NoLineK.vol = Zero /\ Exact(NoLineK)
<1>1. Zero \in [Types -> Nat] /\ \A y \in Types : Zero[y] = 0
  BY DEF Zero
<1>2. NoLineK \in LineKs
  BY <1>1 DEF NoLineK, LineKs
<1>3. Exact(NoLineK)
  BY <1>1 DEF NoLineK, Exact
<1> QED
  BY <1>2, <1>3 DEF NoLineK

(* The K-line that a tick starts or goes on with: what it is made of.      *)
LEMMA LoadedIs ==
    ASSUME NEW k \in LineKs, NEW tick \in Ticks, db \in LineKs
    PROVE  /\ Loaded(k, tick) \in LineKs
           /\ Loaded(k, tick).t = tick.t
           /\ \A y \in Types : \/ Loaded(k, tick).vol[y] = tick.v
                               \/ Loaded(k, tick).vol[y] = LoadLineK(k).vol[y]
<1> DEFINE base == LoadLineK(k)
           new  == {y \in Types : Changed(y, base.t, tick.t)}
           Start(f, x) == [y \in Types |-> IF y \in new THEN x ELSE f[y]]
           odd  == {y \in Types \ new : \/ y \in base.odd
                                        \/ base.t # -1 /\ TrulyChanged(y, base.t, tick.t)}
           loaded == [t |-> tick.t, vol |-> Start(base.vol, tick.v), sum |-> Start(base.sum, 0),
                      from |-> Start(base.from, tick.v), extra |-> Start(base.extra, 0),
                      last |-> tick.v, odd |-> odd]
<1>1. base \in LineKs
  BY DEF LoadLineK
<1>2. Loaded(k, tick) = loaded
  BY DEF Loaded
<1>3. /\ base.vol \in [Types -> Nat] /\ base.sum \in [Types -> Nat]
      /\ base.from \in [Types -> Nat] /\ base.extra \in [Types -> Int]
  BY <1>1 DEF LineKs
<1>4. tick.t \in Nat /\ tick.v \in Nat
  BY DEF Ticks
<1> HIDE DEF base, new, odd
<1>5. odd \in SUBSET Types
  BY DEF odd
<1>6. /\ Start(base.vol, tick.v) \in [Types -> Nat]
      /\ Start(base.sum, 0) \in [Types -> Nat]
      /\ Start(base.from, tick.v) \in [Types -> Nat]
      /\ Start(base.extra, 0) \in [Types -> Int]
  BY <1>3, <1>4
<1>7. loaded \in LineKs
  BY <1>4, <1>5, <1>6 DEF LineKs
<1>8. \A y \in Types : loaded.vol[y] = tick.v \/ loaded.vol[y] = base.vol[y]
  OBVIOUS
<1> QED
  BY <1>2, <1>7, <1>8 DEF base

(* The bars that go on are right if those of the K-line loaded were, and   *)
(* the others start from nothing.                                          *)
LEMMA LoadedExact ==
    ASSUME NEW k \in LineKs, NEW tick \in Ticks, db \in LineKs, Exact(k), Exact(db)
    PROVE  Exact(Loaded(k, tick))
<1> DEFINE base == LoadLineK(k)
           new  == {y \in Types : Changed(y, base.t, tick.t)}
<1>1. base \in LineKs /\ Exact(base)
  BY DEF LoadLineK
<1>2. tick.t \in Nat /\ tick.v \in Nat
  BY DEF Ticks
<1> SUFFICES ASSUME NEW y \in Types, y \notin Loaded(k, tick).odd
             PROVE  Loaded(k, tick).sum[y] = Loaded(k, tick).vol[y] - Loaded(k, tick).from[y]
                                                 + Loaded(k, tick).extra[y]
  BY DEF Exact
<1>3. CASE y \in new
  <2>1. /\ Loaded(k, tick).sum[y] = 0
        /\ Loaded(k, tick).vol[y] = tick.v
        /\ Loaded(k, tick).from[y] = tick.v
        /\ Loaded(k, tick).extra[y] = 0
    BY <1>3 DEF Loaded
  <2> QED
    BY <2>1, <1>2
<1>4. CASE y \notin new
  <2>1. /\ Loaded(k, tick).sum[y] = base.sum[y]
        /\ Loaded(k, tick).vol[y] = base.vol[y]
        /\ Loaded(k, tick).from[y] = base.from[y]
        /\ Loaded(k, tick).extra[y] = base.extra[y]
        /\ y \notin base.odd
    BY <1>4 DEF Loaded
  <2> QED
    BY <2>1, <1>1 DEF Exact
<1> QED
  BY <1>3, <1>4

(* A bar reached by the loop does not refuse the tick.                     *)
LEMMA ReachedIs ==
    ASSUME NEW k \in LineKs, NEW tick \in Ticks, tick.v > 0
    PROVE  /\ Reached(k, tick) \subseteq Types
           /\ \A y \in Reached(k, tick) : k.vol[y] <= tick.v
           /\ \A y \in Types : k.vol[y] <= tick.v => ~Refuses(k, y, tick)
<1>1. tick.v \in Nat /\ \A y \in Types : k.vol[y] \in Nat
  BY DEF Ticks, LineKs
<1>2. \A y \in Reached(k, tick) : y \in MINUTE .. y
  BY TypesAre DEF Reached
<1> QED
  BY <1>1, <1>2 DEF Reached, Refuses

(* A tick that no bar refuses reaches them all; one that all refuse, none. *)
LEMMA ReachedAll ==
    ASSUME NEW k \in LineKs, NEW tick \in Ticks, tick.v > 0,
           \A y \in Types : k.vol[y] <= tick.v
    PROVE  Reached(k, tick) = Types
<1>1. \A y \in Types : \A z \in MINUTE .. y : z \in Types
  BY TypesAre
<1> QED
  BY <1>1, ReachedIs DEF Reached

LEMMA ReachedNone ==
    ASSUME NEW k \in LineKs, NEW tick \in Ticks, tick.v > 0, k.vol[MINUTE] > tick.v
    PROVE  Reached(k, tick) = {}
<1>1. \A y \in Types : MINUTE \in MINUTE .. y
  BY TypesAre
<1>2. Refuses(k, MINUTE, tick)
  BY DEF Refuses
<1> QED
  BY <1>1, <1>2 DEF Reached

(* What one tick makes of a K-line.                                        *)
LEMMA CalculatedIs ==
    ASSUME NEW k \in LineKs, NEW tick \in Ticks, tick.v > 0
    PROVE  /\ Calculated(k, tick) \in LineKs
           /\ Calculated(k, tick).t \in {k.t, tick.t}
           /\ \A y \in Types : /\ k.vol[y] <= Calculated(k, tick).vol[y]
                               /\ Calculated(k, tick).vol[y] \in {k.vol[y], tick.v}
<1> DEFINE S == Reached(k, tick)
           vol == [y \in Types |-> IF y \in S THEN tick.v ELSE k.vol[y]]
           sum == [y \in Types |-> IF y \in S THEN SumAfter(k, y, tick) ELSE k.sum[y]]
           from == [y \in Types |-> IF y \in S THEN FromAfter(k, y, tick) ELSE k.from[y]]
           extra == [y \in Types |-> IF y \in S THEN ExtraAfter(k, y, tick) ELSE k.extra[y]]
           odd == {y \in Types : IF y \in S THEN OddAfter(k, y, tick) ELSE y \in k.odd}
           c == [t |-> IF S = Types THEN tick.t ELSE k.t, vol |-> vol, sum |-> sum, from |-> from,
                 extra |-> extra, last |-> IF S = Types THEN tick.v ELSE k.last, odd |-> odd]
<1>1. Calculated(k, tick) = c
  BY DEF Calculated
<1>2. /\ tick.t \in Nat /\ tick.v \in Nat /\ k.t \in Nat \cup {-1} /\ k.last \in Nat
      /\ k.vol \in [Types -> Nat] /\ k.sum \in [Types -> Nat] /\ k.from \in [Types -> Nat]
      /\ k.extra \in [Types -> Int]
  BY DEF Ticks, LineKs
<1>3. S \subseteq Types /\ \A y \in S : k.vol[y] <= tick.v
  BY ReachedIs
<1> HIDE DEF S
<1>4. \A y \in S : SumAfter(k, y, tick) \in Nat
  BY <1>2, <1>3 DEF SumAfter
<1>5. \A y \in S : FromAfter(k, y, tick) \in Nat
  BY <1>2, <1>3 DEF FromAfter
<1>6. \A y \in S : ExtraAfter(k, y, tick) \in Int
  BY <1>2, <1>3 DEF ExtraAfter
<1>7. /\ vol \in [Types -> Nat] /\ sum \in [Types -> Nat] /\ from \in [Types -> Nat]
      /\ extra \in [Types -> Int]
  BY <1>2, <1>4, <1>5, <1>6
<1>8. odd \in SUBSET Types
  OBVIOUS
<1>9. \A y \in Types : k.vol[y] <= vol[y] /\ vol[y] \in {k.vol[y], tick.v}
  BY <1>2, <1>3
<1> HIDE DEF vol, sum, from, extra, odd
<1>10. c \in LineKs
  BY <1>2, <1>7, <1>8 DEF LineKs
<1> QED
  BY <1>1, <1>9, <1>10

(* A tick that no bar refuses is all the bars' last one.                   *)
LEMMA CalculatedAll ==
    ASSUME NEW k, NEW tick, Reached(k, tick) = Types
    PROVE  /\ Calculated(k, tick).t = tick.t
           /\ \A y \in Types : Calculated(k, tick).vol[y] = tick.v
  BY DEF Calculated

(* A tick that the first bar refuses leaves no trace.                      *)
LEMMA CalculatedNone ==
    ASSUME NEW k \in LineKs, NEW tick \in Ticks, Reached(k, tick) = {}
    PROVE  Calculated(k, tick) = k
<1>1. {} # Types
  BY TypesAre
<1>2. /\ k.vol = [y \in Types |-> k.vol[y]]
      /\ k.sum = [y \in Types |-> k.sum[y]]
      /\ k.from = [y \in Types |-> k.from[y]]
      /\ k.extra = [y \in Types |-> k.extra[y]]
      /\ k.odd = {y \in Types : y \in k.odd}
  BY DEF LineKs
<1>3. k = [t |-> k.t, vol |-> k.vol, sum |-> k.sum, from |-> k.from, extra |-> k.extra,
           last |-> k.last, odd |-> k.odd]
  BY DEF LineKs
<1>4. Calculated(k, tick) =
        [t |-> k.t, vol |-> [y \in Types |-> k.vol[y]], sum |-> [y \in Types |-> k.sum[y]],
         from |-> [y \in Types |-> k.from[y]], extra |-> [y \in Types |-> k.extra[y]],
         last |-> k.last, odd |-> {y \in Types : y \in k.odd}]
  BY <1>1 DEF Calculated
<1> QED
  BY <1>2, <1>3, <1>4

(* One turn of the loop keeps a bar right, or knows that it does not.      *)
LEMMA BarExact ==
    ASSUME NEW k \in LineKs, NEW tick \in Ticks, k.t # -1, Exact(k),
           NEW y \in Types, ~OddAfter(k, y, tick)
    PROVE  SumAfter(k, y, tick) = tick.v - FromAfter(k, y, tick) + ExtraAfter(k, y, tick)
<1>1. /\ tick.v \in Nat /\ k.last \in Nat /\ k.vol[y] \in Nat /\ k.sum[y] \in Nat
      /\ k.from[y] \in Nat /\ k.extra[y] \in Int
  BY DEF Ticks, LineKs
<1>2. CASE Changed(y, k.t, tick.t)
  <2>1. TrulyChanged(y, k.t, tick.t)
    BY <1>2 DEF Changed, TrulyChanged, MinuteOf, HourOf
  <2>2. Adjoining(k.t, tick.t) <=> TrulyAdjoining(k.t, tick.t)
    BY <1>2 DEF OddAfter, Adjoining, TrulyAdjoining
  <2>3. CASE Adjoining(k.t, tick.t)
    <3>1. FromAfter(k, y, tick) = k.last
      BY <2>1, <2>2, <2>3 DEF FromAfter
    <3>2. SumAfter(k, y, tick) = 0 + (tick.v - k.vol[y])
      BY <1>2, <2>3 DEF SumAfter, Carried
    <3>3. ExtraAfter(k, y, tick) = k.last - k.vol[y]
      BY <1>2, <2>3 DEF ExtraAfter
    <3> QED
      BY <1>1, <3>1, <3>2, <3>3
  <2>4. CASE ~Adjoining(k.t, tick.t)
    <3>1. FromAfter(k, y, tick) = tick.v
      BY <2>1, <2>2, <2>4 DEF FromAfter
    <3>2. SumAfter(k, y, tick) = 0 + 0
      BY <1>2, <2>4 DEF SumAfter, Carried
    <3>3. ExtraAfter(k, y, tick) = 0
      BY <1>2, <2>4 DEF ExtraAfter
    <3> QED
      BY <1>1, <3>1, <3>2, <3>3
  <2> QED
    BY <2>3, <2>4
<1>3. CASE ~Changed(y, k.t, tick.t)
  <2>1. y \notin k.odd /\ ~TrulyChanged(y, k.t, tick.t)
    BY <1>3 DEF OddAfter
  <2>2. FromAfter(k, y, tick) = k.from[y]
    BY <2>1 DEF FromAfter
  <2>3. SumAfter(k, y, tick) = k.sum[y] + (tick.v - k.vol[y])
    BY <1>3 DEF SumAfter, Carried
  <2>4. k.sum[y] = k.vol[y] - k.from[y] + k.extra[y]
    BY <2>1 DEF Exact
  <2>5. ExtraAfter(k, y, tick) = k.extra[y]
    BY <1>3 DEF ExtraAfter
  <2> QED
    BY <1>1, <2>2, <2>3, <2>4, <2>5
<1> QED
  BY <1>2, <1>3

LEMMA CalculatedExact ==
    ASSUME NEW k \in LineKs, NEW tick \in Ticks, tick.v > 0, k.t # -1, Exact(k)
    PROVE  Exact(Calculated(k, tick))
<1> DEFINE S == Reached(k, tick)
           c == Calculated(k, tick)
<1> SUFFICES ASSUME NEW y \in Types, y \notin c.odd
             PROVE  c.sum[y] = c.vol[y] - c.from[y] + c.extra[y]
  BY DEF Exact
<1>1. CASE y \in S
  <2>1. /\ c.sum[y] = SumAfter(k, y, tick)
        /\ c.vol[y] = tick.v
        /\ c.from[y] = FromAfter(k, y, tick)
        /\ c.extra[y] = ExtraAfter(k, y, tick)
    BY <1>1 DEF Calculated
  <2>2. ~OddAfter(k, y, tick)
    BY <1>1 DEF Calculated
  <2> QED
    BY <2>1, <2>2, BarExact
<1>2. CASE y \notin S
  <2>1. /\ c.sum[y] = k.sum[y] /\ c.vol[y] = k.vol[y] /\ c.from[y] = k.from[y]
        /\ c.extra[y] = k.extra[y]
        /\ y \notin k.odd
    BY <1>2 DEF Calculated
  <2> QED
    BY <2>1 DEF Exact
<1> QED
  BY <1>1, <1>2

-----------------------------------------------------------------------------
(* The invariant.                                                          *)

LEMMA TicksAre ==
    /\ NoTick \notin Ticks /\ NoTick.v = 0
    /\ NoTick \notin [t : Nat, v : Nat, closed : BOOLEAN]
    /\ \A t \in Nat, v \in Nat : Tick(t, v) \in Ticks /\ Tick(t, v).v = v /\ Tick(t, v).t = t
    /\ \A tick \in Ticks : /\ Taken(tick) \in [t : Nat, v : Nat, closed : BOOLEAN]
                           /\ Taken(tick).v = tick.v
<1>1. NoTick.t = -1 /\ NoTick.v = 0
  BY DEF NoTick
<1> QED
  BY <1>1 DEF Ticks, Tick, Taken

(* What the feed may send.                                                 *)
LEMMA FeedIs ==
    ASSUME TypeOK, TicksSound, NEW tick \in Feed
    PROVE  /\ tick \in Ticks /\ tick.v > 0
           /\ tick.v < market.v => mapTick # NoTick
           /\ mapTick = NoTick => tick.v >= market.v
<1>1. now \in Nat /\ market \in Ticks /\ market.v \in Nat /\ market.v > 0
  BY DEF TypeOK, TicksSound, Ticks
<1>2. CASE tick \in {Tick(now, v) : v \in {market.v, market.v + 1} \cap 0 .. MaxVolume}
  <2>1. PICK v \in {market.v, market.v + 1} : tick = Tick(now, v)
    BY <1>2
  <2>2. v \in Nat /\ v >= market.v
    BY <1>1, <2>1
  <2>3. tick \in Ticks /\ tick.v = v
    BY <1>1, <2>1, <2>2 DEF Tick, Ticks
  <2> QED
    BY <1>1, <2>2, <2>3
<1>3. CASE tick = market
  BY <1>1, <1>3
<1>4. ASSUME NEW v \in {mapTick.v - 1} \cap 1 .. MaxVolume, tick = Tick(now, v)
      PROVE  tick \in Ticks /\ tick.v > 0 /\ mapTick # NoTick
  <2>1. v \in Nat /\ v > 0 /\ v = mapTick.v - 1
    BY MarketAssumption
  <2>2. mapTick # NoTick
    BY <2>1, TicksAre
  <2>3. tick \in Ticks /\ tick.v = v
    BY <1>1, <1>4, <2>1 DEF Tick, Ticks
  <2> QED
    BY <2>1, <2>2, <2>3
<1> QED
  BY <1>2, <1>3, <1>4 DEF Feed

(* The tick that CalcLineK takes.                                          *)
LEMMA HeadIs ==
    ASSUME TypeOK, TicksSound, cqLineKTick # <<>>
    PROVE  /\ Head(cqLineKTick) \in Ticks /\ Head(cqLineKTick).v > 0
           /\ Head(cqLineKTick).v <= market.v
           /\ Tail(cqLineKTick) \in Seq(Ticks)
           /\ \A i \in DOMAIN Tail(cqLineKTick) :
                  i + 1 \in DOMAIN cqLineKTick /\ Tail(cqLineKTick)[i] = cqLineKTick[i + 1]
<1>1. cqLineKTick \in Seq(Ticks)
  BY DEF TypeOK, Ticks
<1>2. 1 \in DOMAIN cqLineKTick /\ Head(cqLineKTick) = cqLineKTick[1]
  BY <1>1
<1> QED
  BY <1>1, <1>2 DEF TicksSound

LEMMA StateIs ==
    ASSUME TypeOK
    PROVE  /\ cqLineKTick \in Seq(Ticks) /\ market.v \in Nat
           /\ mapTick # NoTick => mapTick \in [t : Nat, v : Nat, closed : BOOLEAN]
           /\ th.pc \in {"mark", "invent"} => th.tick \in Ticks
           /\ \A i \in DOMAIN cqLineKTick : cqLineKTick[i] \in Ticks
           /\ lineK \in LineKs /\ db \in LineKs /\ cqLineK \in Seq(LineKs)
           /\ \A i \in DOMAIN cqLineK : cqLineK[i] \in LineKs
<1>1. cqLineKTick \in Seq(Ticks) /\ market \in Ticks /\ cqLineK \in Seq(LineKs)
  BY DEF TypeOK, Ticks
<1>2. mapTick # NoTick => mapTick \in [t : Nat, v : Nat, closed : BOOLEAN]
  BY DEF TypeOK
<1>3. th.pc \in {"mark", "invent"} => th.tick \in Ticks
  BY DEF TypeOK, Ticks
<1>4. lineK \in LineKs /\ db \in LineKs
  BY DEF TypeOK
<1>5. \A i \in DOMAIN cqLineKTick : cqLineKTick[i] \in Ticks
  BY <1>1
<1>6. \A i \in DOMAIN cqLineK : cqLineK[i] \in LineKs
  BY <1>1
<1>7. market.v \in Nat
  BY <1>1 DEF Ticks
<1> QED
  BY <1>1, <1>2, <1>3, <1>4, <1>5, <1>6, <1>7

LEMMA TypeInductive ==
    ASSUME TypeOK, TicksSound, [Next]_vars
    PROVE  TypeOK'
<1> USE MarketAssumption
<1>1. CASE Clock
  BY <1>1 DEF Clock, TypeOK, spiVars, lineVars, gateVars
<1>2. ASSUME NEW tick \in Feed, OnRtnDepthMarketData(tick)
      PROVE  TypeOK'
  <2>1. tick \in Ticks
    BY FeedIs
  <2>2. market' \in [t : Nat, v : Nat]
    BY <1>2, <2>1 DEF OnRtnDepthMarketData, TypeOK, Ticks
  <2>3. CASE mapTick.v > tick.v
    BY <1>2, <2>2, <2>3 DEF OnRtnDepthMarketData, TypeOK, lineVars, gateVars
  <2>4. CASE ~(mapTick.v > tick.v)
    <3>1. mapTick' = Taken(tick) /\ md' = "call" /\ missed' = FALSE
      BY <1>2, <2>4 DEF OnRtnDepthMarketData
    <3>2. mapTick' \in [t : Nat, v : Nat, closed : BOOLEAN] /\ mapTick' # NoTick
      BY <2>1, <3>1, TicksAre
    <3> QED
      BY <1>2, <2>2, <3>1, <3>2 DEF OnRtnDepthMarketData, TypeOK, lineVars, gateVars
  <2> QED
    BY <2>3, <2>4
<1>3. CASE CountTick
  <2>1. tickCnt' \in 0 .. UnsetTimes + 1 /\ fresh' \in 0 .. UnsetTimes
    <3>1. tickCnt \in 0 .. UnsetTimes + 1 /\ fresh \in 0 .. UnsetTimes
      BY DEF TypeOK
    <3>2. /\ tickCnt' = (IF tickCnt > UnsetTimes THEN tickCnt ELSE tickCnt + 1)
          /\ fresh' = (IF fresh = UnsetTimes THEN fresh ELSE fresh + 1)
      BY <1>3 DEF CountTick
    <3>3. UnsetTimes \in Nat
      BY MarketAssumption
    <3> HIDE MarketAssumption
    <3> QED
      BY <3>1, <3>2, <3>3
  <2>2. md' \in {"push", "check"} /\ crossed' \in BOOLEAN /\ mapTick # NoTick
    BY <1>3 DEF CountTick, TypeOK
  <2> QED
    BY <1>3, <2>1, <2>2 DEF CountTick, TypeOK, lineVars
<1>4. CASE CheckCnt
  BY <1>4 DEF CheckCnt, TypeOK, lineVars, gateVars
<1>5. CASE SetStatus
  BY <1>5 DEF SetStatus, StatusOf, TypeOK, lineVars
<1>6. CASE CompareStatus
  BY <1>6 DEF CompareStatus, TypeOK, lineVars
<1>7. CASE PushTick
  <2>1. mapTick \in [t : Nat, v : Nat, closed : BOOLEAN]
    BY <1>7 DEF PushTick, TypeOK
  <2>2. Tick(mapTick.t, mapTick.v) \in [t : Nat, v : Nat]
    BY <2>1, TicksAre DEF Ticks
  <2> QED
    BY <1>7, <2>2 DEF PushTick, TypeOK, lineVars, gateVars
<1>8. CASE OnRtnInstrumentStatus
  <2>1. ASSUME NEW s \in {"closed", "continuous"}, StatusSet(s)
        PROVE  TypeOK'
    <3>1. events' \in 0 .. MaxEvents
      BY <2>1 DEF StatusSet, TypeOK
    <3> QED
      BY <2>1, <3>1 DEF StatusSet, TypeOK, spiVars, lineVars
  <2>2. CASE StatusClear
    <3>1. tickCnt' \in 0 .. UnsetTimes + 1 /\ fresh' \in 0 .. UnsetTimes
      BY <2>2 DEF StatusClear
    <3>2. crossed' \in BOOLEAN
      BY <2>2 DEF StatusClear
    <3> QED
      BY <2>2, <3>1, <3>2 DEF StatusClear, TypeOK, spiVars, lineVars
  <2> QED
    BY <1>8, <2>1, <2>2 DEF OnRtnInstrumentStatus
<1>9. CASE CalcLineK
  <2> DEFINE tick == Head(cqLineKTick)
  <2>1. tick \in Ticks /\ tick.v > 0 /\ Tail(cqLineKTick) \in Seq(Ticks)
    BY <1>9, HeadIs DEF CalcLineK
  <2>2. lineK \in LineKs /\ db \in LineKs /\ backup \in LineKs /\ cqLineK \in Seq(LineKs)
    BY DEF TypeOK
  <2>3. lineK' \in LineKs
    BY <1>9, <2>1, <2>2, LoadedIs, CalculatedIs DEF CalcLineK
  <2>4. backup' \in LineKs
    BY <1>9, <2>2, <2>3 DEF CalcLineK
  <2>5. cqLineK' \in Seq(LineKs)
    BY <1>9, <2>2 DEF CalcLineK
  <2>6. cqLineKTick' \in Seq([t : Nat, v : Nat])
    BY <1>9, <2>1 DEF CalcLineK, Ticks
  <2> QED
    BY <1>9, <2>3, <2>4, <2>5, <2>6 DEF CalcLineK, TypeOK, gateVars
<1>10. CASE OnLineK
  <2>1. db \in LineKs /\ \A i \in DOMAIN cqLineK : cqLineK[i] \in LineKs
    BY StateIs
  <2>2. db' \in LineKs
    BY <1>10, <2>1 DEF OnLineK
  <2>3. cqLineK' \in Seq(LineKs) /\ unsaved' \in BOOLEAN
    BY <1>10 DEF OnLineK
  <2>4. /\ th' \in [pc : {"drain", "rest", "mark", "invent"}, swept : Nat,
                    tick : [t : Nat, v : Nat] \cup {NoTick}]
        /\ th'.pc = "rest"
    BY <1>10 DEF OnLineK, TypeOK
  <2> QED
    BY <1>10, <2>2, <2>3, <2>4 DEF OnLineK, TypeOK, spiVars, gateVars
<1>11. CASE Rest
  BY <1>11 DEF Rest, TypeOK, spiVars, gateVars
<1>12. CASE LineKWay
  <2>1. CASE mapTick # NoTick /\ ~mapTick.closed /\ Overdue(mapTick)
    <3>1. Tick(mapTick.t, mapTick.v) \in [t : Nat, v : Nat]
      BY <2>1, TicksAre DEF TypeOK, Ticks
    <3>2. th' = [pc |-> "mark", tick |-> Tick(mapTick.t, mapTick.v), swept |-> now]
      BY <1>12, <2>1 DEF LineKWay
    <3> QED
      BY <1>12, <3>1, <3>2 DEF LineKWay, TypeOK, spiVars, gateVars
  <2>2. CASE ~(mapTick # NoTick /\ ~mapTick.closed /\ Overdue(mapTick))
    BY <1>12, <2>2 DEF LineKWay, TypeOK, spiVars, gateVars
  <2> QED
    BY <2>1, <2>2
<1>13. CASE MarkTick
  <2>1. mapTick \in [t : Nat, v : Nat, closed : BOOLEAN]
    BY <1>13 DEF MarkTick, TypeOK, TicksSound
  <2>2. mapTick' \in [t : Nat, v : Nat, closed : BOOLEAN]
    BY <1>13, <2>1 DEF MarkTick
  <2>3. missed' \in BOOLEAN
    BY <1>13 DEF MarkTick
  <2>4. mapTick' # NoTick
    BY <2>2, TicksAre
  <2>5. /\ th' \in [pc : {"drain", "rest", "mark", "invent"}, swept : Nat,
                    tick : [t : Nat, v : Nat] \cup {NoTick}]
        /\ th'.pc = "invent" /\ th'.tick = th.tick
    BY <1>13 DEF MarkTick, TypeOK
  <2>6. th'.tick \in [t : Nat, v : Nat]
    BY <1>13, <2>5 DEF MarkTick, TypeOK
  <2> QED
    BY <1>13, <2>2, <2>3, <2>4, <2>5, <2>6 DEF MarkTick, TypeOK, gateVars
<1>14. CASE InventTick
  <2>1. th.tick \in [t : Nat, v : Nat]
    BY <1>14 DEF InventTick, TypeOK
  <2>2. Tick(th.tick.t + Invented, th.tick.v) \in [t : Nat, v : Nat]
    BY <2>1 DEF Tick
  <2>3. cqLineKTick' \in Seq([t : Nat, v : Nat])
    BY <1>14, <2>2 DEF InventTick, TypeOK
  <2>4. /\ th' \in [pc : {"drain", "rest", "mark", "invent"}, swept : Nat,
                    tick : [t : Nat, v : Nat] \cup {NoTick}]
        /\ th'.pc = "drain"
    BY <1>14 DEF InventTick, TypeOK
  <2> QED
    BY <1>14, <2>3, <2>4 DEF InventTick, TypeOK, gateVars
<1>15. CASE Crash
  <2>1. <<>> \in Seq([t : Nat, v : Nat]) /\ <<>> \in Seq(LineKs)
    OBVIOUS
  <2>2. events' \in 0 .. MaxEvents /\ 0 \in 0 .. UnsetTimes + 1 /\ 0 \in 0 .. UnsetTimes
    BY <1>15 DEF Crash, TypeOK
  <2>3. now' \in Nat /\ market' \in [t : Nat, v : Nat] /\ db' \in LineKs
    BY <1>15 DEF Crash, TypeOK
  <2>4. /\ th' \in [pc : {"drain", "rest", "mark", "invent"}, swept : Nat,
                    tick : [t : Nat, v : Nat] \cup {NoTick}]
        /\ th'.pc = "drain"
    BY <1>15 DEF Crash, TypeOK
  <2> QED
    BY <1>15, <2>1, <2>2, <2>3, <2>4, ZeroIs DEF Crash, TypeOK
<1>16. CASE UNCHANGED vars
  BY <1>16 DEF vars, spiVars, lineVars, gateVars, TypeOK
<1> QED
  BY <1>1, <1>2, <1>3, <1>4, <1>5, <1>6, <1>7, <1>8, <1>9, <1>10, <1>11, <1>12, <1>13,
     <1>14, <1>15, <1>16 DEF Next, Md, ThreadLineK

(* What is appended is at the end, and first only in an empty queue.       *)
LEMMA AppendIs ==
    ASSUME NEW S, NEW q \in Seq(S), NEW x \in S
    PROVE  /\ Append(q, x) \in Seq(S) /\ Append(q, x) # <<>>
           /\ Head(Append(q, x)) = IF q = <<>> THEN x ELSE Head(q)
           /\ \A i \in DOMAIN Append(q, x) :
                  (i \in DOMAIN q /\ Append(q, x)[i] = q[i]) \/ Append(q, x)[i] = x
<1>1. /\ Append(q, x) \in Seq(S) /\ Len(Append(q, x)) = Len(q) + 1 /\ Len(q) \in Nat
      /\ DOMAIN q = 1 .. Len(q)
      /\ \A i \in 1 .. Len(q) : Append(q, x)[i] = q[i]
      /\ Append(q, x)[Len(q) + 1] = x
  OBVIOUS
<1>2. DOMAIN Append(q, x) = 1 .. Len(q) + 1
  BY <1>1
<1>3. Append(q, x) # <<>> /\ Head(Append(q, x)) = Append(q, x)[1]
  BY <1>1
<1>4. q = <<>> => Len(q) = 0
  OBVIOUS
<1>5. q # <<>> => Head(q) = q[1] /\ 1 \in 1 .. Len(q)
  OBVIOUS
<1> QED
  BY <1>1, <1>2, <1>3, <1>4, <1>5

(* The tick that spi takes.                                                *)
LEMMA TakenIs ==
    ASSUME TypeOK, TicksSound, NEW tick \in Feed, OnRtnDepthMarketData(tick)
    PROVE  /\ market'.v \in Nat /\ market.v <= market'.v
           /\ \/ UNCHANGED <<mapTick, md>>
              \/ /\ mapTick' = Taken(tick) /\ mapTick'.v = tick.v /\ mapTick' # NoTick
                 /\ md = "idle" /\ md' = "call"
                 /\ 0 < tick.v /\ tick.v <= market'.v
                 /\ mapTick = NoTick => market.v <= tick.v
                 /\ mapTick # NoTick => mapTick.v <= tick.v
<1>1. tick \in Ticks /\ tick.v \in Nat /\ tick.v > 0 /\ market.v \in Nat
  BY FeedIs DEF Ticks, TypeOK
<1>2. mapTick = NoTick => tick.v >= market.v
  BY FeedIs
<1>3. /\ Taken(tick) \in [t : Nat, v : Nat, closed : BOOLEAN] /\ Taken(tick).v = tick.v
      /\ Taken(tick) # NoTick
  BY <1>1, TicksAre
<1>4. /\ market' = IF tick.v < market.v THEN market ELSE tick
      /\ IF mapTick.v > tick.v THEN UNCHANGED <<mapTick, md>>
         ELSE mapTick' = Taken(tick) /\ md = "idle" /\ md' = "call"
  BY DEF OnRtnDepthMarketData
<1>5. market'.v \in Nat /\ market.v <= market'.v /\ tick.v <= market'.v
  BY <1>1, <1>4
<1>6. mapTick # NoTick => mapTick.v \in Nat
  BY DEF TypeOK
<1> QED
  BY <1>1, <1>2, <1>3, <1>4, <1>5, <1>6

LEMMA TicksInductive ==
    ASSUME TypeOK, TicksSound, [Next]_vars
    PROVE  TicksSound'
<1>0. /\ cqLineKTick \in Seq(Ticks) /\ market.v \in Nat
      /\ mapTick # NoTick => mapTick \in [t : Nat, v : Nat, closed : BOOLEAN]
      /\ th.pc \in {"mark", "invent"} => th.tick \in Ticks
      /\ \A i \in DOMAIN cqLineKTick : cqLineKTick[i].v \in Nat
  BY StateIs DEF Ticks
<1>1. CASE /\ UNCHANGED <<market, cqLineKTick, mapTick>>
           /\ UNCHANGED th \/ th'.pc \notin {"mark", "invent"}
  BY <1>1 DEF TicksSound
<1>2. ASSUME NEW tick \in Feed, OnRtnDepthMarketData(tick)
      PROVE  TicksSound'
  <2>1. UNCHANGED <<cqLineKTick, th>>
    BY <1>2 DEF OnRtnDepthMarketData, lineVars
  <2>2. market'.v \in Nat /\ market.v <= market'.v /\ market'.v > 0
    BY <1>0, <1>2, TakenIs DEF TicksSound
  <2>3. \A i \in DOMAIN cqLineKTick' : 0 < cqLineKTick'[i].v /\ cqLineKTick'[i].v <= market'.v
    BY <1>0, <2>1, <2>2 DEF TicksSound
  <2>4. tick.v \in Nat
    BY FeedIs DEF Ticks
  <2>5. mapTick' # NoTick => 0 < mapTick'.v /\ mapTick'.v <= market'.v
    BY <1>0, <1>2, <2>2, <2>4, TakenIs DEF TicksSound
  <2>6. th.pc \in {"mark", "invent"} =>
            mapTick' # NoTick /\ 0 < th.tick.v /\ th.tick.v <= mapTick'.v
    <3> SUFFICES ASSUME th.pc \in {"mark", "invent"}
                 PROVE  mapTick' # NoTick /\ 0 < th.tick.v /\ th.tick.v <= mapTick'.v
      OBVIOUS
    <3>1. /\ mapTick # NoTick /\ mapTick.v \in Nat /\ th.tick.v \in Nat
          /\ 0 < th.tick.v /\ th.tick.v <= mapTick.v
      BY <1>0 DEF TicksSound, Ticks
    <3> QED
      BY <1>2, <2>4, <3>1, TakenIs
  <2> QED
    BY <2>1, <2>2, <2>3, <2>5, <2>6 DEF TicksSound
<1>3. CASE PushTick
  <2> DEFINE new == Tick(mapTick.t, mapTick.v)
  <2>1. mapTick # NoTick
    BY <1>3 DEF PushTick, TypeOK
  <2>2. new \in Ticks /\ new.v = mapTick.v
    BY <1>0, <2>1 DEF Tick, Ticks
  <2>3. cqLineKTick' = Append(cqLineKTick, new) /\ UNCHANGED <<market, mapTick, th>>
    BY <1>3 DEF PushTick, lineVars
  <2>4. 0 < new.v /\ new.v <= market.v
    BY <2>1, <2>2 DEF TicksSound
  <2> HIDE DEF new
  <2>5. \A i \in DOMAIN cqLineKTick' : 0 < cqLineKTick'[i].v /\ cqLineKTick'[i].v <= market.v
    BY <1>0, <2>2, <2>3, <2>4, AppendIs DEF TicksSound
  <2> QED
    BY <2>3, <2>5 DEF TicksSound
<1>4. CASE CalcLineK
  <2>1. cqLineKTick # <<>> /\ cqLineKTick' = Tail(cqLineKTick) /\ UNCHANGED <<market, mapTick, th>>
    BY <1>4 DEF CalcLineK
  <2>2. \A i \in DOMAIN cqLineKTick' : 0 < cqLineKTick'[i].v /\ cqLineKTick'[i].v <= market.v
    BY <2>1, HeadIs DEF TicksSound
  <2> QED
    BY <2>1, <2>2 DEF TicksSound
<1>5. CASE LineKWay
  <2>1. UNCHANGED <<market, mapTick, cqLineKTick>>
    BY <1>5 DEF LineKWay, spiVars
  <2>2. \/ th'.pc = "drain"
        \/ mapTick # NoTick /\ th'.tick = Tick(mapTick.t, mapTick.v)
    BY <1>5 DEF LineKWay, TypeOK
  <2>3. th'.pc # "drain" => th'.tick.v = mapTick.v /\ mapTick.v \in Nat
    BY <1>0, <2>2 DEF Tick
  <2> QED
    BY <2>1, <2>2, <2>3 DEF TicksSound
<1>6. CASE MarkTick
  <2>1. /\ UNCHANGED <<market, cqLineKTick>>
        /\ th.pc = "mark" /\ th'.tick = th.tick
        /\ mapTick' = [mapTick EXCEPT !.closed = TRUE]
    BY <1>6 DEF MarkTick, TypeOK
  <2>2. mapTick # NoTick
    BY <2>1 DEF TicksSound
  <2>3. mapTick' \in [t : Nat, v : Nat, closed : BOOLEAN] /\ mapTick'.v = mapTick.v
    BY <1>0, <2>1, <2>2
  <2>4. mapTick' # NoTick
    BY <2>3, TicksAre
  <2> QED
    BY <2>1, <2>2, <2>3, <2>4 DEF TicksSound
<1>7. CASE InventTick
  <2> DEFINE new == Tick(th.tick.t + Invented, th.tick.v)
  <2>1. th.pc = "invent" /\ th.tick \in Ticks
    BY <1>0, <1>7 DEF InventTick
  <2>2. new \in Ticks /\ new.v = th.tick.v
    BY <2>1, MarketAssumption DEF Tick, Ticks
  <2>3. /\ cqLineKTick' = Append(cqLineKTick, new) /\ UNCHANGED <<market, mapTick>>
        /\ th'.pc = "drain"
    BY <1>7 DEF InventTick, TypeOK
  <2>4. mapTick # NoTick /\ 0 < th.tick.v /\ th.tick.v <= mapTick.v /\ mapTick.v <= market.v
    BY <2>1 DEF TicksSound
  <2>5. th.tick.v \in Nat /\ mapTick.v \in Nat
    BY <1>0, <2>1, <2>4 DEF Ticks
  <2>6. 0 < new.v /\ new.v <= market.v
    BY <1>0, <2>2, <2>4, <2>5
  <2> HIDE DEF new
  <2>7. \A i \in DOMAIN cqLineKTick' : 0 < cqLineKTick'[i].v /\ cqLineKTick'[i].v <= market.v
    BY <1>0, <2>2, <2>3, <2>6, AppendIs DEF TicksSound
  <2> QED
    BY <2>3, <2>7 DEF TicksSound
<1>8. CASE Crash
  <2>1. mapTick' = NoTick /\ cqLineKTick' = <<>> /\ th'.pc = "drain" /\ market' = market
    BY <1>8 DEF Crash
  <2> QED
    BY <2>1 DEF TicksSound
<1>9. CASE CountTick \/ CheckCnt \/ SetStatus \/ CompareStatus
  BY <1>1, <1>9 DEF CountTick, CheckCnt, SetStatus, CompareStatus, lineVars, gateVars
<1>10. CASE OnRtnInstrumentStatus \/ Clock \/ UNCHANGED vars
  BY <1>1, <1>10 DEF OnRtnInstrumentStatus, StatusSet, StatusClear, Clock, vars, spiVars, lineVars
<1>11. CASE OnLineK \/ Rest
  <2>1. UNCHANGED spiVars /\ UNCHANGED market /\ th'.pc \in {"rest", "drain"}
    BY <1>11 DEF OnLineK, Rest, TypeOK
  <2> QED
    BY <1>1, <2>1 DEF spiVars
<1> QED
  BY <1>2, <1>3, <1>4, <1>5, <1>6, <1>7, <1>8, <1>9, <1>10, <1>11 DEF Next, Md, ThreadLineK

(* No step makes room for a tick with less volume.                         *)
LEMMA AllFromKept ==
    ASSUME TypeOK, TicksSound, [Next]_vars, NEW v \in Nat, AllFrom(v)
    PROVE  AllFrom(v)'
<1>0. /\ cqLineKTick \in Seq(Ticks) /\ market.v \in Nat
      /\ mapTick # NoTick => mapTick.v \in Nat /\ v <= mapTick.v
      /\ mapTick = NoTick => v <= market.v
      /\ th.pc \in {"mark", "invent"} => th.tick.v \in Nat /\ v <= th.tick.v
      /\ \A i \in DOMAIN cqLineKTick : v <= cqLineKTick[i].v
  BY StateIs DEF Ticks, AllFrom
<1>1. CASE /\ UNCHANGED <<market, cqLineKTick, mapTick>>
           /\ UNCHANGED th \/ th'.pc \notin {"mark", "invent"}
  BY <1>1 DEF AllFrom
<1>2. ASSUME NEW tick \in Feed, OnRtnDepthMarketData(tick)
      PROVE  AllFrom(v)'
  <2>1. UNCHANGED <<cqLineKTick, th>>
    BY <1>2 DEF OnRtnDepthMarketData, lineVars
  <2>2. market'.v \in Nat /\ market.v <= market'.v /\ tick.v \in Nat
    BY <1>2, TakenIs, FeedIs DEF Ticks
  <2>3. IF mapTick' = NoTick THEN v <= market'.v ELSE v <= mapTick'.v
    BY <1>0, <1>2, <2>2, TakenIs
  <2> QED
    BY <1>0, <2>1, <2>3 DEF AllFrom
<1>3. CASE PushTick
  <2> DEFINE new == Tick(mapTick.t, mapTick.v)
  <2>1. mapTick # NoTick
    BY <1>3 DEF PushTick, TypeOK
  <2>2. new \in Ticks /\ v <= new.v
    BY <1>0, <2>1, StateIs DEF Tick, Ticks
  <2>3. cqLineKTick' = Append(cqLineKTick, new) /\ UNCHANGED <<market, mapTick, th>>
    BY <1>3 DEF PushTick, lineVars
  <2> HIDE DEF new
  <2>4. \A i \in DOMAIN cqLineKTick' : v <= cqLineKTick'[i].v
    BY <1>0, <2>2, <2>3, AppendIs
  <2> QED
    BY <1>0, <2>3, <2>4 DEF AllFrom
<1>4. CASE CalcLineK
  <2>1. cqLineKTick # <<>> /\ cqLineKTick' = Tail(cqLineKTick) /\ UNCHANGED <<market, mapTick, th>>
    BY <1>4 DEF CalcLineK
  <2>2. \A i \in DOMAIN cqLineKTick' : v <= cqLineKTick'[i].v
    BY <1>0, <2>1, HeadIs
  <2> QED
    BY <1>0, <2>1, <2>2 DEF AllFrom
<1>5. CASE LineKWay
  <2>1. UNCHANGED <<market, mapTick, cqLineKTick>>
    BY <1>5 DEF LineKWay, spiVars
  <2>2. \/ th'.pc = "drain"
        \/ mapTick # NoTick /\ th'.tick = Tick(mapTick.t, mapTick.v)
    BY <1>5 DEF LineKWay, TypeOK
  <2>3. th'.pc # "drain" => v <= th'.tick.v
    BY <1>0, <2>2 DEF Tick
  <2> QED
    BY <1>0, <2>1, <2>3 DEF AllFrom
<1>6. CASE MarkTick
  <2>1. /\ UNCHANGED <<market, cqLineKTick>>
        /\ th.pc = "mark" /\ th'.tick = th.tick
        /\ mapTick' = [mapTick EXCEPT !.closed = TRUE]
    BY <1>6 DEF MarkTick, TypeOK
  <2>2. mapTick # NoTick
    BY <2>1 DEF TicksSound
  <2>3. mapTick' \in [t : Nat, v : Nat, closed : BOOLEAN] /\ mapTick'.v = mapTick.v
    BY <2>1, <2>2, StateIs
  <2>4. mapTick' # NoTick
    BY <2>3, TicksAre
  <2> QED
    BY <1>0, <2>1, <2>2, <2>3, <2>4 DEF AllFrom
<1>7. CASE InventTick
  <2> DEFINE new == Tick(th.tick.t + Invented, th.tick.v)
  <2>1. th.pc = "invent" /\ th.tick \in Ticks
    BY <1>7, StateIs DEF InventTick
  <2>2. new \in Ticks /\ v <= new.v
    BY <1>0, <2>1, MarketAssumption DEF Tick, Ticks
  <2>3. /\ cqLineKTick' = Append(cqLineKTick, new) /\ UNCHANGED <<market, mapTick>>
        /\ th'.pc = "drain"
    BY <1>7 DEF InventTick, TypeOK
  <2> HIDE DEF new
  <2>4. \A i \in DOMAIN cqLineKTick' : v <= cqLineKTick'[i].v
    BY <1>0, <2>2, <2>3, AppendIs
  <2> QED
    BY <1>0, <2>3, <2>4 DEF AllFrom
<1>8. CASE Crash
  <2>1. mapTick' = NoTick /\ cqLineKTick' = <<>> /\ th'.pc = "drain" /\ market' = market
    BY <1>8 DEF Crash
  <2>2. mapTick # NoTick => mapTick.v <= market.v
    BY DEF TicksSound
  <2>3. v <= market.v
    BY <1>0, <2>2
  <2> QED
    BY <2>1, <2>3 DEF AllFrom
<1>9. CASE CountTick \/ CheckCnt \/ SetStatus \/ CompareStatus
  BY <1>1, <1>9 DEF CountTick, CheckCnt, SetStatus, CompareStatus, lineVars, gateVars
<1>10. CASE OnRtnInstrumentStatus \/ Clock \/ UNCHANGED vars
  BY <1>1, <1>10 DEF OnRtnInstrumentStatus, StatusSet, StatusClear, Clock, vars, spiVars, lineVars
<1>11. CASE OnLineK \/ Rest
  <2>1. UNCHANGED spiVars /\ UNCHANGED market /\ th'.pc \in {"rest", "drain"}
    BY <1>11 DEF OnLineK, Rest, TypeOK
  <2> QED
    BY <1>1, <2>1 DEF spiVars
<1> QED
  BY <1>2, <1>3, <1>4, <1>5, <1>6, <1>7, <1>8, <1>9, <1>10, <1>11 DEF Next, Md, ThreadLineK

(* A tick leaves a K-line that its copy equals, and every bar either as it *)
(* was or with the tick's volume.                                          *)
LEMMA CalcIs ==
    ASSUME LineInv, CalcLineK, NEW tick, tick = Head(cqLineKTick)
    PROVE  /\ tick \in Ticks /\ tick.v \in Nat /\ tick.v > 0 /\ tick.v <= market.v
           /\ db' = db /\ lineK' \in LineKs /\ lineK'.t \in Nat /\ lineK' = backup'
           /\ lineK = NoLineK =>
                  /\ lineK' = Loaded(lineK, tick) /\ cqLineK' = <<>>
                  /\ \A y \in Types : /\ lineK'.vol[y] \in {tick.v, db.vol[y]}
                                      /\ db.vol[y] <= lineK'.vol[y]
           /\ lineK # NoLineK =>
                  /\ lineK' = Calculated(lineK, tick)
                  /\ cqLineK' \in {cqLineK, Append(cqLineK, lineK)}
                  /\ lineK' = lineK \/ \A y \in Types : lineK'.vol[y] = tick.v
                  /\ \A y \in Types : /\ lineK'.vol[y] \in {tick.v, lineK.vol[y]}
                                      /\ lineK.vol[y] <= lineK'.vol[y]
<1> USE DEF LineInv
<1>1. cqLineKTick # <<>> /\ db' = db
  BY DEF CalcLineK
<1>2. tick \in Ticks /\ tick.v \in Nat /\ tick.v > 0 /\ tick.v <= market.v /\ tick.t \in Nat
  BY <1>1, HeadIs DEF Ticks
<1>3. lineK \in LineKs /\ db \in LineKs /\ lineK = backup
  BY StateIs DEF NeverHalfDone
<1>4. \A y \in Types : lineK.vol[y] \in Nat /\ db.vol[y] \in Nat
  BY <1>3 DEF LineKs
<1>5. tick = cqLineKTick[1] /\ 1 \in DOMAIN cqLineKTick
  BY <1>1, StateIs
<1>6. CASE lineK = NoLineK
  <2>1. lineK' = Loaded(lineK, tick) /\ backup' = lineK' /\ cqLineK' = cqLineK /\ cqLineK = <<>>
    BY <1>6 DEF CalcLineK, LinesSound
  <2>2. LoadLineK(lineK) = db
    BY <1>6 DEF LoadLineK
  <2>3. /\ lineK' \in LineKs /\ lineK'.t = tick.t
        /\ \A y \in Types : lineK'.vol[y] \in {tick.v, db.vol[y]}
    BY <1>2, <1>3, <2>1, <2>2, LoadedIs
  <2>4. \A y \in Types : db.vol[y] <= tick.v
    BY <1>5, <1>6 DEF FirstIsLeast, AllFrom
  <2> QED
    BY <1>1, <1>2, <1>4, <1>6, <2>1, <2>3, <2>4
<1>7. CASE lineK # NoLineK
  <2>1. /\ lineK' = Calculated(lineK, tick)
        /\ backup' = IF Reached(lineK, tick) = Types THEN lineK' ELSE backup
        /\ cqLineK' \in {cqLineK, Append(cqLineK, lineK)}
    BY <1>3, <1>7 DEF CalcLineK
  <2>2. lineK.t \in Nat
    BY <1>7 DEF LinesSound
  <2>3. /\ lineK' \in LineKs /\ lineK'.t \in Nat
        /\ \A y \in Types : /\ lineK'.vol[y] \in {tick.v, lineK.vol[y]}
                            /\ lineK.vol[y] <= lineK'.vol[y]
    BY <1>2, <1>3, <2>1, <2>2, CalculatedIs
  <2>4. Reached(lineK, tick) \in {Types, {}}
    <3>1. CASE \A y \in Types : lineK.vol[y] <= tick.v
      BY <1>2, <1>3, <3>1, ReachedAll
    <3>2. CASE ~ \A y \in Types : lineK.vol[y] <= tick.v
      <4>1. ~ \A y \in Types : AllFrom(lineK.vol[y])
        BY <1>5, <3>2 DEF AllFrom
      <4>2. \A y \in Types : lineK.vol[y] = lineK.vol[MINUTE]
        BY <1>7, <4>1 DEF BarsLevel
      <4>3. lineK.vol[MINUTE] > tick.v
        BY <1>2, <1>4, <3>2, <4>2, TypesAre
      <4> QED
        BY <1>2, <1>3, <4>3, ReachedNone
    <3> QED
      BY <3>1, <3>2
  <2>5. CASE Reached(lineK, tick) = Types
    <3>1. \A y \in Types : lineK'.vol[y] = tick.v
      BY <2>1, <2>5, CalculatedAll
    <3> QED
      BY <1>1, <1>2, <1>7, <2>1, <2>3, <2>5, <3>1
  <2>6. CASE Reached(lineK, tick) = {}
    <3>1. lineK' = lineK
      BY <1>2, <1>3, <2>1, <2>6, CalculatedNone
    <3>2. backup' = backup
      BY <2>1, <2>6, TypesAre
    <3> QED
      BY <1>1, <1>2, <1>3, <1>7, <2>1, <2>3, <3>1, <3>2
  <2> QED
    BY <2>4, <2>5, <2>6
<1> QED
  BY <1>6, <1>7

(* The volume traded never becomes less.                                   *)
LEMMA MarketGrows ==
    ASSUME TypeOK, TicksSound, [Next]_vars
    PROVE  market'.v \in Nat /\ market.v <= market'.v
<1>0. market.v \in Nat
  BY StateIs
<1>1. ASSUME NEW tick \in Feed, OnRtnDepthMarketData(tick)
      PROVE  market'.v \in Nat /\ market.v <= market'.v
  BY <1>1, TakenIs
<1>2. CASE UNCHANGED market
  BY <1>0, <1>2
<1> QED
  BY <1>1, <1>2 DEF Next, Md, ThreadLineK, Clock, CountTick, CheckCnt, SetStatus, CompareStatus,
     PushTick, OnRtnInstrumentStatus, StatusSet, StatusClear, CalcLineK, OnLineK, Rest, LineKWay,
     MarkTick, InventTick, Crash, vars

(* Most steps leave the K-lines alone.                                     *)
LEMMA LineSteps ==
    ASSUME [Next]_vars
    PROVE  CalcLineK \/ OnLineK \/ Crash \/ UNCHANGED <<lineK, backup, cqLineK, db>>
  BY DEF Next, Md, ThreadLineK, Clock, OnRtnDepthMarketData, CountTick, CheckCnt, SetStatus,
     CompareStatus, PushTick, OnRtnInstrumentStatus, StatusSet, StatusClear, CalcLineK, OnLineK,
     Rest, LineKWay, MarkTick, InventTick, Crash, vars, lineVars

(* Most steps leave the queue of ticks alone.                              *)
LEMMA QueueSteps ==
    ASSUME [Next]_vars
    PROVE  PushTick \/ CalcLineK \/ InventTick \/ Crash \/ UNCHANGED cqLineKTick
  BY DEF Next, Md, ThreadLineK, Clock, OnRtnDepthMarketData, CountTick, CheckCnt, SetStatus,
     CompareStatus, PushTick, OnRtnInstrumentStatus, StatusSet, StatusClear, CalcLineK, OnLineK,
     Rest, LineKWay, MarkTick, InventTick, Crash, vars, spiVars

(* What OnLineK saves waited to be saved.                                  *)
LEMMA SavedIs ==
    ASSUME TypeOK, OnLineK
    PROVE  /\ \/ db' = db
              \/ \E i \in DOMAIN cqLineK : db' = cqLineK[i]
           /\ cqLineK = <<>> => db' = db
           /\ cqLineK' = <<>> /\ UNCHANGED <<lineK, backup, spiVars, market>>
           /\ th'.pc = "rest"
<1>1. cqLineK = <<>> => DOMAIN cqLineK = {}
  OBVIOUS
<1>2. th'.pc = "rest"
  BY DEF OnLineK, TypeOK
<1> QED
  BY <1>1, <1>2 DEF OnLineK

LEMMA LinesInductive ==
    ASSUME LineInv, [Next]_vars
    PROVE  LinesSound'
<1>0. /\ lineK \in LineKs /\ db \in LineKs /\ cqLineK \in Seq(LineKs) /\ LinesSound
      /\ \A y \in Types : lineK.vol[y] \in Nat /\ db.vol[y] \in Nat
      /\ \A i \in DOMAIN cqLineK : \A y \in Types : cqLineK[i].vol[y] \in Nat
  <2>1. /\ lineK \in LineKs /\ db \in LineKs /\ cqLineK \in Seq(LineKs)
        /\ \A i \in DOMAIN cqLineK : cqLineK[i] \in LineKs
    BY StateIs DEF LineInv
  <2> QED
    BY <2>1 DEF LineKs, LineInv
<1>1. market.v \in Nat /\ market'.v \in Nat /\ market.v <= market'.v
  BY MarketGrows, StateIs DEF LineInv
<1>2. CASE UNCHANGED <<lineK, backup, cqLineK, db>>
  <2>1. \A y \in Types : db.vol[y] <= market'.v /\ lineK.vol[y] <= market'.v
    BY <1>0, <1>1 DEF LinesSound
  <2> QED
    BY <1>0, <1>2, <2>1 DEF LinesSound
<1>3. CASE CalcLineK
  <2> DEFINE tick == Head(cqLineKTick)
  <2>1. /\ tick.v \in Nat /\ tick.v <= market.v
        /\ db' = db /\ lineK' \in LineKs /\ lineK'.t \in Nat
    BY <1>3, CalcIs
  <2>2. lineK' # NoLineK /\ \A y \in Types : lineK'.vol[y] \in Nat
    BY <2>1, ZeroIs DEF LineKs
  <2>3. CASE lineK = NoLineK
    <3>1. /\ cqLineK' = <<>>
          /\ \A y \in Types : /\ lineK'.vol[y] \in {tick.v, db.vol[y]}
                              /\ db.vol[y] <= lineK'.vol[y]
      BY <1>3, <2>3, CalcIs
    <3>2. \A y \in Types : db.vol[y] <= market'.v /\ lineK'.vol[y] <= market'.v
      BY <1>0, <1>1, <2>1, <3>1 DEF LinesSound
    <3>3. Older(db, lineK')
      BY <3>1 DEF Older
    <3> QED
      BY <2>1, <2>2, <3>1, <3>2, <3>3 DEF LinesSound
  <2>4. CASE lineK # NoLineK
    <3>1. /\ cqLineK' \in {cqLineK, Append(cqLineK, lineK)}
          /\ \A y \in Types : /\ lineK'.vol[y] \in {tick.v, lineK.vol[y]}
                              /\ lineK.vol[y] <= lineK'.vol[y]
      BY <1>3, <2>4, CalcIs
    <3>2. \A y \in Types : db.vol[y] <= market'.v /\ lineK'.vol[y] <= market'.v
      BY <1>0, <1>1, <2>1, <3>1 DEF LinesSound
    <3>3. Older(db, lineK) /\ Older(lineK, lineK') /\ Older(db, lineK')
      BY <1>0, <2>2, <2>4, <3>1 DEF LinesSound, Older
    <3>4. \A i \in DOMAIN cqLineK : Older(db, cqLineK[i]) /\ Older(cqLineK[i], lineK')
      BY <1>0, <2>2, <3>1 DEF LinesSound, Older
    <3>5. ASSUME NEW i \in DOMAIN cqLineK'
          PROVE  Older(db, cqLineK'[i]) /\ Older(cqLineK'[i], lineK')
      <4>1. CASE cqLineK' = cqLineK
        BY <3>4, <3>5, <4>1
      <4>2. CASE cqLineK' = Append(cqLineK, lineK)
        <5>1. (i \in DOMAIN cqLineK /\ cqLineK'[i] = cqLineK[i]) \/ cqLineK'[i] = lineK
          BY <1>0, <3>5, <4>2, AppendIs
        <5> QED
          BY <3>3, <3>4, <5>1
      <4> QED
        BY <3>1, <4>1, <4>2
    <3> QED
      BY <2>1, <2>2, <3>2, <3>3, <3>5 DEF LinesSound
  <2> QED
    BY <2>3, <2>4
<1>4. CASE OnLineK
  <2>1. /\ db' = db \/ \E i \in DOMAIN cqLineK : db' = cqLineK[i]
        /\ cqLineK = <<>> => db' = db
        /\ cqLineK' = <<>> /\ lineK' = lineK
    BY <1>4, SavedIs DEF LineInv
  <2>2. lineK # NoLineK => Older(db', lineK)
    BY <1>0, <2>1 DEF LinesSound
  <2>3. \A y \in Types : db'.vol[y] \in Nat
    BY <1>0, <2>1
  <2>4. \A y \in Types : db'.vol[y] <= market'.v /\ lineK.vol[y] <= market'.v
    <3>1. CASE lineK = NoLineK
      BY <1>0, <1>1, <2>1, <3>1 DEF LinesSound
    <3>2. CASE lineK # NoLineK
      BY <1>0, <1>1, <2>2, <2>3, <3>2 DEF LinesSound, Older
    <3> QED
      BY <3>1, <3>2
  <2> QED
    BY <1>0, <2>1, <2>2, <2>4 DEF LinesSound
<1>5. CASE Crash
  <2>1. lineK' = NoLineK /\ cqLineK' = <<>> /\ UNCHANGED <<db, market>>
    BY <1>5 DEF Crash
  <2>2. \A y \in Types : NoLineK.vol[y] = 0
    BY DEF NoLineK, Zero
  <2>3. \A y \in Types : db.vol[y] <= market.v /\ NoLineK.vol[y] <= market.v
    BY <1>0, <1>1, <2>2 DEF LinesSound
  <2> QED
    BY <2>1, <2>3 DEF LinesSound
<1> QED
  BY <1>2, <1>3, <1>4, <1>5, LineSteps

LEMMA BarsInductive ==
    ASSUME LineInv, [Next]_vars
    PROVE  BarsLevel' /\ NeverHalfDone'
<1>0. /\ \A y \in Types : lineK.vol[y] \in Nat /\ db.vol[y] \in Nat
      /\ \A i \in DOMAIN cqLineKTick : cqLineKTick[i].v \in Nat
  BY StateIs DEF LineInv, LineKs, Ticks
<1>1. ASSUME NEW k, \A y \in Types : k.vol[y] \in Nat, \A y \in Types : AllFrom(k.vol[y]),
             lineK' = k
      PROVE  BarsLevel'
  <2>1. ASSUME NEW y \in Types
        PROVE  AllFrom(lineK.vol[y])'
    <3>1. PICK v \in Nat : v = k.vol[y]
      BY <1>1
    <3>2. AllFrom(v)'
      BY <1>1, <3>1, AllFromKept DEF LineInv
    <3> QED
      BY <1>1, <3>1, <3>2 DEF AllFrom
  <2> QED
    BY <2>1 DEF BarsLevel
<1>2. ASSUME lineK' = lineK, lineK # NoLineK
      PROVE  BarsLevel'
  <2>1. CASE \A y \in Types : lineK.vol[y] = lineK.vol[MINUTE]
    BY <1>2, <2>1 DEF BarsLevel
  <2>2. CASE \A y \in Types : AllFrom(lineK.vol[y])
    <3>1. PICK k : k = lineK
      OBVIOUS
    <3>2. \A y \in Types : k.vol[y] \in Nat
      BY <1>0, <3>1
    <3>3. \A y \in Types : AllFrom(k.vol[y])
      BY <2>2, <3>1
    <3> QED
      BY <1>1, <1>2, <3>1, <3>2, <3>3
  <2> QED
    BY <1>2, <2>1, <2>2 DEF LineInv, BarsLevel
<1>3. CASE UNCHANGED <<lineK, backup>>
  BY <1>2, <1>3 DEF LineInv, NeverHalfDone, BarsLevel
<1>4. CASE CalcLineK
  <2> DEFINE tick == Head(cqLineKTick)
  <2>1. tick.v \in Nat /\ lineK' \in LineKs /\ lineK' = backup'
    BY <1>4, CalcIs
  <2>2. CASE lineK = NoLineK
    <3>1. \A y \in Types : lineK'.vol[y] \in {tick.v, db.vol[y]}
      BY <1>4, <2>2, CalcIs
    <3>2. cqLineKTick # <<>>
      BY <1>4 DEF CalcLineK
    <3>3. AllFrom(tick.v) /\ \A y \in Types : AllFrom(db.vol[y])
      BY <2>2, <3>2 DEF LineInv, FirstIsLeast
    <3>4. PICK k : k = lineK'
      OBVIOUS
    <3>5. ASSUME NEW y \in Types
          PROVE  k.vol[y] \in Nat /\ AllFrom(k.vol[y])
      <4>1. k.vol[y] = tick.v \/ k.vol[y] = db.vol[y]
        BY <3>1, <3>4
      <4> QED
        BY <1>0, <2>1, <3>3, <4>1
    <3> QED
      BY <1>1, <2>1, <3>4, <3>5 DEF NeverHalfDone
  <2>3. CASE lineK # NoLineK
    <3>1. lineK' = lineK \/ \A y \in Types : lineK'.vol[y] = tick.v
      BY <1>4, <2>3, CalcIs
    <3>2. (\A y \in Types : lineK'.vol[y] = tick.v) => BarsLevel'
      BY TypesAre DEF BarsLevel
    <3> QED
      BY <1>2, <2>1, <2>3, <3>1, <3>2 DEF NeverHalfDone
  <2> QED
    BY <2>2, <2>3
<1>5. CASE OnLineK
  BY <1>3, <1>5 DEF OnLineK
<1>6. CASE Crash
  BY <1>6 DEF Crash, BarsLevel, NeverHalfDone
<1> QED
  BY <1>3, <1>4, <1>5, <1>6, LineSteps

LEMMA FirstInductive ==
    ASSUME LineInv, [Next]_vars
    PROVE  FirstIsLeast'
<1> SUFFICES ASSUME lineK' = NoLineK
             PROVE  FirstIsLeast'
  BY DEF FirstIsLeast
<1>0. /\ TypeOK /\ TicksSound
      /\ market.v \in Nat /\ cqLineKTick \in Seq(Ticks)
      /\ \A y \in Types : db.vol[y] \in Nat
      /\ mapTick # NoTick => mapTick.v \in Nat
      /\ th.pc \in {"mark", "invent"} => mapTick # NoTick /\ th.tick \in Ticks
  BY StateIs DEF LineInv, LineKs, Ticks, TicksSound
<1>1. CASE Crash
  <2>1. /\ mapTick' = NoTick /\ cqLineKTick' = <<>> /\ th'.pc = "drain"
        /\ UNCHANGED <<market, db>>
    BY <1>1 DEF Crash
  <2>2. \A y \in Types : db.vol[y] <= market.v
    BY DEF LineInv, LinesSound
  <2> QED
    BY <2>1, <2>2 DEF FirstIsLeast, AllFrom
<1>2. CASE ~Crash
  <2>1. ~CalcLineK
    <3> SUFFICES ASSUME CalcLineK
                 PROVE  FALSE
      OBVIOUS
    <3>1. lineK'.t \in Nat
      BY CalcIs
    <3> QED
      BY <3>1, ZeroIs
  <2>2. lineK = NoLineK /\ db' = db
    <3>1. CASE OnLineK
      BY <3>1, SavedIs DEF LineInv, LinesSound
    <3> QED
      BY <1>2, <2>1, <3>1, LineSteps
  <2>3. /\ \A y \in Types : AllFrom(db.vol[y])
        /\ cqLineKTick # <<>> => AllFrom(Head(cqLineKTick).v)
        /\ cqLineKTick = <<>> => /\ mapTick # NoTick => md # "idle"
                                 /\ th.pc \in {"mark", "invent"} => th.tick.v = mapTick.v
    BY <2>2 DEF LineInv, FirstIsLeast
  <2>4. ASSUME NEW y \in Types
        PROVE  AllFrom(db.vol[y])'
    <3>1. PICK v \in Nat : v = db.vol[y]
      BY <1>0
    <3>2. AllFrom(v)'
      BY <1>0, <2>3, <3>1, AllFromKept
    <3> QED
      BY <2>2, <3>1, <3>2 DEF AllFrom
  <2>5. CASE cqLineKTick # <<>>
    <3>1. Head(cqLineKTick) \in Ticks
      BY <1>0, <2>5, HeadIs
    <3>2. PICK v \in Nat : v = Head(cqLineKTick).v
      BY <3>1 DEF Ticks
    <3>3. AllFrom(v)'
      BY <1>0, <2>3, <2>5, <3>2, AllFromKept
    <3>4. cqLineKTick' # <<>> /\ Head(cqLineKTick') = Head(cqLineKTick)
      <4>1. ASSUME PushTick
            PROVE  cqLineKTick' # <<>> /\ Head(cqLineKTick') = Head(cqLineKTick)
        <5> DEFINE new == Tick(mapTick.t, mapTick.v)
        <5>1. mapTick # NoTick
          BY <1>0, <4>1 DEF PushTick, TypeOK
        <5>2. new \in Ticks
          BY <1>0, <5>1, StateIs DEF Tick, Ticks
        <5>3. cqLineKTick' = Append(cqLineKTick, new)
          BY <4>1 DEF PushTick
        <5> HIDE DEF new
        <5> QED
          BY <1>0, <2>5, <5>2, <5>3, AppendIs
      <4>2. ASSUME InventTick
            PROVE  cqLineKTick' # <<>> /\ Head(cqLineKTick') = Head(cqLineKTick)
        <5> DEFINE new == Tick(th.tick.t + Invented, th.tick.v)
        <5>1. th.tick \in Ticks
          BY <1>0, <4>2 DEF InventTick
        <5>3. new \in Ticks
          BY <5>1, MarketAssumption DEF Tick, Ticks
        <5>2. cqLineKTick' = Append(cqLineKTick, new)
          BY <4>2 DEF InventTick
        <5> HIDE DEF new
        <5> QED
          BY <1>0, <2>5, <5>2, <5>3, AppendIs
      <4>3. CASE UNCHANGED cqLineKTick
        BY <2>5, <4>3
      <4> QED
        BY <1>2, <2>1, <4>1, <4>2, <4>3, QueueSteps
    <3> QED
      BY <2>4, <3>2, <3>3, <3>4 DEF FirstIsLeast, AllFrom
  <2>6. CASE cqLineKTick = <<>>
    <3>1. CASE PushTick
      <4>1. PICK new : new = Tick(mapTick.t, mapTick.v)
        OBVIOUS
      <4>2. mapTick # NoTick /\ UNCHANGED <<market, mapTick, th>>
        BY <1>0, <3>1 DEF PushTick, TypeOK, lineVars
      <4>3. new.v = mapTick.v /\ new.v \in Nat
        BY <1>0, <4>1, <4>2 DEF Tick
      <4>4. cqLineKTick' = <<new>>
        BY <2>6, <3>1, <4>1 DEF PushTick
      <4>5. th.pc \in {"mark", "invent"} => th.tick.v = mapTick.v
        BY <2>3, <2>6
      <4>6. AllFrom(new.v)'
        BY <1>0, <4>2, <4>3, <4>4, <4>5 DEF AllFrom
      <4>7. Head(cqLineKTick') = new
        BY <4>4
      <4> QED
        BY <2>4, <4>4, <4>6, <4>7 DEF FirstIsLeast
    <3>2. CASE InventTick
      <4>1. PICK new : new = Tick(th.tick.t + Invented, th.tick.v)
        OBVIOUS
      <4>2. mapTick # NoTick /\ UNCHANGED <<market, mapTick>> /\ th'.pc = "drain"
        BY <1>0, <3>2 DEF InventTick, TypeOK
      <4>3. th.pc = "invent"
        BY <3>2 DEF InventTick
      <4>4. new.v = mapTick.v /\ new.v \in Nat
        BY <1>0, <2>3, <2>6, <4>1, <4>2, <4>3 DEF Tick
      <4>5. cqLineKTick' = <<new>>
        BY <2>6, <3>2, <4>1 DEF InventTick
      <4>6. AllFrom(new.v)'
        BY <1>0, <4>2, <4>4, <4>5 DEF AllFrom
      <4>7. Head(cqLineKTick') = new
        BY <4>5
      <4> QED
        BY <2>4, <4>5, <4>6, <4>7 DEF FirstIsLeast
    <3>3. ASSUME NEW tick \in Feed, OnRtnDepthMarketData(tick)
          PROVE  FirstIsLeast'
      <4>1. UNCHANGED <<cqLineKTick, th>>
        BY <3>3 DEF OnRtnDepthMarketData, lineVars
      <4>2. CASE UNCHANGED <<mapTick, md>>
        BY <2>3, <2>4, <2>6, <4>1, <4>2 DEF FirstIsLeast
      <4>3. CASE md = "idle" /\ md' = "call"
        <5>1. th.pc \notin {"mark", "invent"}
          BY <1>0, <2>3, <2>6, <4>3
        <5> QED
          BY <2>4, <2>6, <4>1, <4>3, <5>1 DEF FirstIsLeast
      <4> QED
        BY <1>0, <3>3, <4>2, <4>3, TakenIs
    <3>4. CASE LineKWay
      <4>1. UNCHANGED <<mapTick, md, cqLineKTick>>
        BY <3>4 DEF LineKWay, spiVars
      <4>2. \/ th'.pc = "drain"
            \/ mapTick # NoTick /\ th'.tick = Tick(mapTick.t, mapTick.v)
        BY <1>0, <3>4 DEF LineKWay, TypeOK
      <4>3. th'.pc # "drain" => th'.tick.v = mapTick.v
        BY <4>2 DEF Tick
      <4> QED
        BY <2>3, <2>4, <2>6, <4>1, <4>3 DEF FirstIsLeast
    <3>5. CASE MarkTick
      <4>1. /\ UNCHANGED <<md, cqLineKTick>>
            /\ th.pc = "mark" /\ th'.tick = th.tick
            /\ mapTick' = [mapTick EXCEPT !.closed = TRUE]
        BY <1>0, <3>5 DEF MarkTick, TypeOK
      <4>2. mapTick # NoTick /\ mapTick \in [t : Nat, v : Nat, closed : BOOLEAN]
        BY <1>0, <4>1, StateIs
      <4>3. mapTick'.v = mapTick.v
        BY <4>1, <4>2
      <4> QED
        BY <2>3, <2>4, <2>6, <4>1, <4>2, <4>3 DEF FirstIsLeast
    <3>6. CASE /\ UNCHANGED <<mapTick, cqLineKTick>>
               /\ md' # "idle" \/ md' = md
               /\ UNCHANGED th \/ th'.pc \notin {"mark", "invent"}
      BY <2>3, <2>4, <2>6, <3>6 DEF FirstIsLeast
    <3>7. CASE CountTick \/ CheckCnt \/ SetStatus \/ CompareStatus
      BY <3>6, <3>7 DEF CountTick, CheckCnt, SetStatus, CompareStatus, lineVars, gateVars
    <3>8. CASE OnRtnInstrumentStatus \/ Clock \/ UNCHANGED vars
      BY <3>6, <3>8 DEF OnRtnInstrumentStatus, StatusSet, StatusClear, Clock, vars, spiVars,
         lineVars
    <3>9. CASE OnLineK \/ Rest
      <4>1. UNCHANGED spiVars /\ th'.pc \in {"rest", "drain"}
        BY <1>0, <3>9 DEF OnLineK, Rest, TypeOK
      <4> QED
        BY <3>6, <4>1 DEF spiVars
    <3> QED
      BY <1>2, <2>1, <3>1, <3>2, <3>3, <3>4, <3>5, <3>7, <3>8, <3>9 DEF Next, Md, ThreadLineK
  <2> QED
    BY <2>5, <2>6
<1> QED
  BY <1>1, <1>2

(* The bars of what is calculated and of what waits to be saved stay right.*)
LEMMA ExactInductive ==
    ASSUME LineInv, BarsExact, [Next]_vars
    PROVE  BarsExact'
<1>0. lineK \in LineKs /\ db \in LineKs /\ cqLineK \in Seq(LineKs)
  BY StateIs DEF LineInv
<1>1. CASE UNCHANGED <<lineK, backup, cqLineK, db>>
  BY <1>1 DEF BarsExact
<1>2. CASE CalcLineK
  <2> DEFINE tick == Head(cqLineKTick)
  <2>1. tick \in Ticks /\ tick.v > 0 /\ db' = db
    BY <1>2, CalcIs
  <2>2. CASE lineK = NoLineK
    <3>1. lineK' = Loaded(lineK, tick) /\ cqLineK' = <<>>
      BY <1>2, <2>2, CalcIs
    <3>2. Exact(lineK')
      BY <1>0, <2>1, <3>1, LoadedExact DEF BarsExact
    <3> QED
      BY <2>1, <3>1, <3>2 DEF BarsExact
  <2>3. CASE lineK # NoLineK
    <3>1. lineK' = Calculated(lineK, tick) /\ cqLineK' \in {cqLineK, Append(cqLineK, lineK)}
      BY <1>2, <2>3, CalcIs
    <3>2. lineK.t # -1
      BY <2>3 DEF LineInv, LinesSound
    <3>3. Exact(lineK')
      BY <1>0, <2>1, <3>1, <3>2, CalculatedExact DEF BarsExact
    <3>4. ASSUME NEW i \in DOMAIN cqLineK'
          PROVE  Exact(cqLineK'[i])
      <4>1. CASE cqLineK' = cqLineK
        BY <3>4, <4>1 DEF BarsExact
      <4>2. CASE cqLineK' = Append(cqLineK, lineK)
        <5>1. (i \in DOMAIN cqLineK /\ cqLineK'[i] = cqLineK[i]) \/ cqLineK'[i] = lineK
          BY <1>0, <3>4, <4>2, AppendIs
        <5> QED
          BY <5>1 DEF BarsExact
      <4> QED
        BY <3>1, <4>1, <4>2
    <3> QED
      BY <2>1, <3>3, <3>4 DEF BarsExact
  <2> QED
    BY <2>2, <2>3
<1>3. CASE OnLineK
  <2>1. /\ db' = db \/ \E i \in DOMAIN cqLineK : db' = cqLineK[i]
        /\ cqLineK' = <<>> /\ lineK' = lineK
    BY <1>3, SavedIs DEF LineInv
  <2>2. Exact(db')
    BY <2>1 DEF BarsExact
  <2> QED
    BY <2>1, <2>2 DEF BarsExact
<1>4. CASE Crash
  <2>1. lineK' = NoLineK /\ cqLineK' = <<>> /\ db' = db
    BY <1>4 DEF Crash
  <2> QED
    BY <2>1, ZeroIs DEF BarsExact
<1> QED
  BY <1>1, <1>2, <1>3, <1>4, LineSteps

LEMMA GateInductive ==
    ASSUME TypeOK, GateInv, [Next]_vars
    PROVE  GateInv'
<1>0. tickCnt \in Nat /\ fresh \in Nat /\ fresh <= UnsetTimes /\ UnsetTimes \in Nat \ {0}
  BY MarketAssumption DEF TypeOK
<1>1. CASE UNCHANGED <<tickCnt, fresh, crossed, md>>
  BY <1>1 DEF GateInv
<1>2. CASE CountTick
  <2>1. /\ tickCnt' = IF tickCnt > UnsetTimes THEN tickCnt ELSE tickCnt + 1
        /\ fresh' = IF fresh = UnsetTimes THEN fresh ELSE fresh + 1
        /\ md' = IF tickCnt + 1 < UnsetTimes THEN "push" ELSE "check"
    BY <1>2 DEF CountTick
  <2>2. tickCnt' <= fresh' \/ fresh' = UnsetTimes
    BY <1>0, <2>1 DEF GateInv
  <2>3. md' = "check" => fresh' = UnsetTimes
    BY <1>0, <2>1 DEF GateInv
  <2>4. md' \in {"push", "check"}
    BY <2>1
  <2> QED
    BY <2>2, <2>3, <2>4 DEF GateInv
<1>3. CASE CheckCnt \/ SetStatus
  BY <1>3 DEF CheckCnt, SetStatus, GateInv, gateVars
<1>4. CASE CompareStatus
  BY <1>0, <1>4 DEF CompareStatus, GateInv
<1>5. CASE StatusClear
  <2>1. md \in {"check", "set", "compare"} => crossed'
    BY <1>5 DEF StatusClear
  <2>2. tickCnt' = 0 /\ fresh' = 0 /\ md' = md
    BY <1>5 DEF StatusClear, spiVars
  <2> QED
    BY <2>1, <2>2 DEF GateInv
<1>6. CASE Crash
  BY <1>6 DEF Crash, GateInv
<1>7. ASSUME NEW tick \in Feed, OnRtnDepthMarketData(tick)
      PROVE  GateInv'
  <2>1. UNCHANGED <<tickCnt, fresh, crossed>> /\ (md' = md \/ md' = "call")
    BY <1>7 DEF OnRtnDepthMarketData, gateVars
  <2> QED
    BY <2>1 DEF GateInv
<1>8. CASE PushTick
  BY <1>8 DEF PushTick, GateInv, gateVars
<1> QED
  BY <1>1, <1>2, <1>3, <1>4, <1>5, <1>6, <1>7, <1>8
  DEF Next, Md, ThreadLineK, Clock, OnRtnInstrumentStatus, StatusSet, CalcLineK, OnLineK, Rest,
      LineKWay, MarkTick, InventTick, vars, gateVars, spiVars

-----------------------------------------------------------------------------
(* The theorems.                                                           *)

LEMMA LineInit ==
    ASSUME Init
    PROVE  LineInv /\ BarsExact /\ GateInv
<1> USE DEF Init
<1>1. Begin \in Nat /\ 0 \in 0 .. UnsetTimes + 1 /\ 0 \in 0 .. UnsetTimes /\ 0 \in 0 .. MaxEvents
  BY MarketAssumption
<1>2. /\ <<>> \in Seq([t : Nat, v : Nat]) /\ <<>> \in Seq(LineKs)
      /\ market \in [t : Nat, v : Nat] /\ market.v = 1
  BY <1>1 DEF Tick
<1>3. /\ th \in [pc : {"drain", "rest", "mark", "invent"}, swept : Nat,
                 tick : [t : Nat, v : Nat] \cup {NoTick}]
      /\ th.pc = "drain"
  BY <1>1
<1>4. TypeOK
  BY <1>1, <1>2, <1>3, ZeroIs DEF TypeOK
<1>5. TicksSound
  BY <1>2, <1>3 DEF TicksSound
<1>6. \A y \in Types : NoLineK.vol[y] = 0
  BY DEF NoLineK, Zero
<1>7. LinesSound
  BY <1>2, <1>6 DEF LinesSound
<1>8. FirstIsLeast
  BY <1>2, <1>3, <1>6 DEF FirstIsLeast, AllFrom
<1>9. BarsLevel /\ NeverHalfDone
  BY DEF BarsLevel, NeverHalfDone
<1>10. BarsExact
  BY ZeroIs DEF BarsExact
<1>11. GateInv
  BY DEF GateInv
<1> QED
  BY <1>4, <1>5, <1>7, <1>8, <1>9, <1>10, <1>11 DEF LineInv

LEMMA LineInvariant == Spec => [](LineInv /\ BarsExact /\ GateInv)
<1>1. LineInv /\ BarsExact /\ GateInv /\ [Next]_vars => (LineInv /\ BarsExact /\ GateInv)'
  <2> SUFFICES ASSUME LineInv, BarsExact, GateInv, [Next]_vars
               PROVE  (LineInv /\ BarsExact /\ GateInv)'
    OBVIOUS
  <2>1. TypeOK' /\ TicksSound' /\ GateInv'
    BY TypeInductive, TicksInductive, GateInductive DEF LineInv
  <2>2. LinesSound' /\ FirstIsLeast' /\ BarsLevel' /\ NeverHalfDone' /\ BarsExact'
    BY LinesInductive, FirstInductive, BarsInductive, ExactInductive
  <2> QED
    BY <2>1, <2>2 DEF LineInv
<1> QED
  BY <1>1, LineInit, PTL DEF Spec

(* The state keeps its shape; no bar's volume, sum or beginning is ever    *)
(* negative, which subtracting volumes in CalcLineK could make it.         *)
THEOREM TypeCorrect == Spec => []TypeOK
<1>1. LineInv => TypeOK
  BY DEF LineInv
<1> QED
  BY <1>1, LineInvariant, PTL

(* Every bar the clock's face did not mislead counts the volume traded in  *)
(* it and, if it started over with the second tick after a restart, what   *)
(* was traded between the saved K-line and the first one, and not a lot    *)
(* more or less: in the K-line under way, in those that wait for OnLineK   *)
(* and in the one LoadLineK finds, through restarts, invented ticks and    *)
(* refused ones (CalcLineK).                                               *)
THEOREM BarsExactAlways == Spec => []BarsExact
  BY LineInvariant, PTL

(* CalcLineK's loop never ends in the midst of a K-line: the copy that     *)
(* CTdThread keeps is always equal, so the K-line is loaded just once.     *)
THEOREM NeverHalfDoneAlways == Spec => []NeverHalfDone
<1>1. LineInv => NeverHalfDone
  BY DEF LineInv
<1> QED
  BY <1>1, LineInvariant, PTL

(* Once OnRtnInstrumentStatus has cleared the count, OnTick lets a tick    *)
(* trigger trades only after UnsetTimes calls of OnTick since, except the  *)
(* one that was past its own count when the clearing came.  It says        *)
(* nothing of the ticks between the change of the status and the clearing. *)
THEOREM TrustedTicksAlways == Spec => []TrustedTicks
<1>1. GateInv => TrustedTicks
  BY DEF GateInv, TrustedTicks, Trusts
<1> QED
  BY <1>1, LineInvariant, PTL

(* The volumes of the newest K-line saved never become less, whatever is   *)
(* lost in a restart.                                                      *)
THEOREM NewestLastAlways == Spec => NewestLast
<1>1. LineInv /\ [Next]_vars => [\A y \in Types : db'.vol[y] >= db.vol[y]]_vars
  <2> SUFFICES ASSUME LineInv, [Next]_vars
               PROVE  \A y \in Types : db'.vol[y] >= db.vol[y]
    OBVIOUS
  <2>1. /\ \A y \in Types : db.vol[y] \in Nat
        /\ \A i \in DOMAIN cqLineK : \A y \in Types : cqLineK[i].vol[y] \in Nat
    BY StateIs DEF LineInv, LineKs
  <2>2. CASE db' = db
    BY <2>1, <2>2
  <2>3. ASSUME NEW i \in DOMAIN cqLineK, db' = cqLineK[i]
        PROVE  \A y \in Types : db'.vol[y] >= db.vol[y]
    BY <2>1, <2>3 DEF LineInv, LinesSound, Older
  <2>4. CASE CalcLineK \/ Crash
    BY <2>2, <2>4 DEF CalcLineK, Crash
  <2>5. CASE OnLineK
    BY <2>2, <2>3, <2>5, SavedIs DEF LineInv
  <2> QED
    BY <2>2, <2>4, <2>5, LineSteps
<1> QED
  BY <1>1, LineInvariant, PTL DEF Spec, NewestLast
=============================================================================
