---------------------------- MODULE TargetCreate ----------------------------
(***************************************************************************)
(* How CTarget (src/HCTP/CTargetCtrl.cpp) makes an instrument's plan: the  *)
(* times at which to trade (GetTimeList) and the position to hold from     *)
(* each of them on (Create).                                               *)
(*                                                                         *)
(* A time is a number; a slot of a plan is a time and a position.  Create  *)
(* computes in doubles.  Here a lot is 2n units, n the number of times,    *)
(* which makes every sum exact; the 0.000001 that Create adds makes up for *)
(* its rounding.  m_dbVolK is given in halves, and m_dbVolPowK is taken to *)
(* be positive, as it is by default.                                       *)
(***************************************************************************)
EXTENDS Integers, Sequences, SequencesExt

Slots == [at : Nat, pos : Int]

Lesser(a, b)  == IF a < b THEN a ELSE b
Greater(a, b) == IF a > b THEN a ELSE b
Size(a)       == Greater(a, -a)

-----------------------------------------------------------------------------
(* GetTimeList.  day holds the call auction, then the multiples of the     *)
(* frequency in the trading hours; it is empty where GetTimeList fails.    *)
(* The modes choose from it, each from where the one before stopped.       *)

(* The first k times: those before index k, the auction not counted.       *)
OpenEnd(day, mode) ==
    IF mode.openK = 0 THEN 1 ELSE Greater(1, Lesser(Len(day), mode.openK))

(* From index i on, the times that have not passed.                        *)
Ahead(day, i, now) == {j \in i .. Len(day) : now <= day[j]}

FirstOf(I, k) == {j \in I : Cardinality({i \in I : i <= j}) <= k}

(* The times at indices I and J, in order: the k-th is the least that k of *)
(* them do not exceed.  What both choose comes twice.                      *)
InOrder(day, I, J) ==
    LET Until(t) == Cardinality({i \in I : day[i] <= t}) + Cardinality({j \in J : day[j] <= t})
    IN  [k \in 1 .. Cardinality(I) + Cardinality(J) |->
            Min({t \in {day[i] : i \in I \cup J} : Until(t) >= k})]

TimeList(day, mode, now) ==
    LET open  == 2 .. OpenEnd(day, mode)
        next  == OpenEnd(day, mode) + 1
        all   == IF mode.twapAD THEN Ahead(day, next, now) ELSE {}
        next2 == IF mode.twapAD THEN Len(day) + 1 ELSE next
        some  == FirstOf(Ahead(day, next2, now), mode.twapK)
        next3 == IF mode.twapK = 0 THEN next2
                 ELSE IF Cardinality(some) < mode.twapK THEN Len(day) + 1
                 ELSE Max(some)     \* the loop breaks before it goes on
        close == Greater(Len(day) - mode.closeK + 1, next3) .. Len(day)
    IN  IF day = <<>> THEN <<>>
        ELSE InOrder(day, (IF mode.preOpen THEN {1} ELSE {}) \cup open \cup all \cup some, close)

-----------------------------------------------------------------------------
(* Create: one turn of its loop per time.                                  *)

Loop(last, target, times, skip, volK) ==
    [last |-> last, target |-> target, times |-> times, skip |-> skip, volK |-> volK,
     idx |-> 0,      \* nIdx
     add |-> 0,      \* dbPosAdd, in units
     pos |-> last,   \* stTarget.Position
     cnt |-> 0,      \* nTimeCnt
     list |-> <<>>]  \* m_listTarget

Trade(L) == L.target - L.last          \* m_volTradeQty
Unit(L)  == 2 * Len(L.times)           \* a lot
Turns(L) == L.idx < Len(L.times)

(* dbVolume.  nIdx / size is an integer division: only the last time is    *)
(* adjusted.                                                               *)
Volume(L) == L.add + 2 * Size(Trade(L))
               + IF L.idx + 1 = Len(L.times) THEN L.volK * Len(L.times) ELSE 0

(* nDoVolume: at the first time at least one lot.                          *)
Lots(L) == IF Volume(L) >= Unit(L) THEN Volume(L) \div Unit(L)
           ELSE IF L.idx = 0 THEN 1 ELSE 0

(* Mutant: a trade drops the part of a lot that is left.                   *)
AddLeft_Dropped(L) == IF Lots(L) > 0 THEN 0 ELSE L.add + 2 * Size(Trade(L))

(* dbPosAdd after the turn.                                                *)
AddLeft(L) == IF Volume(L) < Unit(L) /\ L.idx = 0 THEN 0
              ELSE L.add + 2 * Size(Trade(L)) - Lots(L) * Unit(L)

(* The position after the turn, not past the target.                       *)
Moved(L) ==
    IF Trade(L) > 0 THEN Lesser(L.pos + Lots(L), L.target)
    ELSE IF Trade(L) < 0 THEN Greater(L.pos - Lots(L), L.target)
    ELSE L.pos

(* A slot for every time with a trade, and for one in skip + 1 without.    *)
Pushes(L) == Lots(L) > 0 \/ L.cnt + 1 > L.skip

Turn(L) ==
    [L EXCEPT !.idx  = @ + 1,
              !.add  = AddLeft(L),
              !.pos  = Moved(L),
              !.cnt  = IF Pushes(L) THEN 0 ELSE @ + 1,
              !.list = IF Pushes(L)
                       THEN Append(@, [at |-> L.times[L.idx + 1], pos |-> Moved(L)])
                       ELSE @]

(* The last slot is set to the target.                                     *)
Created(L) == IF L.list = <<>> THEN <<>>
              ELSE [L.list EXCEPT ![Len(L.list)].pos = L.target]
=============================================================================
