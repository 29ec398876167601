--------------------------- MODULE RiskCtrlProofs ---------------------------
(***************************************************************************)
(* Proofs about RiskCtrl for every set of documents, default limit and     *)
(* bound that RiskAssumption allows: any number of orders, documents,      *)
(* saves and crashes.                                                      *)
(***************************************************************************)
EXTENDS RiskCtrl, TLAPS

(* What the counting operators make of counters, field by field.           *)
LEMMA CountedIs ==
    ASSUME NEW c \in Counts
    PROVE  /\ Counted(c) \in Counts
           /\ Counted(c).day = c.day + 1
           /\ Counted(c).min = c.min + 1
           /\ Counted(c).cancel = c.cancel
<1> DEFINE d == [c EXCEPT !.day = c.day + 1]
<1>1. /\ Counted(c).day = c.day + 1
      /\ Counted(c).min = c.min + 1
      /\ Counted(c).cancel = c.cancel
  BY DEF Counted, Counts
<1>2. d \in Counts
  BY DEF Counts
<1>3. Counted(c) = [d EXCEPT !.min = c.min + 1] /\ c.min + 1 \in Nat
  BY DEF Counted, Counts
<1>4. Counted(c) \in Counts
  <2> HIDE DEF d
  <2> QED
    BY <1>2, <1>3 DEF Counts
<1> QED
  BY <1>1, <1>4

LEMMA CancelCountedIs ==
    ASSUME NEW c \in Counts
    PROVE  /\ CancelCounted(c) \in Counts
           /\ CancelCounted(c).day = c.day
           /\ CancelCounted(c).min = c.min
           /\ CancelCounted(c).cancel = c.cancel + 1
  BY DEF CancelCounted, Counts

(* Minus makes up, with what it is taken from, for the whole.              *)
LEMMA MinusIs ==
    ASSUME NEW a \in Counts, NEW b \in Counts
    PROVE  /\ Minus(a, b) \in Counts
           /\ b.day + Minus(a, b).day >= a.day
           /\ b.min + Minus(a, b).min >= a.min
           /\ b.cancel + Minus(a, b).cancel >= a.cancel
  BY DEF Minus, Short, Counts

LEMMA ZeroIs ==
    /\ Zero \in Counts
    /\ NoDoc \in [pc : {"idle", "day", "cancel", "min", "ctrl"}, lim : Counts, ctrl : Controls]
  BY DEF Zero, NoDoc, Counts, Controls

(* What is saved is what should be counted, field by field: never more     *)
(* than happened and was not lost, less the order just sent.               *)
LEMMA ToCountIs ==
    ASSUME fact \in Counts, lost \in Counts, OneSent \in {0, 1}
    PROVE  /\ ToCount \in Counts
           /\ ToCount.day = Short(Short(fact.day, lost.day), OneSent)
           /\ ToCount.min = Short(Short(fact.min, lost.min), OneSent)
           /\ ToCount.cancel = Short(fact.cancel, lost.cancel)
<1>1. /\ fact.day \in Nat /\ fact.min \in Nat /\ fact.cancel \in Nat
      /\ lost.day \in Nat /\ lost.min \in Nat /\ lost.cancel \in Nat
  BY DEF Counts
<1>2. /\ ToCount.day = Short(Short(fact.day, lost.day), OneSent)
      /\ ToCount.min = Short(Short(fact.min, lost.min), OneSent)
      /\ ToCount.cancel = Short(Short(fact.cancel, lost.cancel), 0)
  BY DEF ToCount, Minus
<1>3. Short(Short(fact.cancel, lost.cancel), 0) = Short(fact.cancel, lost.cancel)
  BY <1>1 DEF Short
<1>4. [day |-> OneSent, cancel |-> 0, min |-> OneSent] \in Counts
  BY DEF Counts
<1>5. ToCount \in Counts
  BY <1>4, MinusIs DEF ToCount
<1> QED
  BY <1>2, <1>3, <1>5

(* TypeOK is inductive by itself: no counter goes below 0.                 *)
LEMMA TypeInductive ==
    ASSUME TypeOK, [Next]_vars
    PROVE  TypeOK'
<1> USE RiskAssumption DEF TypeOK
<1>1. CASE Next
  <2>1. late' \in Nat
    BY <1>1 DEF Next, Lateness
  <2>2. CASE NewOrder
    BY <2>1, <2>2 DEF NewOrder, rules
  <2>3. ASSUME NEW open \in BOOLEAN, Check(open)
        PROVE  TypeOK'
    BY <2>1, <2>3 DEF Check, rules
  <2>4. CASE Insert
    <3>1. fact' = fact \/ fact' = Counted(fact)
      BY <2>4 DEF Insert, Counted
    <3>2. fact' \in Counts
      BY <3>1, CountedIs
    <3> QED
      BY <2>1, <2>4, <3>2 DEF Insert, rules
  <2>5. CASE Count
    BY <2>1, <2>5, CountedIs DEF Count, rules, hist
  <2>6. CASE Cancelled
    <3>1. fact' = fact \/ fact' = CancelCounted(fact)
      BY <2>6 DEF Cancelled, EndedFact, CancelCounted
    <3>2. fact' \in Counts /\ cnt' \in Counts
      BY <2>6, <3>1, CancelCountedIs DEF Cancelled
    <3> QED
      BY <2>1, <2>6, <3>2 DEF Cancelled, rules
  <2>7. CASE Rejected
    <3>1. fact' = CancelCounted(fact)
      BY <2>7 DEF Rejected, EndedFact, CancelCounted
    <3>2. fact' \in Counts /\ cnt' \in Counts
      BY <2>7, <3>1, CancelCountedIs DEF Rejected
    <3> QED
      BY <2>1, <2>7, <3>2 DEF Rejected, rules
  <2>8. CASE Filled
    BY <2>1, <2>8 DEF Filled, rules, hist
  <2>9. CASE NewMinute
    <3>1. cnt' \in Counts /\ fact' \in Counts /\ lost' \in Counts /\ saved' \in Counts
      BY <2>9 DEF NewMinute, Counts
    <3> QED
      BY <2>1, <2>9, <3>1 DEF NewMinute, rules
  <2>10. ASSUME NEW d \in Docs, LoadEnable(d)
         PROVE  TypeOK'
    BY <2>1, <2>10 DEF LoadEnable, hist
  <2>11. CASE LoadLimit
    <3>1. /\ doc'.pc \in {"day", "cancel", "min", "ctrl"}
          /\ doc' = [doc EXCEPT !.pc = doc'.pc]
      BY <2>11 DEF LoadLimit
    <3>2. limit' \in Counts
      BY <2>11 DEF LoadLimit, Counts
    <3> QED
      BY <2>1, <2>11, <3>1, <3>2 DEF LoadLimit, hist
  <2>12. CASE LoadCtrl
    BY <2>1, <2>12, ZeroIs DEF LoadCtrl, hist
  <2>13. CASE LoadStops
    BY <2>1, <2>13, ZeroIs DEF LoadStops, hist, rules
  <2>14. CASE SaveTask
    <3>1. saved' \in Counts
      BY <2>14, ToCountIs, ZeroIs DEF SaveTask, OneSent
    <3> QED
      BY <2>1, <2>14, <3>1 DEF SaveTask, rules
  <2>15. CASE Crash
    <3>1. lost' \in Counts /\ saved' \in Counts
      BY <2>15 DEF Crash
    <3> QED
      <4>1. enable' \in BOOLEAN /\ booted' \in BOOLEAN /\ limit' \in Counts
        BY <2>15 DEF Crash
      <4>2. cnt' \in Counts /\ db' \in Counts \cup {NoEntry} /\ fact' \in Counts
        BY <2>15, ZeroIs DEF Crash
      <4>3. ctrl' \in Controls \cup {"none"}
        BY <2>15 DEF Crash
      <4>4. doc' \in [pc : {"idle", "day", "cancel", "min", "ctrl"}, lim : Counts,
                         ctrl : Controls]
        BY <2>15, ZeroIs DEF Crash
      <4>5. exempt' \in [day : Nat, min : Nat] /\ trader' \in {"idle", "checked", "sent"}
        BY <2>15 DEF Crash
      <4>6. queue' \in Nat /\ live' \in Nat /\ made' \in Nat /\ crashes' \in Nat
        BY <2>15 DEF Crash
      <4> QED
        BY <2>1, <3>1, <4>1, <4>2, <4>3, <4>4, <4>5, <4>6
  <2>16. CASE LoadRiskCnt
    <3>1. lost' \in Counts /\ cnt' \in Counts
      BY <2>16, MinusIs DEF LoadRiskCnt, FromDb
    <3> QED
      BY <2>1, <2>16, <3>1 DEF LoadRiskCnt, rules
  <2>18. CASE FollowLookup
    BY <2>1, <2>18 DEF FollowLookup, Controls, hist
  <2> QED
    BY <1>1, <2>2, <2>3, <2>4, <2>5, <2>6, <2>7, <2>8, <2>9, <2>10, <2>11,
       <2>12, <2>13, <2>14, <2>15, <2>16, <2>18
       DEF Next, Trading, Reports, Document, Restart
<1>2. CASE UNCHANGED vars
  BY <1>2 DEF vars, rules, hist
<1> QED
  BY <1>1, <1>2

LEMMA TypeInit == Init => TypeOK
<1>1. [day |-> 0, min |-> 0] \in [day : Nat, min : Nat]
  OBVIOUS
<1> QED
  BY <1>1, RiskAssumption, ZeroIs DEF Init, TypeOK

(* No counter of the risk control, and no part of its state, leaves its    *)
(* range.                                                                  *)
THEOREM TypeCorrect == Spec => []TypeOK
<1>1. TypeOK /\ [Next]_vars => TypeOK'
  BY TypeInductive
<1> QED
  BY <1>1, TypeInit, PTL DEF Spec

-----------------------------------------------------------------------------
(* A restart finds nothing to trade with.                                  *)
RestartIdle == ~booted => trader = "idle" /\ queue = 0

(* What the newest document has of the instrument is no less than what was *)
(* to be counted when it was written.  LoadRiskCnt makes this CountsKept.  *)
SavedKept == db # NoEntry => /\ db.day >= saved.day
                             /\ db.min >= saved.min
                             /\ db.cancel >= saved.cancel

CountInv == TypeOK /\ CountsKept /\ RestartIdle /\ SavedKept

LEMMA InsertIs ==
    ASSUME Insert
    PROVE  /\ trader = "checked" /\ UNCHANGED <<cnt, db, lost, saved, queue, booted>>
           /\ \/ trader' = "idle" /\ fact' = fact
              \/ trader' = "sent" /\ fact' = Counted(fact)
<1>1. \/ trader' = "idle" /\ fact' = fact
      \/ trader' = "sent" /\ fact' = [fact EXCEPT !.day = @ + 1, !.min = @ + 1]
  BY Zenon DEF Insert
<1> QED
  BY Zenon, <1>1 DEF Insert, Counted

(* Each step that touches a counter, or what the counter should count,     *)
(* keeps both in step.                                                     *)
LEMMA CountInductive ==
    ASSUME CountInv, [Next]_vars
    PROVE  CountInv'
<1>1. TypeOK /\ TypeOK'
  BY TypeInductive DEF CountInv
<1> USE DEF CountInv, CountsKept, RestartIdle, SavedKept, OneSent
<1>0. /\ cnt.day \in Nat /\ cnt.min \in Nat /\ cnt.cancel \in Nat
      /\ db # NoEntry => db.day \in Nat /\ db.min \in Nat /\ db.cancel \in Nat
      /\ saved.day \in Nat /\ saved.min \in Nat /\ saved.cancel \in Nat
      /\ fact.day \in Nat /\ fact.min \in Nat /\ fact.cancel \in Nat
      /\ lost.day \in Nat /\ lost.min \in Nat /\ lost.cancel \in Nat
      /\ booted \in BOOLEAN
  BY <1>1 DEF TypeOK, Counts
<1>2. CASE NewOrder
  BY <1>1, <1>2 DEF NewOrder, rules
<1>3. ASSUME NEW open \in BOOLEAN, Check(open)
      PROVE  CountInv'
  BY <1>0, <1>1, <1>3 DEF Check, rules, TypeOK
<1>4. CASE Insert
  <2>1. /\ trader = "checked" /\ UNCHANGED <<cnt, db, lost, saved, queue, booted>>
        /\ \/ trader' = "idle" /\ fact' = fact
           \/ trader' = "sent" /\ fact' = Counted(fact)
    BY <1>4, InsertIs
  <2>2. fact \in Counts /\ booted
    BY <1>1, <2>1 DEF TypeOK
  <2>3. CASE trader' = "idle" /\ fact' = fact
    BY <1>0, <1>1, <2>1, <2>2, <2>3
  <2>4. CASE trader' = "sent" /\ fact' = Counted(fact)
    BY <1>0, <1>1, <2>1, <2>2, <2>4, CountedIs
  <2> QED
    BY <2>1, <2>3, <2>4
<1>5. CASE Count
  <2>1. cnt \in Counts
    BY <1>1 DEF TypeOK
  <2> QED
    BY <1>0, <1>1, <1>5, <2>1, CountedIs DEF Count, rules, hist
<1>6. CASE Cancelled
  <2>1. \/ cnt' = CancelCounted(cnt) /\ fact' = CancelCounted(fact)
        \/ cnt' = cnt /\ fact' = fact
    BY <1>6 DEF Cancelled, CancelCounted, EndedFact
  <2>2. cnt \in Counts /\ fact \in Counts
    BY <1>1 DEF TypeOK
  <2>3. UNCHANGED <<db, trader, booted, lost, saved>> /\ (~booted => queue' = queue)
    BY <1>6 DEF Cancelled
  <2> QED
    BY <1>0, <1>1, <2>1, <2>2, <2>3, CancelCountedIs
<1>7. CASE Rejected
  <2>1. /\ booted /\ fact' = CancelCounted(fact)
        /\ cnt' = CancelCounted(cnt) \/ cnt' = CancelCounted(CancelCounted(cnt))
    BY <1>7 DEF Rejected, CancelCounted, EndedFact
  <2>2. cnt \in Counts /\ fact \in Counts /\ CancelCounted(cnt) \in Counts
    BY <1>1, CancelCountedIs DEF TypeOK
  <2>3. UNCHANGED <<db, trader, booted, lost, saved, queue>>
    BY <1>7 DEF Rejected
  <2>4. cnt'.day >= cnt.day /\ cnt'.min >= cnt.min /\ cnt'.cancel >= cnt.cancel + 1
    BY <1>0, <2>1, <2>2, CancelCountedIs
  <2>5. fact'.day = fact.day /\ fact'.min = fact.min /\ fact'.cancel = fact.cancel + 1
    BY <2>1, <2>2, CancelCountedIs
  <2>6. cnt'.day \in Nat /\ cnt'.min \in Nat /\ cnt'.cancel \in Nat
    BY <1>1 DEF TypeOK, Counts
  <2> QED
    BY <1>0, <1>1, <2>1, <2>3, <2>4, <2>5, <2>6
<1>8. CASE Filled
  BY <1>1, <1>8 DEF Filled, rules, hist
<1>9. CASE NewMinute
  <2>1. /\ cnt'.day = cnt.day /\ cnt'.min = 0 /\ cnt'.cancel = cnt.cancel
        /\ fact'.day = fact.day /\ fact'.min = 0 /\ fact'.cancel = fact.cancel
        /\ lost'.day = lost.day /\ lost'.min = 0 /\ lost'.cancel = lost.cancel
        /\ saved'.day = saved.day /\ saved'.min = 0 /\ saved'.cancel = saved.cancel
    BY <1>1, <1>9 DEF NewMinute, TypeOK, Counts
  <2> QED
    BY <1>0, <1>1, <1>9, <2>1 DEF NewMinute
<1>10. ASSUME NEW d \in Docs, LoadEnable(d)
       PROVE  CountInv'
  BY <1>1, <1>10 DEF LoadEnable, hist
<1>11. CASE LoadLimit
  BY <1>1, <1>11 DEF LoadLimit, hist
<1>12. CASE LoadCtrl
  BY <1>1, <1>12 DEF LoadCtrl, hist
<1>13. CASE LoadStops
  BY <1>1, <1>13 DEF LoadStops, hist, rules
<1>14. CASE SaveTask
  <2>1. UNCHANGED <<cnt, fact, lost, trader, queue, booted>>
    BY <1>14 DEF SaveTask, rules
  <2>2. CASE db' = NoEntry
    BY <1>1, <2>1, <2>2
  <2>3. CASE db' = cnt /\ saved' = ToCount
    <3>1. /\ saved'.day = Short(Short(fact.day, lost.day), OneSent)
          /\ saved'.min = Short(Short(fact.min, lost.min), OneSent)
          /\ saved'.cancel = Short(fact.cancel, lost.cancel)
      BY <1>1, <2>3, ToCountIs DEF TypeOK
    <3>2. saved'.day <= cnt.day /\ saved'.min <= cnt.min /\ saved'.cancel <= cnt.cancel
      BY <1>0, <3>1 DEF Short
    <3> QED
      BY <1>0, <1>1, <2>1, <2>3, <3>2
  <2> QED
    BY <1>14, <2>2, <2>3 DEF SaveTask
<1>15. CASE Crash
  <2>1. /\ lost' = fact /\ cnt' = Zero /\ trader' = "idle" /\ queue' = 0
        /\ ~booted' /\ UNCHANGED <<db, saved, fact>>
    BY <1>15 DEF Crash
  <2>2. cnt'.day = 0 /\ cnt'.min = 0 /\ cnt'.cancel = 0
    BY <2>1 DEF Zero
  <2> QED
    BY <1>0, <1>1, <2>1, <2>2
<1>16. CASE LoadRiskCnt
  <2>1. /\ UNCHANGED <<db, saved, fact, trader, queue>> /\ ~booted /\ booted'
        /\ \/ UNCHANGED <<cnt, lost>>
           \/ db # NoEntry /\ cnt' = db /\ lost' = Minus(fact, saved)
    BY <1>16 DEF LoadRiskCnt, FromDb
  <2>2. CASE UNCHANGED <<cnt, lost>>
    BY <1>1, <2>1, <2>2
  <2>3. CASE db # NoEntry /\ cnt' = db /\ lost' = Minus(fact, saved)
    <3>1. /\ saved.day + lost'.day >= fact.day
          /\ saved.min + lost'.min >= fact.min
          /\ saved.cancel + lost'.cancel >= fact.cancel
          /\ lost'.day \in Nat /\ lost'.min \in Nat /\ lost'.cancel \in Nat
      BY <1>1, <2>3, MinusIs DEF TypeOK, Counts
    <3> QED
      BY <1>0, <1>1, <2>1, <2>3, <3>1
  <2> QED
    BY <2>1, <2>2, <2>3
<1>18. CASE FollowLookup
  BY <1>1, <1>18 DEF FollowLookup, hist
<1>17. CASE UNCHANGED vars
  BY <1>1, <1>17 DEF vars, rules, hist
<1> QED
  BY <1>2, <1>3, <1>4, <1>5, <1>6, <1>7, <1>8, <1>9, <1>10, <1>11, <1>12,
     <1>13, <1>14, <1>15, <1>16, <1>17, <1>18
     DEF Next, Trading, Reports, Document, Restart

LEMMA CountInvAlways == Spec => []CountInv
<1>1. Init => CountInv
  <2>1. Init => TypeOK
    BY TypeInit
  <2>2. Init => CountsKept /\ RestartIdle /\ SavedKept
    BY DEF Init, CountsKept, RestartIdle, SavedKept, OneSent, Zero
  <2> QED
    BY <2>1, <2>2 DEF CountInv
<1>2. CountInv /\ [Next]_vars => CountInv'
  BY CountInductive
<1> QED
  BY <1>1, <1>2, PTL DEF Spec

(* Through minutes, saves, crashes and restarts, read or not, the counters *)
(* miss only the order just sent and, after a crash, what was not in the   *)
(* newest document that LoadRiskCnt could read of the instrument.          *)
THEOREM CountsAlways == Spec => []CountsKept
<1>1. CountInv => CountsKept
  BY DEF CountInv
<1> QED
  BY <1>1, CountInvAlways, PTL
-----------------------------------------------------------------------------
(* An order counts as late only while the rules block, and the late one is *)
(* past its check.                                                         *)
LateInv ==
    /\ late <= 1
    /\ late > 0 => Blocked /\ trader # "checked"

(* An order that passes its check finds rules that do not block: what      *)
(* happened, less what was lost, is no more than the counters say.         *)
LEMMA CheckOpen ==
    ASSUME CountInv, NEW open \in BOOLEAN, Check(open), trader' = "checked"
    PROVE  ~Blocked'
<1>1. UNCHANGED <<ctrl, limit, cnt, fact, lost>> /\ trader = "idle" /\ queue > 0
  BY DEF Check, rules
<1>2. booted
  <2>1. queue > 0 /\ booted \in BOOLEAN
    BY <1>1 DEF CountInv, TypeOK
  <2> QED
    BY <2>1 DEF CountInv, RestartIdle
<1>3. ctrl = "none" \/ (ctrl # "stop" /\ WithinLimits(cnt, limit))
  BY <1>1 DEF Check, Passes
<1>4. /\ cnt.day + lost.day >= fact.day
      /\ cnt.min + lost.min >= fact.min
      /\ cnt.cancel + lost.cancel >= fact.cancel
  BY <1>1, <1>2 DEF CountInv, CountsKept, OneSent, TypeOK, Counts
<1>5. cnt \in Counts /\ fact \in Counts /\ lost \in Counts /\ limit \in Counts
  BY DEF CountInv, TypeOK
<1>6. WithinLimits(cnt, limit) => WithinLimits(Minus(fact, lost), limit)
  BY <1>4, <1>5 DEF WithinLimits, Minus, Short, Counts
<1>7. ~Blocked
  BY <1>3, <1>6 DEF Blocked
<1> QED
  BY <1>1, <1>7 DEF Blocked

(* Only ReqOrderInsert sends, and what it sends has been checked.          *)
LEMMA OnlyInsertSends ==
    ASSUME CountInv, Next
    PROVE  /\ live' > live => trader = "checked" /\ trader' = "sent"
           /\ trader' = "checked" /\ trader # "checked" =>
                \E open \in BOOLEAN : Check(open)
<1>1. live \in Nat
  BY DEF CountInv, TypeOK
<1>2. CASE NewOrder
  BY <1>1, <1>2 DEF NewOrder
<1>3. ASSUME NEW open \in BOOLEAN, Check(open)
      PROVE  live' = live
  BY <1>3 DEF Check
<1>4. CASE Insert
  BY <1>1, <1>4 DEF Insert
<1>5. CASE Count
  BY <1>1, <1>5 DEF Count
<1>6. CASE Reports
  BY <1>1, <1>6 DEF Reports, Cancelled, Rejected, Filled
<1>7. CASE NewMinute \/ SaveTask
  BY <1>1, <1>7 DEF NewMinute, SaveTask
<1>8. CASE Document
  BY <1>1, <1>8 DEF Document, LoadEnable, LoadLimit, LoadCtrl, LoadStops, FollowLookup
<1>9. CASE Restart
  BY <1>1, <1>9 DEF Restart, Crash, LoadRiskCnt
<1> QED
  BY <1>1, <1>2, <1>3, <1>4, <1>5, <1>6, <1>7, <1>8, <1>9 DEF Next, Trading

LEMMA LateInductive ==
    ASSUME CountInv, LateInv, [Next]_vars
    PROVE  LateInv'
<1>1. late \in Nat
  BY DEF CountInv, TypeOK
<1>2. CASE Next
  <2>1. CASE ~Blocked'
    BY <1>2, <2>1 DEF Next, Lateness, LateInv
  <2>2. CASE Blocked' /\ Blocked /\ live' > live
    <3>1. trader = "checked" /\ trader' = "sent"
      BY <1>2, <2>2, OnlyInsertSends
    <3>2. late = 0
      BY <1>1, <3>1 DEF LateInv
    <3>3. late' = 1
      BY <1>2, <2>2, <3>2 DEF Next, Lateness
    <3> QED
      BY <2>2, <3>1, <3>3 DEF LateInv
  <2>3. CASE Blocked' /\ ~(Blocked /\ live' > live)
    <3>1. late' = late
      BY <1>2, <2>3 DEF Next, Lateness
    <3>2. late' > 0 => trader' # "checked"
      <4>1. ASSUME late' > 0, trader' = "checked"
            PROVE  FALSE
        <5>1. trader # "checked"
          BY <3>1, <4>1 DEF LateInv
        <5>2. PICK open \in BOOLEAN : Check(open)
          BY <1>2, <4>1, <5>1, OnlyInsertSends
        <5> QED
          BY <2>3, <4>1, <5>2, CheckOpen
      <4> QED
        BY <4>1
    <3> QED
      BY <2>3, <3>1, <3>2 DEF LateInv
  <2> QED
    BY <2>1, <2>2, <2>3
<1>3. CASE UNCHANGED vars
  BY <1>3 DEF vars, rules, hist, LateInv, Blocked
<1> QED
  BY <1>2, <1>3

(* Whatever thread makes the rules block orders, at any point between the  *)
(* check, the call and the count of another, one order at most still goes  *)
(* out before the rules stop blocking.                                     *)
THEOREM AtMostOneLateAlways == Spec => []AtMostOneLate
<1>1. Init => LateInv
  BY DEF Init, LateInv
<1>2. CountInv /\ LateInv /\ [Next]_vars => LateInv'
  BY LateInductive
<1>3. LateInv => AtMostOneLate
  BY DEF LateInv, AtMostOneLate
<1> QED
  BY <1>1, <1>2, <1>3, CountInvAlways, PTL DEF Spec

-----------------------------------------------------------------------------
(* n orders of a day are at most k more than some limit allows.            *)
Within(n, k) == \E l \in Limits : n <= l.day + k

(* Each limit is one of some document or of the start, though the limits   *)
(* may be of several.                                                      *)
LimitKnown == /\ \E l \in Limits : limit.day = l.day
              /\ \E l \in Limits : limit.min = l.min

(* The counters, here and in the database, are at most one above a limit,  *)
(* but for the orders that passed without one; an order that has passed    *)
(* its check leaves room for itself.                                       *)
DayInv ==
    /\ LimitKnown
    /\ doc.pc # "idle" => doc.lim \in Limits
    /\ Within(cnt.day, 1 + exempt.day)
    /\ Within(db.day, 1 + exempt.day)
    /\ trader \in {"checked", "sent"} => Within(cnt.day, exempt.day)

LEMMA LimitsAreCounts == Limits \subseteq Counts
  BY RiskAssumption DEF Limits

LEMMA WithinMore ==
    ASSUME NEW n \in Int, NEW k \in Nat, NEW j \in Nat, Within(n, k), k <= j
    PROVE  Within(n, j)
<1>1. PICK l \in Limits : n <= l.day + k
  BY DEF Within
<1>2. l.day \in Nat
  BY LimitsAreCounts DEF Counts
<1>3. n <= l.day + j
  BY <1>1, <1>2
<1> QED
  BY <1>3 DEF Within

LEMMA WithinShift ==
    ASSUME NEW n \in Int, NEW m \in Int, NEW k \in Nat, NEW i \in Nat,
           Within(n, k), m <= n + i
    PROVE  Within(m, k + i)
<1>1. PICK l \in Limits : n <= l.day + k
  BY DEF Within
<1>2. l.day \in Nat
  BY LimitsAreCounts DEF Counts
<1>3. m <= l.day + (k + i)
  BY <1>1, <1>2
<1> QED
  BY <1>3 DEF Within

(* No orders, or no entry, are within any limit.                           *)
LEMMA WithinNone ==
    ASSUME NEW k \in Nat
    PROVE  Within(0, k) /\ Within(-1, k)
<1>1. Default \in Limits /\ Default.day \in Nat
  BY RiskAssumption DEF Limits, Counts
<1>2. 0 <= Default.day + k /\ -1 <= Default.day + k
  BY <1>1
<1> QED
  BY <1>1, <1>2 DEF Within

(* A document that is being read writes limits of its own.                 *)
LEMMA KnownKept ==
    ASSUME LimitKnown, doc.pc # "idle" => doc.lim \in Limits, limit \in Counts,
           limit' = limit \/ limit' = Default \/ LoadLimit
    PROVE  LimitKnown'
<1>1. CASE limit' = limit
  BY <1>1 DEF LimitKnown, Limits
<1>2. CASE limit' = Default
  <2>1. Default \in Limits
    BY DEF Limits
  <2> QED
    BY <1>2, <2>1 DEF LimitKnown, Limits
<1>3. CASE LoadLimit
  <2>1. doc.lim \in Limits
    BY <1>3 DEF LoadLimit
  <2>2. /\ limit'.day = limit.day \/ limit'.day = doc.lim.day
        /\ limit'.min = limit.min \/ limit'.min = doc.lim.min
    BY <1>3 DEF LoadLimit, Counts
  <2>3. (\E l \in Limits : limit'.day = l.day) /\ (\E l \in Limits : limit'.min = l.min)
    BY <2>1, <2>2 DEF LimitKnown
  <2> QED
    BY <2>3 DEF LimitKnown, Limits
<1> QED
  BY <1>1, <1>2, <1>3

(* A step that leaves the day's counters alone, and no order checked that  *)
(* was not, keeps DayInv when it keeps the limits known.                   *)
LEMMA DayFrame ==
    ASSUME DayInv,
           LimitKnown', doc'.pc # "idle" => doc'.lim \in Limits,
           cnt'.day = cnt.day, db' \in {db, cnt, NoEntry},
           exempt'.day = exempt.day, exempt.day \in Nat,
           trader' \in {"checked", "sent"} => trader \in {"checked", "sent"}
    PROVE  DayInv'
<1>1. Within(db'.day, 1 + exempt.day)
  <2>1. CASE db' = db \/ db' = cnt
    BY <2>1 DEF DayInv
  <2>2. CASE db' = NoEntry
    <3>1. Within(-1, 1 + exempt.day)
      BY WithinNone
    <3> QED
      BY <2>2, <3>1 DEF NoEntry
  <2> QED
    BY <2>1, <2>2
<1> QED
  BY <1>1 DEF DayInv, Within, Limits

LEMMA DayInductive ==
    ASSUME CountInv, DayInv, [Next]_vars
    PROVE  DayInv'
<1>1. /\ TypeOK /\ TypeOK'
      /\ cnt \in Counts /\ fact \in Counts /\ lost \in Counts
      /\ cnt.day \in Nat /\ db.day \in Int /\ exempt.day \in Nat
      /\ limit \in Counts /\ limit.day \in Nat
  BY TypeInductive DEF CountInv, TypeOK, Counts, NoEntry
<1>2. LimitKnown /\ (doc.pc # "idle" => doc.lim \in Limits)
  BY DEF DayInv
<1>0. limit' = limit \/ limit' = Default \/ LoadLimit => LimitKnown'
  BY <1>1, <1>2, KnownKept
<1>3. CASE NewOrder
  BY <1>0, <1>1, <1>2, <1>3, DayFrame DEF NewOrder, rules
<1>4. ASSUME NEW open \in BOOLEAN, Check(open)
      PROVE  DayInv'
  <2>1. UNCHANGED <<limit, doc, cnt, db>> /\ trader = "idle"
    BY <1>4 DEF Check, rules
  <2>2. CASE trader' = trader /\ exempt' = exempt
    BY <1>0, <1>1, <1>2, <2>1, <2>2, DayFrame
  <2>3. CASE trader' = "checked" /\ Passes(open) /\ exempt' = exempt
    <3>1. cnt.day <= limit.day + exempt.day
      BY <1>1, <2>3 DEF Passes, WithinLimits
    <3>2. Within(cnt.day, exempt.day)
      BY <1>2, <3>1 DEF Within, LimitKnown
    <3> QED
      BY <1>0, <2>1, <2>3, <3>2 DEF DayInv, Within, Limits
  <2>4. CASE exempt' = [day |-> exempt.day + 1, min |-> exempt.min + 1]
    <3>1. exempt'.day = exempt.day + 1
      BY <2>4
    <3>2. Within(cnt.day, exempt.day + 1) /\ Within(db.day, exempt.day + 1)
      BY <1>1 DEF DayInv, Within
    <3>3. Within(cnt.day, 1 + (exempt.day + 1)) /\ Within(db.day, 1 + (exempt.day + 1))
      BY <1>1, <3>2, WithinMore
    <3> QED
      BY <1>0, <1>1, <1>2, <2>1, <3>1, <3>2, <3>3 DEF DayInv, Within, Limits
  <2> QED
    BY <1>4, <2>2, <2>3, <2>4 DEF Check
<1>5. CASE Insert
  BY <1>0, <1>1, <1>2, <1>5, DayFrame DEF Insert, rules
<1>6. CASE Count
  <2>1. /\ UNCHANGED <<limit, doc, db, exempt>>
        /\ trader = "sent" /\ trader' = "idle" /\ cnt' = Counted(cnt)
    BY <1>6 DEF Count, rules, hist
  <2>2. cnt'.day = cnt.day + 1
    BY <1>1, <2>1, CountedIs
  <2>3. Within(cnt.day, exempt.day)
    BY <2>1 DEF DayInv
  <2>4. Within(cnt.day + 1, exempt.day + 1)
    BY <1>1, <2>3, WithinShift
  <2> QED
    BY <1>0, <1>1, <1>2, <2>1, <2>2, <2>4 DEF DayInv, Within, Limits
<1>7. CASE Cancelled
  <2>1. cnt'.day = cnt.day
    BY <1>1, <1>7, CancelCountedIs DEF Cancelled
  <2> QED
    BY <1>0, <1>1, <1>2, <1>7, <2>1, DayFrame DEF Cancelled, rules
<1>8. CASE Rejected
  <2>1. cnt'.day = cnt.day
    BY <1>1, <1>8, CancelCountedIs DEF Rejected
  <2> QED
    BY <1>0, <1>1, <1>2, <1>8, <2>1, DayFrame DEF Rejected, rules
<1>9. CASE Filled
  BY <1>0, <1>1, <1>2, <1>9, DayFrame DEF Filled, rules, hist
<1>10. CASE NewMinute
  <2>1. cnt'.day = cnt.day /\ exempt'.day = exempt.day
    BY <1>1, <1>10 DEF NewMinute, TypeOK, Counts
  <2> QED
    BY <1>0, <1>1, <1>2, <1>10, <2>1, DayFrame DEF NewMinute, rules
<1>11. ASSUME NEW d \in Docs, LoadEnable(d)
       PROVE  DayInv'
  <2>1. doc'.lim \in Limits
    BY <1>11 DEF LoadEnable, Limits
  <2> QED
    BY <1>0, <1>1, <1>2, <1>11, <2>1, DayFrame DEF LoadEnable, hist
<1>12. CASE LoadLimit
  <2>1. doc'.lim = doc.lim /\ doc.pc # "idle"
    BY <1>1, <1>12 DEF LoadLimit, TypeOK
  <2> QED
    BY <1>0, <1>1, <1>2, <1>12, <2>1, DayFrame DEF LoadLimit, hist
<1>13. CASE LoadCtrl
  BY <1>0, <1>1, <1>2, <1>13, DayFrame DEF LoadCtrl, hist, NoDoc
<1>14. CASE LoadStops
  BY <1>0, <1>1, <1>2, <1>14, DayFrame DEF LoadStops, hist, rules, NoDoc
<1>15. CASE SaveTask
  BY <1>0, <1>1, <1>2, <1>15, DayFrame DEF SaveTask, hist, rules
<1>16. CASE Crash
  <2>1. /\ limit' = Default /\ doc'.pc = "idle" /\ cnt'.day = 0
        /\ trader' = "idle" /\ UNCHANGED <<db, exempt>>
    BY <1>16 DEF Crash, NoDoc, Zero
  <2>2. Within(0, 1 + exempt.day)
    BY <1>1, WithinNone
  <2> QED
    BY <1>0, <2>1, <2>2 DEF DayInv, Within, Limits
<1>17. CASE LoadRiskCnt
  <2>1. /\ UNCHANGED <<limit, doc, db, exempt, trader>> /\ trader = "idle"
        /\ cnt' = cnt \/ cnt' = db
    BY <1>17 DEF LoadRiskCnt, FromDb, rules, CountInv, RestartIdle
  <2>2. Within(cnt'.day, 1 + exempt.day)
    BY <2>1 DEF DayInv
  <2> QED
    BY <1>0, <2>1, <2>2 DEF DayInv, Within, Limits
<1>19. CASE FollowLookup
  BY <1>0, <1>1, <1>2, <1>19, DayFrame DEF FollowLookup, hist
<1>18. CASE UNCHANGED vars
  BY <1>0, <1>1, <1>2, <1>18, DayFrame DEF vars, rules, hist
<1> QED
  BY <1>3, <1>4, <1>5, <1>6, <1>7, <1>8, <1>9, <1>10, <1>11, <1>12, <1>13,
     <1>14, <1>15, <1>16, <1>17, <1>18, <1>19
     DEF Next, Trading, Reports, Document, Restart

LEMMA DayBudgetHolds ==
    ASSUME CountInv, DayInv
    PROVE  DayBudget
<1>1. /\ cnt.day \in Nat /\ exempt.day \in Nat
      /\ fact.day \in Nat /\ lost.day \in Nat
      /\ trader \in {"idle", "checked", "sent"}
      /\ 1 + exempt.day \in Nat /\ 1 + lost.day \in Nat
  BY DEF CountInv, TypeOK, Counts
<1>2. SUFFICES Within(fact.day, (1 + exempt.day) + lost.day)
  <2>1. PICK l \in Limits : fact.day <= l.day + ((1 + exempt.day) + lost.day)
    BY <1>2 DEF Within
  <2>2. l.day \in Nat
    BY LimitsAreCounts DEF Counts
  <2>3. fact.day <= l.day + 1 + exempt.day + lost.day
    BY <1>1, <2>1, <2>2
  <2> QED
    BY <2>3 DEF DayBudget
<1>3. CASE trader = "sent"
  <2>1. Within(cnt.day, exempt.day)
    BY <1>3 DEF DayInv
  <2>2. fact.day <= cnt.day + (1 + lost.day)
    BY <1>1, <1>3 DEF CountInv, CountsKept, OneSent
  <2>3. Within(fact.day, exempt.day + (1 + lost.day))
    BY <1>1, <2>1, <2>2, WithinShift
  <2>4. exempt.day + (1 + lost.day) = (1 + exempt.day) + lost.day
    BY <1>1
  <2> QED
    BY <2>3, <2>4
<1>4. CASE trader # "sent"
  <2>1. fact.day <= cnt.day + lost.day
    BY <1>1, <1>4 DEF CountInv, CountsKept, OneSent
  <2>2. Within(cnt.day, 1 + exempt.day)
    BY DEF DayInv
  <2> QED
    BY <1>1, <2>1, <2>2, WithinShift
<1> QED
  BY <1>3, <1>4

LEMMA DayInvAlways == Spec => []DayInv
<1>1. Init => DayInv
  <2>1. Init => cnt.day = 0 /\ db.day = -1 /\ exempt.day = 0 /\ trader = "idle"
                /\ limit = Default /\ doc.pc = "idle"
    BY DEF Init, Zero, NoDoc, NoEntry
  <2>2. Within(0, 1 + 0) /\ Within(-1, 1 + 0)
    BY WithinNone
  <2>3. Default \in Limits
    BY DEF Limits
  <2> QED
    BY <2>1, <2>2, <2>3 DEF DayInv, LimitKnown
<1>2. CountInv /\ DayInv /\ [Next]_vars => DayInv'
  BY DayInductive
<1> QED
  BY <1>1, <1>2, CountInvAlways, PTL DEF Spec

(* However documents change the limits and whenever HTP dies, a day's      *)
(* orders are at most one above the largest limit, but for those sent      *)
(* without a control and those a crash made it forget.                     *)
THEOREM DayBudgetAlways == Spec => []DayBudget
<1>1. CountInv /\ DayInv => DayBudget
  BY DayBudgetHolds
<1> QED
  BY <1>1, CountInvAlways, DayInvAlways, PTL DEF Spec

-----------------------------------------------------------------------------
(* n orders of a minute are at most k more than some limit allows.         *)
WithinMin(n, k) == \E l \in Limits : n <= l.min + k

(* The orders sent this minute, and those of them that are saved, are at   *)
(* most one above a limit, but for those that passed without one and those *)
(* forgotten; they leave room for an order that has passed its check.      *)
MinuteInv ==
    /\ WithinMin(fact.min, 1 + exempt.min + lost.min)
    /\ WithinMin(saved.min, 1 + exempt.min)
    /\ trader = "checked" => WithinMin(fact.min, exempt.min + lost.min)

(* Few enough of one minute, so few enough of another with fewer orders.   *)
LEMMA WithinMinMore ==
    ASSUME NEW n \in Nat, NEW m \in Nat, NEW k \in Nat, NEW j \in Nat,
           WithinMin(n, k), m + k <= n + j
    PROVE  WithinMin(m, j)
<1>1. PICK l \in Limits : n <= l.min + k
  BY DEF WithinMin
<1>2. l.min \in Nat
  BY LimitsAreCounts DEF Counts
<1>3. m <= l.min + j
  BY <1>1, <1>2
<1> QED
  BY <1>3 DEF WithinMin

(* No orders, or one with room for one, are within any limit.              *)
LEMMA WithinMinNone ==
    ASSUME NEW k \in Nat
    PROVE  WithinMin(0, k)
<1>1. Default \in Limits /\ Default.min \in Nat
  BY RiskAssumption DEF Limits, Counts
<1>2. 0 <= Default.min + k
  BY <1>1
<1> QED
  BY <1>1, <1>2 DEF WithinMin

(* A step that leaves the minute alone, and no order checked that was not, *)
(* keeps MinuteInv when it saves none.                                     *)
LEMMA MinuteFrame ==
    ASSUME MinuteInv, fact'.min = fact.min, exempt'.min = exempt.min, lost'.min = lost.min,
           saved' = saved, trader' = "checked" => trader = "checked"
    PROVE  MinuteInv'
  BY DEF MinuteInv, WithinMin, Limits

LEMMA MinuteInductive ==
    ASSUME CountInv, LimitKnown, MinuteInv, [Next]_vars
    PROVE  MinuteInv'
<1>0. TypeOK /\ TypeOK'
  BY TypeInductive DEF CountInv
<1>1. /\ cnt \in Counts /\ fact \in Counts /\ lost \in Counts /\ saved \in Counts
      /\ cnt.min \in Nat /\ fact.min \in Nat /\ lost.min \in Nat /\ saved.min \in Nat
      /\ exempt.min \in Nat /\ limit.min \in Nat /\ OneSent \in {0, 1}
  BY <1>0 DEF TypeOK, Counts, OneSent
<1>2. fact.min <= cnt.min + lost.min + OneSent
  BY <1>1 DEF CountInv, CountsKept
<1>4. CASE NewOrder
  BY <1>4, MinuteFrame DEF NewOrder
<1>5. ASSUME NEW open \in BOOLEAN, Check(open)
      PROVE  MinuteInv'
  <2>1. UNCHANGED <<cnt, fact, lost, saved>> /\ trader = "idle" /\ OneSent = 0
    BY <1>5 DEF Check, OneSent
  <2>2. CASE trader' = trader /\ exempt' = exempt
    BY <2>1, <2>2, MinuteFrame
  <2>3. CASE trader' = "checked" /\ Passes(open) /\ exempt' = exempt
    <3>1. cnt.min <= limit.min
      BY <1>1, <2>3 DEF Passes, WithinLimits
    <3>2. fact.min <= limit.min + (exempt.min + lost.min)
      BY <1>1, <1>2, <2>1, <3>1
    <3>3. WithinMin(fact.min, exempt.min + lost.min)
      BY <3>2 DEF WithinMin, LimitKnown
    <3> QED
      BY <2>1, <2>3, <3>3 DEF MinuteInv, WithinMin, Limits
  <2>4. CASE exempt' = [day |-> exempt.day + 1, min |-> exempt.min + 1]
    <3>1. PICK e \in Nat, a \in Nat, f \in Nat, s \in Nat, x \in Nat :
               e = exempt.min /\ a = lost.min /\ f = fact.min /\ s = saved.min /\ x = exempt'.min
      BY <1>0, <1>1 DEF TypeOK
    <3>2. x = e + 1
      BY <2>4, <3>1
    <3>3. WithinMin(f, 1 + e + a) /\ WithinMin(s, 1 + e)
      BY <3>1 DEF MinuteInv
    <3>4. /\ 1 + e + a \in Nat /\ 1 + e \in Nat /\ 1 + x \in Nat /\ x + a \in Nat
          /\ 1 + x + a \in Nat /\ 1 + e + a = x + a
          /\ f + (1 + e + a) <= f + (1 + x + a)
          /\ s + (1 + e) <= s + (1 + x)
      BY ONLY <3>2, e \in Nat, a \in Nat, f \in Nat, s \in Nat
    <3>5. WithinMin(f, x + a) /\ WithinMin(f, 1 + x + a) /\ WithinMin(s, 1 + x)
      BY <3>3, <3>4, WithinMinMore
    <3> QED
      BY <2>1, <3>1, <3>5 DEF MinuteInv, WithinMin, Limits
  <2> QED
    BY <1>5, <2>2, <2>3, <2>4 DEF Check
<1>6. CASE Insert
  <2>1. /\ trader = "checked" /\ UNCHANGED <<lost, saved, exempt>>
        /\ \/ trader' = "idle" /\ fact' = fact
           \/ trader' = "sent" /\ fact' = Counted(fact)
    BY <1>6, InsertIs DEF Insert
  <2>2. CASE trader' = "idle" /\ fact' = fact
    BY <2>1, <2>2, MinuteFrame
  <2>3. CASE trader' = "sent" /\ fact' = Counted(fact)
    <3>1. fact'.min = fact.min + 1
      BY <1>1, <2>3, CountedIs
    <3>2. WithinMin(fact.min, exempt.min + lost.min)
      BY <2>1 DEF MinuteInv
    <3>3. WithinMin(fact.min + 1, 1 + exempt.min + lost.min)
      <4>1. PICK k \in Nat, j \in Nat : k = exempt.min + lost.min /\ j = 1 + exempt.min + lost.min
        BY <1>1
      <4>2. j = k + 1
        BY <1>1, <4>1
      <4>3. fact.min + 1 \in Nat /\ (fact.min + 1) + k <= fact.min + j
        BY <1>1, <4>2
      <4> QED
        BY <1>1, <3>2, <4>1, <4>3, WithinMinMore
    <3> QED
      BY <2>1, <2>3, <3>1, <3>3 DEF MinuteInv, WithinMin, Limits
  <2> QED
    BY <2>1, <2>2, <2>3
<1>7. CASE Count
  BY <1>7, MinuteFrame DEF Count, hist
<1>8. CASE Cancelled \/ Rejected
  <2>1. UNCHANGED <<exempt, lost, saved, trader>>
    BY <1>8 DEF Cancelled, Rejected
  <2>2. fact' = fact \/ fact' = CancelCounted(fact)
    BY <1>8 DEF Cancelled, Rejected, EndedFact, CancelCounted
  <2>3. fact'.min = fact.min
    BY <1>1, <2>2, CancelCountedIs
  <2> QED
    BY <2>1, <2>3, MinuteFrame
<1>9. CASE Filled
  BY <1>9, MinuteFrame DEF Filled, hist
<1>10. CASE NewMinute
  <2>1. fact'.min = 0 /\ lost'.min = 0 /\ saved'.min = 0 /\ exempt'.min \in Nat
    BY <1>0, <1>10 DEF NewMinute, TypeOK, Counts
  <2>2. exempt'.min + 0 \in Nat /\ 1 + exempt'.min + 0 \in Nat /\ 1 + exempt'.min \in Nat
    BY <2>1
  <2>3. /\ WithinMin(0, exempt'.min + 0) /\ WithinMin(0, 1 + exempt'.min + 0)
        /\ WithinMin(0, 1 + exempt'.min)
    BY <2>2, WithinMinNone
  <2> QED
    BY <2>1, <2>3 DEF MinuteInv, WithinMin, Limits
<1>11. CASE Document
  BY <1>11, MinuteFrame
     DEF Document, LoadEnable, LoadLimit, LoadCtrl, LoadStops, FollowLookup, hist
<1>12. CASE SaveTask
  <2>1. UNCHANGED <<fact, exempt, lost, trader>>
    BY <1>12 DEF SaveTask
  <2>2. CASE saved' = Zero
    <3>1. saved'.min = 0 /\ 1 + exempt.min \in Nat
      BY <1>1, <2>2 DEF Zero
    <3>2. WithinMin(0, 1 + exempt.min)
      BY <3>1, WithinMinNone
    <3> QED
      BY <2>1, <3>1, <3>2 DEF MinuteInv, WithinMin, Limits
  <2>3. CASE saved' = ToCount
    <3>1. PICK e \in Nat, a \in Nat, f \in Nat, s \in Nat, o \in {0, 1} :
               /\ e = exempt.min /\ a = lost.min /\ f = fact.min /\ s = saved'.min
               /\ o = OneSent
      BY <1>0, <1>1 DEF TypeOK, Counts
    <3>2. s = Short(Short(f, a), o)
      BY <1>1, <2>3, <3>1, ToCountIs
    <3>3. WithinMin(f, 1 + e + a)
      BY <3>1 DEF MinuteInv
    <3>4. CASE f > a + o
      <4>1. 1 + e + a \in Nat /\ 1 + e \in Nat /\ s + (1 + e + a) <= f + (1 + e)
        BY ONLY <3>2, <3>4, e \in Nat, a \in Nat, f \in Nat, o \in {0, 1} DEF Short
      <4>2. WithinMin(s, 1 + e)
        BY <3>3, <4>1, WithinMinMore
      <4> QED
        BY <2>1, <3>1, <4>2 DEF MinuteInv, WithinMin, Limits
    <3>5. CASE ~(f > a + o)
      <4>1. s = 0 /\ 1 + e \in Nat
        BY ONLY <3>2, <3>5, e \in Nat, a \in Nat, f \in Nat, o \in {0, 1} DEF Short
      <4>2. WithinMin(s, 1 + e)
        BY <4>1, WithinMinNone
      <4> QED
        BY <2>1, <3>1, <4>2 DEF MinuteInv, WithinMin, Limits
    <3> QED
      BY <3>4, <3>5
  <2> QED
    BY <1>12, <2>2, <2>3 DEF SaveTask
<1>13. CASE Crash
  <2>1. trader' = "idle" /\ lost' = fact /\ UNCHANGED <<fact, exempt, saved>>
    BY <1>13 DEF Crash
  <2>2. PICK e \in Nat, f \in Nat, l \in Limits :
             e = exempt.min /\ f = fact.min /\ l = Default /\ l.min \in Nat
    BY <1>1, RiskAssumption DEF Limits, Counts
  <2>3. f <= l.min + (1 + e + f)
    BY <2>2
  <2>4. WithinMin(f, 1 + e + f)
    BY <2>3 DEF WithinMin
  <2> QED
    BY <2>1, <2>2, <2>4 DEF MinuteInv, WithinMin, Limits
<1>14. CASE LoadRiskCnt
  <2>1. UNCHANGED <<fact, exempt, saved, trader>> /\ trader = "idle"
    BY <1>14 DEF LoadRiskCnt, CountInv, RestartIdle
  <2>2. CASE lost' = lost
    BY <2>1, <2>2, MinuteFrame
  <2>3. CASE lost' = Minus(fact, saved)
    <3>1. PICK e \in Nat, b \in Nat, f \in Nat, s \in Nat :
               e = exempt.min /\ b = lost'.min /\ f = fact.min /\ s = saved.min
      BY <1>0, <1>1 DEF TypeOK, Counts
    <3>2. b = Short(f, s)
      BY <2>3, <3>1 DEF Minus
    <3>3. WithinMin(s, 1 + e)
      BY <3>1 DEF MinuteInv
    <3>4. 1 + e \in Nat /\ 1 + e + b \in Nat /\ f + (1 + e) <= s + (1 + e + b)
      BY ONLY <3>2, e \in Nat, b \in Nat, f \in Nat, s \in Nat DEF Short
    <3>5. WithinMin(f, 1 + e + b)
      BY <3>3, <3>4, WithinMinMore
    <3> QED
      BY <2>1, <3>1, <3>5 DEF MinuteInv, WithinMin, Limits
  <2> QED
    BY <1>14, <2>2, <2>3 DEF LoadRiskCnt
<1>15. CASE UNCHANGED vars
  BY <1>15, MinuteFrame DEF vars, hist
<1> QED
  BY <1>4, <1>5, <1>6, <1>7, <1>8, <1>9, <1>10, <1>11, <1>12, <1>13, <1>14, <1>15
     DEF Next, Trading, Reports, Restart

(* Whoever clears the minute between an order's check, its call and its    *)
(* count, and whichever minute a restart reads back, a minute's orders are *)
(* at most one above the largest limit, but for those sent without a       *)
(* control and those a crash made HTP forget.                              *)
THEOREM MinuteBudgetAlways == Spec => []MinuteBudget
<1>1. Init => MinuteInv
  <2>1. WithinMin(0, 1 + 0 + 0) /\ WithinMin(0, 1 + 0)
    BY WithinMinNone
  <2> QED
    BY <2>1 DEF Init, MinuteInv, Zero
<1>2. CountInv /\ DayInv /\ MinuteInv /\ [Next]_vars => MinuteInv'
  BY MinuteInductive DEF DayInv
<1>3. CountInv /\ MinuteInv => MinuteBudget
  <2> SUFFICES ASSUME CountInv, MinuteInv
               PROVE  MinuteBudget
    OBVIOUS
  <2>1. PICK l \in Limits : fact.min <= l.min + (1 + exempt.min + lost.min)
    BY DEF MinuteInv, WithinMin
  <2>2. l.min \in Nat /\ exempt.min \in Nat /\ lost.min \in Nat
    BY LimitsAreCounts DEF Counts, CountInv, TypeOK
  <2>3. fact.min <= l.min + 1 + exempt.min + lost.min
    BY <2>1, <2>2
  <2> QED
    BY <2>3 DEF MinuteBudget
<1> QED
  BY <1>1, <1>2, <1>3, CountInvAlways, DayInvAlways, PTL DEF Spec
=============================================================================
