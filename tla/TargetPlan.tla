----------------------------- MODULE TargetPlan -----------------------------
(***************************************************************************)
(* The plan of one instrument (CTarget, CTargetCtrl) between ThreadTime,   *)
(* which replaces it when the database has a newer document (LoadTarget),  *)
(* and those who execute it: ThreadAlgo at ticks and AuctionWay at call    *)
(* auctions.  Each takes the latest slot that is due (GetTarget), trades   *)
(* towards it under m_lockTarget (TargetWay), and removes it (PopTarget).  *)
(* The plan may be replaced between any two of these steps: CTarget's lock *)
(* and CTargetCtrl's are held for one of them at a time.                   *)
(***************************************************************************)
EXTENDS TargetCreate

CONSTANTS
    Workers,   \* who executes targets
    Docs,      \* Docs[k]: what the k-th document of the day may be
    Positions, \* net positions that LoadTarget may find
    MaxClock,  \* bound: the end of the day
    Buffers    \* CTGT_MAX + 1

VARIABLES
    clock,     \* CTP_TIME_NET
    newest,    \* external: documents in the database
    stamp,     \* m_llTimeStamp: the document of the plan in use
    buf,       \* m_MapTarget: each buffer's m_listTarget of the instrument
    cur,       \* m_chID
    load,      \* ThreadTime in LoadTarget: [pc, doc, loop]
    wk,        \* the workers: [pc, time, slot, plan]
    handed     \* history: the time of the last slot handed out from the plan

vars == <<clock, newest, stamp, buf, cur, load, wk, handed>>

NoSlot == [at |-> 0, pos |-> 0]
NoLoop == Loop(0, 0, <<>>, 0, 0)
Idle   == [pc |-> "idle", time |-> 0, slot |-> NoSlot, plan |-> 0]
NoLoad == [pc |-> "idle", doc |-> 0, loop |-> NoLoop]

(* What the database may give: the settings of the modes, 0 where one is   *)
(* not enabled, and a document with the times of the day as they are at    *)
(* each clock; VolK is not negative.                                       *)
Modes == [preOpen : BOOLEAN, openK : Nat, twapAD : BOOLEAN, twapK : Nat, closeK : Nat]

Documents == [target : Int, skip : Nat, volK : Nat, day : [1 .. MaxClock -> Seq(Nat)],
              mode : Modes]

ASSUME PlanAssumption ==
    /\ MaxClock \in Nat \ {0} /\ Buffers \in Nat /\ Buffers > 1
    /\ Positions \subseteq Int
    /\ Docs \in Seq(SUBSET Documents)

Init ==
    /\ clock = 1 /\ newest = 0 /\ stamp = 0
    /\ buf = [b \in 0 .. Buffers - 1 |-> <<>>]
    /\ cur = 0
    /\ load = NoLoad
    /\ wk = [w \in Workers |-> Idle]
    /\ handed = 0

Plan == buf[cur]

TimePasses ==
    /\ clock < MaxClock
    /\ clock' = clock + 1
    /\ UNCHANGED <<newest, stamp, buf, cur, load, wk, handed>>

(* The strategy writes a document.                                         *)
Publish ==
    /\ newest < Len(Docs)
    /\ newest' = newest + 1
    /\ UNCHANGED <<clock, stamp, buf, cur, load, wk, handed>>

-----------------------------------------------------------------------------
(* LoadTarget.                                                             *)

(* Mutants: the buffer in use; one beyond the last.                        *)
NextBuffer_InUse(b) == b
NextBuffer_NoWrap(b) == b + 1

NextBuffer(b) == (b + 1) % Buffers

(* The next buffer is cleared.  If the newest document is not the one in   *)
(* use, the instrument's plan is begun at the position of the moment; or   *)
(* the document has a fault, or the position is not known, and the same is *)
(* tried again later.                                                      *)
LoadNew ==
    /\ load.pc = "idle" /\ newest > 0
    /\ buf' = [buf EXCEPT ![NextBuffer(cur)] = <<>>]
    /\ \/ UNCHANGED load
       \/ /\ newest > stamp
          /\ \E d \in Docs[newest], last \in Positions :
                load' = [pc |-> "create", doc |-> newest,
                         loop |-> Loop(last, d.target, TimeList(d.day[clock], d.mode, clock),
                                       d.skip, d.volK)]
    /\ UNCHANGED <<clock, newest, stamp, cur, wk, handed>>

(* Create.                                                                 *)
CreateTurn ==
    /\ load.pc = "create" /\ Turns(load.loop)
    /\ load' = [load EXCEPT !.loop = Turn(@)]
    /\ UNCHANGED <<clock, newest, stamp, buf, cur, wk, handed>>

CreateEnd ==
    /\ load.pc = "create" /\ ~Turns(load.loop)
    /\ buf' = [buf EXCEPT ![NextBuffer(cur)] = Created(load.loop)]
    /\ load' = [load EXCEPT !.pc = "checkout"]
    /\ UNCHANGED <<clock, newest, stamp, cur, wk, handed>>

(* SetTimeStamp, CheckOut.                                                 *)
CheckOut ==
    /\ load.pc = "checkout"
    /\ stamp' = load.doc
    /\ cur' = NextBuffer(cur)
    /\ load' = NoLoad
    /\ handed' = 0
    /\ UNCHANGED <<clock, newest, buf, wk>>

-----------------------------------------------------------------------------
(* The workers.                                                            *)

(* A tick that passes CheckDoing, or the clock in the auction's hours.     *)
Tick(w) ==
    /\ wk[w].pc = "idle"
    /\ wk' = [wk EXCEPT ![w] = [Idle EXCEPT !.pc = "tick", !.time = clock]]
    /\ UNCHANGED <<clock, newest, stamp, buf, cur, load, handed>>

(* How many slots are due: the loop stops at the first that is not.        *)
Due(plan, time) ==
    CHOOSE k \in 0 .. Len(plan) :
        /\ \A i \in 1 .. k : plan[i].at <= time
        /\ k < Len(plan) => plan[k + 1].at > time

(* Mutant: one slot a call, the earliest that is due.                      *)
LatestDue_First(plan, time) == IF Due(plan, time) = 0 THEN 0 ELSE 1

LatestDue(plan, time) == Due(plan, time)

(* Mutant: the earlier ones stay as well.                                  *)
AfterGet_Kept(plan, time) == plan

(* The due slots are removed but for the latest.                           *)
AfterGet(plan, time) ==
    IF LatestDue(plan, time) = 0 THEN plan
    ELSE SubSeq(plan, LatestDue(plan, time), Len(plan))

(* GetTarget.                                                              *)
GetTarget(w) ==
    LET time == wk[w].time
        k    == LatestDue(Plan, time)
    IN  /\ wk[w].pc = "tick"
        /\ buf' = [buf EXCEPT ![cur] = AfterGet(Plan, time)]
        /\ IF k = 0
           THEN /\ wk' = [wk EXCEPT ![w] = Idle]
                /\ UNCHANGED handed
           ELSE /\ wk' = [wk EXCEPT ![w] = [pc |-> "got", time |-> time,
                                            slot |-> Plan[k], plan |-> stamp]]
                /\ handed' = Plan[k].at
        /\ UNCHANGED <<clock, newest, stamp, cur, load>>

(* TargetWay, one worker at a time: true, or false and the slot stays.     *)
TargetWay(w) ==
    /\ wk[w].pc = "got"
    /\ \A v \in Workers : wk[v].pc # "pop"
    /\ \/ wk' = [wk EXCEPT ![w].pc = "pop"]
       \/ wk' = [wk EXCEPT ![w] = Idle]
    /\ UNCHANGED <<clock, newest, stamp, buf, cur, load, handed>>

(* PopTarget, whichever plan is in use by now.                             *)
PopTarget(w) ==
    /\ wk[w].pc = "pop"
    /\ buf' = [buf EXCEPT ![cur] = IF Plan = <<>> THEN <<>> ELSE Tail(Plan)]
    /\ wk' = [wk EXCEPT ![w] = Idle]
    /\ UNCHANGED <<clock, newest, stamp, cur, load, handed>>

-----------------------------------------------------------------------------
LoadTarget == LoadNew \/ CreateTurn \/ CreateEnd \/ CheckOut
Execute    == \E w \in Workers : Tick(w) \/ GetTarget(w) \/ TargetWay(w) \/ PopTarget(w)

Next == TimePasses \/ Publish \/ LoadTarget \/ Execute

Spec == Init /\ [][Next]_vars

-----------------------------------------------------------------------------
(* Properties.                                                             *)

TypeOK ==
    /\ clock \in 1 .. MaxClock
    /\ newest \in 0 .. Len(Docs) /\ stamp \in 0 .. newest
    /\ buf \in [0 .. Buffers - 1 -> Seq(Slots)]
    /\ cur \in 0 .. Buffers - 1
    /\ load.pc \in {"idle", "create", "checkout"} /\ load.doc \in 0 .. newest
    /\ load.loop.list \in Seq(Slots)
    /\ \A w \in Workers : wk[w] \in [pc : {"idle", "tick", "got", "pop"}, time : Nat,
                                     slot : Slots, plan : Nat]
    /\ handed \in Nat

(* What Create plans stays within one lot of the straight line from the    *)
(* position it found to the target, and is the target at the last time:    *)
(* the rounding down, the lot traded ahead and m_dbVolK cancel out.  The   *)
(* slots tell it all: the times left out of the list change nothing.       *)
Tracks ==
    LET L == load.loop
        n == Len(L.times)
    IN  (load.pc = "create" /\ n > 0) =>
           /\ Size((L.pos - L.last) * n - L.idx * Trade(L)) < n
           /\ L.idx = n => L.pos = L.target
           /\ L.idx > 0 => L.list # <<>> /\ Last(L.list).pos = L.pos

(* A worker holds the latest slot that its tick's time makes due: no slot  *)
(* the plan still has would have been a better choice.                     *)
GotLatest ==
    \A w \in Workers :
        (wk[w].pc \in {"got", "pop"} /\ wk[w].plan = stamp) =>
            \A i \in DOMAIN Plan : Plan[i].at <= wk[w].slot.at \/ Plan[i].at > wk[w].time

(* A plan is never executed backwards: however late a worker's tick, it is *)
(* handed no slot from before one that was handed out already.             *)
NeverBack == [][stamp' = stamp => handed' >= handed]_handed

(* ThreadTime prepares a plan where no worker looks: until CheckOut the    *)
(* plan in use changes by what the workers take from it only.              *)
CurrentUntouched == [][wk' = wk /\ cur' = cur => buf'[cur] = Plan]_<<buf, cur, wk>>

(* CTargetCtrl.h:216: PopTarget removes a slot on condition that it was    *)
(* triggered.  So its time has come.                                       *)
PopsTriggered ==
    [][\A w \in Workers :
          wk[w].pc = "pop" /\ wk'[w].pc = "idle" /\ Plan # <<>> => Head(Plan).at <= clock]_vars
=============================================================================
