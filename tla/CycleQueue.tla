----------------------------- MODULE CycleQueue -----------------------------
(***************************************************************************)
(* CCycleQueue<T> of src/HCTP/CCycleQueue.h: the ring every pair of        *)
(* threads of HCTP communicates through (ticks, orders, cancels, reports,  *)
(* K-lines, log lines).  Any thread may Push; one thread drains the ring   *)
(* with the loop                                                           *)
(*       while (q.Front(x)) { q.Pop(); handle(x); }                        *)
(* Each operation holds m_lock, so each is one action; Front and Pop are   *)
(* two lock sections and a Push may come between them.                     *)
(*                                                                         *)
(* The elements are tickets: the n-th element ever pushed is the number n, *)
(* so that a value read from a slot tells whether it is the right one.     *)
(***************************************************************************)
EXTENDS Naturals

CONSTANTS
    Capacity,  \* m_nBitMaskTbl + 1, the number of slots (256 in the program)
    Skip,      \* what a full ring adds to m_nReadIdx (0x0F in the program)
    MaxPush    \* bound: elements pushed in a behaviour

ASSUME CapacityAssumption ==
    /\ Capacity \in Nat
    /\ Skip \in Nat \ {0}
    /\ Skip < Capacity

ASSUME MaxPushAssumption == MaxPush \in Nat

VARIABLES
    buf,       \* m_ppData: the slots
    writeIdx,  \* m_nWriteIdx
    readIdx,   \* m_nReadIdx
    pushed,    \* history: the number of elements pushed
    pc,        \* the draining thread: "front", "pop" or "handle"
    item,      \* its local copy x, 0 before the first Front
    handled,   \* history: the last element handled
    count,     \* history: the number of elements handled
    overflows  \* history: how often Push found the ring full

vars == <<buf, writeIdx, readIdx, pushed, pc, item, handled, count, overflows>>

Slots == 0 .. Capacity - 1

-----------------------------------------------------------------------------
(* Mutant: an index may stay at Capacity, one past the last slot.          *)
Wrap_Late(i) == IF i > Capacity THEN i - Capacity ELSE i

(* `& m_nBitMaskTbl`: the operand is never more than one lap ahead.        *)
Wrap(i) == IF i >= Capacity THEN i - Capacity ELSE i

(* Mutant: the mask taken for the number of slots.                         *)
Size_Mask == IF writeIdx >= readIdx THEN writeIdx - readIdx
                                    ELSE Capacity - 1 - readIdx + writeIdx

Size == IF writeIdx >= readIdx THEN writeIdx - readIdx
                               ELSE Capacity - readIdx + writeIdx

Empty == writeIdx = readIdx

(* Mutants: a full ring is left as it is (it reads as empty); the skip     *)
(* steps over one element.                                                 *)
ReadIdxAfterPush_NoSkip(w) == readIdx
ReadIdxAfterPush_SkipOne(w) == IF w = readIdx THEN Wrap(readIdx + 1) ELSE readIdx

(* The read index once the write index has moved to w.                     *)
ReadIdxAfterPush(w) == IF w = readIdx THEN Wrap(readIdx + Skip) ELSE readIdx

Init ==
    /\ buf = [i \in Slots |-> 0]
    /\ writeIdx = 0
    /\ readIdx = 0
    /\ pushed = 0
    /\ pc = "front"
    /\ item = 0
    /\ handled = 0
    /\ count = 0
    /\ overflows = 0

(* Push: write the slot, move on, and step over the oldest Skip elements   *)
(* when the ring has become full.                                          *)
Push ==
    LET w == Wrap(writeIdx + 1) IN
    /\ pushed < MaxPush
    /\ buf' = [buf EXCEPT ![writeIdx] = pushed + 1]
    /\ writeIdx' = w
    /\ readIdx' = ReadIdxAfterPush(w)
    /\ pushed' = pushed + 1
    /\ overflows' = IF w = readIdx THEN overflows + 1 ELSE overflows
    /\ UNCHANGED <<pc, item, handled, count>>

(* Mutant: the last element is left in the ring.                           *)
Front_NotLast ==
    /\ pc = "front"
    /\ Size > 1
    /\ item' = buf[readIdx]
    /\ pc' = "pop"
    /\ UNCHANGED <<buf, writeIdx, readIdx, pushed, handled, count, overflows>>

(* Front: copy the oldest element; on an empty ring the loop sleeps.       *)
Front ==
    /\ pc = "front"
    /\ ~Empty
    /\ item' = buf[readIdx]
    /\ pc' = "pop"
    /\ UNCHANGED <<buf, writeIdx, readIdx, pushed, handled, count, overflows>>

(* Mutant: the element copied stays in the ring, to be handled again.      *)
Pop_Keeps ==
    /\ pc = "pop"
    /\ pc' = "handle"
    /\ UNCHANGED <<buf, writeIdx, readIdx, pushed, item, handled, count, overflows>>

(* Pop: advance the read index, unless the ring is empty.  The callers     *)
(* ignore the result.                                                      *)
Pop ==
    /\ pc = "pop"
    /\ readIdx' = IF Empty THEN readIdx ELSE Wrap(readIdx + 1)
    /\ pc' = "handle"
    /\ UNCHANGED <<buf, writeIdx, pushed, item, handled, count, overflows>>

(* The caller's loop body, for example TradDoing in ThreadTrading.         *)
Handle ==
    /\ pc = "handle"
    /\ handled' = item
    /\ count' = count + 1
    /\ pc' = "front"
    /\ UNCHANGED <<buf, writeIdx, readIdx, pushed, item, overflows>>

Drain == Front \/ Pop \/ Handle

Next == Push \/ Drain

(* The draining threads loop until the program ends, so a non-empty ring   *)
(* is always drained; nothing obliges a producer to push.                  *)
Spec == Init /\ [][Next]_vars /\ WF_vars(Drain)

-----------------------------------------------------------------------------
TypeOK ==
    /\ buf \in [Slots -> Nat]
    /\ writeIdx \in Slots
    /\ readIdx \in Slots
    /\ pushed \in Nat
    /\ pc \in {"front", "pop", "handle"}
    /\ item \in Nat
    /\ handled \in Nat
    /\ count \in Nat
    /\ overflows \in Nat

(* The ring holds the newest Size elements, oldest first: through any      *)
(* number of laps and overflows the slot k places after m_nReadIdx holds   *)
(* the element Front must return after k Pops (CCycleQueue.h 79-114).      *)
Contiguous ==
    \A k \in 0 .. Size - 1 : buf[Wrap(readIdx + k)] = pushed - Size + k + 1

(* Exactly Skip elements are lost per overflow and none otherwise, also    *)
(* when the overflow falls between a Front and its Pop: then the Skip      *)
(* elements stepped over include the one already copied and the Pop        *)
(* discards one nobody has read (CCycleQueue.h 87-91 and 94-114).          *)
LossPerOverflow ==
    pushed = Size + count + Skip * overflows + (IF pc = "handle" THEN 1 ELSE 0)

(* The consumer never handles an element twice, neither at once nor later, *)
(* nor one older than an element it has handled: HTP's order and cancel    *)
(* queues rely on it, since an order handled twice is sent twice           *)
(* (CTdThread.cpp 1488-1498).  Every handling counts: one that repeats the *)
(* element just handled changes count although it leaves handled alone.    *)
InOrderOnce ==
    [][count' # count => handled' > handled /\ count' = count + 1]_vars

(* Every element leaves the ring: the one pushed at the count n is, from   *)
(* some moment on, handled or stepped over, however many are pushed later. *)
EveryElementLeaves ==
    \A n \in 1 .. MaxPush : (pushed = n) ~> (pushed - Size >= n)

-----------------------------------------------------------------------------
(* The ticket the ring will hand out next: between Front and Pop the one   *)
(* at m_nReadIdx is already spoken for.                                    *)
NextTicket == pushed - Size + (IF pc = "pop" THEN 2 ELSE 1)

Fifo == INSTANCE LossyFifo WITH
            oldest <- NextTicket, issued <- pushed, taken <- item

(* The ring with its two-section drain is a queue with an atomic Take: the *)
(* Pushes that fall between Front and Pop are never observed               *)
(* (CCycleQueue.h 79-114, CTdThread.cpp 1488-1491).                        *)
ImplementsFifo == Fifo!Spec
=============================================================================
