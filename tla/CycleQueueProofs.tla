-------------------------- MODULE CycleQueueProofs --------------------------
(***************************************************************************)
(* Proofs about CycleQueue for every Capacity, Skip and MaxPush that       *)
(* CapacityAssumption allows.                                              *)
(***************************************************************************)
EXTENDS CycleQueue, Integers, TLAPS

(* Where the copied element stands: it is newer than everything handled,   *)
(* and until the Pop the ring cannot have become empty.                    *)
CopyOrder ==
    /\ pc = "front" => handled <= pushed - Size
    /\ pc = "pop" => /\ ~Empty
                     /\ handled < item
                     /\ item <= pushed - Size + 1
    /\ pc = "handle" => /\ handled < item
                        /\ item <= pushed - Size

IInv == TypeOK /\ Contiguous /\ LossPerOverflow /\ CopyOrder

(* What a Push does to the ring in index arithmetic: it grows by one, or   *)
(* it was one short of its capacity and keeps all but Skip of its slots.   *)
LEMMA PushSize ==
    ASSUME TypeOK, Push
    PROVE  /\ Size \in 0 .. Capacity - 1
           /\ Size' \in 0 .. Capacity - 1
           /\ Wrap(writeIdx + 1) # readIdx =>
                 /\ Size' = Size + 1
                 /\ readIdx' = readIdx
           /\ Wrap(writeIdx + 1) = readIdx =>
                 /\ Size = Capacity - 1
                 /\ Size' = Capacity - Skip
                 /\ readIdx' = Wrap(readIdx + Skip)
  BY CapacityAssumption
     DEF TypeOK, Push, ReadIdxAfterPush, Size, Wrap, Slots

(* What a Pop does: the ring loses its first slot.                         *)
LEMMA PopSize ==
    ASSUME TypeOK, Pop, ~Empty
    PROVE  /\ Size \in 1 .. Capacity - 1
           /\ Size' = Size - 1
           /\ readIdx' = Wrap(readIdx + 1)
  BY CapacityAssumption DEF TypeOK, Pop, Empty, Size, Wrap, Slots

(* TypeOK is inductive by itself: both indices stay inside the ring.       *)
LEMMA TypeInductive ==
    ASSUME TypeOK, [Next]_vars
    PROVE  TypeOK'
<1>1. CASE Push
  BY <1>1, CapacityAssumption
     DEF TypeOK, Push, ReadIdxAfterPush, Wrap, Slots
<1>2. CASE Front
  BY <1>2, CapacityAssumption DEF TypeOK, Front, Slots
<1>3. CASE Pop
  BY <1>3, CapacityAssumption DEF TypeOK, Pop, Wrap, Slots
<1>4. CASE Handle
  BY <1>4 DEF TypeOK, Handle
<1>5. CASE UNCHANGED vars
  BY <1>5 DEF TypeOK, vars
<1> QED
  BY <1>1, <1>2, <1>3, <1>4, <1>5 DEF Next, Drain

(* The indices of a CCycleQueue never leave its slots.                     *)
THEOREM TypeCorrect == Spec => []TypeOK
<1>1. Init => TypeOK
  BY CapacityAssumption DEF Init, TypeOK, Slots
<1>2. TypeOK /\ [Next]_vars => TypeOK'
  BY TypeInductive
<1> QED
  BY <1>1, <1>2, PTL DEF Spec

-----------------------------------------------------------------------------
(* A Push keeps the newest elements in order, through a wrap of either     *)
(* index and through an overflow.                                          *)
LEMMA PushContiguous ==
    ASSUME TypeOK, Contiguous, Push
    PROVE  Contiguous'
<1> SUFFICES ASSUME NEW k \in 0 .. Size' - 1
             PROVE  buf'[Wrap(readIdx' + k)] = pushed' - Size' + k + 1
  BY DEF Contiguous, Wrap
<1>1. /\ pushed' = pushed + 1
      /\ buf' = [buf EXCEPT ![writeIdx] = pushed + 1]
      /\ buf \in [Slots -> Nat] /\ writeIdx \in Slots /\ readIdx \in Slots
      /\ pushed \in Nat
  BY DEF Push, TypeOK
<1>2. CASE Wrap(writeIdx + 1) # readIdx
  <2>1. Size' = Size + 1 /\ readIdx' = readIdx /\ Size \in 0 .. Capacity - 1
    BY <1>2, PushSize
  <2>2. CASE k = Size
    <3>1. Wrap(readIdx + k) = writeIdx
      BY <2>2, <1>1, CapacityAssumption DEF Size, Wrap, Slots
    <3> QED
      BY <3>1, <2>1, <2>2, <1>1
  <2>3. CASE k # Size
    <3>1. k \in 0 .. Size - 1
      BY <2>1, <2>3
    <3>2. Wrap(readIdx + k) # writeIdx /\ Wrap(readIdx + k) \in Slots
      BY <3>1, <1>1, CapacityAssumption DEF Size, Wrap, Slots
    <3>3. buf[Wrap(readIdx + k)] = pushed - Size + k + 1
      BY <3>1 DEF Contiguous
    <3> QED
      BY <3>2, <3>3, <2>1, <1>1, <3>1
  <2> QED
    BY <2>2, <2>3
<1>3. CASE Wrap(writeIdx + 1) = readIdx
  <2>1. Size = Capacity - 1 /\ Size' = Capacity - Skip
        /\ readIdx' = Wrap(readIdx + Skip)
    BY <1>3, PushSize
  <2>2. k \in 0 .. Capacity - Skip - 1
    BY <2>1
  <2>3. Wrap(readIdx' + k) = Wrap(readIdx + (k + Skip))
    BY <2>1, <2>2, <1>1, CapacityAssumption DEF Wrap, Slots
  <2>4. CASE k = Capacity - Skip - 1
    <3>1. Wrap(readIdx + (k + Skip)) = writeIdx
      BY <2>4, <1>1, <1>3, CapacityAssumption DEF Wrap, Slots
    <3> QED
      BY <3>1, <2>1, <2>3, <2>4, <1>1, CapacityAssumption
  <2>5. CASE k # Capacity - Skip - 1
    <3>1. k + Skip \in 0 .. Size - 1
      BY <2>1, <2>2, <2>5, CapacityAssumption
    <3>2. Wrap(readIdx + (k + Skip)) # writeIdx
          /\ Wrap(readIdx + (k + Skip)) \in Slots
      BY <3>1, <2>1, <1>1, <1>3, CapacityAssumption DEF Wrap, Slots
    <3>3. buf[Wrap(readIdx + (k + Skip))] = pushed - Size + (k + Skip) + 1
      BY <3>1 DEF Contiguous
    <3> QED
      BY <3>2, <3>3, <2>1, <2>2, <2>3, <1>1, CapacityAssumption
  <2> QED
    BY <2>4, <2>5
<1> QED
  BY <1>2, <1>3

(* A Pop shifts the ring's contents by one.                                *)
LEMMA PopContiguous ==
    ASSUME TypeOK, Contiguous, Pop, ~Empty
    PROVE  Contiguous'
<1> SUFFICES ASSUME NEW k \in 0 .. Size' - 1
             PROVE  buf'[Wrap(readIdx' + k)] = pushed' - Size' + k + 1
  BY DEF Contiguous, Wrap
<1>1. Size' = Size - 1 /\ readIdx' = Wrap(readIdx + 1) /\ Size \in 1 .. Capacity - 1
  BY PopSize
<1>2. readIdx \in Slots /\ pushed \in Nat /\ buf' = buf /\ pushed' = pushed
  BY DEF TypeOK, Pop
<1>3. k + 1 \in 0 .. Size - 1
  BY <1>1
<1>4. Wrap(readIdx' + k) = Wrap(readIdx + (k + 1))
  BY <1>1, <1>2, <1>3, CapacityAssumption DEF Wrap, Slots
<1>5. buf[Wrap(readIdx + (k + 1))] = pushed - Size + (k + 1) + 1
  BY <1>3 DEF Contiguous
<1> QED
  BY <1>1, <1>2, <1>4, <1>5, <1>3

-----------------------------------------------------------------------------
LEMMA InitInv == Init => IInv
<1> SUFFICES ASSUME Init PROVE IInv
  OBVIOUS
<1>1. TypeOK
  BY CapacityAssumption DEF Init, TypeOK, Slots
<1>2. Size = 0
  BY DEF Init, Size
<1> QED
  BY <1>1, <1>2, CapacityAssumption
     DEF Init, IInv, Contiguous, LossPerOverflow, CopyOrder

(* The steps of the draining thread and of the producers keep IInv.        *)
LEMMA NextInv ==
    ASSUME IInv, [Next]_vars
    PROVE  IInv'
<1> USE DEF IInv
<1>0. TypeOK'
  BY TypeInductive
<1>1. CASE Push
  <2>1. Contiguous'
    BY <1>1, PushContiguous
  <2>2. /\ pushed' = pushed + 1
        /\ overflows' = IF Wrap(writeIdx + 1) = readIdx THEN overflows + 1
                                                       ELSE overflows
        /\ UNCHANGED <<pc, item, handled, count>>
    BY <1>1 DEF Push
  <2>3. LossPerOverflow'
    <3>1. CASE Wrap(writeIdx + 1) # readIdx
      BY <3>1, <1>1, <2>2, PushSize, CapacityAssumption
         DEF LossPerOverflow, TypeOK
    <3>2. CASE Wrap(writeIdx + 1) = readIdx
      <4>1. overflows' = overflows + 1 /\ Size = Capacity - 1
            /\ Size' = Capacity - Skip
        BY <3>2, <1>1, <2>2, PushSize
      <4>2. Skip * (overflows + 1) = Skip * overflows + Skip
        BY CapacityAssumption DEF TypeOK
      <4> QED
        BY <4>1, <4>2, <2>2, CapacityAssumption DEF LossPerOverflow, TypeOK
    <3> QED
      BY <3>1, <3>2
  <2>4. CopyOrder'
    <3> USE CapacityAssumption
            DEF CopyOrder, Push, ReadIdxAfterPush, Empty, Size, Wrap, TypeOK, Slots
    <3>1. CASE pc = "front"
      BY <1>1, <3>1
    <3>2. CASE pc = "pop"
      BY <1>1, <3>2
    <3>3. CASE pc = "handle"
      BY <1>1, <3>3
    <3> QED
      BY <3>1, <3>2, <3>3
  <2> QED
    BY <1>0, <2>1, <2>3, <2>4
<1>2. CASE Front
  <2>1. UNCHANGED <<buf, writeIdx, readIdx, pushed, handled, count, overflows>>
        /\ pc = "front" /\ pc' = "pop" /\ item' = buf[readIdx] /\ ~Empty
    BY <1>2 DEF Front
  <2>2. Size' = Size /\ Empty' = Empty
    BY <2>1 DEF Size, Empty
  <2>3. Size \in 1 .. Capacity - 1
    BY <2>1, CapacityAssumption DEF Size, Empty, TypeOK, Slots
  <2>4. item' = pushed - Size + 1
    <3>1. buf[Wrap(readIdx + 0)] = pushed - Size + 0 + 1
      BY <2>3 DEF Contiguous
    <3>2. Wrap(readIdx + 0) = readIdx
      BY CapacityAssumption DEF Wrap, TypeOK, Slots
    <3> QED
      BY <3>1, <3>2, <2>1, <2>3 DEF TypeOK
  <2>5. Contiguous'
    BY <2>1, <2>2 DEF Contiguous, Wrap
  <2>6. LossPerOverflow'
    BY <2>1, <2>2 DEF LossPerOverflow
  <2>7. CopyOrder'
    BY <2>1, <2>2, <2>3, <2>4 DEF CopyOrder, TypeOK
  <2> QED
    BY <1>0, <2>5, <2>6, <2>7
<1>3. CASE Pop
  <2>1. UNCHANGED <<buf, writeIdx, pushed, item, handled, count, overflows>>
        /\ pc = "pop" /\ pc' = "handle"
    BY <1>3 DEF Pop
  <2>2. ~Empty
    BY <2>1 DEF CopyOrder
  <2>3. Size \in 1 .. Capacity - 1 /\ Size' = Size - 1
    BY <1>3, <2>2, PopSize
  <2>4. Contiguous'
    BY <1>3, <2>2, PopContiguous
  <2>5. LossPerOverflow'
    BY <2>1, <2>3, CapacityAssumption DEF LossPerOverflow, TypeOK
  <2>6. CopyOrder'
    BY <2>1, <2>3 DEF CopyOrder, TypeOK
  <2> QED
    BY <1>0, <2>4, <2>5, <2>6
<1>4. CASE Handle
  <2>1. UNCHANGED <<buf, writeIdx, readIdx, pushed, item, overflows>>
        /\ pc = "handle" /\ pc' = "front" /\ handled' = item
        /\ count' = count + 1
    BY <1>4 DEF Handle
  <2>2. Size' = Size /\ Empty' = Empty /\ Size \in 0 .. Capacity - 1
    BY <2>1, CapacityAssumption DEF Size, Empty, TypeOK, Slots
  <2>3. Contiguous'
    BY <2>1, <2>2 DEF Contiguous, Wrap
  <2>4. LossPerOverflow'
    BY <2>1, <2>2, CapacityAssumption DEF LossPerOverflow, TypeOK
  <2>5. CopyOrder'
    BY <2>1, <2>2 DEF CopyOrder, TypeOK
  <2> QED
    BY <1>0, <2>3, <2>4, <2>5
<1>5. CASE UNCHANGED vars
  <2>1. Size' = Size /\ Empty' = Empty
    BY <1>5 DEF vars, Size, Empty
  <2> QED
    BY <1>0, <1>5, <2>1
       DEF vars, Contiguous, LossPerOverflow, CopyOrder, Wrap
<1> QED
  BY <1>1, <1>2, <1>3, <1>4, <1>5 DEF Next, Drain

LEMMA InvariantHolds == Spec => []IInv
<1>1. Init => IInv
  BY InitInv
<1>2. IInv /\ [Next]_vars => IInv'
  BY NextInv
<1> QED
  BY <1>1, <1>2, PTL DEF Spec

(* Through any number of laps and overflows the ring holds the newest Size *)
(* elements, oldest first.                                                 *)
THEOREM ContiguousAlways == Spec => []Contiguous
  BY InvariantHolds, PTL DEF IInv

(* Every overflow loses exactly Skip elements and nothing else is lost.    *)
THEOREM LossAlways == Spec => []LossPerOverflow
  BY InvariantHolds, PTL DEF IInv

(* The draining thread handles elements in the order they were pushed and  *)
(* none twice, not even twice in a row, whatever is pushed between its     *)
(* Front and its Pop: every handling is of a newer element than all before.*)
THEOREM HandledInOrder == Spec => InOrderOnce
<1>1. IInv /\ [Next]_vars
        => [count' # count => handled' > handled /\ count' = count + 1]_vars
  <2> SUFFICES ASSUME IInv, Next, count' # count
               PROVE  handled' > handled /\ count' = count + 1
    BY DEF vars
  <2>1. Handle
    BY DEF Next, Drain, Push, Front, Pop
  <2> QED
    BY <2>1 DEF Handle, IInv, CopyOrder, TypeOK
<1> QED
  BY <1>1, InvariantHolds, PTL DEF Spec, InOrderOnce

-----------------------------------------------------------------------------
(* Every step of the ring is a step of the atomic queue or a stutter: Push *)
(* is Push, Front is Take, Pop and Handle change nothing the queue shows.  *)
THEOREM RefinesFifo == Spec => Fifo!Safe
<1>1. Init => Fifo!Init
  BY DEF Init, Fifo!Init, NextTicket, Size
<1>2. IInv /\ IInv' /\ [Next]_vars => [Fifo!Next]_Fifo!fifoVars
  <2> SUFFICES ASSUME IInv, IInv', [Next]_vars
               PROVE  [Fifo!Next]_Fifo!fifoVars
    OBVIOUS
  <2> USE DEF IInv, NextTicket
  <2>1. CASE Push
    <3>1. pushed < MaxPush /\ pushed' = pushed + 1 /\ UNCHANGED <<pc, item>>
          /\ pushed \in Nat
      BY <2>1 DEF Push, TypeOK
    <3>2. Size \in 0 .. Capacity - 1
      BY <2>1, PushSize
    <3>3. CASE Wrap(writeIdx + 1) # readIdx
      <4>1. Size' = Size + 1
        BY <3>3, <2>1, PushSize
      <4>2. NextTicket' = NextTicket
        BY <4>1, <3>1, <3>2
      <4> QED
        BY <3>1, <4>2 DEF Fifo!Next, Fifo!Push
    <3>4. CASE Wrap(writeIdx + 1) = readIdx
      <4>1. Size = Capacity - 1 /\ Size' = Capacity - Skip
        BY <3>4, <2>1, PushSize
      <4>2. NextTicket' = NextTicket + Skip
        BY <4>1, <3>1, CapacityAssumption
      <4>3. Fifo!Length + 1 >= Capacity - 1
        BY <4>1, <3>1, CapacityAssumption DEF Fifo!Length
      <4> QED
        BY <3>1, <4>2, <4>3 DEF Fifo!Next, Fifo!Push
    <3> QED
      BY <3>3, <3>4
  <2>2. CASE Front
    <3>1. UNCHANGED <<buf, writeIdx, readIdx, pushed>> /\ pc = "front"
          /\ pc' = "pop" /\ item' = buf[readIdx] /\ ~Empty
      BY <2>2 DEF Front
    <3>2. Size' = Size /\ Size \in 1 .. Capacity - 1 /\ pushed \in Nat
      BY <3>1, CapacityAssumption DEF Size, Empty, TypeOK, Slots
    <3>3. buf[Wrap(readIdx + 0)] = pushed - Size + 0 + 1
      BY <3>2 DEF Contiguous
    <3>4. Wrap(readIdx + 0) = readIdx
      BY CapacityAssumption DEF Wrap, TypeOK, Slots
    <3>5. item' = NextTicket /\ NextTicket' = NextTicket + 1
          /\ NextTicket <= pushed
      BY <3>1, <3>2, <3>3, <3>4
    <3> QED
      BY <3>1, <3>5 DEF Fifo!Next, Fifo!Take
  <2>3. CASE Pop
    <3>1. UNCHANGED <<pushed, item>> /\ pc = "pop" /\ pc' = "handle" /\ ~Empty
      BY <2>3 DEF Pop, CopyOrder
    <3>2. Size \in 1 .. Capacity - 1 /\ Size' = Size - 1 /\ pushed \in Nat
      BY <2>3, <3>1, PopSize DEF TypeOK
    <3>3. NextTicket' = NextTicket
      BY <3>1, <3>2
    <3> QED
      BY <3>1, <3>3 DEF Fifo!fifoVars
  <2>4. CASE Handle
    <3>1. UNCHANGED <<writeIdx, readIdx, pushed, item>>
          /\ pc = "handle" /\ pc' = "front"
      BY <2>4 DEF Handle
    <3>2. Size' = Size
      BY <3>1 DEF Size
    <3> QED
      BY <3>1, <3>2 DEF Fifo!fifoVars
  <2>5. CASE UNCHANGED vars
    BY <2>5 DEF vars, Fifo!fifoVars, Size
  <2> QED
    BY <2>1, <2>2, <2>3, <2>4, <2>5 DEF Next, Drain
<1> QED
  BY <1>1, <1>2, InvariantHolds, PTL DEF Spec, Fifo!Safe
=============================================================================
