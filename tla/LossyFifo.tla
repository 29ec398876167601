------------------------------ MODULE LossyFifo ------------------------------
(***************************************************************************)
(* What CCycleQueue promises to the two threads at its ends: a first-in    *)
(* first-out queue with an atomic Take that returns at once with the       *)
(* oldest element, and that, when nearly full, may discard exactly Skip of *)
(* its oldest elements.  CycleQueue, whose Take is two lock sections on    *)
(* slots reached through wrapping indices, implements it.                  *)
(*                                                                         *)
(* The queue holds consecutive tickets, so it is given by its two ends.    *)
(***************************************************************************)
EXTENDS Naturals

CONSTANTS Capacity, Skip, MaxPush

VARIABLES
    oldest,  \* the ticket the next Take returns, if it has been issued
    issued,  \* the number of tickets pushed
    taken    \* the last ticket taken, 0 before the first

fifoVars == <<oldest, issued, taken>>

Init == oldest = 1 /\ issued = 0 /\ taken = 0

Length == issued + 1 - oldest

Push ==
    /\ issued < MaxPush
    /\ issued' = issued + 1
    /\ \/ oldest' = oldest
       \/ /\ Length + 1 >= Capacity - 1
          /\ oldest' = oldest + Skip
    /\ UNCHANGED taken

Take ==
    /\ oldest <= issued
    /\ taken' = oldest
    /\ oldest' = oldest + 1
    /\ UNCHANGED issued

Next == Push \/ Take

Safe == Init /\ [][Next]_fifoVars

Spec == Safe /\ WF_fifoVars(Take)
=============================================================================
