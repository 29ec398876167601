---------------------------- MODULE MCTdSession ----------------------------
(***************************************************************************)
(* The order TLC runs TdSession with: at the first of two exchanges, of    *)
(* two lots, so that it can be partly filled.                              *)
(***************************************************************************)
EXTENDS TdSession

MCOrders == {"o1"}
MCExid == [o \in MCOrders |-> 0]
MCVol == [o \in MCOrders |-> 2]
=============================================================================
