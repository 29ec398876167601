----------------------------- MODULE HtpManage -----------------------------
(***************************************************************************)
(* CHtpManage and CHtpOrderManage (src/HCTP/CMyData.h 674-805, CMyData.cpp *)
(* 380-516): the table of the orders HTP is working on.  An entry stamps   *)
(* the first time each status was set and shows the highest one.  Status   *)
(* names are the source's without their HTS_ prefix.                       *)
(*                                                                         *)
(* Of the stamps an entry keeps, one decides behaviour: CancelWay and      *)
(* GetOrderGD measure age from ORDED, and a stamp never set has age 0.     *)
(***************************************************************************)
EXTENDS Naturals

INIT        == 0
ORD_NEW     == 1
ORD_DOING   == 2
ORD_DONE    == 3
ORDED       == 4
TRADED_PART == 5
CCL_DOING   == 6
CCL_DONE    == 7
TRADED      == 8
CANCEL      == 9

Statuses == INIT .. CANCEL

Entry == [st : Statuses, orded : BOOLEAN]

(* No entry: GetStatus answers HTS_INIT and GetTickChange answers 0.       *)
NoEntry == [st |-> INIT, orded |-> FALSE]

(* SetStatus: create the entry if there is none, stamp, and only go up.    *)
SetStatus(e, s) ==
    [st    |-> IF s > e.st THEN s ELSE e.st,
     orded |-> e.orded \/ s = ORDED]

(* HaveDoing's two reasons to answer non-zero: still in a local queue or   *)
(* being cancelled (1 for ever), and sent without a reply so far (1, then  *)
(* -1 after five minutes, then -2 after ten).                              *)
Doing(e)   == e.st # INIT /\ (e.st < ORD_DONE \/ e.st = CCL_DOING)
Waiting(e) == e.st \in {ORD_DONE, CCL_DONE}
Blocking(e) == Doing(e) \/ Waiting(e)

(* GetOrderGD without a time limit, and the entries that can ever be old   *)
(* enough for one with a limit.                                            *)
Hanging(e) == ORD_DONE < e.st /\ e.st < TRADED
CanExpire(e) == Hanging(e) /\ e.orded
=============================================================================
