----------------------------- MODULE MCRiskCtrl -----------------------------
(* RiskCtrl with limits small enough to be reached and passed: one order   *)
(* that is counted does not exceed a day's limit of 1, two do, and so with *)
(* cancels; the first of a minute exceeds a limit of 0.  One document      *)
(* allows closing only, the other lowers the day's limit and stops all     *)
(* trading.                                                                *)
EXTENDS RiskCtrl

Lim(day, cancel, min) == [day |-> day, cancel |-> cancel, min |-> min]

MCDefault == Lim(1, 1, 0)
MCDocs == {[en |-> TRUE, lim |-> Lim(1, 1, 0), ctrl |-> "noopen"],
           [en |-> FALSE, lim |-> Lim(0, 1, 0), ctrl |-> "stop"]}
=============================================================================
