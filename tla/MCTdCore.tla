------------------------------ MODULE MCTdCore ------------------------------
(***************************************************************************)
(* The scenarios TLC runs TdCore with.                                     *)
(***************************************************************************)
EXTENDS TdCore

Scenario(ts, fs, n, c) ==
    [slots |-> ts, faults |-> fs, turns |-> 2, orders |-> n, cancels |-> c]

(* A target of two orders; one taken back while its order may hang; and    *)
(* one of more orders than TARGET_LOOP has turns.                          *)
MCFill == {Scenario(<<3>>, {"partial", "exchange"}, 3, 1),
           Scenario(<<1, 0>>, {}, 3, 1),
           [Scenario(<<3>>, {}, 3, 0) EXCEPT !.turns = 1]}

(* A target that turns while partly filled orders hang; one through        *)
(* everything that can fail; and two through most of it with a second      *)
(* cancel.                                                                 *)
MCTurnOrFaults ==
    {Scenario(<<2, 1>>, {"partial", "exchange"}, 3, 1),
     Scenario(<<2>>, {"offline", "slow", "partial", "risk", "send", "reject"}, 2, 1),
     Scenario(<<2>>, {"offline", "slow", "risk", "send", "reject"}, 2, 2),
     Scenario(<<2>>, {"offline", "partial", "risk", "send", "reject"}, 2, 2)}

MCTwoTriggers == {Scenario(<<2>>, {}, 2, 0)}
MCOffline == {Scenario(<<2>>, {"offline", "exchange"}, 3, 2)}
=============================================================================
