--------------------------- MODULE MCPositionBook ---------------------------
(* Accounts for PositionBook: a long position of both days, over the limit *)
(* of 2 lots, and a short one of both days with a long of yesterday.       *)
EXTENDS PositionBook

Account(ltd, lyd, std, syd) ==
    [s \in Sides |-> IF s = "long" THEN [td |-> ltd, yd |-> lyd] ELSE [td |-> std, yd |-> syd]]

MCAccounts == {Account(1, 2, 0, 0), Account(0, 1, 1, 1)}
MCTargets  == {-1, 3}
=============================================================================
