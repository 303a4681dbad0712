----------------------------- MODULE MCHistory ------------------------------
(***************************************************************************)
(* Cash accounts 1 and 3 and an LP capital account 2: a deposit, a transfer *)
(* with two legs on account 1, and money that moves to account 3, which     *)
(* needs the deposit to have come first, and back.                          *)
(***************************************************************************)
EXTENDS History, TLC

MCFund == {"A"}
MCAccount == 1..3
MCCash == {1, 3}
MCAccountFund == [a \in MCAccount |-> "A"]
MCPeriod == {<<"A", 1>>}
MCDay == {1}

LegOn(a, direction, n) ==
    [account |-> a, direction |-> direction, amount |-> n, base |-> n]

Ask(k, type, legs) ==
    [kind |-> "transfer", key |-> k, type |-> type, period |-> <<"A", 1>>,
     legs |-> legs]

MCRequest ==
    {Ask("k1", "ADJUSTMENT", <<LegOn(2, "CREDIT", 3), LegOn(1, "DEBIT", 3)>>),
     Ask("k2", "FEE", <<LegOn(2, "DEBIT", 2), LegOn(1, "CREDIT", 1),
                        LegOn(1, "CREDIT", 1)>>),
     Ask("k3", "ADJUSTMENT", <<LegOn(1, "CREDIT", 1), LegOn(3, "DEBIT", 1)>>),
     Ask("k4", "ADJUSTMENT", <<LegOn(3, "CREDIT", 1), LegOn(1, "DEBIT", 1)>>)}

Symmetry == Permutations(Worker)
=============================================================================
