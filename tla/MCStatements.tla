---------------------------- MODULE MCStatements ----------------------------
(***************************************************************************)
(* One fund of two LPs, two periods, and operations of every kind in either *)
(* period, some with their reversals; a penny is two units, so that gains   *)
(* and fees split finer than calls.                                         *)
(***************************************************************************)
EXTENDS Statements

MCFund == {"A"}
MCPeriod == {<<"A", 1>>, <<"A", 2>>}
MCValued == {<<"A", 1>>}
MCAccount == 1..6
MCCash == {1}
MCAccountFund == [a \in MCAccount |-> "A"]
MCCommitment == [f \in MCFund |-> <<5, 3>>]
MCChart ==
    [f \in MCFund |->
        [cash |-> 1, lp |-> <<2, 3>>, fee |-> 4, gain |-> 5, holding |-> 6]]

Transfer(k, type, on, legs) ==
    [key |-> k, type |-> type, period |-> <<"A", on>>, reverses |-> 0,
     legs |-> legs]

Reversal(k, on, i, legs) ==
    [Transfer(k, "REVERSAL", on, Flip(legs)) EXCEPT !.reverses = i]

CallLegs == CapitalLegs("CAPITAL_CALL", "A", 6)

(* Key "k3" reverses the first transfer, if it has these legs. *)
MCRow ==
    {Transfer("k1", "CAPITAL_CALL", 1, CallLegs),
     Transfer("k2", "DISTRIBUTION", 2, CapitalLegs("DISTRIBUTION", "A", 2)),
     Transfer("k4", "FEE", 1, FeeLegs("A", 3)),
     Transfer("k5", "ADJUSTMENT", 1, ValuationLegs("A", 3)),
     Transfer("k5", "ADJUSTMENT", 2, ValuationLegs("A", -1))}
    \cup {Reversal("k3", on, 1, legs) :
             on \in 1..2, legs \in {CallLegs, ValuationLegs("A", 3)}}
=============================================================================
