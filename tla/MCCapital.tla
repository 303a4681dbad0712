------------------------------ MODULE MCCapital ------------------------------
(***************************************************************************)
(* A fund "A" with LPs 1 and 2, who have promised 2 and 1, and a fund "B"   *)
(* with no LPs.                                                             *)
(***************************************************************************)
EXTENDS Capital, TLC

MCFund == {"A", "B"}
MCPeriod == {<<"A", 1>>, <<"B", 1>>}
OneDay == {1}

NoLPs == [lp \in {} |-> 0]
MCCommitment == [f \in MCFund |-> IF f = "A" THEN <<2, 1>> ELSE NoLPs]
MCChart ==
    [f \in MCFund |->
        IF f = "A"
        THEN [cash |-> 1, lp |-> <<2, 3>>, fee |-> 4, gain |-> 5, holding |-> 6]
        ELSE [cash |-> 7, lp |-> NoLPs, fee |-> 8, gain |-> 9, holding |-> 10]]
MCAccount == 1..10
MCCash == {1, 7}
MCAccountFund == [a \in MCAccount |-> IF a > 6 THEN "B" ELSE "A"]

Request_(kind, k, f, n, on, terms) ==
    [kind |-> kind, key |-> k, fund |-> f, total |-> n, on |-> on,
     terms |-> terms]
Call(k, n) == Request_("CAPITAL_CALL", k, "A", n, 1, 0)
Distribute(k, n) == Request_("DISTRIBUTION", k, "A", n, 1, 0)

Reverse(k, i) == [kind |-> "reversal", key |-> k, target |-> i, on |-> 1]

(* Calls that fit one by one and not together, one of them with its key     *)
(* used again, a distribution of what came in, one on a day without period, *)
(* a call of a fund without LPs, and a reversal of the first transfer.      *)
CompetingCapital ==
    {Call("k1", 2), Call("k2", 1), Call("k3", 2), Distribute("k4", 1),
     [Call("k1", 2) EXCEPT !.terms = 1],
     Request_("DISTRIBUTION", "k2", "A", 1, 2, 0),
     Request_("CAPITAL_CALL", "k1", "B", 1, 1, 0)}
CompetingRequest == {Reverse("k5", 1)}

(* One request of every kind, which meet at the fund, its cash and its      *)
(* period.                                                                  *)
WaitingCapital == {Call("k1", 2), Distribute("k2", 1)}
CloseOf(p) == [kind |-> "close", period |-> p]
PayFee ==
    [kind |-> "transfer", key |-> "k5", type |-> "FEE", period |-> <<"A", 1>>,
     legs |-> FeeLegs("A", 1)]
WaitingRequest == {Reverse("k4", 1), CloseOf(<<"A", 1>>), PayFee}

Symmetry == Permutations(Worker)
=============================================================================
