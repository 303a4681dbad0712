------------------------------ MODULE MCLedger ------------------------------
(***************************************************************************)
(* Small instances of the ledger engine for TLC: fund "A" with cash         *)
(* accounts 1 and 3 and an LP capital account 2, fund "B" with account 4,   *)
(* and the requests of each scenario.                                       *)
(***************************************************************************)
EXTENDS Ledger, TLC

MCAccount == 1..4
MCCash == {1, 3}
MCAccountFund == [a \in MCAccount |-> IF a = 4 THEN "B" ELSE "A"]
MCFund == {"A", "B"}
OnePeriod == {<<"A", 1>>}
TwoPeriods == {<<"A", 1>>, <<"A", 2>>}
OneDay == {1}
TwoDays == {1, 2}
ThreeDays == {1, 2, 3}

DebitLeg(a, n) == [account |-> a, direction |-> "DEBIT", amount |-> n, base |-> n]
CreditLeg(a, n) == [account |-> a, direction |-> "CREDIT", amount |-> n, base |-> n]

(* n units from account a to account b, the paying leg first. *)
Move(a, b, n) == <<CreditLeg(a, n), DebitLeg(b, n)>>

Ask(k, type, p, legs) ==
    [kind |-> "transfer", key |-> k, type |-> type, period |-> p, legs |-> legs]
Reverse(k, i, day) ==
    [kind |-> "reversal", key |-> k, target |-> i, on |-> day]
CloseOf(p) == [kind |-> "close", period |-> p]

P1 == <<"A", 1>>
P2 == <<"A", 2>>

Deposit(k) == Ask(k, "ADJUSTMENT", P1, Move(2, 1, 2))

(* Money comes in once and three transfers compete for it, two of them in   *)
(* opposite directions between the same accounts; others name an account    *)
(* that does not exist or is another fund's, do not balance, or do so only  *)
(* with a leg worth nothing.                                                *)
FundsRequest ==
    {Deposit("k1"),
     Ask("k2", "ADJUSTMENT", P1, Move(1, 3, 2)),
     Ask("k3", "ADJUSTMENT", P1, Move(3, 1, 1)),
     Ask("k4", "FEE", P1, <<DebitLeg(2, 2), CreditLeg(1, 1), CreditLeg(1, 1)>>),
     Ask("k1", "ADJUSTMENT", P1, <<DebitLeg(1, 1), DebitLeg(2, 1)>>),
     Ask("k2", "ADJUSTMENT", P1, Move(2, 9, 1)),
     Ask("k3", "ADJUSTMENT", P1, Move(2, 4, 1)),
     Ask("k4", "ADJUSTMENT", P1, <<DebitLeg(1, 2), CreditLeg(2, 1)>>),
     Ask("k2", "ADJUSTMENT", P1,
         <<DebitLeg(1, 1), [CreditLeg(2, 1) EXCEPT !.base = 0],
           [CreditLeg(2, 1) EXCEPT !.base = 1]>>)}

(* Duplicates, one with its legs reordered and valued at a later rate, a    *)
(* key reused for something else, reversals that race or are booked on      *)
(* another day or none with a period, and a closing.                        *)
ReplayRequest ==
    {Deposit("k1"),
     Ask("k1", "ADJUSTMENT", P1, <<[DebitLeg(1, 2) EXCEPT !.base = 3],
                                   [CreditLeg(2, 2) EXCEPT !.base = 3]>>),
     Ask("k2", "FEE", P1, Move(1, 2, 2)),
     Reverse("k2", 1, 1), Reverse("k3", 2, 1), Reverse("k4", 2, 1),
     Reverse("k3", 1, 2), Reverse("k1", 1, 3),
     CloseOf(P1)}

(* Postings and reversals race the closing of their period. *)
PeriodRequest ==
    {Deposit("k1"), Ask("k2", "FEE", P2, Move(1, 2, 1)),
     Reverse("k3", 1, 1), Reverse("k4", 1, 2),
     CloseOf(P1), CloseOf(P2)}

(* One reversal without a date, retried. *)
UndatedRequest == {Deposit("k1"), Reverse("k2", 1, Undated)}

Symmetry == Permutations(Worker)
=============================================================================
