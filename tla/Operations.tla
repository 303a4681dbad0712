----------------------------- MODULE Operations -----------------------------
(***************************************************************************)
(* What the business operations make of a fund: its chart of accounts, the  *)
(* legs they post (operations/services.py) and the sums they read           *)
(* (operations/queries.py).  No variables: the operators take the book.     *)
(***************************************************************************)
EXTENDS Books, Allocation

CONSTANTS
    Commitment,     \* [Fund -> [LPs of the fund -> amount committed]]
    Chart,          \* [Fund -> [cash, holding, fee, gain: accounts in base
                    \*           currency, lp: [LPs -> LP_CAPITAL account]]]
    Penny           \* units in the quantum of a pro-rata share

(* open_fund_accounts opens the accounts of every fund and of every LP with *)
(* a commitment; each is of its own type.                                   *)
ASSUME OperationsAssumption ==
    /\ Penny \in Nat \ {0}
    /\ \A f \in Fund :
          LET c == Chart[f]
              Own == {c.cash, c.holding, c.fee, c.gain}
              OfLps == {c.lp[lp] : lp \in DOMAIN c.lp}
          IN  /\ Own \cup OfLps \subseteq {a \in Account : AccountFund[a] = f}
              /\ c.cash \in Cash
              /\ (Own \ {c.cash}) \cup OfLps \subseteq Account \ Cash
              /\ Cardinality(Own) = 4
              /\ Own \cap OfLps = {}
              /\ IsFiniteSet(DOMAIN c.lp) /\ DOMAIN c.lp \subseteq Nat
              /\ Commitment[f] \in [DOMAIN c.lp -> Nat \ {0}]
              /\ \A lp, k \in DOMAIN c.lp : c.lp[lp] = c.lp[k] => lp = k

-----------------------------------------------------------------------------
(* What is posted. *)

LegOn(a, direction, n) ==
    [account |-> a, direction |-> direction, amount |-> n, base |-> n]

(* Debit one account, credit another. *)
Move(from, to, n) == <<LegOn(to, "DEBIT", n), LegOn(from, "CREDIT", n)>>

(* The parts of a total, in whole pennies, that fall to the LPs. *)
Shares(f, total) ==
    LET pennies == Allocate(total \div Penny, Commitment[f])
    IN  [lp \in DOMAIN Commitment[f] |-> Penny * pennies[lp]]

(* A call or a distribution: for each LP with a share, in order, two legs.  *)
CapitalLegs(kind, f, total) ==
    LET shares == Shares(f, total)
        drawn == {lp \in DOMAIN shares : shares[lp] # 0}
        Nth(n) == CHOOSE lp \in drawn :
                     Cardinality({k \in drawn : k < lp}) = n
        LegsOf(lp) ==
            IF kind = "CAPITAL_CALL"
            THEN Move(Chart[f].lp[lp], Chart[f].cash, shares[lp])
            ELSE Move(Chart[f].cash, Chart[f].lp[lp], shares[lp])
    IN  [j \in 1..(2 * Cardinality(drawn)) |->
            LegsOf(Nth((j - 1) \div 2))[((j - 1) % 2) + 1]]

(* charge_fee, record_investment in base currency, record_valuation. *)
FeeLegs(f, n) == Move(Chart[f].cash, Chart[f].fee, n)
HoldingLegs(f, n) == Move(Chart[f].cash, Chart[f].holding, n)
ValuationLegs(f, change) ==
    IF change > 0 THEN Move(Chart[f].gain, Chart[f].holding, change)
    ELSE Move(Chart[f].holding, Chart[f].gain, -change)

-----------------------------------------------------------------------------
(* What is read. *)

(* A reversal counts as the kind of transfer it reverses. *)
EffectiveType(book, i) ==
    IF book[i].reverses # 0 THEN book[book[i].reverses].type ELSE book[i].type

(* What an LP has paid in, credit-positive, reversed calls taken out. *)
Contributed(book, f, lp) ==
    -Imbalance(book, {e \in Entries(book) :
                        /\ EntryOf(book, e).account = Chart[f].lp[lp]
                        /\ EffectiveType(book, e[1]) = "CAPITAL_CALL"})
=============================================================================
