------------------------------ MODULE Pricing -------------------------------
(***************************************************************************)
(* The value of legs in the fund's base currency (ledger/pricing.py), and   *)
(* the legs of a purchase in another currency (record_investment of         *)
(* operations/services.py).                                                 *)
(*                                                                          *)
(* Amounts are whole numbers of quanta of 0.0001; a rate is a fraction.     *)
(* The code multiplies exactly (50 digits) and rounds once.                 *)
(***************************************************************************)
EXTENDS Integers, Sequences, FiniteSets, Sums

CONSTANTS
    BaseCurrency,
    Penny,          \* quanta in a penny
    None            \* no rate or base amount given

ASSUME PricingAssumption == Penny \in Nat \ {0} /\ None \notin Int

(* A published rate: [currency, day, rate], rate = [num, den]. *)
RateFor(published, currency, day) ==
    LET known == {p \in published : p.currency = currency /\ p.day <= day}
    IN  IF known = {} THEN None
        ELSE (CHOOSE p \in known : \A q \in known : q.day <= p.day).rate

HalfEven(n, d) ==
    LET q == n \div d
        r == n % d
    IN  IF 2 * r < d \/ (2 * r = d /\ q % 2 = 0) THEN q ELSE q + 1

Convert(amount, rate) == HalfEven(amount * rate.num, rate.den)

-----------------------------------------------------------------------------
(* A leg to price: [account, currency, direction, amount, rate, base], the  *)
(* last two None unless the caller gives them.                              *)

Foreign(leg) == leg.currency # BaseCurrency

RateOf(leg, published, day) ==
    IF leg.rate # None THEN leg.rate
    ELSE RateFor(published, leg.currency, day)

MissingFxRate(legs, published, day) ==
    \E j \in DOMAIN legs :
        Foreign(legs[j]) /\ RateOf(legs[j], published, day) = None

Adjustable(leg) == Foreign(leg) /\ leg.base = None

(* The base amounts before any residual is absorbed. *)
RawBases(legs, published, day) ==
    [j \in DOMAIN legs |->
        IF legs[j].base # None THEN legs[j].base
        ELSE IF Foreign(legs[j])
             THEN Convert(legs[j].amount, RateOf(legs[j], published, day))
             ELSE legs[j].amount]

(* Debits minus credits of amounts, one for each leg. *)
Residual(legs, amounts) ==
    SignedSum([j \in DOMAIN legs |->
        IF legs[j].direction = "DEBIT" THEN amounts[j] ELSE -amounts[j]])

(* The largest adjustable leg, the last of equals, takes up a residual of   *)
(* no more than a quantum for each adjustable leg.                          *)
BugAbsorb(legs, bases) == bases         \* any residual is left alone
BugAbsorbable(legs, residual) ==        \* however large it is
    \E j \in DOMAIN legs : Adjustable(legs[j])
Absorbable(legs, residual) ==
    LET Limit == Cardinality({j \in DOMAIN legs : Adjustable(legs[j])})
    IN  Limit > 0 /\ residual \in (-Limit)..Limit

Absorb(legs, bases) ==
    LET residual == Residual(legs, bases)
        candidates == {j \in DOMAIN legs : Adjustable(legs[j])}
        largest == CHOOSE i \in candidates : \A j \in candidates :
                      bases[j] < bases[i] \/ (bases[j] = bases[i] /\ j <= i)
    IN  IF Absorbable(legs, residual)
        THEN [bases EXCEPT ![largest] =
                @ + IF legs[largest].direction = "DEBIT"
                    THEN -residual ELSE residual]
        ELSE bases

(* price_legs: the base amount of each leg. *)
PriceLegs(legs, published, day) == Absorb(legs, RawBases(legs, published, day))

(* What _check_balanced and the entries' CHECK constraints let through. *)
Bookable(legs, bases) ==
    /\ Residual(legs, bases) = 0
    /\ \A j \in DOMAIN legs : bases[j] > 0

-----------------------------------------------------------------------------
(* The legs of an investment in another currency: cash pays whole pennies,  *)
(* and the holding is booked at what was paid.                              *)
Cost(amount, rate) == HalfEven(amount * rate.num, rate.den * Penny) * Penny

BugInvestmentBase(amount, rate) == None     \* booked at the rate, unrounded
InvestmentBase(amount, rate) == Cost(amount, rate)

InvestmentLegs(holding, cash, currency, amount, rate) ==
    <<[account |-> holding, currency |-> currency, direction |-> "DEBIT",
       amount |-> amount, rate |-> rate, base |-> InvestmentBase(amount, rate)],
      [account |-> cash, currency |-> BaseCurrency, direction |-> "CREDIT",
       amount |-> Cost(amount, rate), rate |-> None, base |-> None]>>

(* The legs of a reversal (reverse_transfer): turned round, with the rates  *)
(* and base amounts that were booked.                                       *)
BugReversalLegs(booked) ==              \* priced anew
    [j \in DOMAIN booked |->
        [booked[j] EXCEPT !.direction =
            IF @ = "DEBIT" THEN "CREDIT" ELSE "DEBIT",
            !.rate = None, !.base = None]]
ReversalLegs(booked) ==
    [j \in DOMAIN booked |->
        [booked[j] EXCEPT !.direction =
            IF @ = "DEBIT" THEN "CREDIT" ELSE "DEBIT"]]

(* The legs as entries: at the rate and the base amount they were priced at.*)
Booked(legs, published, day) ==
    LET bases == PriceLegs(legs, published, day)
    IN  [j \in DOMAIN legs |->
            [legs[j] EXCEPT
                !.rate = IF Foreign(legs[j])
                         THEN RateOf(legs[j], published, day) ELSE None,
                !.base = bases[j]]]
=============================================================================
