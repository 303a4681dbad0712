--------------------------- MODULE PricedTransfers --------------------------
(***************************************************************************)
(* Rates are published, for past days too, while transfers in several       *)
(* currencies are put together, priced (ledger/pricing.py), booked          *)
(* (post_transfer) and reversed (reverse_transfer).                         *)
(***************************************************************************)
EXTENDS Pricing

CONSTANTS
    Currency,       \* the foreign currencies
    Rate,           \* the rates that may be published
    Precision,      \* parts of a quantum in which amounts at these are exact
    Amount,         \* the amounts of legs,
    Outlay,         \* and of purchases
    MaxDay,         \* bound: days
    MaxLegs,        \* bound: legs of a transfer
    MaxBooked       \* bound: transfers

ASSUME RatesAssumption ==
    /\ BaseCurrency \notin Currency
    /\ Precision \in Nat \ {0}
    /\ \A r \in Rate : /\ r \in [num : Nat \ {0}, den : Nat \ {0}]
                       /\ Precision % r.den = 0
                       /\ r # None
    /\ Amount \cup Outlay \subseteq Nat \ {0}
    /\ {MaxDay, MaxLegs, MaxBooked} \subseteq Nat

Days == 1..MaxDay

(* What clients ask for: one account for each currency, so that transfers   *)
(* meet.                                                                    *)
AskedLeg ==
    {[account |-> c, currency |-> c, direction |-> side, amount |-> n,
      rate |-> None, base |-> None] :
        c \in {BaseCurrency} \cup Currency, side \in {"DEBIT", "CREDIT"},
        n \in Amount}

VARIABLES
    published,      \* FxRate rows
    day,            \* fx_date of postings
    legs,           \* the transfer being put together
    booked,         \* the entries of each posted transfer
    reversed        \* which transfers were reversed, and by which

vars == <<published, day, legs, booked, reversed>>

Init ==
    /\ published = {}
    /\ day = 1
    /\ legs = <<>>
    /\ booked = <<>>
    /\ reversed = {}

(* One rate per currency and day (fxrate_unique_per_day), of any day.       *)
(* Nothing depends on what is published while a transfer is put together.   *)
Publish(c, d, r) ==
    /\ legs = <<>>
    /\ ~\E p \in published : p.currency = c /\ p.day = d
    /\ published' = published \cup {[currency |-> c, day |-> d, rate |-> r]}
    /\ UNCHANGED <<day, legs, booked, reversed>>

NextDay ==
    /\ legs = <<>>
    /\ day < MaxDay
    /\ day' = day + 1
    /\ UNCHANGED <<published, legs, booked, reversed>>

(* Debits come first: sums do not depend on the order, and of the legs      *)
(* that may absorb a residual the last of equals is found among either.     *)
AddLeg(leg) ==
    /\ booked = <<>>
    /\ Len(legs) < MaxLegs
    /\ leg.direction = "DEBIT" =>
          \A j \in DOMAIN legs : legs[j].direction = "DEBIT"
    /\ legs' = Append(legs, leg)
    /\ UNCHANGED <<published, day, booked, reversed>>

(* post_transfer, as far as values go. *)
Post(asked) ==
    /\ Len(booked) < MaxBooked
    /\ Len(asked) >= 2
    /\ \A j \in DOMAIN asked : asked[j].amount > 0
    /\ ~MissingFxRate(asked, published, day)
    /\ Bookable(asked, PriceLegs(asked, published, day))
    /\ booked' = Append(booked, Booked(asked, published, day))

PostLegs ==
    /\ Post(legs)
    /\ legs' = <<>>
    /\ UNCHANGED <<published, day, reversed>>

(* The purchase at the day's rate, posted with the same fx_date. *)
Purchase(c, n) ==
    InvestmentLegs(c, BaseCurrency, c, n, RateFor(published, c, day))

Invest(c, n) ==
    /\ RateFor(published, c, day) # None
    /\ Post(Purchase(c, n))
    /\ UNCHANGED <<published, day, legs, reversed>>

Reverse(i) ==
    /\ \A r \in reversed : i \notin {r[1], r[2]}
    /\ Post(ReversalLegs(booked[i]))
    /\ reversed' = reversed \cup {<<i, Len(booked) + 1>>}
    /\ UNCHANGED <<published, day, legs>>

Next ==
    \/ \E c \in Currency, d \in Days, r \in Rate : Publish(c, d, r)
    \/ NextDay
    \/ \E leg \in AskedLeg : AddLeg(leg)
    \/ PostLegs
    \/ \E c \in Currency, n \in Outlay : Invest(c, n)
    \/ \E i \in DOMAIN booked : Reverse(i)

Spec == Init /\ [][Next]_vars

-----------------------------------------------------------------------------

(* What the legs are worth at the day's rates, to the last fraction. *)
Exact(j) ==
    IF Foreign(legs[j])
    THEN LET rate == RateOf(legs[j], published, day)
         IN  (Precision * legs[j].amount * rate.num) \div rate.den
    ELSE Precision * legs[j].amount

ExactResidual == Residual(legs, [j \in DOMAIN legs |-> Exact(j)])

Roundings == Cardinality({j \in DOMAIN legs : Foreign(legs[j])})

(* Rounding alone never unbalances a transfer: legs that balance at the     *)
(* day's rates balance as priced, and are booked, unless one is worth no    *)
(* more than half a quantum for each converted leg, when rounding, or the   *)
(* residual it absorbs, may leave it nothing and violate                    *)
(* entry_base_amount_positive (price_legs, _absorb_rounding_residual).      *)
RoundingNeverRefuses ==
    ~MissingFxRate(legs, published, day) /\ ExactResidual = 0 =>
        LET bases == PriceLegs(legs, published, day) IN
        /\ Residual(legs, bases) = 0
        /\ (\A j \in DOMAIN legs :
               Foreign(legs[j]) => 2 * Exact(j) > Precision * Roundings)
              => Bookable(legs, bases)

(* And rounding is all that is absorbed: legs that are off by more than one *)
(* and a half quanta for each converted leg are refused ("not a rounding    *)
(* artefact", _absorb_rounding_residual).                                   *)
OnlyRoundingIsAbsorbed ==
    ~MissingFxRate(legs, published, day) =>
        (Residual(legs, PriceLegs(legs, published, day)) = 0
            => LET most == 3 * Precision * Roundings
               IN  2 * ExactResidual \in (-most)..most)

(* A transfer and its reversal leave nothing behind, in no account and in   *)
(* neither currency, whatever rates were published in between or            *)
(* backdated (reverse_transfer, caller-supplied base amounts).              *)
ReversalUndoes ==
    \A r \in reversed :
        LET t == booked[r[1]]
            u == booked[r[2]]
        IN  /\ Len(t) = Len(u)
            /\ \A j \in DOMAIN t :
                  /\ u[j].account = t[j].account
                  /\ u[j].direction # t[j].direction
                  /\ u[j].amount = t[j].amount
                  /\ u[j].base = t[j].base

(* A purchase is only refused for being worth less than half a penny, never *)
(* as unbalanced (record_investment).                                       *)
PurchaseIsPriced ==
    \A c \in Currency, n \in Outlay :
        RateFor(published, c, day) # None =>
            LET asked == Purchase(c, n)
                bases == PriceLegs(asked, published, day)
            IN  /\ Residual(asked, bases) = 0
                /\ asked[2].amount % Penny = 0
=============================================================================
