------------------------------- MODULE Books --------------------------------
(***************************************************************************)
(* The data of the ledger: legs, transfers and the append-only book of      *)
(* committed transfers, with the sums the code asks of it (ledger/models.py,*)
(* ledger/queries.py, ledger/reconciliation.py) and the pure checks of      *)
(* ledger/services.py.  The module has no variables: every operator takes   *)
(* the book or the legs it speaks about.                                    *)
(* Money is a whole number of units of 0.0001, the precision of the MONEY   *)
(* columns.                                                                 *)
(***************************************************************************)
EXTENDS Integers, Sequences, FiniteSets, Sums

CONSTANTS
    Key,            \* Idempotency-Key header values
    Fund,           \* funds
    Account,        \* primary keys of the existing accounts, in their order
    Cash,           \* accounts of a type in NON_NEGATIVE_TYPES
    AccountFund,    \* [Account -> Fund]
    Period          \* <<f, d>>: the accounting period of fund f that covers
                    \* the d-th stretch of dates

ASSUME BooksAssumption ==
    /\ Account \subseteq Nat
    /\ Cash \subseteq Account
    /\ AccountFund \in [Account -> Fund]
    /\ Period \subseteq Fund \X Nat

(* The transfer types of ledger/models.py. *)
TransferType == {"CAPITAL_CALL", "DISTRIBUTION", "FEE", "INVESTMENT",
                 "REVERSAL", "ADJUSTMENT"}

(* A leg of a transfer: amount in the account's currency, base in the       *)
(* fund's currency (Leg and PricedLeg).  The account is any id a caller may  *)
(* name, existing or not.                                                    *)
Leg == [account: Nat, direction: {"DEBIT", "CREDIT"}, amount: Nat, base: Nat]

(* A transfer row with its entries.  A committed transfer is identified by  *)
(* its place in the book; reverses is the place of the transfer it cancels, *)
(* or 0.                                                                    *)
TransferRow == [key: Key, type: TransferType, period: Period,
                reverses: Nat, legs: Seq(Leg)]

-----------------------------------------------------------------------------
(* Sums. *)

Side(legs, direction) == {j \in DOMAIN legs : legs[j].direction = direction}

Amounts(legs) == [j \in DOMAIN legs |-> legs[j].amount]
Bases(legs)   == [j \in DOMAIN legs |-> legs[j].base]

(* What the legs do to the native balance of account a, debit-positive. *)
Delta(legs, a) ==
    SumOf({j \in Side(legs, "DEBIT") : legs[j].account = a}, Amounts(legs))
  - SumOf({j \in Side(legs, "CREDIT") : legs[j].account = a}, Amounts(legs))

-----------------------------------------------------------------------------
(* Legs. *)

Touched(legs) == {legs[j].account : j \in DOMAIN legs}

ValidLegs(legs) ==
    /\ Len(legs) >= 2
    /\ Side(legs, "DEBIT") # {}
    /\ Side(legs, "CREDIT") # {}
    /\ \A j \in DOMAIN legs : legs[j].amount > 0

Balanced(legs) ==
    SumOf(Side(legs, "DEBIT"), Bases(legs))
      = SumOf(Side(legs, "CREDIT"), Bases(legs))

BugOwnFund(legs, p) == TRUE             \* accounts of any fund
OwnFund(legs, p) == \A a \in Touched(legs) : AccountFund[a] = p[1]

Opposite(direction) == IF direction = "DEBIT" THEN "CREDIT" ELSE "DEBIT"

(* The legs of a reversal: same accounts and amounts, base amounts kept. *)
Flip(legs) ==
    [j \in DOMAIN legs |->
        [legs[j] EXCEPT !.direction = Opposite(legs[j].direction)]]

(* How often each (account, direction, amount) occurs: the sorted list of   *)
(* the request fingerprint, which leaves base amounts out.                  *)
LegBag(legs) ==
    LET Shape(j) == <<legs[j].account, legs[j].direction, legs[j].amount>>
    IN  [s \in {Shape(j) : j \in DOMAIN legs} |->
            Cardinality({j \in DOMAIN legs : Shape(j) = s})]

(* Two transfers come from the same request when their fingerprints agree:  *)
(* a reversal is told by its target and period, any other transfer by its   *)
(* type, period and legs.                                                   *)
SameRequest(r, s) ==
    /\ r.type = s.type
    /\ r.period = s.period
    /\ r.reverses = s.reverses
    /\ r.type # "REVERSAL" => LegBag(r.legs) = LegBag(s.legs)

-----------------------------------------------------------------------------
(* The book. *)

Entries(book) == UNION {{i} \X DOMAIN book[i].legs : i \in DOMAIN book}

EntryOf(book, e) == book[e[1]].legs[e[2]]

EntriesOn(book, a, direction) ==
    {e \in Entries(book) : /\ EntryOf(book, e).account = a
                           /\ EntryOf(book, e).direction = direction}

NativeBalance(book, a) ==
    LET amount == [e \in Entries(book) |-> EntryOf(book, e).amount]
    IN  SumOf(EntriesOn(book, a, "DEBIT"), amount)
          - SumOf(EntriesOn(book, a, "CREDIT"), amount)

(* Debits minus credits, in base currency, of a set of entries. *)
Imbalance(book, entries) ==
    LET base == [e \in entries |-> EntryOf(book, e).base]
        Of(direction) ==
            {e \in entries : EntryOf(book, e).direction = direction}
    IN  SumOf(Of("DEBIT"), base) - SumOf(Of("CREDIT"), base)

PeriodImbalance(book, p) ==
    Imbalance(book, {e \in Entries(book) : book[e[1]].period = p})

FundImbalance(book, f) ==
    Imbalance(book,
              {e \in Entries(book) : AccountFund[EntryOf(book, e).account] = f})

(* The transfers whose entries on the fund's accounts do not balance. *)
UnbalancedTransfers(book, f) ==
    {i \in DOMAIN book :
        Imbalance(book, {e \in Entries(book) :
                            /\ e[1] = i
                            /\ AccountFund[EntryOf(book, e).account] = f}) # 0}

KeyTaken(book, k) == \E i \in DOMAIN book : book[i].key = k

(* The transfer a key was used for. *)
Existing(book, k) == CHOOSE i \in DOMAIN book : book[i].key = k

ReversalsOf(book, i) == {j \in DOMAIN book : book[j].reverses = i}
=============================================================================
