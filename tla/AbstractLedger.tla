--------------------------- MODULE AbstractLedger ---------------------------
(***************************************************************************)
(* What the ledger promises its callers, with no workers, locks or          *)
(* transactions: a book to which one acceptable transfer at a time is       *)
(* appended, exactly once per key, and periods that close in order and stay *)
(* closed.  Ledger.tla is shown to implement it.                            *)
(***************************************************************************)
EXTENDS Books

CONSTANT Row        \* the transfers that may be asked for, a subset of
                    \* TransferRow

VARIABLES
    book,           \* the committed transfers, in the order they committed
    status          \* [Period -> {"OPEN", "CLOSED"}]

vars == <<book, status>>

Init ==
    /\ book = <<>>
    /\ status = [p \in Period |-> "OPEN"]

(* A reversal cancels an earlier transfer that is not itself a reversal and *)
(* has not been cancelled yet, leg by leg.                                  *)
Cancels(r) ==
    /\ r.reverses \in DOMAIN book
    /\ book[r.reverses].type # "REVERSAL"
    /\ r.legs = Flip(book[r.reverses].legs)
    /\ ReversalsOf(book, r.reverses) = {}

Acceptable(r) ==
    /\ ~KeyTaken(book, r.key)
    /\ status[r.period] = "OPEN"
    /\ Balanced(r.legs)
    /\ Touched(r.legs) \subseteq Account
    /\ OwnFund(r.legs, r.period)
    /\ \A a \in Cash : NativeBalance(book, a) + Delta(r.legs, a) >= 0
    /\ r.type = "REVERSAL" => Cancels(r)

Post(r) ==
    /\ Acceptable(r)
    /\ book' = Append(book, r)
    /\ UNCHANGED status

Close(p) ==
    /\ status[p] = "OPEN"
    /\ \A q \in Period : q[1] = p[1] /\ q[2] < p[2] => status[q] = "CLOSED"
    /\ status' = [status EXCEPT ![p] = "CLOSED"]
    /\ UNCHANGED book

Next ==
    \/ \E r \in Row : Post(r)
    \/ \E p \in Period : Close(p)

Spec == Init /\ [][Next]_vars
=============================================================================
