---------------------------- MODULE MCAllocation ----------------------------
(***************************************************************************)
(* Totals are allocated among the same recipients one after the other, as   *)
(* the capital calls of a fund or the gains of its periods are.             *)
(***************************************************************************)
EXTENDS Allocation

CONSTANTS
    Recipient,      \* a set of natural numbers
    MaxWeight,      \* bound: largest weight
    MaxTotal,       \* bound: largest magnitude of a total
    MaxRounds       \* bound: totals in one behaviour

ASSUME RecipientAssumption ==
    /\ IsFiniteSet(Recipient)
    /\ Recipient \subseteq Nat
    /\ {MaxWeight, MaxTotal, MaxRounds} \subseteq Nat

VARIABLES
    weights,        \* what each recipient weighs; never changes
    total,          \* the total allocated last
    shares,         \* and its shares
    allotted,       \* the sum of the totals so far
    received,       \* the sum of the shares of each recipient
    rounds          \* totals so far

allocationVars == <<weights, total, shares, allotted, received, rounds>>

Nothing == [k \in Recipient |-> 0]

AllocationInit ==
    /\ weights \in {w \in [Recipient -> 0..MaxWeight] : Allocatable(w)}
    /\ total = 0
    /\ shares = Nothing
    /\ allotted = 0
    /\ received = Nothing
    /\ rounds = 0

AllocateTotal(t) ==
    /\ rounds < MaxRounds
    /\ rounds' = rounds + 1
    /\ total' = t
    /\ shares' = Allocate(t, weights)
    /\ allotted' = allotted + t
    /\ received' = [k \in Recipient |-> received[k] + shares'[k]]
    /\ UNCHANGED weights

AllocationNext == \E t \in (-MaxTotal)..MaxTotal : AllocateTotal(t)

AllocationSpec == AllocationInit /\ [][AllocationNext]_allocationVars

-----------------------------------------------------------------------------

Abs(n) == IF n < 0 THEN -n ELSE n

(* No quantum is lost or made, in one total or over many ("sum(result) ==   *)
(* total, exactly", allocate).                                              *)
SumsExactly == SignedSum(shares) = total /\ SignedSum(received) = allotted

(* What a recipient has received over n totals is less than n quanta away   *)
(* from its exact part of them all (allocate rounds by less than a quantum, *)
(* and nothing corrects the rounding of earlier totals).                    *)
DriftIsBounded ==
    \A k \in Recipient :
        LET drift == Abs(received[k] * WeightSum(weights)
                         - allotted * weights[k])
        IN  drift < rounds * WeightSum(weights) \/ drift = 0

(* The reference: of all ways to split the total, the shares deviate least  *)
(* from the exact ones, and of those that deviate as little they favour the *)
(* first keys (largest remainder, "ties broken by str(key)").               *)
Split(n) == {v \in [Recipient -> 0..n] : SignedSum(v) = n}

Square(n) == n * n

Deviation(v, n) ==
    SignedSum([k \in Recipient |->
                  Square(v[k] * WeightSum(weights) - n * weights[k])])

Favours(v, u) ==
    \E k \in Recipient : v[k] > u[k] /\ \A j \in Recipient : j < k => v[j] = u[j]

LeastDeviation ==
    LET n == Abs(total)
        v == [k \in Recipient |-> Abs(shares[k])]
    IN  \A u \in Split(n) :
            \/ Deviation(v, n) < Deviation(u, n)
            \/ Deviation(v, n) = Deviation(u, n) /\ ~Favours(u, v)
=============================================================================
