----------------------------- MODULE Allocation -----------------------------
(***************************************************************************)
(* allocate (operations/allocation.py): a total is split among recipients   *)
(* in proportion to their weights, to the quantum, by the largest-remainder *)
(* method.                                                                  *)
(*                                                                          *)
(* Totals and shares are whole numbers of quanta.  Recipients are numbers,  *)
(* in the order of str(key), which breaks ties.  All exact shares have the  *)
(* denominator WeightSum, so the code's fractions compare as the remainders *)
(* of whole divisions by it.                                                *)
(***************************************************************************)
EXTENDS Integers, FiniteSets, Sums

WeightSum(weights) == SumOf(DOMAIN weights, weights)

(* What the code does not refuse with a ValueError. *)
Allocatable(weights) == DOMAIN weights # {} /\ WeightSum(weights) # 0

Floors(units, weights) ==
    LET sum == WeightSum(weights)
    IN  [k \in DOMAIN weights |-> (units * weights[k]) \div sum]

Remainders(units, weights) ==
    LET sum == WeightSum(weights)
    IN  [k \in DOMAIN weights |-> (units * weights[k]) % sum]

Leftover(units, weights) ==
    units - SumOf(DOMAIN weights, Floors(units, weights))

(* by_remainder: who is ahead of k, by a larger remainder or, with an equal  *)
(* one, by its key.                                                         *)
Ahead(rem, k) ==
    {j \in DOMAIN rem : rem[j] > rem[k] \/ (rem[j] = rem[k] /\ j < k)}

(* by_remainder[:leftover]: those with fewer ahead of them than quanta left. *)
BugLucky(units, weights) == {}          \* the leftover quanta are dropped
BugLuckyAll(units, weights) == DOMAIN weights   \* everybody rounded up
Lucky(units, weights) ==
    LET rem == Remainders(units, weights)
        left == Leftover(units, weights)
    IN  {k \in DOMAIN weights : Cardinality(Ahead(rem, k)) < left}

(* The shares of a total, negative for an allocated loss. *)
Allocate(total, weights) ==
    LET sign == IF total < 0 THEN -1 ELSE 1
        units == sign * total
        floors == Floors(units, weights)
        lucky == Lucky(units, weights)
    IN  [k \in DOMAIN weights |->
            sign * (floors[k] + IF k \in lucky THEN 1 ELSE 0)]
=============================================================================
