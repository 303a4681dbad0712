-------------------------------- MODULE Sums --------------------------------
(***************************************************************************)
(* Sums of money.  An amount is a whole number of units, and a sum of       *)
(* amounts is the number of units in it: a cardinality, so that nothing     *)
(* here is recursive.                                                       *)
(***************************************************************************)
EXTENDS Integers, FiniteSets

(* The sum of f[i] over the i in S, counted unit by unit. *)
SumOf(S, f) == Cardinality(UNION {{i} \X (1..f[i]) : i \in S})

(* What f adds up to, gains less losses: an amount below zero has no units. *)
SignedSum(f) ==
    SumOf(DOMAIN f, f) - SumOf(DOMAIN f, [k \in DOMAIN f |-> -f[k]])
=============================================================================
