---------------------------- MODULE CapitalProofs ----------------------------
(***************************************************************************)
(* Capital calls and distributions: they keep what the ledger promises, are *)
(* numbered, documented and answered as they were made, and call no LP      *)
(* beyond its commitment.                                                   *)
(***************************************************************************)
EXTENDS Capital, BooksProofs

-----------------------------------------------------------------------------
(* The legs of a call or a distribution. *)

(* The places of finitely many numbers in their order are 0, 1, 2, ...      *)
LEMMA Places ==
    ASSUME NEW D \in SUBSET Nat, IsFiniteSet(D)
    PROVE  LET rank == [k \in D |-> Cardinality({j \in D : j < k})] IN
           /\ Cardinality(D) \in Nat
           /\ \A k \in D : rank[k] \in 0..(Cardinality(D) - 1)
           /\ \A j, k \in D : rank[j] = rank[k] => j = k
           /\ \A n \in 0..(Cardinality(D) - 1) : \E k \in D : rank[k] = n
<1> DEFINE N == Cardinality(D)
           rank == [k \in D |-> Cardinality({j \in D : j < k})]
           rem == [k \in D |-> 0]
<1>1. rem \in [D -> Nat] /\ \A k \in D : Ahead(rem, k) = {j \in D : j < k}
  BY DEF Ahead
<1>2. N \in Nat
  BY FS_CardinalityType
<1>3. ASSUME NEW j \in D, NEW k \in D
      PROVE  /\ rank[k] \in Nat /\ rank[k] < N
             /\ rank[j] = rank[k] => j = k
  <2> HIDE DEF rem
  <2>1. /\ Cardinality(Ahead(rem, k)) \in Nat
        /\ Cardinality(Ahead(rem, k)) < Cardinality(D)
        /\ j # k => j \in Ahead(rem, k) \/ k \in Ahead(rem, j)
        /\ j \in Ahead(rem, k)
              => Cardinality(Ahead(rem, j)) < Cardinality(Ahead(rem, k))
    BY <1>1, AheadIsAnOrder
  <2>2. /\ Cardinality(Ahead(rem, j)) \in Nat
        /\ k \in Ahead(rem, j)
              => Cardinality(Ahead(rem, k)) < Cardinality(Ahead(rem, j))
    BY <1>1, AheadIsAnOrder
  <2>3. /\ rank[k] = Cardinality(Ahead(rem, k))
        /\ rank[j] = Cardinality(Ahead(rem, j))
    BY <1>1
  <2> HIDE DEF rank
  <2> QED  BY <2>1, <2>2, <2>3
<1> HIDE DEF N, rank, rem
<1>4. \A k \in D : rank[k] \in 0..(N - 1)
  BY <1>2, <1>3
<1>5. rank \in Injection(D, 0..(N - 1))
  BY <1>3, <1>4 DEF Injection, IsInjective, rank
<1>6. IsFiniteSet(0..(N - 1)) /\ Cardinality(0..(N - 1)) = N
  BY <1>2, FS_Interval
<1>7. rank \in Surjection(D, 0..(N - 1))
  BY <1>5, <1>6, FS_Injection DEF N
<1>8. \A n \in 0..(N - 1) : \E k \in D : rank[k] = n
  BY <1>7 DEF Surjection
<1> QED  BY <1>2, <1>3, <1>4, <1>8 DEF N, rank

Drawn(f, n) == {lp \in DOMAIN Commitment[f] : Shares(f, n)[lp] # 0}

To(kind, f, lp) ==
    IF kind = "CAPITAL_CALL" THEN Chart[f].cash ELSE Chart[f].lp[lp]
From(kind, f, lp) ==
    IF kind = "CAPITAL_CALL" THEN Chart[f].lp[lp] ELSE Chart[f].cash

(* The accounts of a fund are its own, and told apart.                      *)
LEMMA ChartOfFund ==
    ASSUME NEW f \in Fund
    PROVE  /\ Chart[f].cash \in Account /\ AccountFund[Chart[f].cash] = f
           /\ DOMAIN Chart[f].lp = DOMAIN Commitment[f]
           /\ \A lp \in DOMAIN Commitment[f] :
                /\ Chart[f].lp[lp] \in Account
                /\ AccountFund[Chart[f].lp[lp]] = f
                /\ Chart[f].lp[lp] # Chart[f].cash
           /\ \A lp, k \in DOMAIN Commitment[f] :
                Chart[f].lp[lp] = Chart[f].lp[k] => lp = k
           /\ DOMAIN Commitment[f] \in SUBSET Nat
           /\ IsFiniteSet(DOMAIN Commitment[f])
           /\ Commitment[f] \in [DOMAIN Commitment[f] -> Nat \ {0}]
<1> DEFINE c == Chart[f]
           Own == {c.cash, c.holding, c.fee, c.gain}
           OfLps == {c.lp[lp] : lp \in DOMAIN c.lp}
<1>1. /\ Own \cup OfLps \subseteq {a \in Account : AccountFund[a] = f}
      /\ Own \cap OfLps = {}
      /\ IsFiniteSet(DOMAIN c.lp) /\ DOMAIN c.lp \subseteq Nat
      /\ Commitment[f] \in [DOMAIN c.lp -> Nat \ {0}]
      /\ \A lp, k \in DOMAIN c.lp : c.lp[lp] = c.lp[k] => lp = k
  BY OperationsAssumption, Zenon
<1>2. c.cash \in Own /\ \A lp \in DOMAIN c.lp : c.lp[lp] \in OfLps
  OBVIOUS
<1>3. DOMAIN Commitment[f] = DOMAIN c.lp
  BY <1>1
<1> HIDE DEF Own, OfLps
<1>4. /\ c.cash \in Account /\ AccountFund[c.cash] = f
      /\ \A lp \in DOMAIN c.lp :
            c.lp[lp] \in Account /\ AccountFund[c.lp[lp]] = f
            /\ c.lp[lp] # c.cash
  BY <1>1, <1>2
<1> QED  BY <1>1, <1>3, <1>4

(* The shares of whole pennies are whole pennies, and add up to the total.  *)
LEMMA SharesAddUp ==
    ASSUME NEW f \in Fund, NEW n \in Nat, n % Penny = 0,
           Allocatable(Commitment[f])
    PROVE  /\ Shares(f, n) \in [DOMAIN Commitment[f] -> Nat]
           /\ SumOf(DOMAIN Commitment[f], Shares(f, n)) = n
<1> DEFINE D == DOMAIN Commitment[f]
           m == n \div Penny
           pennies == Allocate(m, Commitment[f])
<1>1. Penny \in Nat /\ Penny # 0
  BY OperationsAssumption
<1>2. m \in Nat /\ n = Penny * m
  BY <1>1, Division
<1>3. D \in SUBSET Nat /\ IsFiniteSet(D) /\ Commitment[f] \in [D -> Nat]
  BY ChartOfFund
<1> HIDE DEF m, D
<1>4. pennies \in [D -> Nat] /\ SumOf(D, pennies) = m
  BY <1>2, <1>3, SharesOfGain
<1>5. Shares(f, n) = [lp \in D |-> Penny * pennies[lp]]
  BY DEF Shares, D, m
<1> HIDE DEF pennies
<1>6. \A lp \in D : Penny * pennies[lp] \in Nat
  BY <1>1, <1>4
<1>7. Shares(f, n) \in [D -> Nat]
  BY <1>5, <1>6
<1>8. SumOf(D, [lp \in D |-> Penny * pennies[lp]]) = Penny * SumOf(D, pennies)
  BY <1>1, <1>3, <1>4, SumOfScaled
<1> QED  BY <1>2, <1>4, <1>5, <1>7, <1>8 DEF D

(* Every LP with a share has a debit and a credit among the legs, and there *)
(* are no others.                                                           *)
LEMMA LegPairs ==
    ASSUME NEW kind \in Documented, NEW f \in Fund, NEW n \in Nat,
           n % Penny = 0, Allocatable(Commitment[f])
    PROVE  LET legs == CapitalLegs(kind, f, n)
               D == Drawn(f, n)
               s == Shares(f, n)
           IN  /\ legs \in Seq(Leg)
               /\ IsFiniteSet(D)
               /\ \E debit, credit \in [D -> DOMAIN legs] :
                    /\ \A lp \in D :
                         /\ legs[debit[lp]] = LegOn(To(kind, f, lp), "DEBIT", s[lp])
                         /\ legs[credit[lp]]
                              = LegOn(From(kind, f, lp), "CREDIT", s[lp])
                    /\ \A j, k \in D : debit[j] = debit[k] => j = k
                    /\ \A j, k \in D : credit[j] = credit[k] => j = k
                    /\ \A j \in DOMAIN legs : \E lp \in D :
                         j = debit[lp] \/ j = credit[lp]
<1> DEFINE legs == CapitalLegs(kind, f, n)
           D == Drawn(f, n)
           s == Shares(f, n)
           N == Cardinality(D)
           rank == [k \in D |-> Cardinality({j \in D : j < k})]
           Nth(m) == CHOOSE lp \in D : Cardinality({k \in D : k < lp}) = m
           Pair(lp) == IF kind = "CAPITAL_CALL"
                       THEN Move(Chart[f].lp[lp], Chart[f].cash, s[lp])
                       ELSE Move(Chart[f].cash, Chart[f].lp[lp], s[lp])
           debit == [lp \in D |-> 2 * rank[lp] + 1]
           credit == [lp \in D |-> 2 * rank[lp] + 2]
<1>1. /\ DOMAIN Commitment[f] \in SUBSET Nat /\ IsFiniteSet(DOMAIN Commitment[f])
      /\ DOMAIN s = DOMAIN Commitment[f]
      /\ \A lp \in DOMAIN Commitment[f] : s[lp] \in Nat
  BY ChartOfFund, SharesAddUp
<1>2. D \in SUBSET Nat /\ IsFiniteSet(D) /\ D \subseteq DOMAIN Commitment[f]
  BY <1>1, FS_Subset DEF Drawn
<1>3. /\ N \in Nat
      /\ \A k \in D : rank[k] \in 0..(N - 1)
      /\ \A j, k \in D : rank[j] = rank[k] => j = k
      /\ \A m \in 0..(N - 1) : \E k \in D : rank[k] = m
  <2> HIDE DEF D
  <2> QED  BY <1>2, Places
<1>4. legs = [j \in 1..(2 * N) |-> Pair(Nth((j - 1) \div 2))[((j - 1) % 2) + 1]]
  BY <1>1 DEF CapitalLegs, Drawn
<1>5. \A lp \in D : Nth(rank[lp]) = lp
  <2> TAKE lp \in D
  <2>1. \A k \in D : rank[k] = Cardinality({j \in D : j < k})
    OBVIOUS
  <2> HIDE DEF D
  <2>2. \E k \in D : Cardinality({j \in D : j < k}) = rank[lp]
    BY <2>1
  <2>3. /\ Nth(rank[lp]) \in D
        /\ Cardinality({j \in D : j < Nth(rank[lp])}) = rank[lp]
    BY <2>2
  <2>4. rank[Nth(rank[lp])] = rank[lp]
    BY <2>1, <2>3
  <2> QED  BY <1>3, <2>3, <2>4
<1>6. \A lp \in D : Pair(lp) = <<LegOn(To(kind, f, lp), "DEBIT", s[lp]),
                                LegOn(From(kind, f, lp), "CREDIT", s[lp])>>
  BY DEF Move, To, From
<1>7. \A j \in 1..(2 * N) : legs[j] = Pair(Nth((j - 1) \div 2))[((j - 1) % 2) + 1]
  BY <1>4
<1> HIDE DEF legs, D, s, N, rank, Nth, Pair
<1>8. ASSUME NEW lp \in D
      PROVE  /\ debit[lp] \in 1..(2 * N) /\ credit[lp] \in 1..(2 * N)
             /\ legs[debit[lp]] = LegOn(To(kind, f, lp), "DEBIT", s[lp])
             /\ legs[credit[lp]] = LegOn(From(kind, f, lp), "CREDIT", s[lp])
  <2>1. rank[lp] \in Nat /\ rank[lp] <= N - 1
    BY <1>3
  <2>2. debit[lp] = 2 * rank[lp] + 1 /\ credit[lp] = 2 * rank[lp] + 2
    OBVIOUS
  <2>3. /\ (debit[lp] - 1) \div 2 = rank[lp] /\ (debit[lp] - 1) % 2 = 0
        /\ (credit[lp] - 1) \div 2 = rank[lp] /\ (credit[lp] - 1) % 2 = 1
    BY SMTT(30), <2>1, <2>2
  <2>4. debit[lp] \in 1..(2 * N) /\ credit[lp] \in 1..(2 * N)
    BY <1>3, <2>1, <2>2
  <2>5. legs[debit[lp]] = Pair(lp)[1] /\ legs[credit[lp]] = Pair(lp)[2]
    BY <1>5, <1>7, <2>3, <2>4
  <2> QED  BY <1>6, <2>4, <2>5
<1>9. \A j \in 1..(2 * N) : \E lp \in D : j = debit[lp] \/ j = credit[lp]
  <2> TAKE j \in 1..(2 * N)
  <2>1. PICK m \in 0..(N - 1) : j = 2 * m + 1 \/ j = 2 * m + 2
    <3> DEFINE i == j - 1
               m == i \div 2
    <3>1. i \in Nat /\ i < 2 * N /\ j = i + 1
      BY <1>3
    <3>2. m \in Nat /\ (i = 2 * m \/ i = 2 * m + 1)
      BY <3>1
    <3> HIDE DEF i, m
    <3>3. m \in 0..(N - 1) /\ (j = 2 * m + 1 \/ j = 2 * m + 2)
      BY <1>3, <3>1, <3>2
    <3> QED  BY <3>3
  <2>2. PICK lp \in D : rank[lp] = m
    BY <1>3
  <2> QED  BY <2>1, <2>2
<1>10. \A j, k \in D : (debit[j] = debit[k] \/ credit[j] = credit[k]) => j = k
  BY <1>3
<1>11. DOMAIN legs = 1..(2 * N)
  BY <1>4
<1>12. \A j \in 1..(2 * N) : legs[j] \in Leg
  <2> TAKE j \in 1..(2 * N)
  <2>1. PICK lp \in D : j = debit[lp] \/ j = credit[lp]
    BY <1>9
  <2>2. lp \in DOMAIN Commitment[f] /\ s[lp] \in Nat
    BY <1>1, <1>2
  <2>3. To(kind, f, lp) \in Nat /\ From(kind, f, lp) \in Nat
    BY <2>2, ChartOfFund, BooksAssumption DEF To, From
  <2>4. \/ legs[j] = LegOn(To(kind, f, lp), "DEBIT", s[lp])
        \/ legs[j] = LegOn(From(kind, f, lp), "CREDIT", s[lp])
    BY <1>8, <2>1
  <2>5. \A a, m \in Nat, d \in {"DEBIT", "CREDIT"} : LegOn(a, d, m) \in Leg
    BY DEF LegOn, Leg
  <2> HIDE DEF debit, credit
  <2> QED  BY <2>2, <2>3, <2>4, <2>5
<1>13. legs \in Seq(Leg)
  <2>1. legs \in [1..(2 * N) -> Leg]
    BY <1>4, <1>12
  <2> QED  BY <1>3, <2>1
<1>14. debit \in [D -> DOMAIN legs] /\ credit \in [D -> DOMAIN legs]
  BY <1>8, <1>11
<1> HIDE DEF debit, credit
<1>15. /\ \A lp \in D :
             /\ legs[debit[lp]] = LegOn(To(kind, f, lp), "DEBIT", s[lp])
             /\ legs[credit[lp]] = LegOn(From(kind, f, lp), "CREDIT", s[lp])
       /\ \A j, k \in D : debit[j] = debit[k] => j = k
       /\ \A j, k \in D : credit[j] = credit[k] => j = k
       /\ \A j \in DOMAIN legs : \E lp \in D : j = debit[lp] \/ j = credit[lp]
  BY <1>8, <1>9, <1>10, <1>11
<1> QED  BY <1>2, <1>13, <1>14, <1>15 DEF legs, D, s

(* Each leg moves money on an account of the fund, in its base currency.    *)
MoveMoney(legs, f) ==
    /\ \A j \in DOMAIN legs : /\ legs[j].account \in Account
                              /\ AccountFund[legs[j].account] = f
                              /\ legs[j].base # 0
    /\ Bases(legs) = Amounts(legs)

(* The legs touch accounts of the fund only, each moves money, and an       *)
(* account gains the shares that go to it and loses those that go from it.  *)
LEMMA WhatLegsMove ==
    ASSUME NEW kind \in Documented, NEW f \in Fund, NEW n \in Nat,
           n % Penny = 0, Allocatable(Commitment[f]), NEW a
    PROVE  LET legs == CapitalLegs(kind, f, n)
               s == Shares(f, n)
           IN  /\ MoveMoney(legs, f)
               /\ Delta(legs, a)
                    = SumOf({lp \in Drawn(f, n) : To(kind, f, lp) = a}, s)
                      - SumOf({lp \in Drawn(f, n) : From(kind, f, lp) = a}, s)
<1> DEFINE legs == CapitalLegs(kind, f, n)
           D == Drawn(f, n)
           s == Shares(f, n)
           Gets == {lp \in D : To(kind, f, lp) = a}
           Gives == {lp \in D : From(kind, f, lp) = a}
           OnSide(d) == {j \in Side(legs, d) : legs[j].account = a}
<1>1. PICK debit, credit \in [D -> DOMAIN legs] :
         /\ \A lp \in D :
              /\ legs[debit[lp]] = LegOn(To(kind, f, lp), "DEBIT", s[lp])
              /\ legs[credit[lp]] = LegOn(From(kind, f, lp), "CREDIT", s[lp])
         /\ \A j, k \in D : debit[j] = debit[k] => j = k
         /\ \A j, k \in D : credit[j] = credit[k] => j = k
         /\ \A j \in DOMAIN legs : \E lp \in D :
              j = debit[lp] \/ j = credit[lp]
  BY LegPairs, Zenon
<1>2. IsFiniteSet(D) /\ legs \in Seq(Leg)
  BY LegPairs, Zenon
<1>3. \A lp \in D : lp \in DOMAIN Commitment[f] /\ s[lp] \in Nat /\ s[lp] # 0
  BY SharesAddUp DEF Drawn
<1>4. \A lp \in D : /\ To(kind, f, lp) \in Account
                    /\ AccountFund[To(kind, f, lp)] = f
                    /\ From(kind, f, lp) \in Account
                    /\ AccountFund[From(kind, f, lp)] = f
  BY <1>3, ChartOfFund DEF To, From
<1> HIDE DEF legs, D, s
<1>5. \A lp \in D : /\ legs[debit[lp]].account = To(kind, f, lp)
                    /\ legs[debit[lp]].direction = "DEBIT"
                    /\ legs[debit[lp]].amount = s[lp]
                    /\ legs[debit[lp]].base = s[lp]
                    /\ legs[credit[lp]].account = From(kind, f, lp)
                    /\ legs[credit[lp]].direction = "CREDIT"
                    /\ legs[credit[lp]].amount = s[lp]
                    /\ legs[credit[lp]].base = s[lp]
  <2> TAKE lp \in D
  <2>1. \A x, d, m : /\ LegOn(x, d, m).account = x
                     /\ LegOn(x, d, m).direction = d
                     /\ LegOn(x, d, m).amount = m
                     /\ LegOn(x, d, m).base = m
    BY DEF LegOn
  <2>2. /\ legs[debit[lp]] = LegOn(To(kind, f, lp), "DEBIT", s[lp])
        /\ legs[credit[lp]] = LegOn(From(kind, f, lp), "CREDIT", s[lp])
    BY <1>1
  <2> QED  BY <2>1, <2>2
<1>6. \A j \in DOMAIN legs : /\ legs[j].account \in Account
                             /\ AccountFund[legs[j].account] = f
                             /\ legs[j].base # 0
                             /\ legs[j].base = legs[j].amount
  <2> TAKE j \in DOMAIN legs
  <2>1. PICK lp \in D : j = debit[lp] \/ j = credit[lp]
    BY <1>1
  <2> QED  BY <1>3, <1>4, <1>5, <2>1
<1>7. Bases(legs) = Amounts(legs)
  BY <1>6 DEF Bases, Amounts
<1>8. \A lp \in D : Amounts(legs)[debit[lp]] = s[lp]
                    /\ Amounts(legs)[credit[lp]] = s[lp]
  BY <1>1, <1>5 DEF Amounts
<1>9. IsFiniteSet(Gets) /\ IsFiniteSet(Gives)
  BY <1>2, FS_Subset
<1>10. SumOf(OnSide("DEBIT"), Amounts(legs)) = SumOf(Gets, s)
  <2> DEFINE h == [lp \in Gets |-> debit[lp]]
  <2>1. h \in [Gets -> OnSide("DEBIT")]
    BY <1>1, <1>5 DEF Side
  <2>2. \A j, k \in Gets : h[j] = h[k] => j = k
    BY <1>1
  <2>3. \A j \in OnSide("DEBIT") : \E lp \in Gets : h[lp] = j
    <3> TAKE j \in OnSide("DEBIT")
    <3>1. j \in DOMAIN legs /\ legs[j].direction = "DEBIT" /\ legs[j].account = a
      BY DEF Side
    <3>2. PICK lp \in D : j = debit[lp] \/ j = credit[lp]
      BY <1>1, <3>1
    <3>3. j = debit[lp] /\ lp \in Gets
      BY <1>5, <3>1, <3>2
    <3> QED  BY <3>3
  <2>4. h \in Bijection(Gets, OnSide("DEBIT"))
    BY <2>1, <2>2, <2>3 DEF Bijection, Injection, Surjection, IsInjective
  <2>5. \A lp \in Gets : s[lp] \in Nat /\ Amounts(legs)[h[lp]] = s[lp]
    BY <1>3, <1>8
  <2> HIDE DEF h, Gets, OnSide
  <2> QED  BY <1>9, <2>4, <2>5, SumOfRenamed
<1>11. SumOf(OnSide("CREDIT"), Amounts(legs)) = SumOf(Gives, s)
  <2> DEFINE h == [lp \in Gives |-> credit[lp]]
  <2>1. h \in [Gives -> OnSide("CREDIT")]
    BY <1>1, <1>5 DEF Side
  <2>2. \A j, k \in Gives : h[j] = h[k] => j = k
    BY <1>1
  <2>3. \A j \in OnSide("CREDIT") : \E lp \in Gives : h[lp] = j
    <3> TAKE j \in OnSide("CREDIT")
    <3>1. j \in DOMAIN legs /\ legs[j].direction = "CREDIT" /\ legs[j].account = a
      BY DEF Side
    <3>2. PICK lp \in D : j = debit[lp] \/ j = credit[lp]
      BY <1>1, <3>1
    <3>3. j = credit[lp] /\ lp \in Gives
      BY <1>5, <3>1, <3>2
    <3> QED  BY <3>3
  <2>4. h \in Bijection(Gives, OnSide("CREDIT"))
    BY <2>1, <2>2, <2>3 DEF Bijection, Injection, Surjection, IsInjective
  <2>5. \A lp \in Gives : s[lp] \in Nat /\ Amounts(legs)[h[lp]] = s[lp]
    BY <1>3, <1>8
  <2> HIDE DEF h, Gives, OnSide
  <2> QED  BY <1>9, <2>4, <2>5, SumOfRenamed
<1>12. Delta(legs, a) = SumOf(Gets, s) - SumOf(Gives, s)
  BY <1>10, <1>11, Zenon DEF Delta
<1>13. MoveMoney(legs, f)
  BY <1>6, <1>7 DEF MoveMoney
<1> QED  BY <1>12, <1>13 DEF legs, D, s

(* Each leg moves money within the fund, in its base currency.              *)
LEMMA LegsMoveMoney ==
    ASSUME NEW kind \in Documented, NEW f \in Fund, NEW n \in Nat,
           n % Penny = 0, Allocatable(Commitment[f])
    PROVE  LET legs == CapitalLegs(kind, f, n) IN
           /\ \A j \in DOMAIN legs : /\ AccountFund[legs[j].account] = f
                                     /\ legs[j].base # 0
           /\ Bases(legs) = Amounts(legs)
<1> DEFINE legs == CapitalLegs(kind, f, n)
<1>1. MoveMoney(legs, f)
  BY WhatLegsMove
<1> HIDE DEF legs
<1>2. /\ \A j \in DOMAIN legs : /\ AccountFund[legs[j].account] = f
                                /\ legs[j].base # 0
      /\ Bases(legs) = Amounts(legs)
  BY <1>1, Zenon DEF MoveMoney
<1> QED  BY <1>2, Zenon DEF legs

(* The cash account moves by the total, that of an LP by its share: a call  *)
(* pays in, a distribution pays out.                                        *)
LEMMA CashAndShares ==
    ASSUME NEW kind \in Documented, NEW f \in Fund, NEW n \in Nat,
           n % Penny = 0, Allocatable(Commitment[f])
    PROVE  LET legs == CapitalLegs(kind, f, n)
               s == Shares(f, n)
           IN  /\ Delta(legs, Chart[f].cash)
                    = IF kind = "CAPITAL_CALL" THEN n ELSE -n
               /\ \A lp \in DOMAIN Commitment[f] :
                    Delta(legs, Chart[f].lp[lp])
                      = IF kind = "CAPITAL_CALL" THEN -s[lp] ELSE s[lp]
<1> DEFINE legs == CapitalLegs(kind, f, n)
           D == Drawn(f, n)
           s == Shares(f, n)
           LPs == DOMAIN Commitment[f]
           cash == Chart[f].cash
           Gets(a) == {lp \in D : To(kind, f, lp) = a}
           Gives(a) == {lp \in D : From(kind, f, lp) = a}
<1>1. \A a : Delta(legs, a) = SumOf(Gets(a), s) - SumOf(Gives(a), s)
  <2> TAKE a
  <2> QED  BY WhatLegsMove
<1>2. /\ IsFiniteSet(LPs) /\ s \in [LPs -> Nat] /\ SumOf(LPs, s) = n
      /\ D \subseteq LPs /\ IsFiniteSet(D)
      /\ \A lp \in LPs : s[lp] = 0 <=> lp \notin D
  BY ChartOfFund, SharesAddUp, FS_Subset DEF Drawn
<1>3. /\ \A lp \in LPs : Chart[f].lp[lp] # cash
      /\ \A lp, k \in LPs : Chart[f].lp[lp] = Chart[f].lp[k] => lp = k
  BY ChartOfFund
<1> HIDE DEF legs, D, s, LPs
<1>4. \A g : SumOf({}, g) = 0
  BY EmptySum
<1>5. SumOf(D, s) = n
  <2> DEFINE R == LPs \ D
  <2>1. IsFiniteSet(R) /\ D \cap R = {} /\ D \cup R = LPs
    BY <1>2, FS_Subset
  <2>2. \A lp \in R : s[lp] = 0
    BY <1>2
  <2>3. \A lp \in D \cup R : s[lp] \in Nat
    BY <1>2
  <2> HIDE DEF R
  <2>4. SumOf(R, s) = Cardinality(R) * 0 /\ Cardinality(R) \in Nat
    BY <2>1, <2>2, SumOfEqual, FS_CardinalityType
  <2>5. SumOf(D \cup R, s) = SumOf(D, s) + SumOf(R, s)
    BY <1>2, <2>1, <2>3, SumOfUnion
  <2>6. SumOf(D, s) \in Nat /\ SumOf(R, s) = 0
    BY <1>2, <2>3, <2>4, UnitsFinite
  <2>7. SumOf(LPs, s) = n
    BY <1>2
  <2>8. SumOf(D \cup R, s) = n
    BY <2>1, <2>7, Zenon
  <2> QED  BY <2>5, <2>6, <2>8
<1>6. ASSUME NEW lp \in LPs
      PROVE  SumOf({k \in D : k = lp}, s) = s[lp] /\ s[lp] \in Nat
  <2> DEFINE Just == {k \in D : k = lp}
  <2>1. s[lp] \in Nat
    BY <1>2
  <2>2. CASE lp \in D
    <3>1. Just = {lp}
      BY <2>2
    <3>2. IsFiniteSet({lp}) /\ Cardinality({lp}) = 1
      BY FS_Singleton
    <3>3. \A i \in {lp} : s[i] = s[lp]
      OBVIOUS
    <3>4. SumOf({lp}, s) = 1 * s[lp]
      BY <2>1, <3>2, <3>3, SumOfEqual
    <3>5. SumOf({lp}, s) = s[lp]
      BY <2>1, <3>4
    <3> HIDE DEF Just
    <3>6. SumOf(Just, s) = s[lp]
      BY <3>1, <3>5, Zenon
    <3> QED  BY <2>1, <3>6 DEF Just
  <2>3. CASE lp \notin D
    <3>1. Just = {} /\ s[lp] = 0
      BY <1>2, <2>3
    <3> HIDE DEF Just
    <3>2. SumOf(Just, s) = 0
      BY <1>4, <3>1, Zenon
    <3> QED  BY <3>1, <3>2 DEF Just
  <2> QED  BY <2>2, <2>3
<1>7. CASE kind = "CAPITAL_CALL"
  <2>1. Gets(cash) = D /\ Gives(cash) = {}
    BY <1>2, <1>3, <1>7 DEF To, From
  <2>2. ASSUME NEW lp \in LPs
        PROVE  /\ Gets(Chart[f].lp[lp]) = {}
               /\ Gives(Chart[f].lp[lp]) = {k \in D : k = lp}
    BY <1>2, <1>3, <1>7 DEF To, From
  <2>3. Delta(legs, cash) = n
    BY <1>1, <1>4, <1>5, <2>1
  <2>4. \A lp \in LPs : Delta(legs, Chart[f].lp[lp]) = -s[lp]
    <3> TAKE lp \in LPs
    <3>1. Delta(legs, Chart[f].lp[lp])
            = SumOf(Gets(Chart[f].lp[lp]), s) - SumOf(Gives(Chart[f].lp[lp]), s)
      BY <1>1, Zenon
    <3>2. SumOf(Gets(Chart[f].lp[lp]), s) = 0
      BY <1>4, <2>2, Zenon
    <3>3. SumOf(Gives(Chart[f].lp[lp]), s) = s[lp]
      BY <1>6, <2>2, Zenon
    <3>4. Delta(legs, Chart[f].lp[lp]) = 0 - s[lp]
      BY <3>1, <3>2, <3>3, Zenon
    <3> DEFINE x == s[lp]
    <3>5. x \in Nat
      BY <1>6
    <3> HIDE DEF x
    <3>6. 0 - x = -x
      BY <3>5
    <3> QED  BY <3>4, <3>6, Zenon DEF x
  <2> QED  BY <1>7, <2>3, <2>4 DEF legs, s, LPs
<1>8. CASE kind # "CAPITAL_CALL"
  <2>1. Gives(cash) = D /\ Gets(cash) = {}
    BY <1>2, <1>3, <1>8 DEF To, From
  <2>2. ASSUME NEW lp \in LPs
        PROVE  /\ Gives(Chart[f].lp[lp]) = {}
               /\ Gets(Chart[f].lp[lp]) = {k \in D : k = lp}
    BY <1>2, <1>3, <1>8 DEF To, From
  <2>3. Delta(legs, cash) = -n
    BY <1>1, <1>4, <1>5, <2>1
  <2>4. \A lp \in LPs : Delta(legs, Chart[f].lp[lp]) = s[lp]
    <3> TAKE lp \in LPs
    <3>1. Delta(legs, Chart[f].lp[lp])
            = SumOf(Gets(Chart[f].lp[lp]), s) - SumOf(Gives(Chart[f].lp[lp]), s)
      BY <1>1, Zenon
    <3> QED  BY <1>4, <1>6, <2>2, <3>1
  <2> QED  BY <1>8, <2>3, <2>4 DEF legs, s, LPs
<1> QED  BY <1>7, <1>8

-----------------------------------------------------------------------------
(* What the engine sees. *)

(* A call or a distribution is a transfer to the engine, which hears of it  *)
(* once its legs are known.                                                 *)
AsTransfer(r) ==
    [kind |-> "transfer", key |-> r.key, type |-> r.kind,
     period |-> <<r.fund, r.on>>, legs |-> CapitalLegs(r.kind, r.fund, r.total)]

Accepted == {r \in CapitalRequest : /\ <<r.fund, r.on>> \in Period
                                    /\ Allocatable(Commitment[r.fund])}

EngineRequest == Request \cup {AsTransfer(r) : r \in Accepted}

(* A worker that holds its fund with legs to post, or has posted them.      *)
Prepared == {"number", "lock", "insert", "entries", "commit"}

InEngine(w) ==
    Capital(w) => \/ pc[w] \in Prepared
                  \/ pc[w] = "reply" /\ outcome[w] = "created"

(* To the engine any other worker that serves one is idle, and the answers  *)
(* to such requests get lost.                                               *)
enginePc ==
    [w \in Worker |-> IF ~InEngine(w) THEN "idle"
                      ELSE IF pc[w] = "number" THEN "lock" ELSE pc[w]]
engineReq ==
    [w \in Worker |-> IF ~InEngine(w) THEN None
                      ELSE IF Capital(w) THEN AsTransfer(req[w]) ELSE req[w]]
engineRow == [w \in Worker |-> IF InEngine(w) THEN row[w] ELSE None]
engineSeen == [w \in Worker |-> IF InEngine(w) THEN seen[w] ELSE "OPEN"]
engineOutcome == [w \in Worker |-> IF InEngine(w) THEN outcome[w] ELSE "none"]
engineAnswers == {a \in answers : a[1] \in Request}

E == INSTANCE LedgerProofs
        WITH Request <- EngineRequest, pc <- enginePc, req <- engineReq,
             row <- engineRow, seen <- engineSeen, outcome <- engineOutcome,
             answers <- engineAnswers

(* What an accepted request has: numbers and a period of its own.           *)
LEMMA AcceptedFields ==
    ASSUME NEW r \in Accepted
    PROVE  /\ r \in CapitalRequest /\ r # None
           /\ r.kind \in Documented /\ r.key \in Key /\ r.fund \in Fund
           /\ r.total \in Nat \ {0} /\ r.total % Penny = 0
           /\ <<r.fund, r.on>> \in Period
           /\ Allocatable(Commitment[r.fund])
           /\ CapitalLegs(r.kind, r.fund, r.total) \in Seq(Leg)
<1>1. /\ r \in CapitalRequest /\ r # None
      /\ <<r.fund, r.on>> \in Period /\ Allocatable(Commitment[r.fund])
      /\ r \in CapitalRequests /\ r.total % Penny = 0
  BY CapitalAssumption DEF Accepted
<1>2. /\ r.kind \in Documented /\ r.key \in Key /\ r.fund \in Fund
      /\ r.total \in Nat \ {0}
  BY <1>1 DEF CapitalRequests
<1>3. CapitalLegs(r.kind, r.fund, r.total) \in Seq(Leg)
  BY <1>1, <1>2, LegPairs
<1> QED  BY <1>1, <1>2, <1>3

(* The engine can serve what it is asked for.                               *)
LEMMA EngineAssumptions ==
    /\ E!BooksAssumption
    /\ E!LedgerAssumption
    /\ E!WorkerAssumption
    /\ E!NoneAssumption
<1>1. \A r \in Accepted : AsTransfer(r) \in TransferRequest
  <2> TAKE r \in Accepted
  <2>1. r.kind \in TransferType \ {"REVERSAL"}
    BY AcceptedFields DEF Documented, TransferType
  <2> QED  BY <2>1, AcceptedFields DEF AsTransfer, TransferRequest
<1>2. /\ E!TransferRequest = TransferRequest
      /\ E!ReversalRequest = ReversalRequest
      /\ E!CloseRequest = CloseRequest
      /\ E!Undated = Undated
      /\ E!TransferRow = TransferRow
  BY DEF E!TransferRequest, E!ReversalRequest, E!CloseRequest, E!Undated,
         E!TransferRow, E!TransferType, E!Leg, TransferRequest,
         ReversalRequest, CloseRequest, Undated, TransferRow, TransferType, Leg
<1>3. E!LedgerAssumption
  BY <1>1, <1>2, LedgerAssumption DEF E!LedgerAssumption, EngineRequest
<1>4. \A r \in EngineRequest : r # None
  BY <1>1, NoneAssumption, CapitalAssumption DEF EngineRequest
<1>5. E!NoneAssumption
  BY <1>2, <1>4, NoneAssumption DEF E!NoneAssumption
<1>6. E!BooksAssumption
  BY BooksAssumption
<1>7. E!WorkerAssumption
  BY WorkerAssumption DEF E!WorkerAssumption, E!IsFiniteSet, IsFiniteSet
<1> QED  BY <1>3, <1>5, <1>6, <1>7

(* The kinds of requests are told apart.                                    *)
LEMMA Kinds ==
    /\ \A r \in Request : r.kind \in {"transfer", "reversal", "close"}
                          /\ r # None /\ r.kind \notin Documented
    /\ \A r \in CapitalRequest : r.kind \in Documented /\ r # None
<1>1. \A r \in Request : /\ r \in TransferRequest \cup ReversalRequest \cup CloseRequest
                         /\ r # None
  BY LedgerAssumption, NoneAssumption
<1>2. \A r \in CapitalRequest : r \in CapitalRequests /\ r # None
  BY CapitalAssumption
<1> QED  BY <1>1, <1>2
         DEF TransferRequest, ReversalRequest, CloseRequest, CapitalRequests,
             Documented

(* The engine has the data of Books.tla for its own: its operators are the  *)
(* same.                                                                    *)
LEMMA EngineData ==
    /\ \A S : E!IsFiniteSet(S) = IsFiniteSet(S)
    /\ \A legs, a : E!Delta(legs, a) = Delta(legs, a)
    /\ \A legs : E!Touched(legs) = Touched(legs)
    /\ \A legs : E!Balanced(legs) = Balanced(legs)
    /\ \A legs : E!ValidLegs(legs) = ValidLegs(legs)
    /\ \A legs, p : E!OwnFund(legs, p) = OwnFund(legs, p)
    /\ \A legs : E!Flip(legs) = Flip(legs)
    /\ \A r, t : E!SameRequest(r, t) = SameRequest(r, t)
    /\ \A b : E!Entries(b) = Entries(b)
    /\ \A b, a : E!NativeBalance(b, a) = NativeBalance(b, a)
    /\ \A b, p : E!PeriodImbalance(b, p) = PeriodImbalance(b, p)
    /\ \A b, k : E!KeyTaken(b, k) = KeyTaken(b, k)
    /\ \A b, k : E!Existing(b, k) = Existing(b, k)
    /\ \A b, i : E!ReversalsOf(b, i) = ReversalsOf(b, i)
<1>1. \A S : E!IsFiniteSet(S) = IsFiniteSet(S)
  BY DEF E!IsFiniteSet, IsFiniteSet
<1>2. \A S : E!Cardinality(S) = Cardinality(S)
  BY DEF E!Cardinality, Cardinality
<1>3. \A S, f : E!SumOf(S, f) = SumOf(S, f)
  BY <1>2 DEF E!SumOf, SumOf
<1>4. \A legs, a : E!Delta(legs, a) = Delta(legs, a)
  BY <1>3 DEF E!Delta, Delta, E!Side, Side, E!Amounts, Amounts
<1>5. \A legs : E!Touched(legs) = Touched(legs)
  BY DEF E!Touched, Touched
<1>6. \A legs : E!Balanced(legs) = Balanced(legs)
  BY <1>3 DEF E!Balanced, Balanced, E!Side, Side, E!Bases, Bases
<1>7. \A legs : E!ValidLegs(legs) = ValidLegs(legs)
  BY DEF E!ValidLegs, ValidLegs, E!Side, Side
<1>8. \A legs, p : E!OwnFund(legs, p) = OwnFund(legs, p)
  BY <1>5 DEF E!OwnFund, OwnFund
<1>9. \A legs : E!Flip(legs) = Flip(legs)
  BY DEF E!Flip, Flip, E!Opposite, Opposite
<1>10. \A legs : E!LegBag(legs) = LegBag(legs)
  BY <1>2, Zenon DEF E!LegBag, LegBag
<1>11. \A r, t : E!SameRequest(r, t) = SameRequest(r, t)
  BY <1>10 DEF E!SameRequest, SameRequest
<1>12. \A b : E!Entries(b) = Entries(b)
  BY DEF E!Entries, Entries
<1>13. \A b, e : E!EntryOf(b, e) = EntryOf(b, e)
  BY DEF E!EntryOf, EntryOf
<1>14. \A b, a : E!NativeBalance(b, a) = NativeBalance(b, a)
  BY <1>3, <1>12, <1>13 DEF E!NativeBalance, NativeBalance, E!EntriesOn, EntriesOn
<1>15. \A b, D : E!Imbalance(b, D) = Imbalance(b, D)
  BY <1>3, <1>13 DEF E!Imbalance, Imbalance
<1>16. \A b, p : E!PeriodImbalance(b, p) = PeriodImbalance(b, p)
  BY <1>12, <1>15 DEF E!PeriodImbalance, PeriodImbalance
<1>17. \A b, k : /\ E!KeyTaken(b, k) = KeyTaken(b, k)
                 /\ E!Existing(b, k) = Existing(b, k)
  BY DEF E!KeyTaken, KeyTaken, E!Existing, Existing
<1>18. \A b, i : E!ReversalsOf(b, i) = ReversalsOf(b, i)
  BY DEF E!ReversalsOf, ReversalsOf
<1> QED  BY <1>1, <1>4, <1>5, <1>6, <1>7, <1>8, <1>9, <1>11, <1>12, <1>14,
            <1>16, <1>17, <1>18

-----------------------------------------------------------------------------
(* What the workers know. *)

CapitalSteps == {"lookup", "fund", "prepare", "relookup", "reply"} \cup Prepared

(* An idle worker has nothing; one that serves a call or a distribution     *)
(* goes its own way, and posts what was asked for; no other writes a row of *)
(* such a type.                                                             *)
Serving(w) ==
    /\ pc[w] = "idle" <=> req[w] = None
    /\ pc[w] = "idle" => row[w] = None /\ seen[w] = "OPEN" /\ outcome[w] = "none"
    /\ outcome[w] = "created" => pc[w] = "reply"
    /\ pc[w] # "idle" => req[w] \in Request \/ Capital(w)
    /\ Capital(w) =>
          /\ req[w] \in CapitalRequest
          /\ pc[w] \in CapitalSteps
          /\ pc[w] \in {"lookup", "fund", "prepare"} \cup Prepared
                => outcome[w] = "none"
          /\ pc[w] \in Prepared
                => req[w] \in Accepted /\ row[w] = RowOfCapital(req[w])
          /\ outcome[w] = "created" => req[w] \in Accepted
    /\ pc[w] \in {"fund", "prepare", "number"} => Capital(w)
    /\ ~Capital(w) /\ pc[w] \in Posting => row[w].type \notin Documented

(* Every worker has a state of its own.                                     *)
Apiece ==
    /\ pc = [w \in Worker |-> pc[w]]
    /\ req = [w \in Worker |-> req[w]]
    /\ row = [w \in Worker |-> row[w]]
    /\ seen = [w \in Worker |-> seen[w]]
    /\ outcome = [w \in Worker |-> outcome[w]]
    /\ doc = [w \in Worker |-> doc[w]]

ServingInv == Apiece /\ \A w \in Worker : Serving(w)

(* What the step of w leaves alone of another worker v.                     *)
SameServing(v) ==
    /\ pc'[v] = pc[v]
    /\ req'[v] = req[v]
    /\ row'[v] = row[v]
    /\ seen'[v] = seen[v]
    /\ locked'[v] = locked[v]
    /\ outcome'[v] = outcome[v]
    /\ doc'[v] = doc[v]

(* A step of w, as CapitalNext has it.                                      *)
ServingStep(w) ==
    \/ \E r \in Request : Arrive(w, r) /\ UNCHANGED <<documents, doc>>
    \/ \E r \in CapitalRequest : ReceiveCapital(w, r)
    \/ CapitalProceed(w)
    \/ Crash(w) /\ Leave(w)
    \/ Timeout(w) /\ UNCHANGED <<documents, doc>>
    \/ FundTimeout(w)

(* Every step is of one worker, or of the clock, or of no one.              *)
LEMMA ServingStepKinds ==
    ASSUME [CapitalNext]_capitalVars
    PROVE  \/ \E w \in Worker : ServingStep(w)
           \/ (Tick \/ UNCHANGED vars) /\ UNCHANGED <<documents, doc>>
BY DEF CapitalNext, Environment, ServingStep, capitalVars, Quiet

-----------------------------------------------------------------------------
(* The engine's view of a worker. *)

(* The engine sees what a worker that it serves does,                       *)
LEMMA SeenByEngine ==
    ASSUME NEW w \in Worker
    PROVE  /\ InEngine(w) => /\ pc[w] # "number" => enginePc[w] = pc[w]
                             /\ pc[w] = "number" => enginePc[w] = "lock"
                             /\ ~Capital(w) => engineReq[w] = req[w]
                             /\ Capital(w) => engineReq[w] = AsTransfer(req[w])
                             /\ engineRow[w] = row[w]
                             /\ engineSeen[w] = seen[w]
                             /\ engineOutcome[w] = outcome[w]
           /\ ~InEngine(w) => /\ enginePc[w] = "idle" /\ engineReq[w] = None
                              /\ engineRow[w] = None /\ engineSeen[w] = "OPEN"
                              /\ engineOutcome[w] = "none"
BY DEF enginePc, engineReq, engineRow, engineSeen, engineOutcome

(* and a step of one worker changes what it sees of no other.               *)
LEMMA OneStepSeen ==
    ASSUME NEW w \in Worker, \A v \in Worker \ {w} : SameServing(v)
    PROVE  /\ enginePc' = [enginePc EXCEPT ![w] = enginePc'[w]]
           /\ engineReq' = [engineReq EXCEPT ![w] = engineReq'[w]]
           /\ engineRow' = [engineRow EXCEPT ![w] = engineRow'[w]]
           /\ engineSeen' = [engineSeen EXCEPT ![w] = engineSeen'[w]]
           /\ engineOutcome' = [engineOutcome EXCEPT ![w] = engineOutcome'[w]]
<1>1. \A v \in Worker \ {w} : /\ InEngine(v)' = InEngine(v)
                              /\ Capital(v)' = Capital(v)
  BY DEF SameServing, InEngine, Capital
<1>2. \A v \in Worker \ {w} : /\ enginePc'[v] = enginePc[v]
                              /\ engineReq'[v] = engineReq[v]
                              /\ engineRow'[v] = engineRow[v]
                              /\ engineSeen'[v] = engineSeen[v]
                              /\ engineOutcome'[v] = engineOutcome[v]
  BY <1>1 DEF SameServing, enginePc, engineReq, engineRow, engineSeen,
              engineOutcome
<1>3. /\ enginePc = [v \in Worker |-> enginePc[v]]
      /\ engineReq = [v \in Worker |-> engineReq[v]]
      /\ engineRow = [v \in Worker |-> engineRow[v]]
      /\ engineSeen = [v \in Worker |-> engineSeen[v]]
      /\ engineOutcome = [v \in Worker |-> engineOutcome[v]]
      /\ enginePc' = [v \in Worker |-> enginePc'[v]]
      /\ engineReq' = [v \in Worker |-> engineReq'[v]]
      /\ engineRow' = [v \in Worker |-> engineRow'[v]]
      /\ engineSeen' = [v \in Worker |-> engineSeen'[v]]
      /\ engineOutcome' = [v \in Worker |-> engineOutcome'[v]]
  BY DEF enginePc, engineReq, engineRow, engineSeen, engineOutcome
<1> QED  BY <1>2, <1>3

(* A worker that is served decides what the engine would, and waits for     *)
(* whom the engine would.                                                   *)
LEMMA EngineDecides ==
    ASSUME ServingInv, NEW w \in Worker, InEngine(w)
    PROVE  /\ E!Unlocked(w) = Unlocked(w)
           /\ E!NextAccount(w) = NextAccount(w)
           /\ E!Objection(w) = Objection(w)
           /\ E!UniqueViolation(w) = UniqueViolation(w)
           /\ E!Refused(w) = Refused(w)
           /\ E!Verdict(w) = Verdict(w)
           /\ E!AfterRollback(w) = AfterRollback(w)
           /\ pc[w] # "number" => E!WaitsFor(w) = WaitsFor(w)
<1>1. /\ engineRow[w] = row[w] /\ engineSeen[w] = seen[w]
      /\ engineOutcome[w] = outcome[w]
  BY SeenByEngine
<1>2. E!Unlocked(w) = Unlocked(w)
  BY <1>1, EngineData DEF E!Unlocked, Unlocked
<1>3. E!NextAccount(w) = NextAccount(w)
  BY <1>2 DEF E!NextAccount, NextAccount
<1>4. \A legs : E!Overdrawn(legs) = Overdrawn(legs)
  BY EngineData DEF E!Overdrawn, Overdrawn
<1>5. E!Objection(w) = Objection(w)
  BY <1>1, <1>4, EngineData DEF E!Objection, Objection
<1>6. E!UniqueViolation(w) = UniqueViolation(w)
  BY <1>1, EngineData DEF E!UniqueViolation, UniqueViolation
<1>7. E!Refused(w) = Refused(w)
  BY <1>1, EngineData DEF E!Refused, Refused, E!StatusNow, StatusNow
<1>8. E!Verdict(w) = Verdict(w)
  BY <1>1, EngineData DEF E!Verdict, Verdict
<1>9. E!AfterRollback(w) = AfterRollback(w)
  BY <1>1, <1>8, EngineData DEF E!AfterRollback, AfterRollback
<1>10. ASSUME pc[w] # "number"
       PROVE  E!WaitsFor(w) = WaitsFor(w)
  <2>1. \A v \in Worker :
           /\ enginePc[v] \in {"entries", "commit"} <=> pc[v] \in {"entries", "commit"}
           /\ enginePc[v] = "commit" <=> pc[v] = "commit"
           /\ pc[v] \in {"entries", "commit"} => engineRow[v] = row[v]
           /\ enginePc[v] \in {"decide", "closing"} <=> pc[v] \in {"decide", "closing"}
           /\ pc[v] \in {"decide", "closing"} => engineReq[v] = req[v]
    BY SeenByEngine DEF ServingInv, Serving, InEngine, CapitalSteps, Prepared
  <2>2. E!Clashing(w) = Clashing(w)
    BY <1>1, <2>1 DEF E!Clashing, Clashing
  <2>3. \A p : E!Closers(p) = Closers(p)
    BY <2>1 DEF E!Closers, Closers
  <2>4. \A p : E!Sharers(p) = Sharers(p)
    BY <2>1 DEF E!Sharers, Sharers
  <2>5. \A a : E!HoldersOf(a) = HoldersOf(a)
    BY DEF E!HoldersOf, HoldersOf
  <2>6. enginePc[w] = pc[w] /\ (pc[w] = "period" => engineReq[w] = req[w])
    BY <1>10, SeenByEngine DEF ServingInv, Serving, CapitalSteps, Prepared
  <2> QED  BY <1>1, <1>2, <1>3, <2>2, <2>3, <2>4, <2>5, <2>6
           DEF E!WaitsFor, WaitsFor
<1> QED  BY <1>2, <1>3, <1>5, <1>6, <1>7, <1>8, <1>9, <1>10

-----------------------------------------------------------------------------
(* The workers' knowledge lasts. *)

(* Nobody's state but the worker's own is changed by its step.              *)
LEMMA OthersServe ==
    ASSUME E!TypeOK, ServingInv, NEW w \in Worker, ServingStep(w)
    PROVE  Apiece' /\ \A v \in Worker \ {w} : SameServing(v)
<1> USE DEF SameServing, Goto, Finish, Release, job
<1>0. Apiece /\ locked \in [Worker -> SUBSET Account]
  BY DEF ServingInv, E!TypeOK
<1> USE DEF Apiece
<1>1. ASSUME NEW r \in Request, Arrive(w, r), UNCHANGED <<documents, doc>>
      PROVE  Apiece' /\ \A v \in Worker \ {w} : SameServing(v)
  <2>1. CASE ReceiveTransfer(w, r)
    BY <1>0, <1>1, <2>1 DEF ReceiveTransfer, Receive, Prepare
  <2>2. CASE ReceiveReversal(w, r)
    BY <1>0, <1>1, <2>2 DEF ReceiveReversal, Receive, Prepare
  <2>3. CASE ReceiveClose(w, r)
    BY <1>0, <1>1, <2>3 DEF ReceiveClose, Receive
  <2> QED  BY <1>1, <2>1, <2>2, <2>3 DEF Arrive
<1>2. ASSUME NEW r \in CapitalRequest, ReceiveCapital(w, r)
      PROVE  Apiece' /\ \A v \in Worker \ {w} : SameServing(v)
  BY <1>0, <1>2 DEF ReceiveCapital, Receive
<1>3. CASE LedgerStep(w)
  <2>1. CASE Lookup(w) \/ Relookup(w) \/ Examine(w)
    BY <1>0, <1>3, <2>1 DEF LedgerStep, Lookup, Relookup, Examine
  <2>2. CASE Commit(w) \/ LockAccount(w) \/ Check(w)
    BY <1>0, <1>3, <2>2 DEF LedgerStep, Commit, LockAccount, Check
  <2>3. CASE Insert(w) \/ InsertEntries(w)
    BY <1>0, <1>3, <2>3 DEF LedgerStep, Insert, InsertEntries
  <2>4. CASE Close(w)
    BY <1>0, <1>3, <2>4 DEF LedgerStep, Close, LockPeriod, DecideClose, CommitClose
  <2> QED  BY <1>3, <2>1, <2>2, <2>3, <2>4 DEF LedgerStep
<1>4. CASE CapitalStep(w)
  <2>1. CASE LookupCapital(w) \/ LockFund(w) \/ RelookupCapital(w)
    BY <1>0, <2>1 DEF LookupCapital, LockFund, RelookupCapital
  <2>2. CASE PrepareCapital(w)
    BY <1>0, <2>2 DEF PrepareCapital, Prepare
  <2>3. CASE NumberDocument(w)
    BY <1>0, <2>3 DEF NumberDocument
  <2>4. CASE CommitCapital(w)
    BY <1>0, <2>4 DEF CommitCapital, Commit
  <2> QED  BY <1>4, <2>1, <2>2, <2>3, <2>4 DEF CapitalStep
<1>5. CASE (Reply(w) \/ Crash(w)) /\ Leave(w)
  BY <1>0, <1>5 DEF Reply, Crash, Idle, Leave
<1>6. CASE FundTimeout(w)
  BY <1>0, <1>6 DEF FundTimeout
<1>7. CASE Timeout(w) /\ UNCHANGED <<documents, doc>>
  BY <1>0, <1>7 DEF Timeout
<1> QED  BY <1>1, <1>2, <1>3, <1>4, <1>5, <1>6, <1>7
         DEF ServingStep, CapitalProceed

(* A worker that receives a request of the engine's own.                    *)
LEMMA ServesTheEngine ==
    ASSUME E!TypeOK, ServingInv, NEW w \in Worker, NEW r \in Request,
           Arrive(w, r), UNCHANGED <<documents, doc>>
    PROVE  Serving(w)'
<1>0. /\ Apiece /\ Serving(w) /\ pc[w] = "idle"
      /\ req' = [req EXCEPT ![w] = r]
  BY DEF ServingInv, Arrive, ReceiveTransfer, ReceiveReversal, ReceiveClose, Receive
<1>1. r # None /\ r.kind \in {"transfer", "reversal", "close"}
      /\ r.kind \notin Documented
  BY Kinds
<1>2. req'[w] = r /\ ~Capital(w)'
  BY <1>0, <1>1 DEF Apiece, Capital
<1>3. CASE ReceiveTransfer(w, r)
  <2>1. r.type \notin Documented
    BY <1>3, CapitalAssumption DEF ReceiveTransfer
  <2>2. RowOfTransfer(r).type = r.type
    BY DEF RowOfTransfer
  <2>3. /\ pc'[w] \in {"lookup", "reply"}
        /\ pc'[w] = "lookup" => row'[w] = RowOfTransfer(r)
        /\ outcome'[w] # "created"
    BY <1>0, <1>3 DEF ReceiveTransfer, Prepare, Goto, Finish, Apiece, Serving
  <2> QED  BY <1>1, <1>2, <2>1, <2>2, <2>3 DEF Serving, Posting
<1>4. CASE ReceiveReversal(w, r)
  <2>1. \A p, legs : RowOfReversal(r, p, legs).type \notin Documented
    BY DEF RowOfReversal, Documented
  <2>2. /\ pc'[w] \in {"examine", "reply"}
        /\ pc'[w] = "examine" => \E p, legs : row'[w] = RowOfReversal(r, p, legs)
        /\ outcome'[w] # "created"
    <3>1. CASE r.target \notin DOMAIN book
      BY <1>0, <1>4, <3>1 DEF ReceiveReversal, Goto, Finish, Apiece, Serving
    <3>2. CASE r.target \in DOMAIN book
      <4> DEFINE p == <<book[r.target].period[1], BookedOn(r)>>
      <4>1. \/ Prepare(w, RowOfReversal(r, p, book[r.target].legs), "examine")
            \/ Finish(w, "no_period")
        BY <1>4, <3>2 DEF ReceiveReversal
      <4> HIDE DEF p
      <4> QED  BY <1>0, <4>1 DEF Prepare, Goto, Finish, Apiece, Serving
    <3> QED  BY <3>1, <3>2
  <2> QED  BY <1>1, <1>2, <2>1, <2>2 DEF Serving, Posting
<1>5. CASE ReceiveClose(w, r)
  <2>1. pc'[w] = "period" /\ outcome'[w] # "created"
    BY <1>0, <1>5 DEF ReceiveClose, Goto, Apiece, Serving
  <2> QED  BY <1>1, <1>2, <2>1 DEF Serving, Posting
<1> QED  BY <1>3, <1>4, <1>5 DEF Arrive

(* The steps that a worker takes with the engine: its request, and while it *)
(* has one to post its row, are those it had.                               *)
LEMMA EngineMoves ==
    ASSUME E!TypeOK, ServingInv, NEW w \in Worker,
           \/ LedgerStep(w)
           \/ Timeout(w) /\ UNCHANGED <<documents, doc>>
    PROVE  /\ UNCHANGED <<req, row, seen>>
           /\ pc[w] # "idle" /\ pc'[w] # "idle"
           /\ pc[w] \in Posting \cup Closing
           /\ pc'[w] \in Posting => pc[w] \in Posting
           /\ pc'[w] \notin {"fund", "prepare", "number"}
           /\ Capital(w) =>
                 /\ pc[w] \in {"lock", "insert", "entries"}
                 /\ pc'[w] \in {"lock", "insert", "entries", "commit",
                                "relookup", "reply"}
                 /\ outcome'[w] # "created"
                 /\ pc'[w] \in Prepared => outcome'[w] = "none"
           /\ outcome'[w] = "created" => pc'[w] = "reply"
<1> USE DEF Goto, Finish, Release, job
<1>0. Apiece /\ Serving(w)
  BY DEF ServingInv
<1> USE DEF Apiece, Serving, CapitalSteps, Prepared, Posting, Closing
<1>1. CASE Lookup(w) /\ ~Capital(w)
  BY <1>0, <1>1 DEF Lookup, Verdict
<1>2. CASE Relookup(w) /\ ~Capital(w)
  BY <1>0, <1>2 DEF Relookup
<1>3. CASE Commit(w) /\ ~Capital(w)
  BY <1>0, <1>3 DEF Commit
<1>4. CASE Examine(w)
  BY <1>0, <1>4 DEF Examine
<1>5. CASE LockAccount(w)
  BY <1>0, <1>5 DEF LockAccount
<1>6. CASE Check(w)
  <2>1. Objection(w) # "created"
    BY DEF Objection
  <2> QED  BY <1>0, <1>6, <2>1 DEF Check
<1>7. CASE Insert(w)
  BY <1>0, <1>7 DEF Insert
<1>8. CASE InsertEntries(w)
  <2>1. Refused(w) # "created"
    BY DEF Refused
  <2> QED  BY <1>0, <1>8, <2>1 DEF InsertEntries
<1>9. CASE Close(w)
  BY <1>0, <1>9 DEF Close, LockPeriod, DecideClose, CommitClose
<1>10. CASE Timeout(w)
  <2>1. pc[w] \in {"lock", "insert", "entries", "period"}
    BY <1>10 DEF Timeout, WaitsFor
  <2> QED  BY <1>0, <1>10, <2>1 DEF Timeout
<1> QED  BY <1>1, <1>2, <1>3, <1>4, <1>5, <1>6, <1>7, <1>8, <1>9, <1>10
         DEF LedgerStep

(* The steps of a call or a distribution of its own.                        *)
LEMMA CapitalMoves ==
    ASSUME E!TypeOK, ServingInv, NEW w \in Worker,
           CapitalStep(w) \/ FundTimeout(w)
    PROVE  Serving(w)' /\ Capital(w) /\ req' = req
<1> USE DEF Goto, Finish, Release, job
<1>0. Apiece /\ Serving(w)
  BY DEF ServingInv
<1>1. Capital(w)
  BY <1>0 DEF CapitalStep, FundTimeout, Serving
<1>2. /\ pc[w] # "idle" /\ req[w].kind \in Documented /\ req[w] # None
      /\ req[w] \in CapitalRequest
  BY <1>0, <1>1 DEF Capital, Serving
<1> USE DEF Apiece, CapitalSteps, Prepared, Posting
<1>3. CASE LookupCapital(w)
  <2>1. CapitalVerdict(w) # "created"
    BY DEF CapitalVerdict
  <2> QED  BY <1>0, <1>1, <1>2, <1>3, <2>1 DEF LookupCapital, Serving, Capital
<1>4. CASE LockFund(w) \/ FundTimeout(w)
  BY <1>0, <1>1, <1>2, <1>4 DEF LockFund, FundTimeout, Serving, Capital
<1>5. CASE PrepareCapital(w)
  <2>1. CASE CapitalObjection(req[w]) = "none"
    <3>1. /\ pc'[w] = "number" /\ row'[w] = RowOfCapital(req[w])
          /\ req' = req /\ outcome' = outcome /\ pc[w] = "prepare"
      BY <1>0, <1>5, <2>1 DEF PrepareCapital, Prepare
    <3>2. req[w] \in Accepted
      BY <1>2, <2>1 DEF CapitalObjection, Accepted
    <3> QED  BY <1>0, <1>1, <1>2, <3>1, <3>2 DEF Serving, Capital
  <2>2. CASE CapitalObjection(req[w]) # "none"
    <3>1. CapitalObjection(req[w]) # "created"
      BY DEF CapitalObjection
    <3>2. /\ pc'[w] = "relookup" /\ row' = row /\ req' = req
          /\ outcome'[w] # "created"
      BY <1>0, <1>5, <2>2, <3>1 DEF PrepareCapital
    <3> QED  BY <1>0, <1>1, <1>2, <3>2 DEF Serving, Capital
  <2> QED  BY <2>1, <2>2
<1>6. CASE NumberDocument(w)
  BY <1>0, <1>1, <1>2, <1>6 DEF NumberDocument, Serving, Capital
<1>7. CASE CommitCapital(w)
  BY <1>0, <1>1, <1>2, <1>7 DEF CommitCapital, Commit, Serving, Capital
<1>8. CASE RelookupCapital(w)
  <2>1. CapitalAfterRollback(w) # "created"
    BY <1>0, <1>8 DEF CapitalAfterRollback, CapitalVerdict, RelookupCapital, Serving
  <2> QED  BY <1>0, <1>1, <1>2, <1>8, <2>1 DEF RelookupCapital, Serving, Capital
<1>9. req' = req
  BY DEF CapitalStep, FundTimeout, LookupCapital, LockFund, PrepareCapital,
         NumberDocument, CommitCapital, Commit, RelookupCapital
<1> QED  BY <1>1, <1>3, <1>4, <1>5, <1>6, <1>7, <1>8, <1>9 DEF CapitalStep

(* Each step of the callers keeps ServingInv.                                *)
LEMMA ServingInvStep ==
    E!TypeOK /\ ServingInv /\ [CapitalNext]_capitalVars => ServingInv'
<1> SUFFICES ASSUME E!TypeOK, ServingInv, [CapitalNext]_capitalVars
             PROVE  ServingInv'
  OBVIOUS
<1>1. ASSUME NEW w \in Worker, ServingStep(w)
      PROVE  ServingInv'
  <2>1. Apiece' /\ \A v \in Worker \ {w} : SameServing(v)
    BY <1>1, OthersServe
  <2>2. \A v \in Worker \ {w} : Serving(v)'
    <3> TAKE v \in Worker \ {w}
    <3>1. Serving(v) /\ SameServing(v)
      BY <2>1 DEF ServingInv
    <3> QED  BY <3>1 DEF SameServing, Serving, Capital
  <2>3. Serving(w)'
    <3>1. CASE \E r \in Request : Arrive(w, r) /\ UNCHANGED <<documents, doc>>
      BY <3>1, ServesTheEngine
    <3>2. ASSUME NEW r \in CapitalRequest, ReceiveCapital(w, r)
          PROVE  Serving(w)'
      <4>1. r # None /\ r.kind \in Documented
        BY Kinds
      <4>2. /\ pc[w] = "idle" /\ pc'[w] = "lookup" /\ req'[w] = r
            /\ UNCHANGED <<row, seen, outcome>>
        BY <3>2 DEF ReceiveCapital, Receive, Goto, ServingInv, Apiece
      <4> QED  BY <4>1, <4>2
               DEF ServingInv, Serving, Capital, CapitalSteps, Prepared, Posting
    <3>3. CASE LedgerStep(w) \/ (Timeout(w) /\ UNCHANGED <<documents, doc>>)
      <4>1. Serving(w)
        BY DEF ServingInv
      <4>2. /\ UNCHANGED <<req, row, seen>>
            /\ pc[w] # "idle" /\ pc'[w] # "idle"
            /\ pc'[w] \in Posting => pc[w] \in Posting
            /\ pc'[w] \notin {"fund", "prepare", "number"}
            /\ Capital(w) =>
                  /\ pc[w] \in {"lock", "insert", "entries"}
                  /\ pc'[w] \in {"lock", "insert", "entries", "commit",
                                 "relookup", "reply"}
                  /\ outcome'[w] # "created"
                  /\ pc'[w] \in Prepared => outcome'[w] = "none"
            /\ outcome'[w] = "created" => pc'[w] = "reply"
        BY <3>3, EngineMoves
      <4>3. Capital(w)' <=> Capital(w)
        BY <4>2 DEF Capital
      <4> QED  BY <4>1, <4>2, <4>3 DEF Serving, CapitalSteps, Prepared
    <3>4. CASE CapitalStep(w) \/ FundTimeout(w)
      BY <3>4, CapitalMoves
    <3>5. CASE (Reply(w) \/ Crash(w)) /\ Leave(w)
      <4>1. /\ pc'[w] = "idle" /\ req'[w] = None /\ row'[w] = None
            /\ seen'[w] = "OPEN" /\ outcome'[w] = "none"
        BY <3>5 DEF Reply, Crash, Idle, Goto, ServingInv, Apiece
      <4> QED  BY <4>1 DEF Serving, Capital, Posting
    <3> QED  BY <1>1, <3>1, <3>2, <3>3, <3>4, <3>5, Zenon
             DEF ServingStep, CapitalProceed
  <2> QED  BY <2>1, <2>2, <2>3 DEF ServingInv
<1>2. CASE UNCHANGED <<pc, req, row, seen, outcome, doc>>
  BY <1>2 DEF ServingInv, Apiece, Serving, Capital
<1> QED  BY <1>1, <1>2, ServingStepKinds DEF Tick, vars, job

-----------------------------------------------------------------------------
(* Every step is one of the engine's, an entry into it, or none of its      *)
(* business.                                                                *)

(* What the engine sees of a step that starts and ends in its service,      *)
LEMMA Served ==
    ASSUME NEW w \in Worker, \A v \in Worker \ {w} : SameServing(v),
           InEngine(w), InEngine(w)', pc[w] # "number", pc'[w] # "number",
           Capital(w)' <=> Capital(w)
    PROVE  /\ enginePc[w] = pc[w] /\ engineRow[w] = row[w]
           /\ engineSeen[w] = seen[w] /\ engineOutcome[w] = outcome[w]
           /\ enginePc' = [enginePc EXCEPT ![w] = pc'[w]]
           /\ engineRow' = [engineRow EXCEPT ![w] = row'[w]]
           /\ engineSeen' = [engineSeen EXCEPT ![w] = seen'[w]]
           /\ engineOutcome' = [engineOutcome EXCEPT ![w] = outcome'[w]]
           /\ ~Capital(w) => /\ engineReq[w] = req[w]
                             /\ engineReq' = [engineReq EXCEPT ![w] = req'[w]]
           /\ pc' = pc => enginePc' = enginePc
           /\ req' = req => engineReq' = engineReq
           /\ row' = row => engineRow' = engineRow
           /\ seen' = seen => engineSeen' = engineSeen
           /\ outcome' = outcome => engineOutcome' = engineOutcome
<1>1. /\ enginePc[w] = pc[w] /\ engineRow[w] = row[w]
      /\ engineSeen[w] = seen[w] /\ engineOutcome[w] = outcome[w]
      /\ ~Capital(w) => engineReq[w] = req[w]
      /\ Capital(w) => engineReq[w] = AsTransfer(req[w])
  BY SeenByEngine
<1>2. /\ enginePc'[w] = pc'[w] /\ engineRow'[w] = row'[w]
      /\ engineSeen'[w] = seen'[w] /\ engineOutcome'[w] = outcome'[w]
      /\ ~Capital(w) => engineReq'[w] = req'[w]
      /\ Capital(w) => engineReq'[w] = AsTransfer(req'[w])
  BY DEF enginePc, engineReq, engineRow, engineSeen, engineOutcome
<1>3. /\ enginePc' = [enginePc EXCEPT ![w] = enginePc'[w]]
      /\ engineReq' = [engineReq EXCEPT ![w] = engineReq'[w]]
      /\ engineRow' = [engineRow EXCEPT ![w] = engineRow'[w]]
      /\ engineSeen' = [engineSeen EXCEPT ![w] = engineSeen'[w]]
      /\ engineOutcome' = [engineOutcome EXCEPT ![w] = engineOutcome'[w]]
  BY OneStepSeen
<1>4. /\ enginePc = [v \in Worker |-> enginePc[v]]
      /\ engineReq = [v \in Worker |-> engineReq[v]]
      /\ engineRow = [v \in Worker |-> engineRow[v]]
      /\ engineSeen = [v \in Worker |-> engineSeen[v]]
      /\ engineOutcome = [v \in Worker |-> engineOutcome[v]]
  BY DEF enginePc, engineReq, engineRow, engineSeen, engineOutcome
<1> QED  BY <1>1, <1>2, <1>3, <1>4

(* of one outside it,                                                       *)
LEMMA Unserved ==
    ASSUME NEW w \in Worker, \A v \in Worker \ {w} : SameServing(v),
           ~InEngine(w), ~InEngine(w)'
    PROVE  UNCHANGED <<enginePc, engineReq, engineRow, engineSeen, engineOutcome>>
<1>1. /\ enginePc[w] = "idle" /\ engineReq[w] = None
      /\ engineRow[w] = None /\ engineSeen[w] = "OPEN" /\ engineOutcome[w] = "none"
  BY SeenByEngine
<1>2. /\ enginePc'[w] = "idle" /\ engineReq'[w] = None
      /\ engineRow'[w] = None /\ engineSeen'[w] = "OPEN"
      /\ engineOutcome'[w] = "none"
  BY DEF enginePc, engineReq, engineRow, engineSeen, engineOutcome
<1>3. /\ enginePc' = [enginePc EXCEPT ![w] = enginePc'[w]]
      /\ engineReq' = [engineReq EXCEPT ![w] = engineReq'[w]]
      /\ engineRow' = [engineRow EXCEPT ![w] = engineRow'[w]]
      /\ engineSeen' = [engineSeen EXCEPT ![w] = engineSeen'[w]]
      /\ engineOutcome' = [engineOutcome EXCEPT ![w] = engineOutcome'[w]]
  BY OneStepSeen
<1>4. /\ enginePc = [v \in Worker |-> enginePc[v]]
      /\ engineReq = [v \in Worker |-> engineReq[v]]
      /\ engineRow = [v \in Worker |-> engineRow[v]]
      /\ engineSeen = [v \in Worker |-> engineSeen[v]]
      /\ engineOutcome = [v \in Worker |-> engineOutcome[v]]
  BY DEF enginePc, engineReq, engineRow, engineSeen, engineOutcome
<1> QED  BY <1>1, <1>2, <1>3, <1>4

(* and of one that ends its service: the worker is lost to it.              *)
LEMMA Dropped ==
    ASSUME ServingInv', NEW w \in Worker, \A v \in Worker \ {w} : SameServing(v),
           InEngine(w), pc[w] # "idle", ~InEngine(w)' \/ pc'[w] = "idle",
           UNCHANGED <<book, status, today, attempts>>,
           engineAnswers' = engineAnswers,
           locked' = [locked EXCEPT ![w] = {}]
    PROVE  E!Crash(w)
<1>1. enginePc[w] # "idle"
  BY SeenByEngine
<1>2. /\ enginePc'[w] = "idle" /\ engineReq'[w] = None
      /\ engineRow'[w] = None /\ engineSeen'[w] = "OPEN"
      /\ engineOutcome'[w] = "none"
  <2>1. Serving(w)'
    BY DEF ServingInv
  <2>2. pc'[w] = "idle" => /\ req'[w] = None /\ row'[w] = None
                           /\ seen'[w] = "OPEN" /\ outcome'[w] = "none"
                           /\ ~Capital(w)'
    BY <2>1 DEF Serving, Capital
  <2> QED  BY <2>2
           DEF enginePc, engineReq, engineRow, engineSeen, engineOutcome
<1>3. /\ enginePc' = [enginePc EXCEPT ![w] = "idle"]
      /\ engineReq' = [engineReq EXCEPT ![w] = None]
      /\ engineRow' = [engineRow EXCEPT ![w] = None]
      /\ engineSeen' = [engineSeen EXCEPT ![w] = "OPEN"]
      /\ engineOutcome' = [engineOutcome EXCEPT ![w] = "none"]
  BY <1>2, OneStepSeen
<1> QED  BY <1>1, <1>3 DEF E!Crash, E!Idle, E!Goto, E!Release

(* An answer to others is no answer of the engine's.                        *)
LEMMA AnswersSeen ==
    ASSUME ServingInv, NEW w \in Worker, pc[w] # "idle",
           \/ answers' = answers
           \/ answers' = answers \cup {<<req[w], outcome[w]>>}
    PROVE  /\ answers' = answers => engineAnswers' = engineAnswers
           /\ Capital(w) => engineAnswers' = engineAnswers
           /\ ~Capital(w) /\ answers' = answers \cup {<<req[w], outcome[w]>>}
                => engineAnswers' = engineAnswers \cup {<<req[w], outcome[w]>>}
<1>1. ~Capital(w) => req[w] \in Request
  BY DEF ServingInv, Serving
<1>2. Capital(w) => req[w] \notin Request
  BY Kinds DEF Capital
<1> QED  BY <1>1, <1>2 DEF engineAnswers

(* A request of the engine's own that arrives,                              *)
LEMMA ArrivesInEngine ==
    ASSUME ServingInv, NEW w \in Worker, \A v \in Worker \ {w} : SameServing(v),
           Apiece', NEW r \in Request, Arrive(w, r)
    PROVE  E!Next
<1>0. /\ Apiece /\ pc[w] = "idle" /\ req' = [req EXCEPT ![w] = r]
      /\ r \in EngineRequest
      /\ answers' = answers
  BY DEF ServingInv, Arrive, ReceiveTransfer, ReceiveReversal, ReceiveClose,
         Receive, EngineRequest
<1>1. /\ ~Capital(w) /\ ~Capital(w)' /\ InEngine(w) /\ InEngine(w)'
      /\ req'[w] = r
  BY <1>0, Kinds DEF Capital, InEngine, Apiece
<1>2. pc'[w] # "number"
  BY <1>0 DEF Arrive, ReceiveTransfer, ReceiveReversal, ReceiveClose, Prepare,
              Goto, Finish, Apiece
<1>3. /\ enginePc[w] = pc[w] /\ engineRow[w] = row[w]
      /\ enginePc' = [enginePc EXCEPT ![w] = pc'[w]]
      /\ engineReq' = [engineReq EXCEPT ![w] = r]
      /\ engineRow' = [engineRow EXCEPT ![w] = row'[w]]
      /\ engineSeen' = [engineSeen EXCEPT ![w] = seen'[w]]
      /\ engineOutcome' = [engineOutcome EXCEPT ![w] = outcome'[w]]
      /\ row' = row => engineRow' = engineRow
      /\ seen' = seen => engineSeen' = engineSeen
      /\ outcome' = outcome => engineOutcome' = engineOutcome
      /\ engineAnswers' = engineAnswers
  BY <1>0, <1>1, <1>2, Served DEF engineAnswers
<1>4. E!Receive(w, r)
  BY <1>0, <1>3 DEF E!Receive, Arrive, ReceiveTransfer, ReceiveReversal,
                    ReceiveClose, Receive
<1>5. ASSUME NEW t, NEW step, Prepare(w, t, step)
      PROVE  E!Prepare(w, t, step)
  BY <1>0, <1>3, <1>5 DEF Prepare, E!Prepare, Goto, E!Goto, Apiece
<1>6. ASSUME NEW o, Finish(w, o)
      PROVE  E!Finish(w, o)
  BY <1>0, <1>3, <1>6 DEF Finish, E!Finish, Goto, E!Goto, Apiece
<1>7. CASE ReceiveTransfer(w, r)
  <2>1. E!ValidLegs(r.legs) = ValidLegs(r.legs)
        /\ E!RowOfTransfer(r) = RowOfTransfer(r)
    BY EngineData DEF E!RowOfTransfer, RowOfTransfer
  <2>2. E!ReceiveTransfer(w, r)
    BY <1>3, <1>4, <1>5, <1>6, <1>7, <2>1 DEF ReceiveTransfer, E!ReceiveTransfer
  <2> QED  BY <1>0, <2>2 DEF E!Next, E!Arrive
<1>8. CASE ReceiveReversal(w, r)
  <2>1. /\ \A p, legs : E!RowOfReversal(r, p, legs) = RowOfReversal(r, p, legs)
        /\ E!BookedOn(r) = BookedOn(r)
    BY EngineData DEF E!RowOfReversal, RowOfReversal, E!BookedOn, BookedOn,
                      E!Undated, Undated
  <2>2. E!ReceiveReversal(w, r)
    BY <1>3, <1>4, <1>5, <1>6, <1>8, <2>1 DEF ReceiveReversal, E!ReceiveReversal
  <2> QED  BY <1>0, <2>2 DEF E!Next, E!Arrive
<1>9. CASE ReceiveClose(w, r)
  <2>1. E!ReceiveClose(w, r)
    BY <1>0, <1>3, <1>4, <1>9 DEF ReceiveClose, E!ReceiveClose, Goto, E!Goto, Apiece
  <2> QED  BY <1>0, <2>1 DEF E!Next, E!Arrive
<1> QED  BY <1>7, <1>8, <1>9 DEF Arrive

(* a step taken with the engine,                                            *)
LEMMA StepsInEngine ==
    ASSUME E!TypeOK, ServingInv, ServingInv', NEW w \in Worker,
           \A v \in Worker \ {w} : SameServing(v),
           \/ LedgerStep(w)
           \/ Timeout(w) /\ UNCHANGED <<documents, doc>>,
           InEngine(w)'
    PROVE  E!Next
<1>0. /\ Apiece /\ Apiece' /\ Serving(w) /\ Serving(w)'
  BY DEF ServingInv
<1>1. /\ UNCHANGED <<req, row, seen>>
      /\ pc[w] # "idle" /\ pc'[w] # "idle"
      /\ pc[w] \in Posting \cup Closing
      /\ pc'[w] \notin {"fund", "prepare", "number"}
      /\ Capital(w) => pc[w] \in {"lock", "insert", "entries"}
  BY EngineMoves
<1>2. /\ InEngine(w) /\ (Capital(w)' <=> Capital(w))
      /\ pc[w] # "number"
  BY <1>1 DEF InEngine, Capital, Prepared, Posting, Closing
<1>3. /\ enginePc[w] = pc[w] /\ engineRow[w] = row[w]
      /\ engineSeen[w] = seen[w] /\ engineOutcome[w] = outcome[w]
      /\ enginePc' = [enginePc EXCEPT ![w] = pc'[w]]
      /\ engineOutcome' = [engineOutcome EXCEPT ![w] = outcome'[w]]
      /\ ~Capital(w) => engineReq[w] = req[w]
      /\ pc' = pc => enginePc' = enginePc
      /\ UNCHANGED <<engineReq, engineRow, engineSeen>>
      /\ outcome' = outcome => engineOutcome' = engineOutcome
      /\ answers' = answers => engineAnswers' = engineAnswers
  BY <1>1, <1>2, Served DEF engineAnswers
<1>4. ASSUME NEW x, Goto(w, x)
      PROVE  E!Goto(w, x)
  BY <1>0, <1>3, <1>4 DEF Goto, E!Goto, Apiece
<1>5. ASSUME NEW o, Finish(w, o)
      PROVE  E!Finish(w, o)
  BY <1>0, <1>3, <1>4, <1>5 DEF Finish, E!Finish, Apiece
<1>6. Release(w) => E!Release(w)
  BY DEF Release, E!Release
<1>7. UNCHANGED E!job
  BY <1>3 DEF E!job
<1>8. /\ E!Unlocked(w) = Unlocked(w)
      /\ E!NextAccount(w) = NextAccount(w)
      /\ E!Objection(w) = Objection(w)
      /\ E!UniqueViolation(w) = UniqueViolation(w)
      /\ E!Refused(w) = Refused(w)
      /\ E!Verdict(w) = Verdict(w)
      /\ E!AfterRollback(w) = AfterRollback(w)
      /\ E!WaitsFor(w) = WaitsFor(w)
  BY <1>2, EngineDecides
<1>9. \A k, i : /\ E!KeyTaken(book, k) = KeyTaken(book, k)
                /\ E!ReversalsOf(book, i) = ReversalsOf(book, i)
                /\ E!PeriodImbalance(book, i) = PeriodImbalance(book, i)
                /\ E!EarlierOpen(i) = EarlierOpen(i)
  BY EngineData DEF E!EarlierOpen, EarlierOpen
<1>10. ASSUME E!Proceed(w) \/ E!Timeout(w)
       PROVE  E!Next
  BY <1>10 DEF E!Next
<1>11. CASE Lookup(w)
  <2>1. E!Lookup(w)
    BY <1>3, <1>4, <1>5, <1>7, <1>8, <1>9, <1>11 DEF Lookup, E!Lookup
  <2> QED  BY <1>10, <2>1 DEF E!Proceed, E!Post
<1>12. CASE Relookup(w)
  <2>1. E!Relookup(w)
    BY <1>3, <1>5, <1>7, <1>8, <1>12 DEF Relookup, E!Relookup
  <2> QED  BY <1>10, <2>1 DEF E!Proceed, E!Post
<1>13. CASE Commit(w)
  <2>1. E!Commit(w)
    BY <1>3, <1>5, <1>6, <1>7, <1>13 DEF Commit, E!Commit
  <2> QED  BY <1>10, <2>1 DEF E!Proceed, E!Post
<1>14. CASE Examine(w)
  <2>1. E!Examine(w)
    BY <1>3, <1>4, <1>5, <1>7, <1>9, <1>14 DEF Examine, E!Examine
  <2> QED  BY <1>10, <2>1 DEF E!Proceed, E!Post
<1>15. CASE LockAccount(w)
  <2>1. E!LockAccount(w)
    BY <1>3, <1>7, <1>8, <1>15 DEF LockAccount, E!LockAccount
  <2> QED  BY <1>10, <2>1 DEF E!Proceed, E!Post
<1>16. CASE Check(w)
  <2>1. E!Check(w)
    <3>1. outcome' = [outcome EXCEPT ![w] = Objection(w)]
             => engineOutcome' = [engineOutcome EXCEPT ![w] = Objection(w)]
      BY <1>0, <1>3 DEF Apiece
    <3> QED  BY <1>3, <1>4, <1>6, <1>7, <1>8, <1>16, <3>1 DEF Check, E!Check
  <2> QED  BY <1>10, <2>1 DEF E!Proceed, E!Post
<1>17. CASE Insert(w)
  <2>1. E!Insert(w)
    BY <1>3, <1>4, <1>5, <1>6, <1>7, <1>8, <1>17 DEF Insert, E!Insert
  <2> QED  BY <1>10, <2>1 DEF E!Proceed, E!Post
<1>18. CASE InsertEntries(w)
  <2>1. E!InsertEntries(w)
    BY <1>3, <1>4, <1>5, <1>6, <1>7, <1>8, <1>18 DEF InsertEntries, E!InsertEntries
  <2> QED  BY <1>10, <2>1 DEF E!Proceed, E!Post
<1>19. CASE Close(w)
  <2>0. pc[w] \in {"period", "decide", "closing"}
    BY <1>19 DEF Close, LockPeriod, DecideClose, CommitClose
  <2>1. engineReq[w] = req[w]
    BY <1>1, <1>3, <2>0
  <2>2. CASE LockPeriod(w)
    BY <1>3, <1>4, <1>7, <1>8, <1>10, <2>2
       DEF LockPeriod, E!LockPeriod, E!Proceed, E!Close
  <2>3. CASE DecideClose(w)
    <3>1. E!DecideClose(w)
      BY <1>3, <1>4, <1>5, <1>7, <1>9, <2>1, <2>3 DEF DecideClose, E!DecideClose
    <3> QED  BY <1>10, <3>1 DEF E!Proceed, E!Close
  <2>4. CASE CommitClose(w)
    <3>1. E!CommitClose(w)
      BY <1>3, <1>5, <1>7, <2>1, <2>4 DEF CommitClose, E!CommitClose
    <3> QED  BY <1>10, <3>1 DEF E!Proceed, E!Close
  <2> QED  BY <1>19, <2>2, <2>3, <2>4 DEF Close
<1>20. CASE Timeout(w)
  <2>1. E!Timeout(w)
    BY <1>3, <1>5, <1>6, <1>7, <1>8, <1>20 DEF Timeout, E!Timeout
  <2> QED  BY <1>10, <2>1
<1> QED  BY <1>11, <1>12, <1>13, <1>14, <1>15, <1>16, <1>17, <1>18, <1>19, <1>20
         DEF LedgerStep

(* one that ends with a refusal: what the engine served is lost to it,      *)
LEMMA FailsInEngine ==
    ASSUME E!TypeOK, ServingInv, ServingInv', NEW w \in Worker,
           \A v \in Worker \ {w} : SameServing(v),
           \/ LedgerStep(w)
           \/ Timeout(w) /\ UNCHANGED <<documents, doc>>,
           ~InEngine(w)'
    PROVE  E!Next
<1>0. Serving(w) /\ Serving(w)' /\ Apiece
  BY DEF ServingInv
<1>1. /\ UNCHANGED <<req, row, seen>> /\ pc[w] # "idle" /\ pc'[w] # "idle"
      /\ Capital(w) => pc[w] \in {"lock", "insert", "entries"}
  BY EngineMoves
<1>2. Capital(w)' /\ Capital(w)
  BY <1>1 DEF InEngine, Capital
<1>3. InEngine(w) /\ pc[w] \in {"lock", "insert", "entries"}
      /\ pc'[w] \notin Prepared
  BY <1>1, <1>2 DEF InEngine, Prepared
<1>4. /\ UNCHANGED <<book, status, today, attempts, answers>>
      /\ locked' = [locked EXCEPT ![w] = {}]
  <2> USE DEF Goto, Finish, Release, Apiece, Prepared
  <2>1. CASE LockAccount(w)
    BY <1>3, <2>1 DEF LockAccount
  <2>2. CASE Check(w)
    BY <1>0, <1>3, <2>2 DEF Check
  <2>3. CASE Insert(w)
    BY <1>0, <1>3, <2>3 DEF Insert
  <2>4. CASE InsertEntries(w)
    BY <1>0, <1>3, <2>4 DEF InsertEntries
  <2>5. CASE Timeout(w)
    BY <2>5 DEF Timeout
  <2>6. ~(Examine(w) \/ Close(w))
    BY <1>3 DEF Examine, Close, LockPeriod, DecideClose, CommitClose
  <2> QED  BY <1>2, <2>1, <2>2, <2>3, <2>4, <2>5, <2>6 DEF LedgerStep
<1>5. engineAnswers' = engineAnswers
  BY <1>4 DEF engineAnswers
<1>6. E!Crash(w)
  BY <1>1, <1>3, <1>4, <1>5, Dropped
<1> QED  BY <1>6 DEF E!Next

(* the end of a request,                                                    *)
LEMMA LeavesEngine ==
    ASSUME E!TypeOK, ServingInv, ServingInv', NEW w \in Worker,
           \A v \in Worker \ {w} : SameServing(v),
           Reply(w) \/ Crash(w)
    PROVE  E!Next \/ UNCHANGED E!vars
<1>0. Serving(w) /\ Serving(w)' /\ Apiece
  BY DEF ServingInv
<1>1. /\ pc[w] # "idle" /\ pc'[w] = "idle" /\ req'[w] = None
      /\ UNCHANGED <<book, status, today, attempts>>
      /\ locked' = [locked EXCEPT ![w] = {}]
      /\ answers' = answers \/ answers' = answers \cup {<<req[w], outcome[w]>>}
  BY <1>0 DEF Reply, Crash, Idle, Release, Goto, Apiece
<1>2. /\ answers' = answers => engineAnswers' = engineAnswers
      /\ Capital(w) => engineAnswers' = engineAnswers
      /\ ~Capital(w) /\ answers' = answers \cup {<<req[w], outcome[w]>>}
           => engineAnswers' = engineAnswers \cup {<<req[w], outcome[w]>>}
  BY <1>1, AnswersSeen
<1>3. ~Capital(w)' /\ InEngine(w)'
  BY <1>1 DEF Capital, InEngine
<1>4. CASE InEngine(w) /\ engineAnswers' = engineAnswers
  <2>1. E!Crash(w)
    BY <1>1, <1>4, Dropped
  <2> QED  BY <2>1 DEF E!Next
<1>5. CASE ~Capital(w) /\ Reply(w)
  <2>1. /\ InEngine(w) /\ pc[w] = "reply" /\ ~Capital(w)
        /\ answers' = answers \cup {<<req[w], outcome[w]>>}
    BY <1>5 DEF InEngine, Reply
  <2>2. /\ enginePc[w] = "reply" /\ engineReq[w] = req[w]
        /\ engineOutcome[w] = outcome[w]
    BY <2>1, SeenByEngine
  <2>3. engineAnswers' = engineAnswers \cup {<<engineReq[w], engineOutcome[w]>>}
    BY <1>2, <2>1, <2>2
  <2>4. /\ enginePc'[w] = "idle" /\ engineReq'[w] = None
        /\ engineRow'[w] = None /\ engineSeen'[w] = "OPEN"
        /\ engineOutcome'[w] = "none"
    <3>1. /\ pc'[w] = "idle" /\ req'[w] = None /\ row'[w] = None
          /\ seen'[w] = "OPEN" /\ outcome'[w] = "none"
      BY <1>0, <1>1 DEF Serving
    <3> QED  BY <1>3, <3>1
             DEF enginePc, engineReq, engineRow, engineSeen, engineOutcome
  <2>5. /\ enginePc' = [enginePc EXCEPT ![w] = "idle"]
        /\ engineReq' = [engineReq EXCEPT ![w] = None]
        /\ engineRow' = [engineRow EXCEPT ![w] = None]
        /\ engineSeen' = [engineSeen EXCEPT ![w] = "OPEN"]
        /\ engineOutcome' = [engineOutcome EXCEPT ![w] = "none"]
    BY <2>4, OneStepSeen
  <2>6. E!Reply(w)
    BY <1>1, <2>2, <2>3, <2>5 DEF E!Reply, E!Idle, E!Goto, E!Release
  <2> QED  BY <2>6 DEF E!Next, E!Proceed
<1>6. CASE ~InEngine(w)
  <2>1. /\ enginePc[w] = "idle" /\ engineReq[w] = None
        /\ engineRow[w] = None /\ engineSeen[w] = "OPEN"
        /\ engineOutcome[w] = "none"
    BY <1>6, SeenByEngine
  <2>2. /\ enginePc'[w] = "idle" /\ engineReq'[w] = None
        /\ engineRow'[w] = None /\ engineSeen'[w] = "OPEN"
        /\ engineOutcome'[w] = "none"
    <3>1. /\ pc'[w] = "idle" /\ req'[w] = None /\ row'[w] = None
          /\ seen'[w] = "OPEN" /\ outcome'[w] = "none"
      BY <1>0, <1>1 DEF Serving
    <3> QED  BY <1>3, <3>1
             DEF enginePc, engineReq, engineRow, engineSeen, engineOutcome
  <2>3. UNCHANGED <<enginePc, engineReq, engineRow, engineSeen, engineOutcome>>
    <3>1. /\ enginePc' = [enginePc EXCEPT ![w] = "idle"]
          /\ engineReq' = [engineReq EXCEPT ![w] = None]
          /\ engineRow' = [engineRow EXCEPT ![w] = None]
          /\ engineSeen' = [engineSeen EXCEPT ![w] = "OPEN"]
          /\ engineOutcome' = [engineOutcome EXCEPT ![w] = "none"]
      BY <2>2, OneStepSeen
    <3>2. /\ enginePc = [v \in Worker |-> enginePc[v]]
          /\ engineReq = [v \in Worker |-> engineReq[v]]
          /\ engineRow = [v \in Worker |-> engineRow[v]]
          /\ engineSeen = [v \in Worker |-> engineSeen[v]]
          /\ engineOutcome = [v \in Worker |-> engineOutcome[v]]
      BY DEF enginePc, engineReq, engineRow, engineSeen, engineOutcome
    <3> QED  BY <2>1, <3>1, <3>2
  <2>4. locked' = locked
    <3>1. locked \in [Worker -> SUBSET Account] /\ E!WorkerOK(w)
      BY DEF E!TypeOK
    <3>2. locked[w] = {}
      BY <2>1, <3>1 DEF E!WorkerOK
    <3> QED  BY <1>1, <3>1, <3>2
  <2>5. engineAnswers' = engineAnswers
    BY <1>2, <1>6 DEF InEngine
  <2> QED  BY <1>1, <2>3, <2>4, <2>5 DEF E!vars
<1>7. Crash(w) => answers' = answers
  BY DEF Crash
<1> QED  BY <1>2, <1>4, <1>5, <1>6, <1>7

(* a step that a call or a distribution takes by itself,                    *)
LEMMA StepsOfItsOwn ==
    ASSUME E!TypeOK, ServingInv, ServingInv', NEW w \in Worker,
           \A v \in Worker \ {w} : SameServing(v),
           CapitalStep(w) \/ FundTimeout(w)
    PROVE  E!Next \/ UNCHANGED E!vars \/ \E r : E!Enter(w, r)
<1>0. /\ Apiece /\ Apiece' /\ Serving(w) /\ Serving(w)'
      /\ Capital(w) /\ req' = req
  BY CapitalMoves DEF ServingInv
<1>1. Capital(w)'
  BY <1>0 DEF Serving, Capital
<1> USE DEF Goto, Finish, Apiece
<1>2. CASE /\ ~InEngine(w) /\ ~InEngine(w)'
           /\ UNCHANGED <<book, status, today, locked, answers, attempts>>
  BY <1>2, Unserved DEF E!vars, engineAnswers
<1>3. CASE LookupCapital(w)
  <2>1. ~InEngine(w) /\ ~InEngine(w)'
    BY <1>0, <1>1, <1>3 DEF LookupCapital, InEngine, Prepared, CapitalVerdict
  <2> QED  BY <1>2, <1>3, <2>1 DEF LookupCapital
<1>4. CASE LockFund(w) \/ FundTimeout(w)
  <2>1. ~InEngine(w) /\ ~InEngine(w)'
    BY <1>0, <1>1, <1>4 DEF LockFund, FundTimeout, InEngine, Prepared
  <2> QED  BY <1>2, <1>4, <2>1 DEF LockFund, FundTimeout
<1>5. CASE RelookupCapital(w)
  <2>1. CapitalAfterRollback(w) # "created"
    BY <1>0, <1>5 DEF CapitalAfterRollback, CapitalVerdict, RelookupCapital, Serving
  <2>2. ~InEngine(w) /\ ~InEngine(w)'
    BY <1>0, <1>1, <1>5, <2>1 DEF RelookupCapital, InEngine, Prepared
  <2> QED  BY <1>2, <1>5, <2>2 DEF RelookupCapital
<1>6. CASE PrepareCapital(w)
  <2>1. CASE CapitalObjection(req[w]) # "none"
    <3>1. ~InEngine(w) /\ ~InEngine(w)'
      BY <1>0, <1>1, <1>6, <2>1 DEF PrepareCapital, InEngine, Prepared
    <3> QED  BY <1>2, <1>6, <2>1, <3>1 DEF PrepareCapital
  <2>2. CASE CapitalObjection(req[w]) = "none"
    <3> DEFINE r == AsTransfer(req[w])
    <3>1. /\ Prepare(w, RowOfCapital(req[w]), "number") /\ pc[w] = "prepare"
          /\ UNCHANGED <<book, status, today, locked, answers, attempts>>
      BY <1>6, <2>2 DEF PrepareCapital
    <3>2. /\ pc'[w] = "number" /\ row'[w] = RowOfCapital(req[w])
          /\ seen'[w] = status[RowOfCapital(req[w]).period]
          /\ outcome' = outcome /\ outcome[w] = "none"
      BY <1>0, <3>1 DEF Prepare, Serving
    <3>3. req[w] \in Accepted
      BY <1>0, <1>1, <3>2 DEF Serving, Prepared
    <3>4. ~InEngine(w) /\ InEngine(w)'
      BY <1>0, <1>1, <3>1, <3>2 DEF InEngine, Prepared
    <3>5. /\ enginePc[w] = "idle" /\ engineOutcome[w] = "none"
      BY <3>4, SeenByEngine
    <3>6. /\ enginePc'[w] = "lock" /\ engineReq'[w] = r
          /\ engineRow'[w] = row'[w] /\ engineSeen'[w] = seen'[w]
          /\ engineOutcome'[w] = "none"
      BY <1>0, <1>1, <3>2, <3>4
         DEF enginePc, engineReq, engineRow, engineSeen, engineOutcome
    <3>7. /\ r \in EngineRequest /\ r.kind = "transfer"
          /\ E!RowOfTransfer(r) = RowOfCapital(req[w])
          /\ r.period = RowOfCapital(req[w]).period
      BY <3>3 DEF EngineRequest, AsTransfer, E!RowOfTransfer, RowOfCapital
    <3>8. /\ enginePc' = [enginePc EXCEPT ![w] = "lock"]
          /\ engineReq' = [engineReq EXCEPT ![w] = r]
          /\ engineRow' = [engineRow EXCEPT ![w] = E!RowOfTransfer(r)]
          /\ engineSeen' = [engineSeen EXCEPT ![w] = status[r.period]]
          /\ engineOutcome' = [engineOutcome EXCEPT ![w] = "none"]
      BY <3>2, <3>6, <3>7, OneStepSeen
    <3>9. engineOutcome' = engineOutcome
      <4>1. engineOutcome = [v \in Worker |-> engineOutcome[v]]
        BY DEF engineOutcome
      <4> QED  BY <3>5, <3>8, <4>1
    <3>10. E!Enter(w, r)
      BY <3>1, <3>5, <3>7, <3>8, <3>9 DEF E!Enter, E!Goto, engineAnswers
    <3> QED  BY <3>10
  <2> QED  BY <2>1, <2>2
<1>7. CASE NumberDocument(w)
  <2>1. /\ pc[w] = "number" /\ pc'[w] = "lock"
        /\ UNCHANGED <<book, status, today, job, locked, outcome, answers, attempts>>
    BY <1>0, <1>7 DEF NumberDocument
  <2>2. InEngine(w) /\ InEngine(w)'
    BY <2>1 DEF InEngine, Prepared
  <2>3. /\ enginePc'[w] = enginePc[w] /\ engineReq'[w] = engineReq[w]
        /\ engineRow'[w] = engineRow[w] /\ engineSeen'[w] = engineSeen[w]
        /\ engineOutcome'[w] = engineOutcome[w]
    BY <1>0, <1>1, <2>1, <2>2
       DEF enginePc, engineReq, engineRow, engineSeen, engineOutcome, job
  <2>4. UNCHANGED <<enginePc, engineReq, engineRow, engineSeen, engineOutcome>>
    <3>1. /\ enginePc = [v \in Worker |-> enginePc[v]]
          /\ engineReq = [v \in Worker |-> engineReq[v]]
          /\ engineRow = [v \in Worker |-> engineRow[v]]
          /\ engineSeen = [v \in Worker |-> engineSeen[v]]
          /\ engineOutcome = [v \in Worker |-> engineOutcome[v]]
      BY DEF enginePc, engineReq, engineRow, engineSeen, engineOutcome
    <3> QED  BY <2>3, <3>1, OneStepSeen
  <2> QED  BY <2>1, <2>4 DEF E!vars, engineAnswers
<1>8. CASE CommitCapital(w)
  <2>1. pc[w] = "commit" /\ InEngine(w)
    BY <1>8 DEF CommitCapital, InEngine, Prepared
  <2>2. CASE Commit(w)
    <3>1. /\ pc'[w] = "reply" /\ outcome'[w] = "created" /\ InEngine(w)'
          /\ row' = row /\ seen' = seen
          /\ UNCHANGED <<status, today, answers, attempts>>
          /\ book' = Append(book, row[w]) /\ Release(w)
      BY <1>0, <2>2 DEF Commit, InEngine, job
    <3>2. /\ enginePc[w] = "commit" /\ engineRow[w] = row[w]
          /\ enginePc' = [enginePc EXCEPT ![w] = "reply"]
          /\ engineOutcome' = [engineOutcome EXCEPT ![w] = "created"]
          /\ UNCHANGED <<engineReq, engineRow, engineSeen>>
      BY <1>0, <1>1, <2>1, <3>1, Served
    <3>3. E!Commit(w)
      BY <3>1, <3>2 DEF E!Commit, E!Finish, E!Goto, E!Release, Release, E!job,
                        engineAnswers
    <3> QED  BY <3>3 DEF E!Next, E!Proceed, E!Post
  <2>3. CASE /\ Finish(w, "internal_error") /\ Release(w)
             /\ UNCHANGED <<book, status, today, job, answers, attempts,
                            documents>>
    <3>1. pc'[w] = "reply" /\ outcome'[w] = "internal_error"
      BY <1>0, <2>3
    <3>2. ~InEngine(w)' /\ pc[w] # "idle"
      BY <1>1, <2>1, <3>1 DEF InEngine, Prepared
    <3>3. E!Crash(w)
      BY <2>1, <2>3, <3>2, Dropped DEF Release, engineAnswers
    <3> QED  BY <3>3 DEF E!Next
  <2> QED  BY <1>8, <2>2, <2>3 DEF CommitCapital
<1> QED  BY <1>3, <1>4, <1>5, <1>6, <1>7, <1>8 DEF CapitalStep

(* and the arrival of a request for one.                                    *)
LEMMA ArrivesElsewhere ==
    ASSUME E!TypeOK, ServingInv, NEW w \in Worker,
           \A v \in Worker \ {w} : SameServing(v),
           NEW r \in CapitalRequest, ReceiveCapital(w, r)
    PROVE  E!Aside
<1>0. Apiece /\ Serving(w) /\ r.kind \in Documented
  BY Kinds DEF ServingInv
<1>1. /\ pc[w] = "idle" /\ pc'[w] = "lookup" /\ req'[w] = r
      /\ attempts < MaxAttempts /\ attempts' = attempts + 1
      /\ UNCHANGED <<book, status, today, locked, answers>>
  BY <1>0 DEF ReceiveCapital, Receive, Goto, Apiece
<1>2. attempts' \in 0..MaxAttempts
  BY <1>1, LedgerAssumption DEF E!TypeOK
<1>3. InEngine(w) /\ ~Capital(w) /\ Capital(w)' /\ ~InEngine(w)'
  BY <1>0, <1>1 DEF InEngine, Capital, Prepared
<1>4. /\ enginePc[w] = "idle" /\ engineReq[w] = None
      /\ engineRow[w] = None /\ engineSeen[w] = "OPEN"
      /\ engineOutcome[w] = "none"
  <2>1. /\ req[w] = None /\ row[w] = None /\ seen[w] = "OPEN"
        /\ outcome[w] = "none"
    BY <1>0, <1>1 DEF Serving
  <2> QED  BY <1>1, <1>3, <2>1, SeenByEngine
<1>5. /\ enginePc'[w] = "idle" /\ engineReq'[w] = None
      /\ engineRow'[w] = None /\ engineSeen'[w] = "OPEN"
      /\ engineOutcome'[w] = "none"
  BY <1>3 DEF enginePc, engineReq, engineRow, engineSeen, engineOutcome
<1>6. UNCHANGED <<enginePc, engineReq, engineRow, engineSeen, engineOutcome>>
  <2>1. /\ enginePc = [v \in Worker |-> enginePc[v]]
        /\ engineReq = [v \in Worker |-> engineReq[v]]
        /\ engineRow = [v \in Worker |-> engineRow[v]]
        /\ engineSeen = [v \in Worker |-> engineSeen[v]]
        /\ engineOutcome = [v \in Worker |-> engineOutcome[v]]
    BY DEF enginePc, engineReq, engineRow, engineSeen, engineOutcome
  <2> QED  BY <1>4, <1>5, <2>1, OneStepSeen
<1> QED  BY <1>1, <1>2, <1>6 DEF E!Aside, engineAnswers

(* Seen through the mapping, a step of the callers is a step of the engine, *)
(* one aside from it, or a request handed to it.                            *)
LEMMA EngineStep ==
    ASSUME E!TypeOK, ServingInv, ServingInv', [CapitalNext]_capitalVars
    PROVE  \/ [E!Next]_(E!vars)
           \/ E!Aside
           \/ \E w \in Worker : \E r : E!Enter(w, r)
<1>1. ASSUME NEW w \in Worker, ServingStep(w)
      PROVE  \/ E!Next \/ UNCHANGED E!vars
             \/ E!Aside
             \/ \E r : E!Enter(w, r)
  <2>0. Apiece' /\ \A v \in Worker \ {w} : SameServing(v)
    BY <1>1, OthersServe
  <2>1. CASE \E r \in Request : Arrive(w, r) /\ UNCHANGED <<documents, doc>>
    BY <2>0, <2>1, ArrivesInEngine
  <2>2. CASE \E r \in CapitalRequest : ReceiveCapital(w, r)
    BY <2>0, <2>2, ArrivesElsewhere
  <2>3. CASE \/ LedgerStep(w)
             \/ Timeout(w) /\ UNCHANGED <<documents, doc>>
    BY <2>0, <2>3, StepsInEngine, FailsInEngine
  <2>4. CASE CapitalStep(w) \/ FundTimeout(w)
    BY <2>0, <2>4, StepsOfItsOwn
  <2>5. CASE Reply(w) \/ Crash(w)
    BY <2>0, <2>5, LeavesEngine
  <2> QED  BY <1>1, <2>1, <2>2, <2>3, <2>4, <2>5, Zenon
           DEF ServingStep, CapitalProceed
<1>2. CASE Tick /\ UNCHANGED <<documents, doc>>
  <2>1. /\ UNCHANGED <<enginePc, engineReq, engineRow, engineSeen, engineOutcome>>
        /\ engineAnswers' = engineAnswers
    BY <1>2 DEF Tick, job, enginePc, engineReq, engineRow, engineSeen,
                engineOutcome, engineAnswers, InEngine, Capital
  <2>2. E!Tick
    BY <1>2, <2>1 DEF Tick, E!Tick, E!job
  <2> QED  BY <2>2 DEF E!Next
<1>3. CASE UNCHANGED vars
  <2>1. /\ UNCHANGED <<enginePc, engineReq, engineRow, engineSeen, engineOutcome>>
        /\ engineAnswers' = engineAnswers
    BY <1>3 DEF vars, enginePc, engineReq, engineRow, engineSeen,
                engineOutcome, engineAnswers, InEngine, Capital
  <2>2. UNCHANGED E!vars
    BY <1>3, <2>1 DEF vars, E!vars
  <2> QED  BY <2>2
<1> QED  BY <1>1, <1>2, <1>3, ServingStepKinds

-----------------------------------------------------------------------------
(* The engine's invariants hold of what it sees. *)

CapitalInv == E!Safe /\ ServingInv

(* All of it holds at the start.                                            *)
LEMMA CapitalInit0 == CapitalInit => CapitalInv /\ E!Init
<1> SUFFICES ASSUME CapitalInit
             PROVE  CapitalInv /\ E!Init
  OBVIOUS
<1>1. /\ book = <<>> /\ status = [p \in Period |-> "OPEN"]
      /\ today \in Day /\ \A d \in Day : today <= d
      /\ pc = [w \in Worker |-> "idle"] /\ req = [w \in Worker |-> None]
      /\ row = [w \in Worker |-> None] /\ seen = [w \in Worker |-> "OPEN"]
      /\ locked = [w \in Worker |-> {}] /\ outcome = [w \in Worker |-> "none"]
      /\ answers = {} /\ attempts = 0
      /\ doc = [w \in Worker |-> None]
  BY DEF CapitalInit, Init
<1>2. \A w \in Worker : ~Capital(w) /\ InEngine(w)
  BY <1>1 DEF Capital, InEngine
<1>3. /\ enginePc = [w \in Worker |-> "idle"]
      /\ engineReq = [w \in Worker |-> None]
      /\ engineRow = [w \in Worker |-> None]
      /\ engineSeen = [w \in Worker |-> "OPEN"]
      /\ engineOutcome = [w \in Worker |-> "none"]
      /\ engineAnswers = {}
  BY <1>1, <1>2 DEF enginePc, engineReq, engineRow, engineSeen, engineOutcome,
                    engineAnswers
<1>4. E!Init
  BY <1>1, <1>3 DEF E!Init
<1>5. ServingInv
  BY <1>1, <1>2 DEF ServingInv, Apiece, Serving, Posting
<1>6. E!Init => E!Safe
  BY E!SafeInit, EngineAssumptions
<1> QED  BY <1>4, <1>5, <1>6 DEF CapitalInv

(* Each step keeps the engine's invariants and the callers'.                *)
LEMMA CapitalInvStep ==
    CapitalInv /\ [CapitalNext]_capitalVars => CapitalInv'
<1> SUFFICES ASSUME CapitalInv, [CapitalNext]_capitalVars
             PROVE  CapitalInv'
  OBVIOUS
<1>1. E!TypeOK /\ ServingInv
  BY DEF CapitalInv, E!Safe, E!EngineInv
<1>2. ServingInv'
  BY <1>1, ServingInvStep
<1>3. \/ [E!Next]_(E!vars)
      \/ E!Aside
      \/ \E w \in Worker : \E r : E!Enter(w, r)
  BY <1>1, <1>2, EngineStep
<1>4. E!Safe
  BY DEF CapitalInv
<1>5. E!Safe /\ [E!Next]_(E!vars) => E!Safe'
  BY E!SafeStep, EngineAssumptions
<1>6. E!Safe /\ E!Aside => E!Safe'
  BY E!SafeAside, EngineAssumptions
<1>7. ASSUME NEW w \in Worker, NEW r, E!Enter(w, r)
      PROVE  E!Safe'
  BY <1>4, <1>7, E!SafeEntry, EngineAssumptions
<1> QED  BY <1>2, <1>3, <1>4, <1>5, <1>6, <1>7 DEF CapitalInv

(* So they always hold.                                                     *)
LEMMA CapitalInvariant == CapitalSpec => []CapitalInv
<1>1. CapitalInit => CapitalInv
  BY CapitalInit0
<1> QED  BY <1>1, CapitalInvStep, PTL DEF CapitalSpec

-----------------------------------------------------------------------------
(* No deadlock. *)

(* Who waits for a fund is waited for by nobody, and the others wait as the *)
(* engine's workers do: the fund lock adds no cycle to those that the order *)
(* of the account locks rules out (create_capital_call, create_distribution,*)
(* _lock_accounts).                                                         *)
LEMMA FundsAddNoCycle == CapitalInv => CapitalNoWaitCycle
<1> SUFFICES ASSUME CapitalInv, NEW S \in SUBSET Worker, S # {},
                    \A w \in S : CapitalWaitsFor(w) \cap S # {}
             PROVE  FALSE
  BY DEF CapitalNoWaitCycle
<1> DEFINE R == {w \in S : pc[w] # "fund"}
<1>0. /\ E!TypeOK /\ E!LockOrder /\ ServingInv
      /\ \A w \in Worker : Serving(w)
  BY DEF CapitalInv, E!Safe, E!EngineInv, ServingInv
<1>1. ASSUME NEW w \in S, pc[w] = "fund"
      PROVE  CapitalWaitsFor(w) \cap S \subseteq R
  BY <1>1 DEF CapitalWaitsFor, FundHolders
<1>2. ASSUME NEW w \in R
      PROVE  /\ WaitsFor(w) \cap R # {}
             /\ E!WaitsFor(w) = WaitsFor(w)
  <2>1. CapitalWaitsFor(w) = WaitsFor(w)
    BY DEF CapitalWaitsFor
  <2>2. WaitsFor(w) # {}
    BY <2>1
  <2>3. pc[w] \in {"lock", "insert", "entries", "period"}
    BY <2>2 DEF WaitsFor
  <2>4. InEngine(w)
    BY <1>0, <2>3 DEF Serving, InEngine, CapitalSteps, Prepared
  <2>5. E!WaitsFor(w) = WaitsFor(w)
    BY <1>0, <2>3, <2>4, EngineDecides
  <2>6. \A v \in WaitsFor(w) : pc[v] # "fund"
    <3>1. \A v \in Worker : locked[v] # {} => pc[v] # "fund"
      <4> SUFFICES ASSUME NEW v \in Worker, locked[v] # {}, pc[v] = "fund"
                   PROVE  FALSE
        OBVIOUS
      <4>1. E!WorkerOK(v)
        BY <1>0 DEF E!TypeOK
      <4>2. ~InEngine(v)
        BY <1>0 DEF Serving, InEngine, Prepared
      <4>3. enginePc[v] = "idle"
        BY <4>2, SeenByEngine
      <4> QED  BY <4>1, <4>3 DEF E!WorkerOK
    <3> QED  BY <2>3, <3>1 DEF WaitsFor, HoldersOf, Clashing, Closers, Sharers
  <2> QED  BY <2>1, <2>5, <2>6
<1>3. R # {} /\ R \in SUBSET Worker
  BY <1>1
<1>4. E!NoWaitCycle
  BY <1>0, E!NobodyWaitsInACycle, EngineAssumptions
<1> QED  BY <1>2, <1>3, <1>4 DEF E!NoWaitCycle

(* However many calls, distributions, transfers, reversals and closings are *)
(* under way, some worker can always go on ("Lock order: fund first, then   *)
(* accounts", create_capital_call).                                         *)
THEOREM FundLockNoDeadlock == CapitalSpec => []CapitalNoWaitCycle
  BY CapitalInvariant, FundsAddNoCycle, PTL

(* No cash account is ever overdrawn, whatever distributions, fees and      *)
(* reversals run at once (_check_sufficient_funds, under the row locks of   *)
(* the engine the distributions are posted through).                        *)
THEOREM CapitalNeverOverdrawn == CapitalSpec => []NoOverdraft
<1>1. CapitalInv => NoOverdraft
  BY EngineData
     DEF CapitalInv, E!Safe, E!EngineInv, E!FundsInv, E!NoOverdraft, NoOverdraft
<1> QED  BY <1>1, CapitalInvariant, PTL

-----------------------------------------------------------------------------
(* Calls and distributions are transfers of the ledger as promised. *)

(* What may be posted is what the requests lead to.                         *)
LEMMA EngineRows == E!Row \subseteq Row \cup CapitalRows \cup CapitalReversals
<1>1. E!TransferRows \subseteq TransferRows \cup CapitalRows
  <2> SUFFICES ASSUME NEW r \in EngineRequest, r.kind = "transfer"
               PROVE  E!RowOfTransfer(r) \in TransferRows \cup CapitalRows
    BY DEF E!TransferRows
  <2>1. CASE r \in Request
    BY <2>1 DEF TransferRows, E!RowOfTransfer, RowOfTransfer
  <2>2. ASSUME NEW q \in Accepted, r = AsTransfer(q)
        PROVE  E!RowOfTransfer(r) \in CapitalRows
    <3>1. E!RowOfTransfer(r) = RowOfCapital(q)
      BY <2>2 DEF E!RowOfTransfer, AsTransfer, RowOfCapital
    <3> QED  BY <3>1 DEF CapitalRows, Accepted
  <2> QED  BY <2>1, <2>2 DEF EngineRequest
<1>2. ASSUME NEW r \in EngineRequest, r.kind = "reversal",
             NEW p \in Period, NEW t \in E!TransferRows
      PROVE  E!RowOfReversal(r, p, t.legs) \in Row \cup CapitalReversals
  <2>1. r \in Request
    BY <1>2 DEF EngineRequest, AsTransfer
  <2>2. E!RowOfReversal(r, p, t.legs) = RowOfReversal(r, p, t.legs)
    BY EngineData DEF E!RowOfReversal, RowOfReversal
  <2> QED  BY <1>1, <1>2, <2>1, <2>2 DEF Row, CapitalReversals
<1> QED  BY <1>1, <1>2 DEF E!Row, Row

(* The promise made of the engine's rows is part of the promise made of all. *)
LEMMA SamePromise ==
    [E!Abstract!Next]_(E!Abstract!vars) => [Promise!Next]_(Promise!vars)
<1>1. \A S, f : E!Abstract!SumOf(S, f) = Promise!SumOf(S, f)
  <2>1. \A S : E!Abstract!Cardinality(S) = Promise!Cardinality(S)
    BY DEF E!Abstract!Cardinality, Promise!Cardinality
  <2> QED  BY <2>1 DEF E!Abstract!SumOf, Promise!SumOf
<1>2. \A legs, a : E!Abstract!Delta(legs, a) = Promise!Delta(legs, a)
  BY <1>1 DEF E!Abstract!Delta, Promise!Delta, E!Abstract!Side,
         Promise!Side, E!Abstract!Amounts, Promise!Amounts
<1>3. \A legs : E!Abstract!Touched(legs) = Promise!Touched(legs)
  BY DEF E!Abstract!Touched, Promise!Touched
<1>4. \A legs : E!Abstract!Balanced(legs) = Promise!Balanced(legs)
  BY <1>1 DEF E!Abstract!Balanced, Promise!Balanced, E!Abstract!Side,
         Promise!Side, E!Abstract!Bases, Promise!Bases
<1>5. \A legs, p : E!Abstract!OwnFund(legs, p) = Promise!OwnFund(legs, p)
  BY <1>3 DEF E!Abstract!OwnFund, Promise!OwnFund
<1>6. \A legs : E!Abstract!Flip(legs) = Promise!Flip(legs)
  BY DEF E!Abstract!Flip, Promise!Flip, E!Abstract!Opposite,
         Promise!Opposite
<1>7. \A b, a : E!Abstract!NativeBalance(b, a) = Promise!NativeBalance(b, a)
  BY <1>1 DEF E!Abstract!NativeBalance, Promise!NativeBalance,
         E!Abstract!EntriesOn, Promise!EntriesOn, E!Abstract!EntryOf,
         Promise!EntryOf, E!Abstract!Entries, Promise!Entries
<1>8. \A b, k : E!Abstract!KeyTaken(b, k) = Promise!KeyTaken(b, k)
  BY DEF E!Abstract!KeyTaken, Promise!KeyTaken
<1>9. \A b, i : E!Abstract!ReversalsOf(b, i) = Promise!ReversalsOf(b, i)
  BY DEF E!Abstract!ReversalsOf, Promise!ReversalsOf
<1>10. ASSUME NEW r
       PROVE  E!Abstract!Acceptable(r) <=> Promise!Acceptable(r)
  <2>1. E!Abstract!Cancels(r) <=> Promise!Cancels(r)
    BY <1>6, <1>9 DEF E!Abstract!Cancels, Promise!Cancels
  <2> QED  BY <1>2, <1>3, <1>4, <1>5, <1>7, <1>8, <2>1
           DEF E!Abstract!Acceptable, Promise!Acceptable
<1>11. ASSUME NEW r
       PROVE  E!Abstract!Post(r) <=> Promise!Post(r)
  BY <1>10 DEF E!Abstract!Post, Promise!Post
<1>12. ASSUME NEW p
       PROVE  E!Abstract!Close(p) <=> Promise!Close(p)
  BY DEF E!Abstract!Close, Promise!Close
<1> QED  BY <1>11, <1>12, EngineRows
         DEF E!Abstract!Next, E!Abstract!vars, Promise!Next, Promise!vars

(* Whatever calls, distributions and other requests the workers serve at    *)
(* once, the committed book and the periods behave as if one acceptable      *)
(* transfer at a time were posted, exactly once per key, and calls and       *)
(* distributions were transfers like any other (create_capital_call and     *)
(* create_distribution post through post_transfer).                         *)
THEOREM CapitalKeepsThePromise == CapitalSpec => PromiseSpec
<1>1. CapitalInit => Promise!Init
  BY DEF CapitalInit, Init, Promise!Init
<1>2. CapitalInv /\ CapitalInv' /\ [CapitalNext]_capitalVars
        => [Promise!Next]_(Promise!vars)
  <2> SUFFICES ASSUME CapitalInv, CapitalInv', [CapitalNext]_capitalVars
               PROVE  [Promise!Next]_(Promise!vars)
    OBVIOUS
  <2>1. E!EngineInv /\ E!TypeOK /\ ServingInv /\ ServingInv' /\ E!FundsInv'
    BY DEF CapitalInv, E!Safe, E!EngineInv
  <2>2. \/ [E!Next]_(E!vars)
        \/ E!Aside
        \/ \E w \in Worker : \E r : E!Enter(w, r)
    BY <2>1, EngineStep
  <2>3. CASE [E!Next]_(E!vars)
    <3>1. E!EngineInv /\ E!FundsInv' /\ [E!Next]_(E!vars)
            => [E!Abstract!Next]_(E!Abstract!vars)
      BY E!StepsKeepThePromise, EngineAssumptions
    <3> QED  BY <2>1, <2>3, <3>1, SamePromise
  <2>4. CASE E!Aside \/ \E w \in Worker : \E r : E!Enter(w, r)
    BY <2>4 DEF E!Aside, E!Enter, Promise!vars
  <2> QED  BY <2>2, <2>3, <2>4
<1> QED  BY <1>1, <1>2, CapitalInvariant, PTL
         DEF CapitalSpec, PromiseSpec, Promise!Spec

-----------------------------------------------------------------------------
(* Funds and documents. *)

(* The steps between the fund lock and the end of the transaction. *)
Holding == {"prepare"} \cup Prepared
Holds(w) == Capital(w) /\ pc[w] \in Holding

(* Nobody else holds the fund. *)
FundExclusive ==
    \A v, w \in Worker :
        v # w /\ Holds(v) /\ Holds(w) => req[v].fund # req[w].fund

(* The steps after the document is numbered. *)
Written == {"lock", "insert", "entries", "commit"}

(* The series of a kind and a fund in a set of documents, and its next      *)
(* number.                                                                  *)
SeriesIn(D, kind, f) == {d \in D : d.kind = kind /\ d.fund = f}
NextIn(D, kind, f) ==
    LET taken == {d.number : d \in SeriesIn(D, kind, f)} \cup {0}
    IN  1 + CHOOSE n \in taken : \A k \in taken : k <= n

(* Its number is still the next one. *)
NextInLine(w) ==
    Capital(w) /\ pc[w] \in Written =>
        doc[w] = DocumentOf(req[w], NextIn(documents, req[w].kind, req[w].fund))

(* In the book b, the document d is that of the request r. *)
DocumentFor(b, d, r) ==
    /\ d = [DocumentOf(r, d.number) EXCEPT !.transfer = d.transfer]
    /\ d.transfer \in DOMAIN b
    /\ b[d.transfer] = RowOfCapital(r)

(* Documents and their transfers belong together, one to one. *)
BookDocumented ==
    /\ \A d \in documents : \E r \in Accepted : DocumentFor(book, d, r)
    /\ \A i \in DOMAIN book : book[i].type \in Documented =>
          \E d \in documents : d.transfer = i
    /\ \A d, e \in documents : d.transfer = e.transfer => d = e

(* The numbers of a series are 1, 2, 3, ... in the order of the book. *)
Numbered(kind, f) ==
    LET S == Series(kind, f) IN
    /\ \E n \in Nat : {d.number : d \in S} = 1..n
    /\ \A d, e \in S : d.number = e.number => d = e
    /\ \A d, e \in S : d.number < e.number => d.transfer < e.transfer

DocumentInv ==
    /\ FundExclusive
    /\ \A w \in Worker : NextInLine(w)
    /\ BookDocumented
    /\ \A kind \in Documented, f \in Fund : Numbered(kind, f)

-----------------------------------------------------------------------------
(* What LPs have paid in. *)

(* The calls that nothing has reversed, and what an LP paid in by each. *)
Standing(b) == {i \in DOMAIN b : b[i].type = "CAPITAL_CALL" /\ ReversalsOf(b, i) = {}}
PaidIn(b, f, lp) == [i \in Standing(b) |-> -Delta(b[i].legs, Chart[f].lp[lp])]

(* Contributions are what the standing calls took; a call that is under way *)
(* still fits the commitments.                                              *)
CommitmentInv ==
    /\ \A f \in Fund : \A lp \in DOMAIN Commitment[f] :
          Contributed(book, f, lp) = SumOf(Standing(book), PaidIn(book, f, lp))
    /\ WithinCommitment
    /\ \A w \in Worker :
          Capital(w) /\ req[w].kind = "CAPITAL_CALL" /\ pc[w] \in Prepared
              => Overcalled(req[w]) = {}

-----------------------------------------------------------------------------
(* What clients are told of calls and distributions. *)

(* In the book b with the documents D, request r has made one. *)
Done(D, b, r) == \E d \in D : SameTerms(d, r) /\ b[d.transfer].key = r.key

(* What CapitalTruthful says of one answer, of a book b, documents D and    *)
(* periods s.                                                               *)
Told(D, b, s, r, o) ==
    /\ o \in {"created", "replayed"} => Done(D, b, r)
    /\ o = "idempotency_conflict" => KeyTaken(b, r.key) /\ ~Done(D, b, r)
    /\ o = "period_closed" => /\ <<r.fund, r.on>> \in Period
                              /\ s[<<r.fund, r.on>>] = "CLOSED"
    /\ o # "internal_error"

(* It is so before it is said. *)
Telling(w) ==
    Capital(w) =>
        /\ pc[w] \in {"reply", "relookup"}
              => Told(documents, book, status, req[w], outcome[w])
        /\ pc[w] \in Prepared /\ seen[w] = "CLOSED"
              => status[row[w].period] = "CLOSED"

TellingInv ==
    /\ \A a \in answers : a[1].kind \in Documented
                            => Told(documents, book, status, a[1], a[2])
    /\ \A w \in Worker : Telling(w)

-----------------------------------------------------------------------------
(* What the steps do to the book and the documents. *)

(* A transfer is committed with its document or is none that needs one; the *)
(* database never refuses the document.                                     *)
LEMMA BookSteps ==
    ASSUME CapitalInv, NEW w \in Worker, ServingStep(w)
    PROVE  \/ book' = book /\ documents' = documents
           \/ /\ ~Capital(w) /\ pc[w] = "commit" /\ pc'[w] = "reply"
              /\ book' = Append(book, row[w]) /\ documents' = documents
           \/ /\ Capital(w) /\ pc[w] = "commit" /\ pc'[w] = "reply"
              /\ book' = Append(book, row[w])
              /\ documents' = documents \cup
                    {[doc[w] EXCEPT !.transfer = Len(book) + 1]}
<1>0. Apiece /\ Serving(w)
  BY DEF CapitalInv, ServingInv
<1>1. CASE \E r \in Request : Arrive(w, r) /\ UNCHANGED <<documents, doc>>
  BY <1>1 DEF Arrive, ReceiveTransfer, ReceiveReversal, ReceiveClose, Receive
<1>2. CASE \E r \in CapitalRequest : ReceiveCapital(w, r)
  BY <1>2 DEF ReceiveCapital, Receive
<1>3. CASE LedgerStep(w)
  <2>1. CASE ~Capital(w) /\ Commit(w)
    BY <1>0, <1>3, <2>1 DEF LedgerStep, Commit, Finish, Goto, Apiece
  <2>2. CASE Lookup(w) \/ Relookup(w) \/ Examine(w) \/ LockAccount(w)
             \/ Check(w)
    BY <1>3, <2>2 DEF LedgerStep, Lookup, Relookup, Examine, LockAccount, Check
  <2>3. CASE Insert(w) \/ InsertEntries(w) \/ Close(w)
    BY <1>3, <2>3 DEF LedgerStep, Insert, InsertEntries, Close, LockPeriod,
                      DecideClose, CommitClose
  <2> QED  BY <1>3, <2>1, <2>2, <2>3 DEF LedgerStep
<1>4. CASE CapitalStep(w)
  <2>1. CASE CommitCapital(w)
    BY <1>0, <1>4, <2>1 DEF CapitalStep, CommitCapital, Commit, Finish, Goto, Apiece
  <2>2. CASE LookupCapital(w) \/ LockFund(w) \/ PrepareCapital(w)
             \/ NumberDocument(w) \/ RelookupCapital(w)
    BY <2>2 DEF LookupCapital, LockFund, PrepareCapital, NumberDocument,
                RelookupCapital
  <2> QED  BY <1>4, <2>1, <2>2 DEF CapitalStep
<1>5. CASE (Reply(w) \/ Crash(w)) /\ Leave(w)
  BY <1>5 DEF Reply, Crash, Idle, Leave
<1>6. CASE FundTimeout(w) \/ (Timeout(w) /\ UNCHANGED <<documents, doc>>)
  BY <1>6 DEF FundTimeout, Timeout
<1> QED  BY <1>1, <1>2, <1>3, <1>4, <1>5, <1>6 DEF ServingStep, CapitalProceed

(* A worker that holds a fund after its step held it before, or has found   *)
(* that nobody did; its document is the one it had, or was just numbered;   *)
(* and its call was just found to fit, or was posted all along.             *)
LEMMA HoldingFunds ==
    ASSUME CapitalInv, NEW w \in Worker, ServingStep(w), Holds(w)'
    PROVE  /\ Capital(w) /\ req'[w] = req[w]
           /\ book' = book /\ documents' = documents /\ status' = status
           /\ Holds(w) \/ FundHolders(req[w].fund) = {}
           /\ pc'[w] \in Written =>
                 \/ pc[w] \in Written /\ doc'[w] = doc[w]
                 \/ doc'[w] = DocumentOf(req[w], NextIn(documents, req[w].kind,
                                                        req[w].fund))
           /\ pc'[w] \in Prepared =>
                 \/ /\ pc[w] \in Prepared /\ row'[w] = row[w]
                    /\ seen'[w] = seen[w]
                 \/ /\ CapitalObjection(req[w]) = "none"
                    /\ seen'[w] = status[row'[w].period]
<1>0. Apiece /\ Serving(w) /\ E!TypeOK /\ ServingInv
  BY DEF CapitalInv, ServingInv, E!Safe, E!EngineInv
<1> USE DEF Holds, Holding, Prepared, Written
<1>1. CASE \E r \in Request : Arrive(w, r) /\ UNCHANGED <<documents, doc>>
  <2>1. Apiece' /\ ~Capital(w)'
    <3>1. PICK r \in Request : Arrive(w, r)
      BY <1>1
    <3>2. req'[w] = r
      BY <1>0, <3>1 DEF Arrive, ReceiveTransfer, ReceiveReversal, ReceiveClose,
                        Receive, Apiece
    <3> QED  BY <1>0, <3>2, OthersServe, Kinds DEF Capital
  <2> QED  BY <2>1
<1>2. CASE \E r \in CapitalRequest : ReceiveCapital(w, r)
  BY <1>0, <1>2 DEF ReceiveCapital, Goto, Apiece
<1>3. CASE LedgerStep(w) \/ (Timeout(w) /\ UNCHANGED <<documents, doc>>)
  <2>1. /\ UNCHANGED <<req, row, seen>> /\ pc[w] # "idle"
        /\ Capital(w) => pc[w] \in {"lock", "insert", "entries"}
    BY <1>0, <1>3, EngineMoves
  <2>2. Capital(w) /\ doc' = doc
    BY <1>3, <2>1 DEF Capital, LedgerStep
  <2>3. book' = book /\ documents' = documents
    BY <2>1, <2>2, BookSteps
  <2>4. status' = status
    BY <1>3, <2>1, <2>2 DEF LedgerStep, Timeout, Lookup, Relookup, Examine,
       LockAccount, Check, Insert, InsertEntries, Commit, Close, LockPeriod,
       DecideClose, CommitClose
  <2> QED  BY <2>1, <2>2, <2>3, <2>4
<1>4. CASE CapitalStep(w) \/ FundTimeout(w)
  <2>0. Capital(w) /\ req' = req
    BY <1>0, <1>4, CapitalMoves
  <2> USE DEF Goto, Finish, Apiece
  <2>1. CASE LookupCapital(w) \/ RelookupCapital(w) \/ FundTimeout(w)
    BY <1>0, <2>1 DEF LookupCapital, RelookupCapital, FundTimeout
  <2>2. CASE LockFund(w)
    BY <1>0, <2>0, <2>2 DEF LockFund, CapitalWaitsFor
  <2>3. CASE PrepareCapital(w)
    BY <1>0, <2>0, <2>3 DEF PrepareCapital, Prepare
  <2>4. CASE NumberDocument(w)
    <3>1. NextNumber(req[w].kind, req[w].fund)
            = NextIn(documents, req[w].kind, req[w].fund)
      BY DEF NextNumber, NextIn, Series, SeriesIn
    <3> QED  BY <1>0, <2>0, <2>4, <3>1 DEF NumberDocument, job
  <2>5. CASE CommitCapital(w)
    BY <1>0, <2>5 DEF CommitCapital, Commit
  <2> QED  BY <1>4, <2>1, <2>2, <2>3, <2>4, <2>5 DEF CapitalStep
<1>5. CASE (Reply(w) \/ Crash(w)) /\ Leave(w)
  BY <1>0, <1>5 DEF Reply, Crash, Idle, Goto, Apiece
<1> QED  BY <1>1, <1>2, <1>3, <1>4, <1>5 DEF ServingStep, CapitalProceed

(* The next number is one more than there are documents in the series.      *)
LEMMA NextOfSeries ==
    ASSUME NEW kind, NEW f, Numbered(kind, f)
    PROVE  \E n \in Nat : /\ {d.number : d \in Series(kind, f)} = 1..n
                          /\ NextIn(documents, kind, f) = n + 1
<1>1. PICK n \in Nat : {d.number : d \in Series(kind, f)} = 1..n
  BY DEF Numbered
<1> DEFINE taken == {d.number : d \in SeriesIn(documents, kind, f)} \cup {0}
           last == CHOOSE m \in taken : \A k \in taken : k <= m
<1>2. taken = 0..n
  BY <1>1 DEF Series, SeriesIn
<1>3. NextIn(documents, kind, f) = 1 + last
  BY DEF NextIn
<1> HIDE DEF taken
<1>4. n \in taken /\ \A k \in taken : k \in Int /\ k <= n
  BY <1>2
<1>5. last \in taken /\ \A k \in taken : k <= last
  BY <1>4
<1> HIDE DEF last
<1>6. last = n
  BY <1>4, <1>5
<1> QED  BY <1>1, <1>3, <1>6

(* A document has the fields that its request gave it.                      *)
LEMMA DocumentFields ==
    ASSUME NEW r, NEW n, NEW i
    PROVE  LET d == [DocumentOf(r, n) EXCEPT !.transfer = i] IN
           /\ d.kind = r.kind /\ d.fund = r.fund /\ d.number = n
           /\ d.total = r.total /\ d.on = r.on /\ d.terms = r.terms
           /\ d.transfer = i
BY DEF DocumentOf

(* The document that is committed: the next one of its series, with the row *)
(* that its worker was to post.                                             *)
LEMMA CommittedDocument ==
    ASSUME CapitalInv, DocumentInv, NEW w \in Worker, Capital(w), pc[w] = "commit"
    PROVE  LET r == req[w]
               d == [doc[w] EXCEPT !.transfer = Len(book) + 1] IN
           /\ r \in Accepted /\ row[w] = RowOfCapital(r)
           /\ r.kind \in Documented /\ r.fund \in Fund
           /\ d = [DocumentOf(r, d.number) EXCEPT !.transfer = d.transfer]
           /\ d.kind = r.kind /\ d.fund = r.fund
           /\ d.total = r.total /\ d.on = r.on /\ d.terms = r.terms
           /\ d.number = NextIn(documents, r.kind, r.fund)
           /\ d.transfer = Len(book) + 1
<1> DEFINE r == req[w]
           n == NextIn(documents, r.kind, r.fund)
           d == [doc[w] EXCEPT !.transfer = Len(book) + 1]
<1>1. r \in Accepted /\ row[w] = RowOfCapital(r)
  BY DEF CapitalInv, ServingInv, Serving, Prepared
<1>2. r.kind \in Documented /\ r.fund \in Fund
  BY <1>1, AcceptedFields
<1>3. doc[w] = DocumentOf(r, n)
  BY DEF DocumentInv, NextInLine, Written
<1>4. d = [DocumentOf(r, n) EXCEPT !.transfer = Len(book) + 1]
  BY <1>3
<1> HIDE DEF r, n, d
<1>5. /\ d.kind = r.kind /\ d.fund = r.fund /\ d.number = n
      /\ d.total = r.total /\ d.on = r.on /\ d.terms = r.terms
      /\ d.transfer = Len(book) + 1
  BY <1>4, DocumentFields
<1>6. d = [DocumentOf(r, d.number) EXCEPT !.transfer = d.transfer]
  BY <1>4, <1>5
<1> QED  BY <1>1, <1>2, <1>5, <1>6 DEF r, n, d

(* Its number is taken by no other document, so that it is never refused.   *)
LEMMA NumberIsFree ==
    ASSUME CapitalInv, DocumentInv, NEW w \in Worker, Capital(w), pc[w] = "commit"
    PROVE  ~\E d \in Series(req[w].kind, req[w].fund) : d.number = doc[w].number
<1>1. /\ req[w].kind \in Documented /\ req[w].fund \in Fund
  BY CommittedDocument
<1>2. doc[w].number = NextIn(documents, req[w].kind, req[w].fund)
  <2>1. doc[w] = DocumentOf(req[w], NextIn(documents, req[w].kind, req[w].fund))
    BY DEF DocumentInv, NextInLine, Written
  <2> QED  BY <2>1 DEF DocumentOf
<1>3. Numbered(req[w].kind, req[w].fund)
  BY <1>1 DEF DocumentInv
<1>4. PICK n \in Nat :
         /\ {d.number : d \in Series(req[w].kind, req[w].fund)} = 1..n
         /\ NextIn(documents, req[w].kind, req[w].fund) = n + 1
  BY <1>3, NextOfSeries
<1>5. n + 1 \notin 1..n
  OBVIOUS
<1> QED  BY <1>2, <1>4, <1>5

(* The book is a sequence of rows.                                          *)
LEMMA BookTyped ==
    ASSUME CapitalInv
    PROVE  /\ book \in Seq(TransferRow)
           /\ status \in [Period -> {"OPEN", "CLOSED"}]
           /\ IsFiniteSet(Entries(book))
<1>1. E!TypeOK /\ E!FundsInv
  BY DEF CapitalInv, E!Safe, E!EngineInv
<1>2. E!TransferRow = TransferRow
  BY DEF E!TransferRow, E!TransferType, E!Leg, TransferRow, TransferType, Leg
<1> QED  BY <1>1, <1>2, EngineData DEF E!TypeOK, E!FundsInv

(* Funds stay apart,                                                        *)
LEMMA FundStep ==
    ASSUME CapitalInv, DocumentInv, NEW w \in Worker, ServingStep(w),
           \A v \in Worker \ {w} : SameServing(v)
    PROVE  FundExclusive'
<1>1. \A v \in Worker \ {w} : (Holds(v)' <=> Holds(v)) /\ req'[v] = req[v]
  BY DEF SameServing, Holds, Capital
<1>2. \A v \in Worker \ {w} : Holds(w)' /\ Holds(v) => req'[w].fund # req[v].fund
  <2> SUFFICES ASSUME NEW v \in Worker \ {w}, Holds(w)', Holds(v)
               PROVE  req'[w].fund # req[v].fund
    OBVIOUS
  <2>1. /\ Capital(w) /\ req'[w] = req[w]
        /\ Holds(w) \/ FundHolders(req[w].fund) = {}
    BY HoldingFunds
  <2>2. Holds(w) => req[w].fund # req[v].fund
    BY DEF DocumentInv, FundExclusive
  <2>3. req[v].fund = req[w].fund => v \in FundHolders(req[w].fund)
    BY DEF FundHolders, Holds, Holding, Prepared
  <2> QED  BY <2>1, <2>2, <2>3
<1>3. \A u, v \in Worker : u # v /\ Holds(u) /\ Holds(v) => req[u].fund # req[v].fund
  BY DEF DocumentInv, FundExclusive
<1> QED  BY <1>1, <1>2, <1>3 DEF FundExclusive

(* a commit changes no series but that of its own request,                  *)
LEMMA OtherSeries ==
    ASSUME CapitalInv, DocumentInv, NEW w \in Worker, ServingStep(w),
           NEW kind, NEW f,
           Capital(w) /\ pc[w] = "commit"
               => kind # req[w].kind \/ f # req[w].fund
    PROVE  SeriesIn(documents', kind, f) = SeriesIn(documents, kind, f)
<1>1. CASE documents' = documents
  BY <1>1 DEF SeriesIn
<1>2. ASSUME Capital(w), pc[w] = "commit",
             documents' = documents \cup {[doc[w] EXCEPT !.transfer = Len(book) + 1]}
      PROVE  SeriesIn(documents', kind, f) = SeriesIn(documents, kind, f)
  <2> DEFINE d == [doc[w] EXCEPT !.transfer = Len(book) + 1]
  <2>1. d.kind = req[w].kind /\ d.fund = req[w].fund
    BY <1>2, CommittedDocument
  <2>2. documents' = documents \cup {d}
    BY <1>2
  <2> HIDE DEF d
  <2> QED  BY <1>2, <2>1, <2>2 DEF SeriesIn
<1> QED  BY <1>1, <1>2, BookSteps

(* the others' numbers are still the next ones,                             *)
LEMMA NextInLineStep ==
    ASSUME CapitalInv, DocumentInv, NEW w \in Worker, ServingStep(w),
           \A v \in Worker \ {w} : SameServing(v), NEW v \in Worker
    PROVE  NextInLine(v)'
<1> SUFFICES ASSUME Capital(v)', pc'[v] \in Written
             PROVE  doc'[v] = DocumentOf(req'[v],
                                 NextIn(documents', req'[v].kind, req'[v].fund))
  BY DEF NextInLine
<1>1. NextInLine(v)
  BY DEF DocumentInv
<1>2. CASE v = w
  <2>1. Holds(w)'
    BY <1>2 DEF Holds, Holding, Prepared, Written
  <2>2. /\ Capital(w) /\ req'[w] = req[w] /\ documents' = documents
        /\ \/ pc[w] \in Written /\ doc'[w] = doc[w]
           \/ doc'[w] = DocumentOf(req[w], NextIn(documents, req[w].kind,
                                                  req[w].fund))
    BY <1>2, <2>1, HoldingFunds
  <2>3. doc'[w] = DocumentOf(req[w], NextIn(documents, req[w].kind, req[w].fund))
    BY <1>1, <1>2, <2>2 DEF NextInLine
  <2> QED  BY <1>2, <2>2, <2>3
<1>3. CASE v # w
  <2>1. /\ Capital(v) /\ pc[v] \in Written /\ req'[v] = req[v]
        /\ doc'[v] = doc[v]
    BY <1>3 DEF SameServing, Capital
  <2>2. doc[v] = DocumentOf(req[v], NextIn(documents, req[v].kind, req[v].fund))
    BY <1>1, <2>1 DEF NextInLine
  <2>3. Capital(w) /\ pc[w] = "commit" => req[v].fund # req[w].fund
    BY <1>3, <2>1
       DEF DocumentInv, FundExclusive, Holds, Holding, Prepared, Written
  <2>4. SeriesIn(documents', req[v].kind, req[v].fund)
          = SeriesIn(documents, req[v].kind, req[v].fund)
    BY <2>3, OtherSeries
  <2>5. NextIn(documents', req[v].kind, req[v].fund)
          = NextIn(documents, req[v].kind, req[v].fund)
    BY <2>4, Zenon DEF NextIn
  <2> QED  BY <2>1, <2>2, <2>5
<1> QED  BY <1>2, <1>3

(* every document has its transfer and every transfer its document,         *)
LEMMA BookDocumentedStep ==
    ASSUME CapitalInv, DocumentInv, NEW w \in Worker, ServingStep(w)
    PROVE  BookDocumented'
<1> DEFINE n == Len(book) + 1
<1>0. /\ \A d \in documents : \E r \in Accepted : DocumentFor(book, d, r)
      /\ \A i \in DOMAIN book : book[i].type \in Documented =>
            \E d \in documents : d.transfer = i
      /\ \A d, e \in documents : d.transfer = e.transfer => d = e
      /\ book \in Seq(TransferRow)
  BY BookTyped DEF DocumentInv, BookDocumented
<1>1. CASE book' = book /\ documents' = documents
  BY <1>0, <1>1 DEF BookDocumented, DocumentFor
<1>2. ASSUME book' = Append(book, row[w])
      PROVE  /\ \A i \in DOMAIN book : i \in DOMAIN book' /\ book'[i] = book[i]
             /\ DOMAIN book' = DOMAIN book \cup {n}
             /\ n \in DOMAIN book' /\ book'[n] = row[w] /\ n \notin DOMAIN book
             /\ \A d \in documents : d.transfer # n
             /\ \A d \in documents : \E r \in Accepted : DocumentFor(book', d, r)
  <2>1. /\ \A i \in DOMAIN book : i \in DOMAIN book' /\ book'[i] = book[i]
        /\ DOMAIN book' = DOMAIN book \cup {n}
        /\ n \in DOMAIN book' /\ book'[n] = row[w] /\ n \notin DOMAIN book
    <3>1. /\ DOMAIN book = 1..Len(book) /\ DOMAIN book' = 1..n
          /\ Len(book) \in Nat
      BY <1>0, <1>2
    <3>2. 1..n = (1..Len(book)) \cup {n}
      BY <3>1
    <3> QED  BY <1>0, <1>2, <3>1, <3>2
  <2> HIDE DEF n
  <2>2. ASSUME NEW d \in documents
        PROVE  d.transfer # n /\ \E r \in Accepted : DocumentFor(book', d, r)
    BY <1>0, <2>1 DEF DocumentFor
  <2> QED  BY <2>1, <2>2
<1> HIDE DEF n
<1>3. ASSUME ~Capital(w), pc[w] = "commit", book' = Append(book, row[w]),
             documents' = documents
      PROVE  BookDocumented'
  <2>1. row[w].type \notin Documented
    BY <1>3 DEF CapitalInv, ServingInv, Serving, Posting
  <2> QED  BY <1>0, <1>2, <1>3, <2>1 DEF BookDocumented
<1>4. ASSUME Capital(w), pc[w] = "commit", book' = Append(book, row[w]),
             documents' = documents \cup {[doc[w] EXCEPT !.transfer = Len(book) + 1]}
      PROVE  BookDocumented'
  <2> DEFINE new == [doc[w] EXCEPT !.transfer = Len(book) + 1]
  <2>1. /\ req[w] \in Accepted /\ row[w] = RowOfCapital(req[w])
        /\ new = [DocumentOf(req[w], new.number) EXCEPT !.transfer = new.transfer]
        /\ new.transfer = n
    BY <1>4, CommittedDocument DEF n
  <2>2. documents' = documents \cup {new}
    BY <1>4
  <2> HIDE DEF new
  <2>3. DocumentFor(book', new, req[w])
    BY <1>2, <1>4, <2>1 DEF DocumentFor
  <2>4. \A d \in documents' : \E r \in Accepted : DocumentFor(book', d, r)
    BY <1>2, <1>4, <2>1, <2>2, <2>3
  <2>5. \A i \in DOMAIN book' : book'[i].type \in Documented =>
           \E d \in documents' : d.transfer = i
    BY <1>0, <1>2, <1>4, <2>1, <2>2
  <2>6. \A d, e \in documents' : d.transfer = e.transfer => d = e
    BY <1>0, <1>2, <1>4, <2>1, <2>2
  <2> QED  BY <2>4, <2>5, <2>6 DEF BookDocumented
<1> QED  BY <1>1, <1>3, <1>4, BookSteps

(* and the series go on.                                                    *)
LEMMA NumberedStep ==
    ASSUME CapitalInv, DocumentInv, NEW w \in Worker, ServingStep(w),
           NEW kind \in Documented, NEW f \in Fund
    PROVE  Numbered(kind, f)'
<1> DEFINE S == SeriesIn(documents, kind, f)
           T == SeriesIn(documents', kind, f)
<1>0. /\ \E n \in Nat : {d.number : d \in S} = 1..n
      /\ \A d, e \in S : d.number = e.number => d = e
      /\ \A d, e \in S : d.number < e.number => d.transfer < e.transfer
  BY DEF DocumentInv, Numbered, Series, SeriesIn
<1>1. SUFFICES /\ \E n \in Nat : {d.number : d \in T} = 1..n
               /\ \A d, e \in T : d.number = e.number => d = e
               /\ \A d, e \in T : d.number < e.number => d.transfer < e.transfer
  BY DEF Numbered, Series, SeriesIn
<1>2. CASE T = S
  BY <1>0, <1>2
<1>3. CASE T # S
  <2> DEFINE new == [doc[w] EXCEPT !.transfer = Len(book) + 1]
  <2>1. /\ Capital(w) /\ pc[w] = "commit"
        /\ kind = req[w].kind /\ f = req[w].fund
    BY <1>3, OtherSeries
  <2>2. documents' = documents \cup {new}
    <3>1. documents' # documents
      BY <1>3
    <3> QED  BY <2>1, <3>1, BookSteps
  <2>3. /\ new.kind = kind /\ new.fund = f
        /\ new.number = NextIn(documents, kind, f)
        /\ new.transfer = Len(book) + 1
    BY <2>1, CommittedDocument
  <2> HIDE DEF new
  <2>4. T = S \cup {new}
    BY <2>2, <2>3 DEF SeriesIn
  <2>5. PICK n \in Nat : {d.number : d \in S} = 1..n /\ new.number = n + 1
    <3>1. Numbered(kind, f)
      BY DEF DocumentInv
    <3> QED  BY <2>3, <3>1, NextOfSeries DEF Series, SeriesIn
  <2>6. \A d \in S : d.transfer \in Nat /\ d.transfer < new.transfer
    <3>1. Len(book) \in Nat /\ DOMAIN book = 1..Len(book)
      BY BookTyped
    <3>2. \A d \in S : d.transfer \in DOMAIN book
      BY DEF DocumentInv, BookDocumented, DocumentFor, SeriesIn
    <3> QED  BY <2>3, <3>1, <3>2
  <2> HIDE DEF S, T
  <2>7. \A d \in S : d.number \in 1..n
    BY <2>5
  <2>8. {d.number : d \in T} = 1..(n + 1)
    <3>1. {d.number : d \in T} = {d.number : d \in S} \cup {n + 1}
      BY <2>4, <2>5
    <3>2. 1..(n + 1) = (1..n) \cup {n + 1}
      OBVIOUS
    <3> QED  BY <2>5, <3>1, <3>2
  <2>9. \A d, e \in T : d.number = e.number => d = e
    BY <1>0, <2>4, <2>5, <2>7
  <2>10. \A d, e \in T : d.number < e.number => d.transfer < e.transfer
    BY <1>0, <2>4, <2>5, <2>6, <2>7
  <2> QED  BY <2>8, <2>9, <2>10
<1> QED  BY <1>2, <1>3

(* The invariant of funds and documents lasts.                              *)
LEMMA DocumentInvStep ==
    CapitalInv /\ DocumentInv /\ [CapitalNext]_capitalVars => DocumentInv'
<1> SUFFICES ASSUME CapitalInv, DocumentInv, [CapitalNext]_capitalVars
             PROVE  DocumentInv'
  OBVIOUS
<1>1. ASSUME NEW w \in Worker, ServingStep(w)
      PROVE  DocumentInv'
  <2>1. \A v \in Worker \ {w} : SameServing(v)
    BY <1>1, OthersServe DEF CapitalInv, E!Safe, E!EngineInv
  <2>2. FundExclusive'
    BY <1>1, <2>1, FundStep
  <2>3. \A v \in Worker : NextInLine(v)'
    BY <1>1, <2>1, NextInLineStep
  <2>4. BookDocumented'
    BY <1>1, BookDocumentedStep
  <2>5. \A kind \in Documented, f \in Fund : Numbered(kind, f)'
    BY <1>1, NumberedStep
  <2> QED  BY <2>2, <2>3, <2>4, <2>5 DEF DocumentInv
<1>2. CASE UNCHANGED <<book, pc, req, documents, doc>>
  BY <1>2 DEF DocumentInv, FundExclusive, Holds, Capital, NextInLine,
              BookDocumented, DocumentFor, Numbered, Series
<1> QED  BY <1>1, <1>2, ServingStepKinds DEF Tick, vars, job

(* So it always holds.                                                      *)
LEMMA DocumentInvariant == CapitalSpec => []DocumentInv
<1>1. CapitalInit => DocumentInv
  <2> SUFFICES ASSUME CapitalInit
               PROVE  DocumentInv
    OBVIOUS
  <2>1. /\ documents = {} /\ book = <<>>
        /\ \A w \in Worker : ~Capital(w)
    BY DEF CapitalInit, Init, Capital
  <2>2. \A kind, f : Numbered(kind, f)
    <3> TAKE kind, f
    <3>1. Series(kind, f) = {}
      BY <2>1 DEF Series
    <3>2. {d.number : d \in {}} = 1..0
      OBVIOUS
    <3> QED  BY <3>1, <3>2 DEF Numbered
  <2> QED  BY <2>1, <2>2
           DEF DocumentInv, FundExclusive, Holds, NextInLine, BookDocumented
<1> QED  BY <1>1, DocumentInvStep, CapitalInvariant, PTL DEF CapitalSpec

(* The calls of a fund, and its distributions, are numbered 1, 2, 3 in the  *)
(* order they were made, whatever ran at the same time: the number that is   *)
(* read under the fund lock is still the next one when the document commits *)
(* (create_capital_call, create_distribution).                              *)
THEOREM DocumentsAreNumbered == CapitalSpec => []NumberedInOrder
<1>1. ASSUME DocumentInv
      PROVE  NumberedInOrder
  <2> SUFFICES ASSUME NEW f \in Fund, NEW kind \in Documented
               PROVE  LET S == Series(kind, f) IN
                      /\ {d.number : d \in S} = 1..Cardinality(S)
                      /\ \A d, e \in S : d.number < e.number
                                            => d.transfer < e.transfer
    BY DEF NumberedInOrder
  <2> DEFINE S == Series(kind, f)
  <2>1. /\ \A d, e \in S : d.number = e.number => d = e
        /\ \A d, e \in S : d.number < e.number => d.transfer < e.transfer
    BY <1>1 DEF DocumentInv, Numbered
  <2>2. PICK n \in Nat : {d.number : d \in S} = 1..n
    BY <1>1 DEF DocumentInv, Numbered
  <2> DEFINE nth == [m \in 1..n |-> CHOOSE d \in S : d.number = m]
  <2> HIDE DEF S
  <2>3. \A m \in 1..n : nth[m] \in S /\ nth[m].number = m
    BY <2>2
  <2>4. nth \in Bijection(1..n, S)
    <3>1. nth \in [1..n -> S]
      BY <2>3
    <3>2. \A d \in S : \E m \in 1..n : nth[m] = d
      BY <2>1, <2>2, <2>3
    <3> HIDE DEF nth
    <3> QED  BY <2>3, <3>1, <3>2 DEF Bijection, Injection, Surjection, IsInjective
  <2>5. Cardinality(S) = n
    <3> HIDE DEF nth
    <3>1. IsFiniteSet(1..n) /\ Cardinality(1..n) = n
      BY FS_Interval
    <3>2. ExistsBijection(1..n, S)
      BY <2>4 DEF ExistsBijection
    <3> QED  BY <3>1, <3>2, FS_Bijection
  <2> QED  BY <2>1, <2>2, <2>5 DEF S
<1> QED  BY <1>1, DocumentInvariant, PTL

(* A call or a distribution is in the book with exactly one document, whose *)
(* total is the cash that moved: document and transfer commit or fail       *)
(* together (create_capital_call, create_distribution).                     *)
THEOREM DocumentsTellTheMoney == CapitalSpec => []DocumentsMatchMoney
<1>1. ASSUME DocumentInv
      PROVE  DocumentsMatchMoney
  <2>0. BookDocumented
    BY <1>1 DEF DocumentInv
  <2>1. ASSUME NEW i \in DOMAIN book, book[i].type \in Documented
        PROVE  Cardinality({d \in documents : d.transfer = i}) = 1
    <3>1. PICK d \in documents : d.transfer = i
      BY <2>0, <2>1 DEF BookDocumented
    <3>2. {e \in documents : e.transfer = i} = {d}
      BY <2>0, <3>1 DEF BookDocumented
    <3> QED  BY <3>2, FS_Singleton
  <2>2. ASSUME NEW d \in documents
        PROVE  LET t == book[d.transfer]
                   cash == Delta(t.legs, Chart[d.fund].cash)
               IN  /\ t.type = d.kind
                   /\ t.period = <<d.fund, d.on>>
                   /\ cash = IF d.kind = "CAPITAL_CALL" THEN d.total ELSE -d.total
    <3>1. PICK r \in Accepted : DocumentFor(book, d, r)
      BY <2>0 DEF BookDocumented
    <3>2. /\ d.kind = r.kind /\ d.fund = r.fund /\ d.total = r.total /\ d.on = r.on
          /\ book[d.transfer] = RowOfCapital(r)
      <4> DEFINE e == [DocumentOf(r, d.number) EXCEPT !.transfer = d.transfer]
      <4>1. e.kind = r.kind /\ e.fund = r.fund /\ e.total = r.total /\ e.on = r.on
        BY DocumentFields
      <4>2. d = e /\ book[d.transfer] = RowOfCapital(r)
        BY <3>1 DEF DocumentFor
      <4> HIDE DEF e
      <4> QED  BY <4>1, <4>2
    <3>3. /\ r.kind \in Documented /\ r.fund \in Fund /\ r.total \in Nat
          /\ r.total % Penny = 0 /\ Allocatable(Commitment[r.fund])
      BY AcceptedFields
    <3>4. Delta(CapitalLegs(r.kind, r.fund, r.total), Chart[r.fund].cash)
            = IF r.kind = "CAPITAL_CALL" THEN r.total ELSE -r.total
      BY <3>3, CashAndShares
    <3>5. /\ RowOfCapital(r).type = r.kind
          /\ RowOfCapital(r).period = <<r.fund, r.on>>
          /\ RowOfCapital(r).legs = CapitalLegs(r.kind, r.fund, r.total)
      BY DEF RowOfCapital
    <3> QED  BY <3>2, <3>4, <3>5
  <2> QED  BY <2>1, <2>2 DEF DocumentsMatchMoney
<1> QED  BY <1>1, DocumentInvariant, PTL

-----------------------------------------------------------------------------
(* What was made is not refused. *)

(* A worker that is past the unique index is alone with its key, and its    *)
(* document can be none of the request's.                                   *)
LEMMA NotMadeYet ==
    ASSUME CapitalInv, DocumentInv, NEW w \in Worker,
           Capital(w), pc[w] \in {"entries", "commit"}
    PROVE  ~KeyTaken(book, req[w].key)
<1>1. row[w] = RowOfCapital(req[w])
  BY DEF CapitalInv, ServingInv, Serving, Prepared
<1>2. enginePc[w] = pc[w] /\ engineRow[w] = row[w]
  BY SeenByEngine DEF InEngine, Prepared
<1>3. E!Fresh(w)
  BY DEF CapitalInv, E!Safe, E!EngineInv, E!KeyInv
<1>4. \A i \in DOMAIN book : row[w].key # book[i].key
  BY <1>2, <1>3 DEF E!Fresh, E!Apart, E!Inserted
<1> QED  BY <1>1, <1>4 DEF KeyTaken, RowOfCapital

(* No key in use, no document made.                                         *)
LEMMA MadeUnderKey ==
    ASSUME DocumentInv, NEW r, ~KeyTaken(book, r.key)
    PROVE  ~\E d \in documents : Made(d, r)
BY DEF DocumentInv, BookDocumented, DocumentFor, KeyTaken, Made

(* Past the first look, a call or a distribution is the one it was.         *)
LEMMA CapitalStays ==
    ASSUME CapitalInv, NEW w \in Worker, ServingStep(w),
           Capital(w)', pc'[w] # "lookup"
    PROVE  Capital(w) /\ req'[w] = req[w] /\ pc[w] # "reply"
<1>0. E!TypeOK /\ ServingInv /\ Apiece /\ Serving(w)
  BY DEF CapitalInv, ServingInv, E!Safe, E!EngineInv
<1>1. CASE \E r \in Request : Arrive(w, r) /\ UNCHANGED <<documents, doc>>
  <2>1. PICK r \in Request : Arrive(w, r)
    BY <1>1
  <2>2. req'[w] = r
    BY <1>0, <2>1 DEF Arrive, ReceiveTransfer, ReceiveReversal,
                      ReceiveClose, Receive, Apiece
  <2> QED  BY <2>2, Kinds DEF Capital
<1>2. CASE \E r \in CapitalRequest : ReceiveCapital(w, r)
  BY <1>0, <1>2 DEF ReceiveCapital, Goto, Apiece
<1>3. CASE LedgerStep(w) \/ (Timeout(w) /\ UNCHANGED <<documents, doc>>)
  BY <1>0, <1>3, EngineMoves DEF Capital
<1>4. CASE CapitalStep(w) \/ FundTimeout(w)
  <2>1. Capital(w) /\ req' = req
    BY <1>0, <1>4, CapitalMoves
  <2>2. pc[w] # "reply"
    BY <1>4 DEF CapitalStep, FundTimeout, LookupCapital, LockFund,
                PrepareCapital, NumberDocument, CommitCapital, RelookupCapital
  <2> QED  BY <2>1, <2>2
<1>5. CASE (Reply(w) \/ Crash(w)) /\ Leave(w)
  BY <1>0, <1>5 DEF Reply, Crash, Idle, Goto, Apiece, Capital
<1> QED  BY <1>1, <1>2, <1>3, <1>4, <1>5, Zenon
         DEF ServingStep, CapitalProceed

(* What a step of a call or a distribution that ends in an answer has found. *)
LEMMA CapitalAnswers ==
    ASSUME CapitalInv, DocumentInv, NEW w \in Worker, ServingStep(w),
           pc[w] # "reply", pc'[w] = "reply", Capital(w)
    PROVE  \/ outcome'[w] = CapitalVerdict(w) /\ KeyTaken(book, req[w].key)
           \/ /\ pc[w] = "relookup" /\ ~KeyTaken(book, req[w].key)
              /\ outcome'[w] = outcome[w]
           \/ /\ pc[w] = "entries" /\ Refused(w) # "none"
              /\ outcome'[w] = Refused(w)
           \/ pc[w] = "commit" /\ outcome'[w] = "created"
              /\ documents' = documents \cup
                    {[doc[w] EXCEPT !.transfer = Len(book) + 1]}
              /\ book' = Append(book, row[w])
           \/ outcome'[w] = "busy"
<1>0. /\ Apiece /\ Serving(w) /\ E!TypeOK /\ ServingInv
      /\ pc[w] # "idle"
  BY DEF CapitalInv, ServingInv, E!Safe, E!EngineInv, Capital
<1> USE DEF Goto, Finish, Apiece
<1>1. CASE LedgerStep(w) \/ (Timeout(w) /\ UNCHANGED <<documents, doc>>)
  <2>1. pc[w] \in {"lock", "insert", "entries"}
    BY <1>0, <1>1, EngineMoves
  <2>2. CASE LockAccount(w) \/ Check(w)
    BY <1>0, <2>2 DEF LockAccount, Check
  <2>3. CASE Insert(w)
    <3>1. row[w].reverses = 0
      BY <1>0, <2>1 DEF Serving, Prepared, RowOfCapital
    <3>2. UniqueViolation(w) # "reverses"
      BY <3>1 DEF UniqueViolation
    <3> QED  BY <1>0, <2>3, <3>2 DEF Insert
  <2>4. CASE InsertEntries(w)
    BY <1>0, <2>4 DEF InsertEntries
  <2>5. CASE Timeout(w)
    BY <1>0, <2>5 DEF Timeout
  <2>6. ~(Examine(w) \/ Close(w))
    BY <2>1 DEF Examine, Close, LockPeriod, DecideClose, CommitClose
  <2> QED  BY <1>1, <2>2, <2>3, <2>4, <2>5, <2>6 DEF LedgerStep
<1>2. CASE CapitalStep(w) \/ FundTimeout(w)
  <2>1. CASE LookupCapital(w)
    BY <1>0, <2>1 DEF LookupCapital
  <2>2. CASE LockFund(w) \/ NumberDocument(w)
    BY <1>0, <2>2 DEF LockFund, NumberDocument
  <2>3. CASE PrepareCapital(w)
    BY <1>0, <2>3 DEF PrepareCapital, Prepare
  <2>4. CASE CommitCapital(w)
    BY <1>0, <2>4, NumberIsFree DEF CommitCapital, Commit
  <2>5. CASE RelookupCapital(w)
    BY <1>0, <2>5 DEF RelookupCapital, CapitalAfterRollback
  <2>6. CASE FundTimeout(w)
    BY <1>0, <2>6 DEF FundTimeout
  <2> QED  BY <1>2, <2>1, <2>2, <2>3, <2>4, <2>5, <2>6 DEF CapitalStep
<1>3. CASE (Reply(w) \/ Crash(w)) /\ Leave(w)
  BY <1>0, <1>3 DEF Reply, Crash, Idle
<1>4. ~(\E r \in Request : Arrive(w, r)) /\ ~(\E r \in CapitalRequest : ReceiveCapital(w, r))
  BY <1>0 DEF Arrive, ReceiveTransfer, ReceiveReversal, ReceiveClose, Receive,
              ReceiveCapital
<1> QED  BY <1>1, <1>2, <1>3, <1>4 DEF ServingStep, CapitalProceed

(* A call or a distribution that is in the book is never refused: a         *)
(* duplicate that comes second to the fund replays what the first one did,  *)
(* though it finds the commitment or the cash used up (run_idempotent).     *)
THEOREM MadeIsReplayed == CapitalSpec => MadeIsNeverRefused
<1>1. ASSUME CapitalInv, DocumentInv, [CapitalNext]_capitalVars, NEW w \in Worker,
             pc[w] # "reply", RefusesCapital(w)'
      PROVE  ~\E d \in documents : Made(d, req'[w])
  <2>1. /\ pc'[w] = "reply" /\ req'[w].kind \in Documented
        /\ outcome'[w] \in Refusal \cup {"no_period", "commitment_exceeded"}
    BY <1>1 DEF RefusesCapital
  <2>2. ServingStep(w)
    <3>1. ASSUME NEW v \in Worker \ {w}, ServingStep(v)
          PROVE  pc'[w] = pc[w]
      BY <1>1, <3>1, OthersServe DEF SameServing, CapitalInv, E!Safe, E!EngineInv
    <3> QED  BY <1>1, <2>1, <3>1, ServingStepKinds DEF Tick, vars
  <2>3. Capital(w)' /\ req'[w] = req[w] /\ Capital(w)
    BY <1>1, <2>1, <2>2, CapitalStays DEF Capital
  <2>4. CapitalVerdict(w) \in {"replayed", "idempotency_conflict"}
    BY DEF CapitalVerdict
  <2>5. ~KeyTaken(book, req[w].key)
    BY <1>1, <2>1, <2>2, <2>3, <2>4, CapitalAnswers, NotMadeYet DEF Refusal
  <2> QED  BY <1>1, <2>3, <2>5, MadeUnderKey
<1>2. CapitalInv /\ DocumentInv /\ [CapitalNext]_capitalVars =>
        \A w \in Worker : pc[w] # "reply" /\ RefusesCapital(w)'
            => ~\E d \in documents : Made(d, req'[w])
  BY <1>1
<1> QED  BY <1>2, CapitalInvariant, DocumentInvariant, PTL
         DEF CapitalSpec, MadeIsNeverRefused

-----------------------------------------------------------------------------
(* What clients are told is so. *)

(* A closed period stays closed.                                            *)
LEMMA ClosedStays ==
    ASSUME CapitalInv, NEW w \in Worker, ServingStep(w),
           NEW p \in Period, status[p] = "CLOSED"
    PROVE  status'[p] = "CLOSED"
<1>1. status' = status \/ CommitClose(w)
  <2>1. CASE \E r \in Request : Arrive(w, r)
    BY <2>1 DEF Arrive, ReceiveTransfer, ReceiveReversal, ReceiveClose, Receive
  <2>2. CASE \E r \in CapitalRequest : ReceiveCapital(w, r)
    BY <2>2 DEF ReceiveCapital, Receive
  <2>3. CASE LedgerStep(w)
    BY <2>3 DEF LedgerStep, Lookup, Relookup, Commit, Examine, LockAccount,
                Check, Insert, InsertEntries, Close, LockPeriod, DecideClose
  <2>4. CASE CapitalStep(w) \/ FundTimeout(w)
    BY <2>4 DEF CapitalStep, LookupCapital, LockFund, PrepareCapital,
                NumberDocument, CommitCapital, Commit, RelookupCapital,
                FundTimeout
  <2>5. CASE Reply(w) \/ Crash(w) \/ Timeout(w)
    BY <2>5 DEF Reply, Crash, Idle, Timeout
  <2> QED  BY <2>1, <2>2, <2>3, <2>4, <2>5 DEF ServingStep, CapitalProceed
<1>2. status \in [Period -> {"OPEN", "CLOSED"}]
  BY BookTyped
<1> QED  BY <1>1, <1>2 DEF CommitClose

(* What is so stays so: the book and its documents only grow, a new one has *)
(* a key of its own.                                                        *)
LEMMA ToldLater ==
    ASSUME CapitalInv, DocumentInv, NEW w \in Worker, ServingStep(w),
           NEW r, NEW o, Told(documents, book, status, r, o)
    PROVE  Told(documents', book', status', r, o)
<1>0. /\ book \in Seq(TransferRow)
      /\ \A d \in documents : d.transfer \in DOMAIN book
  BY BookTyped DEF DocumentInv, BookDocumented, DocumentFor
<1>1. /\ \A i \in DOMAIN book : i \in DOMAIN book' /\ book'[i] = book[i]
      /\ documents \subseteq documents'
  BY <1>0, BookSteps
<1>2. Done(documents, book, r) => Done(documents', book', r)
  BY <1>0, <1>1 DEF Done
<1>3. KeyTaken(book, r.key) => KeyTaken(book', r.key)
  BY <1>1 DEF KeyTaken
<1>4. KeyTaken(book, r.key) /\ Done(documents', book', r) => Done(documents, book, r)
  <2> SUFFICES ASSUME KeyTaken(book, r.key), NEW d \in documents',
                      SameTerms(d, r), book'[d.transfer].key = r.key
               PROVE  Done(documents, book, r)
    BY DEF Done
  <2>1. CASE d \in documents
    BY <1>0, <1>1, <2>1 DEF Done
  <2>2. CASE d \notin documents
    <3> DEFINE new == [doc[w] EXCEPT !.transfer = Len(book) + 1]
    <3>1. /\ Capital(w) /\ pc[w] = "commit"
          /\ book' = Append(book, row[w]) /\ d = new
      BY <2>2, BookSteps
    <3>2. d.transfer = Len(book) + 1 /\ row[w] = RowOfCapital(req[w])
      BY <3>1, CommittedDocument
    <3>3. book'[d.transfer] = row[w]
      BY <1>0, <3>1, <3>2
    <3>4. req[w].key = r.key
      BY <3>2, <3>3 DEF RowOfCapital
    <3>5. ~KeyTaken(book, req[w].key)
      BY <3>1, NotMadeYet
    <3> QED  BY <3>4, <3>5
  <2> QED  BY <2>1, <2>2
<1>5. o = "period_closed" => status'[<<r.fund, r.on>>] = "CLOSED"
  BY ClosedStays DEF Told
<1> QED  BY <1>2, <1>3, <1>4, <1>5 DEF Told

(* What a known key means is so.                                            *)
LEMMA CapitalVerdictTold ==
    ASSUME CapitalInv, DocumentInv, NEW w \in Worker, KeyTaken(book, req[w].key)
    PROVE  Told(documents, book, status, req[w], CapitalVerdict(w))
<1> DEFINE r == req[w]
           i == Existing(book, r.key)
<1>1. i \in DOMAIN book /\ book[i].key = r.key
  BY DEF KeyTaken, Existing
<1>2. \A j \in DOMAIN book : book[j].key = r.key => j = i
  <2>1. E!BookApart
    BY DEF CapitalInv, E!Safe, E!EngineInv, E!KeyInv
  <2> HIDE DEF i
  <2> QED  BY <1>1, <2>1 DEF E!BookApart, E!Apart
<1>3. \A d \in documents : d.transfer \in DOMAIN book
  BY DEF DocumentInv, BookDocumented, DocumentFor
<1>4. CapitalVerdict(w) = IF \E d \in documents : d.transfer = i /\ SameTerms(d, r)
                          THEN "replayed" ELSE "idempotency_conflict"
  BY DEF CapitalVerdict
<1> HIDE DEF i
<1>5. (\E d \in documents : d.transfer = i /\ SameTerms(d, r))
        <=> Done(documents, book, r)
  BY <1>1, <1>2, <1>3 DEF Done
<1> QED  BY <1>4, <1>5 DEF Told

(* Legs that were checked are not refused when their entries are inserted,  *)
(* unless their period has closed.                                          *)
LEMMA NothingButClosed ==
    ASSUME CapitalInv, NEW w \in Worker, Capital(w), pc[w] = "entries",
           Refused(w) # "none"
    PROVE  /\ Refused(w) = "period_closed"
           /\ <<req[w].fund, req[w].on>> \in Period
           /\ status[<<req[w].fund, req[w].on>>] = "CLOSED"
<1> DEFINE r == req[w]
           legs == CapitalLegs(r.kind, r.fund, r.total)
<1>1. r \in Accepted /\ row[w] = RowOfCapital(r)
  BY DEF CapitalInv, ServingInv, Serving, Prepared
<1>2. /\ r.kind \in Documented /\ r.fund \in Fund /\ r.total \in Nat
      /\ r.total % Penny = 0 /\ Allocatable(Commitment[r.fund])
      /\ <<r.fund, r.on>> \in Period
  BY <1>1, AcceptedFields
<1>3. row[w].legs = legs /\ row[w].period = <<r.fund, r.on>>
  BY <1>1 DEF RowOfCapital
<1>4. \A j \in DOMAIN legs : legs[j].base # 0
  BY <1>2, LegsMoveMoney
<1>5. Balanced(legs)
  <2>1. enginePc[w] = "entries" /\ engineRow[w] = row[w]
    BY SeenByEngine DEF InEngine, Prepared
  <2>2. E!Covered(w)
    BY DEF CapitalInv, E!Safe, E!EngineInv, E!FundsInv
  <2>3. E!Balanced(row[w].legs)
    BY <2>1, <2>2 DEF E!Covered, E!Checked
  <2> QED  BY <1>3, <2>3, EngineData
<1>6. status \in [Period -> {"OPEN", "CLOSED"}]
  BY BookTyped
<1> HIDE DEF legs, r
<1> QED  BY <1>2, <1>3, <1>4, <1>5, <1>6 DEF Refused, StatusNow, r

(* A call or a distribution that is to be looked up once more was refused   *)
(* for a reason that is so, or for its key alone.                           *)
LEMMA CapitalRefused ==
    ASSUME CapitalInv, NEW w \in Worker, Telling(w), ServingStep(w),
           Capital(w), pc'[w] = "relookup"
    PROVE  \/ outcome'[w] \notin {"created", "replayed", "idempotency_conflict",
                                  "period_closed", "internal_error"}
           \/ /\ outcome'[w] = "period_closed"
              /\ <<req[w].fund, req[w].on>> \in Period
              /\ status[<<req[w].fund, req[w].on>>] = "CLOSED"
<1>0. /\ Apiece /\ Serving(w) /\ E!TypeOK /\ ServingInv
      /\ pc[w] # "idle"
  BY DEF CapitalInv, ServingInv, E!Safe, E!EngineInv, Capital
<1> USE DEF Goto, Finish, Apiece
<1>1. CASE LedgerStep(w) \/ (Timeout(w) /\ UNCHANGED <<documents, doc>>)
  <2>1. pc[w] \in {"lock", "insert", "entries"}
    BY <1>0, <1>1, EngineMoves
  <2>2. /\ req[w] \in Accepted /\ row[w] = RowOfCapital(req[w])
        /\ outcome[w] = "none"
    BY <1>0, <2>1 DEF Serving, Prepared
  <2>3. /\ row[w].period = <<req[w].fund, req[w].on>>
        /\ <<req[w].fund, req[w].on>> \in Period
    BY <2>2 DEF RowOfCapital, Accepted
  <2>4. CASE Check(w)
    <3>1. outcome'[w] = Objection(w)
      BY <1>0, <2>4 DEF Check
    <3>2. Objection(w) = "period_closed" => seen[w] = "CLOSED"
      <4>1. seen[w] \in {"OPEN", "CLOSED"}
        BY <1>0, <2>1, SeenByEngine DEF InEngine, Prepared, E!TypeOK
      <4> QED  BY <4>1 DEF Objection
    <3>3. Objection(w) \in {"unknown_account", "period_closed",
             "invalid_transfer", "unbalanced_transfer", "insufficient_funds",
             "none"}
      BY DEF Objection
    <3>4. seen[w] = "CLOSED" => status[row[w].period] = "CLOSED"
      BY <2>1 DEF Telling, Prepared
    <3> QED  BY <2>3, <3>1, <3>2, <3>3, <3>4
  <2>5. CASE Insert(w)
    <3>1. outcome'[w] = "none"
      BY <1>0, <2>2, <2>5 DEF Insert
    <3> QED  BY <3>1
  <2>6. ~(LockAccount(w) \/ InsertEntries(w) \/ Timeout(w) \/ Examine(w) \/ Close(w))
    BY <1>0, <2>1 DEF LockAccount, InsertEntries, Timeout, Examine, Close,
                      LockPeriod, DecideClose, CommitClose
  <2> QED  BY <1>1, <2>4, <2>5, <2>6 DEF LedgerStep
<1>2. CASE CapitalStep(w) \/ FundTimeout(w)
  <2>1. ~(LookupCapital(w) \/ LockFund(w) \/ NumberDocument(w)
          \/ RelookupCapital(w) \/ FundTimeout(w))
    BY <1>0 DEF LookupCapital, LockFund, NumberDocument, RelookupCapital,
                FundTimeout
  <2>2. ~CommitCapital(w)
    BY <1>0 DEF CommitCapital, Commit
  <2>3. CASE PrepareCapital(w)
    <3>1. CapitalObjection(req[w]) # "none" /\ outcome'[w] = CapitalObjection(req[w])
      BY <1>0, <2>3 DEF PrepareCapital, Prepare
    <3> QED  BY <3>1 DEF CapitalObjection
  <2> QED  BY <1>2, <2>1, <2>2, <2>3 DEF CapitalStep
<1>3. CASE (Reply(w) \/ Crash(w)) /\ Leave(w)
  BY <1>0, <1>3 DEF Reply, Crash, Idle
<1>4. ~(\E r \in Request : Arrive(w, r)) /\ ~(\E r \in CapitalRequest : ReceiveCapital(w, r))
  BY <1>0 DEF Arrive, ReceiveTransfer, ReceiveReversal, ReceiveClose, Receive,
              ReceiveCapital
<1> QED  BY <1>1, <1>2, <1>3, <1>4 DEF ServingStep, CapitalProceed

(* A document that is committed answers its request.                        *)
LEMMA CommittedIsDone ==
    ASSUME CapitalInv, DocumentInv, NEW w \in Worker, Capital(w), pc[w] = "commit",
           documents' = documents \cup
              {[doc[w] EXCEPT !.transfer = Len(book) + 1]},
           book' = Append(book, row[w])
    PROVE  Done(documents', book', req[w])
<1> DEFINE d == [doc[w] EXCEPT !.transfer = Len(book) + 1]
           r == req[w]
<1>1. /\ d.kind = r.kind /\ d.fund = r.fund /\ d.total = r.total
      /\ d.on = r.on /\ d.terms = r.terms /\ d.transfer = Len(book) + 1
      /\ row[w] = RowOfCapital(r)
  BY CommittedDocument
<1>2. d \in documents'
  OBVIOUS
<1>3. book'[Len(book) + 1] = row[w]
  BY BookTyped
<1>4. row[w].key = r.key
  BY <1>1 DEF RowOfCapital
<1> HIDE DEF d, r
<1>5. SameTerms(d, r) /\ book'[d.transfer].key = r.key
  BY <1>1, <1>3, <1>4 DEF SameTerms
<1>6. Done(documents', book', r)
  BY <1>2, <1>5 DEF Done
<1> QED  BY <1>6 DEF r

(* The worker that moves is about to say what is so.                        *)
LEMMA OwnTelling ==
    ASSUME CapitalInv, DocumentInv, NEW w \in Worker, Telling(w), ServingStep(w)
    PROVE  Telling(w)'
<1> SUFFICES ASSUME Capital(w)', pc'[w] # "lookup"
             PROVE  /\ pc'[w] \in {"reply", "relookup"}
                          => Told(documents', book', status', req'[w], outcome'[w])
                    /\ pc'[w] \in Prepared /\ seen'[w] = "CLOSED"
                          => status'[row'[w].period] = "CLOSED"
  BY DEF Telling, Prepared
<1>1. Capital(w) /\ req'[w] = req[w] /\ pc[w] # "reply"
  BY CapitalStays
<1>2. CASE pc'[w] = "reply"
  <2>1. CASE outcome'[w] = CapitalVerdict(w) /\ KeyTaken(book, req[w].key)
    <3>1. Told(documents, book, status, req[w], CapitalVerdict(w))
      BY <2>1, CapitalVerdictTold
    <3>2. Told(documents', book', status', req[w], CapitalVerdict(w))
      BY <3>1, ToldLater
    <3> QED  BY <1>1, <1>2, <2>1, <3>2 DEF Prepared
  <2>2. CASE pc[w] = "relookup" /\ outcome'[w] = outcome[w]
    <3>1. Told(documents, book, status, req[w], outcome[w])
      BY <1>1, <2>2 DEF Telling
    <3>2. Told(documents', book', status', req[w], outcome[w])
      BY <3>1, ToldLater
    <3> QED  BY <1>1, <1>2, <2>2, <3>2 DEF Prepared
  <2>3. CASE pc[w] = "entries" /\ Refused(w) # "none" /\ outcome'[w] = Refused(w)
    <3>1. Told(documents, book, status, req[w], "period_closed")
      BY <1>1, <2>3, NothingButClosed DEF Told
    <3>2. Told(documents', book', status', req[w], "period_closed")
      BY <3>1, ToldLater
    <3>3. outcome'[w] = "period_closed"
      BY <1>1, <2>3, NothingButClosed
    <3> QED  BY <1>1, <1>2, <3>2, <3>3 DEF Prepared
  <2>4. CASE /\ pc[w] = "commit" /\ outcome'[w] = "created"
             /\ documents' = documents \cup
                   {[doc[w] EXCEPT !.transfer = Len(book) + 1]}
             /\ book' = Append(book, row[w])
    <3>1. Done(documents', book', req[w])
      BY <1>1, <2>4, CommittedIsDone
    <3> QED  BY <1>1, <1>2, <2>4, <3>1 DEF Told, Prepared
  <2>5. CASE outcome'[w] = "busy"
    BY <1>2, <2>5 DEF Told, Prepared
  <2> QED  BY <1>1, <1>2, <2>1, <2>2, <2>3, <2>4, <2>5, CapitalAnswers
<1>3. CASE pc'[w] = "relookup"
  <2>1. Told(documents, book, status, req[w], outcome'[w])
    BY <1>1, <1>3, CapitalRefused DEF Told
  <2>2. Told(documents', book', status', req[w], outcome'[w])
    BY <2>1, ToldLater
  <2> QED  BY <1>1, <1>3, <2>2 DEF Prepared
<1>4. CASE pc'[w] \in Prepared
  <2>1. Holds(w)'
    BY <1>4 DEF Holds, Holding
  <2>2. /\ status' = status
        /\ \/ /\ pc[w] \in Prepared /\ row'[w] = row[w]
              /\ seen'[w] = seen[w]
           \/ seen'[w] = status[row'[w].period]
    BY <1>4, <2>1, HoldingFunds
  <2>3. pc'[w] \notin {"reply", "relookup"}
    BY <1>4 DEF Prepared
  <2> QED  BY <1>1, <2>2, <2>3 DEF Telling
<1> QED  BY <1>2, <1>3, <1>4

(* The others still are.                                                    *)
LEMMA OtherTelling ==
    ASSUME CapitalInv, DocumentInv, NEW w \in Worker, ServingStep(w),
           NEW v \in Worker \ {w}, Telling(v), SameServing(v)
    PROVE  Telling(v)'
<1> SUFFICES ASSUME Capital(v)
             PROVE  /\ pc'[v] \in {"reply", "relookup"}
                          => Told(documents', book', status', req'[v], outcome'[v])
                    /\ pc'[v] \in Prepared /\ seen'[v] = "CLOSED"
                          => status'[row'[v].period] = "CLOSED"
  BY DEF Telling, SameServing, Capital
<1>1. /\ pc'[v] = pc[v] /\ req'[v] = req[v] /\ outcome'[v] = outcome[v]
      /\ seen'[v] = seen[v] /\ row'[v] = row[v]
  BY DEF SameServing
<1>2. Told(documents, book, status, req[v], outcome[v])
        => Told(documents', book', status', req[v], outcome[v])
  BY ToldLater
<1>3. pc[v] \in Prepared => row[v].period \in Period
  <2>1. Serving(v)
    BY DEF CapitalInv, ServingInv
  <2> QED  BY <2>1 DEF Serving, RowOfCapital, Accepted
<1>4. \A p \in Period : status[p] = "CLOSED" => status'[p] = "CLOSED"
  BY ClosedStays
<1> QED  BY <1>1, <1>2, <1>3, <1>4 DEF Telling

(* An answer about a call or a distribution is what its worker was to tell. *)
LEMMA SaidByItsWorker ==
    ASSUME CapitalInv, NEW w \in Worker, ServingStep(w), NEW a \in answers',
           a \notin answers, a[1].kind \in Documented
    PROVE  Capital(w) /\ pc[w] = "reply" /\ a = <<req[w], outcome[w]>>
<1>1. CASE Reply(w) /\ Leave(w)
  <2>1. pc[w] = "reply" /\ a = <<req[w], outcome[w]>>
    BY <1>1 DEF Reply
  <2> QED  BY <2>1 DEF Capital
<1>2. CASE \E r \in Request : Arrive(w, r) /\ UNCHANGED <<documents, doc>>
  BY <1>2 DEF Arrive, ReceiveTransfer, ReceiveReversal, ReceiveClose, Receive
<1>3. CASE \E r \in CapitalRequest : ReceiveCapital(w, r)
  BY <1>3 DEF ReceiveCapital, Receive
<1>4. CASE LedgerStep(w)
  BY <1>4 DEF LedgerStep, Lookup, Relookup, Examine, LockAccount, Check, Insert,
     InsertEntries, Commit, Close, LockPeriod, DecideClose, CommitClose
<1>5. CASE CapitalStep(w) \/ FundTimeout(w)
  BY <1>5 DEF CapitalStep, LookupCapital, LockFund, PrepareCapital,
     NumberDocument, CommitCapital, Commit, RelookupCapital, FundTimeout
<1>6. CASE Crash(w) \/ Timeout(w)
  BY <1>6 DEF Crash, Timeout
<1> QED  BY <1>1, <1>2, <1>3, <1>4, <1>5, <1>6 DEF ServingStep, CapitalProceed

(* What was said and what is about to be said is so.                        *)
LEMMA TellingInvStep ==
    CapitalInv /\ DocumentInv /\ TellingInv /\ [CapitalNext]_capitalVars
        => TellingInv'
<1> SUFFICES ASSUME CapitalInv, DocumentInv, TellingInv,
                    [CapitalNext]_capitalVars
             PROVE  TellingInv'
  OBVIOUS
<1>1. ASSUME NEW w \in Worker, ServingStep(w)
      PROVE  TellingInv'
  <2>1. \A v \in Worker \ {w} : SameServing(v)
    BY <1>1, OthersServe DEF CapitalInv, E!Safe, E!EngineInv
  <2>2. \A v \in Worker : Telling(v)'
    <3>1. Telling(w)'
      BY <1>1, OwnTelling DEF TellingInv
    <3>2. \A v \in Worker \ {w} : Telling(v)'
      BY <1>1, <2>1, OtherTelling DEF TellingInv
    <3> QED  BY <3>1, <3>2
  <2>3. ASSUME NEW a \in answers', a[1].kind \in Documented
        PROVE  Told(documents', book', status', a[1], a[2])
    <3>1. CASE a \in answers
      <4>1. Told(documents, book, status, a[1], a[2])
        BY <2>3, <3>1 DEF TellingInv
      <4> QED  BY <1>1, <4>1, ToldLater
    <3>2. CASE a \notin answers
      <4>1. Capital(w) /\ pc[w] = "reply" /\ a = <<req[w], outcome[w]>>
        BY <1>1, <2>3, <3>2, SaidByItsWorker
      <4>2. Told(documents, book, status, a[1], a[2])
        BY <4>1 DEF TellingInv, Telling
      <4> QED  BY <1>1, <4>2, ToldLater
    <3> QED  BY <3>1, <3>2
  <2> QED  BY <2>2, <2>3 DEF TellingInv
<1>2. CASE UNCHANGED <<book, status, pc, req, row, seen, outcome, answers, documents>>
  BY <1>2 DEF TellingInv, Telling, Capital
<1> QED  BY <1>1, <1>2, ServingStepKinds DEF Tick, vars, job

(* What clients are told of calls and distributions is so, and stays so: a  *)
(* call that was said to be made is made, a key that was said to be in use  *)
(* for something else is, a period said to be closed is closed, and no two  *)
(* documents ever fight over a number (create_capital_call,                 *)
(* create_distribution, run_idempotent).                                    *)
THEOREM CapitalAnswersAreTrue == CapitalSpec => []CapitalTruthful
<1>1. CapitalInit => TellingInv
  <2> SUFFICES ASSUME CapitalInit
               PROVE  TellingInv
    OBVIOUS
  <2>1. answers = {} /\ \A w \in Worker : ~Capital(w)
    BY DEF CapitalInit, Init, Capital
  <2> QED  BY <2>1 DEF TellingInv, Telling
<1>2. TellingInv => CapitalTruthful
  <2> SUFFICES ASSUME TellingInv, NEW a \in answers, a[1].kind \in Documented
               PROVE  LET r == a[1]  o == a[2]  IN
                      /\ o \in {"created", "replayed"} => \E d \in documents : Made(d, r)
                      /\ o = "idempotency_conflict" =>
                            KeyTaken(book, r.key) /\ ~\E d \in documents : Made(d, r)
                      /\ o = "period_closed" => status[<<r.fund, r.on>>] = "CLOSED"
                      /\ o # "internal_error"
    BY DEF CapitalTruthful
  <2>1. Told(documents, book, status, a[1], a[2])
    BY DEF TellingInv
  <2> QED  BY <2>1 DEF Told, Done, Made
<1> QED  BY <1>1, <1>2, TellingInvStep, CapitalInvariant, DocumentInvariant, PTL
         DEF CapitalSpec

-----------------------------------------------------------------------------
(* Commitments: what the next transfer does to the contributions. *)

(* What the next transfer t of a book b counts as.                          *)
NextType(b, t) == IF t.reverses # 0 THEN b[t.reverses].type ELSE t.type

(* Reversals name transfers of the book.                                    *)
Backed(b) == \A i \in DOMAIN b : b[i].reverses # 0 => b[i].reverses \in DOMAIN b

(* The entries that Contributed counts.                                     *)
CallEntries(b, f, lp) ==
    {e \in Entries(b) : /\ EntryOf(b, e).account = Chart[f].lp[lp]
                        /\ EffectiveType(b, e[1]) = "CAPITAL_CALL"}

(* A transfer that counts as a call takes from an LP what it moves on its   *)
(* account; no other touches what the LP has paid in.                       *)
LEMMA ContributedOfAppend ==
    ASSUME NEW b \in Seq(TransferRow), IsFiniteSet(Entries(b)), Backed(b),
           NEW t \in TransferRow, t.reverses # 0 => t.reverses \in DOMAIN b,
           NextType(b, t) = "CAPITAL_CALL" => Bases(t.legs) = Amounts(t.legs),
           NEW f, NEW lp
    PROVE  LET paid == Delta(t.legs, Chart[f].lp[lp]) IN
           /\ Contributed(b, f, lp) \in Int /\ paid \in Int
           /\ Contributed(Append(b, t), f, lp)
                = Contributed(b, f, lp)
                    - (IF NextType(b, t) = "CAPITAL_CALL" THEN paid ELSE 0)
<1> DEFINE n == Len(b) + 1
           c == Append(b, t)
           a == Chart[f].lp[lp]
           J == {j \in DOMAIN t.legs : t.legs[j].account = a}
           F == CallEntries(b, f, lp)
           paid == Delta(t.legs, a)
<1>1. /\ Entries(c) = Entries(b) \cup ({n} \X DOMAIN t.legs)
      /\ \A e \in Entries(b) : EntryOf(c, e) = EntryOf(b, e)
      /\ \A j \in DOMAIN t.legs : EntryOf(c, <<n, j>>) = t.legs[j]
  BY EntriesOfAppend
<1>2. /\ DOMAIN c = DOMAIN b \cup {n} /\ c[n] = t
      /\ \A i \in DOMAIN b : c[i] = b[i]
  OBVIOUS
<1>3. \A e \in Entries(b) : e[1] \in DOMAIN b
  BY DEF Entries
<1>4. \A i \in DOMAIN b : EffectiveType(c, i) = EffectiveType(b, i)
  BY <1>2 DEF EffectiveType, Backed
<1>5. EffectiveType(c, n) = NextType(b, t)
  BY <1>2 DEF EffectiveType, NextType
<1>6. F \in SUBSET Entries(b) /\ J \in SUBSET DOMAIN t.legs
  BY DEF CallEntries
<1>7. \A e \in Entries(b) : e \in CallEntries(c, f, lp) <=> e \in F
  BY <1>1, <1>3, <1>4 DEF CallEntries
<1>8. \A j \in DOMAIN t.legs :
         <<n, j>> \in CallEntries(c, f, lp)
           <=> j \in J /\ NextType(b, t) = "CAPITAL_CALL"
  BY <1>1, <1>5 DEF CallEntries
<1>9. CallEntries(c, f, lp) \in SUBSET Entries(c)
  BY DEF CallEntries
<1>10. /\ Contributed(b, f, lp) = -Imbalance(b, F)
       /\ Contributed(c, f, lp) = -Imbalance(c, CallEntries(c, f, lp))
  BY DEF Contributed, CallEntries
<1>11. /\ SideOf(t, J, "DEBIT") = {j \in Side(t.legs, "DEBIT") : t.legs[j].account = a}
       /\ SideOf(t, J, "CREDIT") = {j \in Side(t.legs, "CREDIT") : t.legs[j].account = a}
  BY DEF SideOf, Side
<1>12. paid = SumOf(SideOf(t, J, "DEBIT"), Amounts(t.legs))
                - SumOf(SideOf(t, J, "CREDIT"), Amounts(t.legs))
  BY <1>11, Zenon DEF Delta
<1>13. paid \in Int
  BY BalanceOfAppend
<1> HIDE DEF F, J, c, paid
<1>14. /\ Imbalance(c, F) = Imbalance(b, F)
       /\ Imbalance(b, F) \in Int
       /\ Imbalance(c, AndNew(b, F, J))
            = Imbalance(b, F) + (SumOf(SideOf(t, J, "DEBIT"), Bases(t.legs))
                                   - SumOf(SideOf(t, J, "CREDIT"), Bases(t.legs)))
  BY <1>6, ImbalanceGrows DEF c
<1>15. CASE NextType(b, t) = "CAPITAL_CALL"
  <2>1. CallEntries(c, f, lp) = AndNew(b, F, J)
    BY <1>1, <1>6, <1>7, <1>8, <1>9, <1>15 DEF AndNew
  <2>2. Imbalance(c, AndNew(b, F, J)) = Imbalance(b, F) + paid
    BY <1>12, <1>14, <1>15
  <2>3. Contributed(c, f, lp) = Contributed(b, f, lp) - paid
    BY <1>10, <1>13, <1>14, <2>1, <2>2
  <2> QED  BY <1>10, <1>13, <1>14, <1>15, <2>3 DEF c, paid
<1>16. CASE NextType(b, t) # "CAPITAL_CALL"
  <2>1. CallEntries(c, f, lp) = F
    <3>1. \A e \in {n} \X DOMAIN t.legs : e \notin CallEntries(c, f, lp)
      BY <1>8, <1>16
    <3> QED  BY <1>1, <1>6, <1>7, <1>9, <3>1
  <2>2. Contributed(c, f, lp) = Contributed(b, f, lp)
    BY <1>10, <1>14, <2>1
  <2> QED  BY <1>10, <1>13, <1>14, <1>16, <2>2 DEF c, paid
<1> QED  BY <1>15, <1>16

(* A transfer as a call posts it.                                           *)
CallRow(t) == \E r \in Accepted : r.kind = "CAPITAL_CALL" /\ t = RowOfCapital(r)

(* It takes from each LP of its fund its share, and from no other LP.       *)
LEMMA PaidByCall ==
    ASSUME NEW r \in Accepted, r.kind = "CAPITAL_CALL",
           NEW f \in Fund, NEW lp \in DOMAIN Commitment[f]
    PROVE  LET t == RowOfCapital(r)
               paid == -Delta(t.legs, Chart[f].lp[lp])
           IN  /\ Bases(t.legs) = Amounts(t.legs)
               /\ paid \in Nat
               /\ paid = IF f = r.fund THEN Shares(f, r.total)[lp] ELSE 0
<1> DEFINE legs == CapitalLegs(r.kind, r.fund, r.total)
           a == Chart[f].lp[lp]
<1>1. /\ r.kind \in Documented /\ r.fund \in Fund /\ r.total \in Nat
      /\ r.total % Penny = 0 /\ Allocatable(Commitment[r.fund])
  BY AcceptedFields
<1>2. RowOfCapital(r).legs = legs
  BY DEF RowOfCapital
<1>3. /\ \A j \in DOMAIN legs : AccountFund[legs[j].account] = r.fund
      /\ Bases(legs) = Amounts(legs)
  BY <1>1, LegsMoveMoney
<1>4. CASE f = r.fund
  <2>1. Delta(legs, a) = -Shares(f, r.total)[lp]
    BY <1>1, <1>4, CashAndShares
  <2>2. Shares(f, r.total)[lp] \in Nat
    BY <1>1, <1>4, SharesAddUp
  <2> HIDE DEF legs, a
  <2> QED  BY <1>2, <1>3, <1>4, <2>1, <2>2 DEF a
<1>5. CASE f # r.fund
  <2>1. AccountFund[a] = f
    BY ChartOfFund
  <2>2. \A d : {j \in Side(legs, d) : legs[j].account = a} = {}
    BY <1>3, <1>5, <2>1 DEF Side
  <2>3. SumOf({}, Amounts(legs)) = 0
    BY EmptySum
  <2> HIDE DEF legs, a
  <2>4. Delta(legs, a) = SumOf({}, Amounts(legs)) - SumOf({}, Amounts(legs))
    BY <2>2, Zenon DEF Delta
  <2>5. Delta(legs, Chart[f].lp[lp]) = 0
    BY <2>3, <2>4 DEF a
  <2>6. Delta(RowOfCapital(r).legs, Chart[f].lp[lp]) = 0
    BY <1>2, <2>5, Zenon
  <2>7. Bases(RowOfCapital(r).legs) = Amounts(RowOfCapital(r).legs)
    BY <1>2, <1>3
  <2> DEFINE took == Delta(RowOfCapital(r).legs, Chart[f].lp[lp])
  <2>8. took = 0
    BY <2>6
  <2> HIDE DEF took
  <2>9. -took = 0
    <3>0. took \in Int
      BY <2>8
    <3>1. -took = 0 - took
      BY <3>0
    <3>2. 0 - took = 0
      BY <2>8
    <3> QED  BY <3>1, <3>2, Zenon
  <2> QED  BY <1>5, <2>7, <2>9 DEF took
<1> QED  BY <1>4, <1>5

(* A minus sign is a subtraction.                                           *)
LEMMA Negatives == \A x \in Int : -x = 0 - x /\ -x \in Int
OBVIOUS

(* A book with its calls as they were posted and its reversals true to what *)
(* they reverse.                                                            *)
SoundBook(b) ==
    /\ b \in Seq(TransferRow) /\ IsFiniteSet(Entries(b))
    /\ \A i \in DOMAIN b : E!Mirrors(b, b[i])
    /\ \A i \in DOMAIN b : b[i].type = "CAPITAL_CALL" => CallRow(b[i])

(* A transfer that such a book may be given next.                           *)
SoundNext(b, t) ==
    /\ t \in TransferRow
    /\ E!Mirrors(b, t)
    /\ t.reverses # 0 => ReversalsOf(b, t.reverses) = {}
    /\ t.type = "CAPITAL_CALL" => CallRow(t)

(* Calls stand until they are reversed.                                     *)
LEMMA StandingOfAppend ==
    ASSUME NEW b, NEW t, SoundBook(b), SoundNext(b, t)
    PROVE  LET n == Len(b) + 1  c == Append(b, t) IN
           /\ Standing(c) \subseteq DOMAIN b \cup {n}
           /\ Standing(b) \subseteq DOMAIN b
           /\ n \notin DOMAIN b /\ c[n] = t
           /\ \A i \in DOMAIN b : c[i] = b[i]
           /\ \A i \in DOMAIN b :
                 i \in Standing(c) <=> i \in Standing(b) /\ i # t.reverses
           /\ n \in Standing(c) <=> t.type = "CAPITAL_CALL"
<1> DEFINE n == Len(b) + 1
           c == Append(b, t)
<1>0. b \in Seq(TransferRow) /\ t \in TransferRow
  BY DEF SoundBook, SoundNext
<1>1. /\ DOMAIN c = DOMAIN b \cup {n} /\ n \notin DOMAIN b /\ c[n] = t
      /\ \A i \in DOMAIN b : c[i] = b[i]
      /\ 0 \notin DOMAIN b /\ n # 0
  BY <1>0
<1>2. /\ \A i \in DOMAIN b : b[i].reverses # 0 => b[i].reverses \in DOMAIN b
      /\ t.reverses # 0 => t.reverses \in DOMAIN b
  BY DEF SoundBook, SoundNext, E!Mirrors
<1> HIDE DEF n, c
<1>3. \A i \in DOMAIN b : ReversalsOf(c, i) = {}
         <=> ReversalsOf(b, i) = {} /\ t.reverses # i
  BY <1>1 DEF ReversalsOf
<1>4. ReversalsOf(c, n) = {}
  BY <1>1, <1>2 DEF ReversalsOf
<1> QED  BY <1>1, <1>3, <1>4 DEF Standing, n, c

(* What an LP paid in by the calls that stand is a number each.             *)
LEMMA PaidInByEach ==
    ASSUME NEW b, SoundBook(b), NEW f \in Fund, NEW lp \in DOMAIN Commitment[f]
    PROVE  /\ IsFiniteSet(Standing(b))
           /\ \A i \in Standing(b) :
                 /\ PaidIn(b, f, lp)[i] \in Nat
                 /\ PaidIn(b, f, lp)[i] = -Delta(b[i].legs, Chart[f].lp[lp])
           /\ SumOf(Standing(b), PaidIn(b, f, lp)) \in Nat
<1>1. IsFiniteSet(Standing(b))
  <2>1. Standing(b) \subseteq 1..Len(b) /\ Len(b) \in Nat
    BY DEF Standing, SoundBook
  <2>2. IsFiniteSet(1..Len(b))
    BY <2>1, FS_Interval
  <2> QED  BY <2>1, <2>2, FS_Subset
<1>2. ASSUME NEW i \in Standing(b)
      PROVE  /\ PaidIn(b, f, lp)[i] \in Nat
             /\ PaidIn(b, f, lp)[i] = -Delta(b[i].legs, Chart[f].lp[lp])
  <2>1. PICK r \in Accepted : r.kind = "CAPITAL_CALL" /\ b[i] = RowOfCapital(r)
    BY DEF SoundBook, Standing, CallRow
  <2>2. -Delta(b[i].legs, Chart[f].lp[lp]) \in Nat
    BY <2>1, PaidByCall
  <2> QED  BY <2>2 DEF PaidIn
<1> HIDE DEF PaidIn
<1> QED  BY <1>1, <1>2, UnitsFinite

(* What a reversal takes back of a call is what the call took.              *)
LEMMA PaidBack ==
    ASSUME NEW t, CallRow(t), t \in TransferRow, NEW a,
           -Delta(t.legs, a) \in Nat
    PROVE  /\ Bases(Flip(t.legs)) = Amounts(Flip(t.legs))
           /\ Delta(Flip(t.legs), a) = -Delta(t.legs, a)
<1>1. PICK r \in Accepted : r.kind = "CAPITAL_CALL" /\ t = RowOfCapital(r)
  BY DEF CallRow
<1>2. Bases(t.legs) = Amounts(t.legs)
  <2>1. t.legs = CapitalLegs(r.kind, r.fund, r.total)
    BY <1>1 DEF RowOfCapital
  <2>2. /\ r.kind \in Documented /\ r.fund \in Fund /\ r.total \in Nat
        /\ r.total % Penny = 0 /\ Allocatable(Commitment[r.fund])
    BY AcceptedFields
  <2>3. Bases(CapitalLegs(r.kind, r.fund, r.total))
          = Amounts(CapitalLegs(r.kind, r.fund, r.total))
    BY <2>2, LegsMoveMoney
  <2> QED  BY <2>1, <2>3
<1>3. t.legs \in Seq(Leg)
  BY DEF TransferRow
<1>4. \A j \in DOMAIN t.legs : t.legs[j].base = t.legs[j].amount
  <2> TAKE j \in DOMAIN t.legs
  <2>1. Bases(t.legs)[j] = t.legs[j].base /\ Amounts(t.legs)[j] = t.legs[j].amount
    BY DEF Bases, Amounts
  <2> QED  BY <1>2, <2>1
<1>5. /\ DOMAIN Flip(t.legs) = DOMAIN t.legs
      /\ \A j \in DOMAIN t.legs :
            /\ Flip(t.legs)[j].base = t.legs[j].base
            /\ Flip(t.legs)[j].amount = t.legs[j].amount
  <2>1. \A j \in DOMAIN t.legs : t.legs[j] \in Leg
    BY <1>3
  <2> QED  BY <2>1 DEF Flip, Leg
<1>6. Bases(Flip(t.legs)) = Amounts(Flip(t.legs))
  BY <1>4, <1>5 DEF Bases, Amounts
<1>7. Delta(t.legs, a) + Delta(Flip(t.legs), a) = 0
  BY <1>3, FlipCancels
<1>8. Delta(t.legs, a) \in Int /\ Delta(Flip(t.legs), a) \in Int
  <2>1. /\ t.legs \in Seq(Leg) /\ Flip(t.legs) \in Seq(Leg)
    BY <1>3, FlipCancels
  <2> QED  BY <2>1, DeltaIsWhole
<1>9. Delta(Flip(t.legs), a) = -Delta(t.legs, a)
  <2> DEFINE x == Delta(t.legs, a)  y == Delta(Flip(t.legs), a)
  <2>1. x \in Int /\ y \in Int /\ x + y = 0
    BY <1>7, <1>8
  <2> HIDE DEF x, y
  <2>2. y = -x
    BY <2>1
  <2> QED  BY <2>2 DEF x, y
<1> QED  BY <1>6, <1>9

(* The contributions are still what the standing calls took, one call more  *)
(* or one reversal; and only a call makes them grow.                        *)
LEMMA ContributionsAddUp ==
    ASSUME NEW b, NEW t, SoundBook(b), SoundNext(b, t),
           NEW f \in Fund, NEW lp \in DOMAIN Commitment[f],
           Contributed(b, f, lp) = SumOf(Standing(b), PaidIn(b, f, lp))
    PROVE  LET c == Append(b, t)
               paid == -Delta(t.legs, Chart[f].lp[lp])
           IN  /\ Contributed(c, f, lp) = SumOf(Standing(c), PaidIn(c, f, lp))
               /\ Contributed(b, f, lp) \in Nat /\ Contributed(c, f, lp) \in Nat
               /\ t.type = "CAPITAL_CALL" =>
                     /\ paid \in Nat
                     /\ Contributed(c, f, lp) = Contributed(b, f, lp) + paid
               /\ t.type # "CAPITAL_CALL" =>
                     Contributed(c, f, lp) <= Contributed(b, f, lp)
<1> DEFINE n == Len(b) + 1
           c == Append(b, t)
           a == Chart[f].lp[lp]
           S == Standing(b)
           P == PaidIn(b, f, lp)
           Q == PaidIn(c, f, lp)
           took == Delta(t.legs, a)
<1>1. /\ b \in Seq(TransferRow) /\ IsFiniteSet(Entries(b)) /\ t \in TransferRow
      /\ Backed(b) /\ (t.reverses # 0 => t.reverses \in DOMAIN b)
      /\ t.type = "REVERSAL" <=> t.reverses # 0
      /\ t.reverses # 0 => t.legs = Flip(b[t.reverses].legs)
  <2>1. \A legs : E!Flip(legs) = Flip(legs)
    BY EngineData
  <2> QED  BY <2>1 DEF SoundBook, SoundNext, E!Mirrors, Backed
<1>2. /\ Standing(c) \subseteq DOMAIN b \cup {n}
      /\ S \subseteq DOMAIN b
      /\ n \notin DOMAIN b /\ c[n] = t
      /\ \A i \in DOMAIN b : c[i] = b[i]
      /\ \A i \in DOMAIN b : i \in Standing(c) <=> i \in S /\ i # t.reverses
      /\ n \in Standing(c) <=> t.type = "CAPITAL_CALL"
  BY StandingOfAppend
<1>3. /\ IsFiniteSet(S)
      /\ \A i \in S : P[i] \in Nat /\ P[i] = -Delta(b[i].legs, a)
      /\ SumOf(S, P) \in Nat
  BY PaidInByEach
<1>4. Contributed(b, f, lp) = SumOf(S, P)
  OBVIOUS
<1>5. \A i \in S : i \in Standing(c) => Q[i] = P[i]
  BY <1>2 DEF PaidIn
<1> HIDE DEF S, P, c, n
<1>6. /\ took \in Int /\ Contributed(b, f, lp) \in Int
      /\ (NextType(b, t) = "CAPITAL_CALL" => Bases(t.legs) = Amounts(t.legs))
           => Contributed(c, f, lp)
                = Contributed(b, f, lp)
                    - (IF NextType(b, t) = "CAPITAL_CALL" THEN took ELSE 0)
  <2>1. took \in Int /\ Contributed(b, f, lp) \in Int
    <3>1. t.legs \in Seq(Leg)
      BY <1>1 DEF TransferRow
    <3> QED  BY <1>3, <1>4, <3>1, DeltaIsWhole
  <2>2. ASSUME NextType(b, t) = "CAPITAL_CALL" => Bases(t.legs) = Amounts(t.legs)
        PROVE  Contributed(c, f, lp)
                 = Contributed(b, f, lp)
                     - (IF NextType(b, t) = "CAPITAL_CALL" THEN took ELSE 0)
    <3> HIDE DEF took
    <3> QED  BY <1>1, <2>2, ContributedOfAppend DEF c, took
  <2> QED  BY <2>1, <2>2
<1> HIDE DEF took, Q
<1>7. CASE t.type = "CAPITAL_CALL"
  <2>1. t.reverses = 0 /\ NextType(b, t) = "CAPITAL_CALL"
    BY <1>1, <1>7 DEF NextType
  <2>2. PICK r \in Accepted : r.kind = "CAPITAL_CALL" /\ t = RowOfCapital(r)
    BY <1>7 DEF SoundNext, CallRow
  <2>3. Bases(t.legs) = Amounts(t.legs) /\ -took \in Nat
    BY <2>2, PaidByCall DEF took
  <2>4. Contributed(c, f, lp) = Contributed(b, f, lp) - took
    BY <1>6, <2>1, <2>3
  <2>5. Standing(c) = S \cup {n}
    <3>1. 0 \notin S
      BY <1>1, <1>2
    <3> QED  BY <1>2, <1>7, <2>1, <3>1
  <2>6. Q[n] = -took
    BY <1>2, <1>7 DEF Q, PaidIn, took
  <2>7. SumOf(S \cup {n}, Q) = SumOf(S, Q) + Q[n]
    <3>1. \A i \in S : Q[i] \in Nat
      BY <1>3, <1>5, <2>5
    <3>2. n \notin S
      BY <1>2
    <3> QED  BY <1>3, <2>3, <2>6, <3>1, <3>2, SumWithOneMore
  <2>8. SumOf(S, Q) = SumOf(S, P)
    BY <1>5, <2>5, SumOfSame
  <2>9. SumOf(Standing(c), Q) = SumOf(S, P) + Q[n]
    BY <2>5, <2>7, <2>8
  <2>10. Contributed(c, f, lp) = Contributed(b, f, lp) + (-took)
    BY <1>6, <2>4
  <2> QED  BY <1>3, <1>4, <1>7, <2>3, <2>6, <2>9, <2>10
           DEF c, Q, took
<1>8. CASE t.reverses # 0 /\ b[t.reverses].type = "CAPITAL_CALL"
  <2> DEFINE i == t.reverses
  <2>1. i \in S /\ NextType(b, t) = "CAPITAL_CALL" /\ t.type = "REVERSAL"
    BY <1>1, <1>8 DEF S, Standing, SoundNext, NextType
  <2>2. /\ Bases(t.legs) = Amounts(t.legs)
        /\ took = P[i]
    <3>1. CallRow(b[i]) /\ b[i] \in TransferRow
      BY <1>1, <1>8 DEF SoundBook
    <3>2. -Delta(b[i].legs, a) \in Nat
      BY <1>3, <2>1
    <3>3. /\ Bases(Flip(b[i].legs)) = Amounts(Flip(b[i].legs))
          /\ Delta(Flip(b[i].legs), a) = -Delta(b[i].legs, a)
      BY <3>1, <3>2, PaidBack
    <3> QED  BY <1>1, <1>3, <1>8, <2>1, <3>3 DEF took
  <2>3. Contributed(c, f, lp) = Contributed(b, f, lp) - took
    BY <1>6, <2>1, <2>2
  <2>4. Standing(c) = S \ {i} /\ i \notin S \ {i} /\ S = (S \ {i}) \cup {i}
    BY <1>2, <2>1
  <2> HIDE DEF i
  <2>5. IsFiniteSet(S \ {i})
    BY <1>3, FS_Subset
  <2>6. SumOf((S \ {i}) \cup {i}, P) = SumOf(S \ {i}, P) + P[i]
    <3>1. \A j \in S \ {i} : P[j] \in Nat
      BY <1>3
    <3>2. P[i] \in Nat
      BY <1>3, <2>1
    <3> QED  BY <2>4, <2>5, <3>1, <3>2, SumWithOneMore
  <2>7. SumOf(S \ {i}, P) \in Nat
    <3>1. \A j \in S \ {i} : P[j] \in Nat
      BY <1>3
    <3> QED  BY <2>5, <3>1, UnitsFinite
  <2>8. SumOf(S \ {i}, Q) = SumOf(S \ {i}, P)
    <3>1. \A j \in S \ {i} : Q[j] = P[j]
      BY <1>5, <2>4
    <3> QED  BY <3>1, SumOfSame
  <2>9. SumOf(S, P) = SumOf(S \ {i}, P) + P[i]
    BY <2>4, <2>6, Zenon
  <2>10. SumOf(Standing(c), Q) = SumOf(S \ {i}, P)
    BY <2>4, <2>8, Zenon
  <2>11. P[i] \in Nat
    BY <1>3, <2>1
  <2>12. /\ Contributed(c, f, lp) = SumOf(Standing(c), Q)
         /\ Contributed(c, f, lp) \in Nat /\ Contributed(b, f, lp) \in Nat
         /\ Contributed(c, f, lp) <= Contributed(b, f, lp)
    <3> DEFINE total == SumOf(S, P)  rest == SumOf(S \ {i}, P)  one == P[i]
    <3>1. /\ total = rest + one /\ rest \in Nat /\ one \in Nat
          /\ Contributed(b, f, lp) = total
          /\ Contributed(c, f, lp) = Contributed(b, f, lp) - one
          /\ SumOf(Standing(c), Q) = rest
      BY <1>4, <2>2, <2>3, <2>7, <2>9, <2>10, <2>11, Zenon
    <3> HIDE DEF total, rest, one
    <3> QED  BY <3>1
  <2> QED  BY <2>1, <2>12 DEF c, Q
<1>9. CASE ~(t.type = "CAPITAL_CALL")
           /\ ~(t.reverses # 0 /\ b[t.reverses].type = "CAPITAL_CALL")
  <2>1. NextType(b, t) # "CAPITAL_CALL"
    BY <1>9 DEF NextType
  <2>2. Contributed(c, f, lp) = Contributed(b, f, lp)
    BY <1>6, <2>1
  <2>3. Standing(c) = S
    <3>1. t.reverses \notin S
      BY <1>1, <1>2, <1>9 DEF S, Standing
    <3> QED  BY <1>2, <1>9, <3>1
  <2>4. SumOf(S, Q) = SumOf(S, P)
    BY <1>5, <2>3, SumOfSame
  <2> QED  BY <1>3, <1>4, <1>9, <2>2, <2>3, <2>4 DEF c, Q
<1> QED  BY <1>7, <1>8, <1>9

(* The book is such a book,                                                 *)
LEMMA BookIsSound ==
    ASSUME CapitalInv, DocumentInv
    PROVE  SoundBook(book)
<1>1. \A i \in DOMAIN book : E!Mirrors(book, book[i])
  BY DEF CapitalInv, E!Safe, E!EngineInv, E!ReversalInv, E!BookMirrors
<1>2. ASSUME NEW i \in DOMAIN book, book[i].type = "CAPITAL_CALL"
      PROVE  CallRow(book[i])
  <2>1. PICK d \in documents : d.transfer = i
    BY <1>2 DEF DocumentInv, BookDocumented, Documented
  <2>2. PICK r \in Accepted : DocumentFor(book, d, r)
    BY DEF DocumentInv, BookDocumented
  <2>3. book[i] = RowOfCapital(r)
    BY <2>1, <2>2 DEF DocumentFor
  <2>4. r.kind = "CAPITAL_CALL"
    BY <1>2, <2>3 DEF RowOfCapital
  <2> QED  BY <2>3, <2>4 DEF CallRow
<1> QED  BY <1>1, <1>2, BookTyped DEF SoundBook

(* and what is committed is fit for it: the target of a reversal is         *)
(* reversed by no other.                                                    *)
LEMMA CommitIsSound ==
    ASSUME CapitalInv, NEW w \in Worker, pc[w] = "commit"
    PROVE  SoundNext(book, row[w])
<1>0. Serving(w)
  BY DEF CapitalInv, ServingInv
<1>1. enginePc[w] = "commit" /\ engineRow[w] = row[w]
  BY SeenByEngine DEF InEngine, Prepared
<1>2. /\ E!TypeOK /\ E!Bound(w) /\ E!Fresh(w)
  BY DEF CapitalInv, E!Safe, E!EngineInv, E!ReversalInv, E!KeyInv
<1>3. row[w] \in TransferRow
  <2>1. engineRow[w] \in E!TransferRow
    BY <1>1, <1>2, E!RowTyped, EngineAssumptions DEF E!Posting
  <2>2. E!TransferRow = TransferRow
    BY DEF E!TransferRow, E!TransferType, E!Leg, TransferRow, TransferType, Leg
  <2> QED  BY <1>1, <2>1, <2>2
<1>4. E!Mirrors(book, row[w])
  BY <1>1, <1>2 DEF E!Bound, E!Posting
<1>5. row[w].reverses # 0 => ReversalsOf(book, row[w].reverses) = {}
  BY <1>1, <1>2 DEF E!Fresh, E!Apart, E!Inserted, ReversalsOf
<1>6. row[w].type = "CAPITAL_CALL" => CallRow(row[w])
  <2>1. CASE Capital(w)
    <3>1. req[w] \in Accepted /\ row[w] = RowOfCapital(req[w])
      BY <1>0, <2>1 DEF Serving, Prepared
    <3>2. row[w].type = req[w].kind
      BY <3>1 DEF RowOfCapital
    <3> QED  BY <3>1, <3>2 DEF CallRow
  <2>2. CASE ~Capital(w)
    BY <1>0, <2>2 DEF Serving, Posting, Documented
  <2> QED  BY <2>1, <2>2
<1> QED  BY <1>3, <1>4, <1>5, <1>6 DEF SoundNext

(* A commit keeps the sums, and only that of a call makes an LP of its fund *)
(* pay in more: its share.                                                  *)
LEMMA CommitPays ==
    ASSUME CapitalInv, DocumentInv, CommitmentInv,
           NEW w \in Worker, pc[w] = "commit", book' = Append(book, row[w]),
           NEW f \in Fund, NEW lp \in DOMAIN Commitment[f]
    PROVE  /\ Contributed(book', f, lp) = SumOf(Standing(book'), PaidIn(book', f, lp))
           /\ Contributed(book, f, lp) \in Nat /\ Contributed(book', f, lp) \in Nat
           /\ \/ Contributed(book', f, lp) <= Contributed(book, f, lp)
              \/ /\ Capital(w) /\ req[w].kind = "CAPITAL_CALL" /\ req[w].fund = f
                 /\ Shares(f, req[w].total)[lp] \in Nat
                 /\ Contributed(book', f, lp)
                      = Contributed(book, f, lp) + Shares(f, req[w].total)[lp]
<1> DEFINE t == row[w]
           paid == -Delta(t.legs, Chart[f].lp[lp])
<1>1. SoundBook(book) /\ SoundNext(book, t)
  BY BookIsSound, CommitIsSound
<1>2. Contributed(book, f, lp) = SumOf(Standing(book), PaidIn(book, f, lp))
  BY DEF CommitmentInv
<1>3. /\ Contributed(book', f, lp) = SumOf(Standing(book'), PaidIn(book', f, lp))
      /\ Contributed(book, f, lp) \in Nat /\ Contributed(book', f, lp) \in Nat
      /\ t.type = "CAPITAL_CALL" =>
            /\ paid \in Nat
            /\ Contributed(book', f, lp) = Contributed(book, f, lp) + paid
      /\ t.type # "CAPITAL_CALL" =>
            Contributed(book', f, lp) <= Contributed(book, f, lp)
  BY <1>1, <1>2, ContributionsAddUp
<1>4. CASE t.type = "CAPITAL_CALL"
  <2>0. Serving(w)
    BY DEF CapitalInv, ServingInv
  <2>1. Capital(w)
    BY <1>4, <2>0 DEF Serving, Posting, Documented
  <2>2. req[w] \in Accepted /\ t = RowOfCapital(req[w])
    BY <2>0, <2>1 DEF Serving, Prepared
  <2>3. req[w].kind = "CAPITAL_CALL"
    BY <1>4, <2>2 DEF RowOfCapital
  <2>4. paid = IF f = req[w].fund THEN Shares(f, req[w].total)[lp] ELSE 0
    BY <2>2, <2>3, PaidByCall
  <2>5. paid \in Nat /\ Contributed(book', f, lp) = Contributed(book, f, lp) + paid
    BY <1>3, <1>4
  <2> HIDE DEF paid
  <2>6. CASE f = req[w].fund
    BY <1>3, <2>1, <2>3, <2>4, <2>5, <2>6
  <2>7. CASE f # req[w].fund
    <3>1. paid = 0
      BY <2>4, <2>7
    <3>2. Contributed(book', f, lp) <= Contributed(book, f, lp)
      BY <1>3, <2>5, <3>1
    <3> QED  BY <1>3, <3>2
  <2> QED  BY <2>6, <2>7
<1>5. CASE t.type # "CAPITAL_CALL"
  BY <1>3, <1>5
<1> QED  BY <1>4, <1>5

(* What fits the commitments fits them whatever another worker commits: the *)
(* fund is held.                                                            *)
LEMMA StillFits ==
    ASSUME CapitalInv, DocumentInv, CommitmentInv, NEW w \in Worker,
           pc[w] = "commit", book' = Append(book, row[w]),
           NEW v \in Worker \ {w}, Capital(v), pc[v] \in Prepared,
           req[v].kind = "CAPITAL_CALL", req'[v] = req[v]
    PROVE  Overcalled(req[v])' = {}
<1> DEFINE r == req[v]
           f == r.fund
<1>1. /\ r.fund \in Fund /\ r.total \in Nat /\ r.total % Penny = 0
      /\ Allocatable(Commitment[r.fund])
  <2>1. r \in Accepted
    BY DEF CapitalInv, ServingInv, Serving
  <2> QED  BY <2>1, AcceptedFields
<1>2. Capital(w) => req[w].fund # f
  BY DEF DocumentInv, FundExclusive, Holds, Holding, Prepared
<1>3. \A lp \in DOMAIN Commitment[f] :
         ~(Shares(f, r.total)[lp] > Commitment[f][lp] - Contributed(book, f, lp))
  BY DEF CommitmentInv, Overcalled
<1>4. \A lp \in DOMAIN Commitment[f] : Commitment[f][lp] \in Nat
  BY <1>1, ChartOfFund
<1>5. \A lp \in DOMAIN Commitment[f] : Shares(f, r.total)[lp] \in Nat
  BY <1>1, SharesAddUp
<1>6. ASSUME NEW lp \in DOMAIN Commitment[f]
      PROVE  ~(Shares(f, r.total)[lp] > Commitment[f][lp] - Contributed(book', f, lp))
  <2>1. /\ Contributed(book, f, lp) \in Nat /\ Contributed(book', f, lp) \in Nat
        /\ Contributed(book', f, lp) <= Contributed(book, f, lp)
    BY <1>1, <1>2, CommitPays
  <2> HIDE DEF r, f
  <2> QED  BY <1>3, <1>4, <1>5, <2>1
<1>7. Overcalled(req[v])' = {lp \in DOMAIN Commitment[f] :
         Shares(f, r.total)[lp] > Commitment[f][lp] - Contributed(book', f, lp)}
  BY DEF Overcalled
<1> HIDE DEF r, f
<1> QED  BY <1>6, <1>7

(* Contributions stay what the standing calls took, and within the          *)
(* commitments; a call on its way keeps fitting them.                       *)
LEMMA CommitmentInvStep ==
    CapitalInv /\ DocumentInv /\ CommitmentInv /\ [CapitalNext]_capitalVars
        => CommitmentInv'
<1> SUFFICES ASSUME CapitalInv, DocumentInv, CommitmentInv,
                    [CapitalNext]_capitalVars
             PROVE  CommitmentInv'
  OBVIOUS
<1>1. ASSUME NEW w \in Worker, ServingStep(w)
      PROVE  CommitmentInv'
  <2>0. \A v \in Worker \ {w} : SameServing(v)
    BY <1>1, OthersServe DEF CapitalInv, E!Safe, E!EngineInv
  <2>1. \/ book' = book
        \/ pc[w] = "commit" /\ pc'[w] = "reply" /\ book' = Append(book, row[w])
    BY <1>1, BookSteps
  <2>2. ASSUME NEW f \in Fund, NEW lp \in DOMAIN Commitment[f]
        PROVE  /\ Contributed(book', f, lp)
                    = SumOf(Standing(book'), PaidIn(book', f, lp))
               /\ Contributed(book', f, lp) \in 0..Commitment[f][lp]
    <3>1. Contributed(book, f, lp) \in 0..Commitment[f][lp]
      BY DEF CommitmentInv, WithinCommitment
    <3>2. CASE book' = book
      BY <3>1, <3>2 DEF CommitmentInv
    <3>3. CASE pc[w] = "commit" /\ book' = Append(book, row[w])
      <4>1. /\ Contributed(book', f, lp)
                 = SumOf(Standing(book'), PaidIn(book', f, lp))
            /\ Contributed(book, f, lp) \in Nat
            /\ Contributed(book', f, lp) \in Nat
            /\ \/ Contributed(book', f, lp) <= Contributed(book, f, lp)
               \/ /\ Capital(w) /\ req[w].kind = "CAPITAL_CALL" /\ req[w].fund = f
                  /\ Shares(f, req[w].total)[lp] \in Nat
                  /\ Contributed(book', f, lp)
                       = Contributed(book, f, lp) + Shares(f, req[w].total)[lp]
        BY <3>3, CommitPays
      <4>2. Commitment[f][lp] \in Nat
        BY ChartOfFund
      <4>3. CASE Contributed(book', f, lp) <= Contributed(book, f, lp)
        BY <3>1, <4>1, <4>2, <4>3
      <4>4. CASE /\ Capital(w) /\ req[w].kind = "CAPITAL_CALL" /\ req[w].fund = f
                 /\ Shares(f, req[w].total)[lp] \in Nat
                 /\ Contributed(book', f, lp)
                      = Contributed(book, f, lp) + Shares(f, req[w].total)[lp]
        <5>1. Overcalled(req[w]) = {}
          BY <3>3, <4>4 DEF CommitmentInv, Prepared
        <5>2. ~(Shares(f, req[w].total)[lp]
                  > Commitment[f][lp] - Contributed(book, f, lp))
          BY <4>4, <5>1 DEF Overcalled
        <5>3. Contributed(book', f, lp) \in 0..Commitment[f][lp]
          BY <4>1, <4>2, <4>4, <5>2
        <5> QED  BY <4>1, <5>3
      <4> QED  BY <4>1, <4>3, <4>4
    <3> QED  BY <2>1, <3>2, <3>3
  <2>3. ASSUME NEW v \in Worker, Capital(v)', req'[v].kind = "CAPITAL_CALL",
               pc'[v] \in Prepared
        PROVE  Overcalled(req[v])' = {}
    <3>1. CASE v = w
      <4>1. Holds(w)'
        BY <2>3, <3>1 DEF Holds, Holding
      <4>2. /\ Capital(w) /\ req'[w] = req[w] /\ book' = book
            /\ pc[w] \in Prepared \/ CapitalObjection(req[w]) = "none"
        BY <1>1, <2>3, <3>1, <4>1, HoldingFunds
      <4>3. Overcalled(req[w]) = {}
        BY <2>3, <3>1, <4>2 DEF CommitmentInv, CapitalObjection
      <4> QED  BY <3>1, <4>2, <4>3 DEF Overcalled
    <3>2. CASE v # w
      <4>1. pc'[v] = pc[v] /\ req'[v] = req[v]
        BY <2>0, <3>2 DEF SameServing
      <4>2. Capital(v) /\ req[v].kind = "CAPITAL_CALL" /\ pc[v] \in Prepared
        BY <2>3, <4>1 DEF Capital
      <4>3. CASE book' = book
        BY <4>1, <4>2, <4>3 DEF CommitmentInv, Overcalled
      <4>4. CASE pc[w] = "commit" /\ book' = Append(book, row[w])
        BY <3>2, <4>1, <4>2, <4>4, StillFits
      <4> QED  BY <2>1, <4>3, <4>4
    <3> QED  BY <3>1, <3>2
  <2> QED  BY <2>2, <2>3 DEF CommitmentInv, WithinCommitment
<1>2. CASE UNCHANGED <<book, pc, req>>
  BY <1>2 DEF CommitmentInv, WithinCommitment, Capital, Overcalled
<1> QED  BY <1>1, <1>2, ServingStepKinds DEF Tick, vars, job

(* No LP is ever called beyond its commitment, nor given back by reversals  *)
(* more than it was called, whatever runs at the same time, for any funds,  *)
(* LPs and totals (create_capital_call under the fund lock).                *)
THEOREM CallsStayWithinCommitment == CapitalSpec => []WithinCommitment
<1>1. CapitalInit => CommitmentInv
  <2> SUFFICES ASSUME CapitalInit
               PROVE  CommitmentInv
    OBVIOUS
  <2>1. book = <<>> /\ \A w \in Worker : ~Capital(w)
    BY DEF CapitalInit, Init, Capital
  <2>2. ASSUME NEW f \in Fund, NEW lp \in DOMAIN Commitment[f]
        PROVE  /\ Contributed(book, f, lp) = SumOf(Standing(book), PaidIn(book, f, lp))
               /\ Contributed(book, f, lp) \in 0..Commitment[f][lp]
    <3>1. Entries(book) = {} /\ Standing(book) = {}
      BY <2>1 DEF Entries, Standing
    <3>2. SumOf({}, PaidIn(book, f, lp)) = 0
      BY EmptySum
    <3>3. Contributed(book, f, lp) = 0
      <4> DEFINE none == [e \in {} |-> EntryOf(book, e).base]
      <4>1. Imbalance(book, {}) = SumOf({}, none) - SumOf({}, none)
        <5>1. \A d : {e \in {} : EntryOf(book, e).direction = d} = {}
          OBVIOUS
        <5> QED  BY <5>1, Zenon DEF Imbalance
      <4> HIDE DEF none
      <4>2. Imbalance(book, {}) = 0
        BY <4>1, EmptySum
      <4>3. CallEntries(book, f, lp) = {}
        BY <3>1 DEF CallEntries
      <4>4. Contributed(book, f, lp) = -Imbalance(book, {})
        BY <4>3, Zenon DEF Contributed, CallEntries
      <4> DEFINE x == Imbalance(book, {})
      <4>5. x = 0 /\ x \in Int
        BY <4>2
      <4> HIDE DEF x
      <4>6. -x = 0 - x
        <5>1. x \in Int
          BY <4>5
        <5> QED  BY <5>1, Negatives
      <4>7. 0 - x = 0
        BY <4>5
      <4>8. -x = 0
        BY <4>6, <4>7, Zenon
      <4> QED  BY <4>4, <4>8, Zenon DEF x
    <3>4. Commitment[f][lp] \in Nat
      BY ChartOfFund
    <3> QED  BY <3>1, <3>2, <3>3, <3>4
  <2> QED  BY <2>1, <2>2 DEF CommitmentInv, WithinCommitment
<1>2. CommitmentInv => WithinCommitment
  BY DEF CommitmentInv
<1> QED  BY <1>1, <1>2, CommitmentInvStep, CapitalInvariant, DocumentInvariant,
            PTL DEF CapitalSpec

=============================================================================
