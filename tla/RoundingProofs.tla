--------------------------- MODULE RoundingProofs ---------------------------
(***************************************************************************)
(* Whatever is rounded, for any values. Allocation: shares add up to the    *)
(* total, are less than a quantum from the exact ones, and no other split   *)
(* deviates less. Pricing: rounding refuses no transfer and hides no error, *)
(* a reversal undoes what was booked, and a purchase balances.              *)
(***************************************************************************)
EXTENDS MCAllocation, PricedTransfers, SumsProofs

-----------------------------------------------------------------------------
(* The shares of any total. *)

(* A total of zero gives nobody anything.                                   *)
LEMMA SharesOfNothing ==
    ASSUME NEW D \in SUBSET Nat, IsFiniteSet(D), NEW w \in [D -> Nat],
           Allocatable(w)
    PROVE  Allocate(0, w) = [k \in D |-> 0]
<1>1. Allocate(0, w) \in [D -> Nat] /\ SumOf(D, Allocate(0, w)) = 0
  BY SharesOfGain
<1>2. \A k \in D : Allocate(0, w)[k] = 0
  BY <1>1, SumOfGains
<1> QED  BY <1>1, <1>2

-----------------------------------------------------------------------------
(* Totals one after the other. *)

Drift(k) == received[k] * WeightSum(weights) - allotted * weights[k]

(* What every recipient has is off by less than a quantum per total.        *)
Near(k) ==
    LET most == rounds * WeightSum(weights) IN
    Drift(k) = 0 \/ (Drift(k) < most /\ -Drift(k) < most)

AllocInv ==
    /\ weights \in [Recipient -> Nat]
    /\ Allocatable(weights)
    /\ total \in Int
    /\ shares = Allocate(total, weights)
    /\ allotted \in Int
    /\ received \in [Recipient -> Int]
    /\ rounds \in Nat
    /\ SignedSum(received) = allotted
    /\ \A k \in Recipient : Near(k)

(* Before the first total nobody has anything.                              *)
LEMMA InitAlloc == AllocationInit => AllocInv
<1> SUFFICES ASSUME AllocationInit PROVE AllocInv
  OBVIOUS
<1> USE RecipientAssumption
<1>1. weights \in [Recipient -> Nat] /\ Allocatable(weights)
  <2>1. 0..MaxWeight \subseteq Nat
    OBVIOUS
  <2> QED  BY <2>1 DEF AllocationInit
<1>2. total = 0 /\ allotted = 0 /\ rounds = 0
  BY DEF AllocationInit
<1>3. received \in [Recipient -> Int] /\ \A k \in Recipient : received[k] = 0
  BY DEF AllocationInit, Nothing
<1>4. shares = Allocate(total, weights)
  <2>1. Allocate(0, weights) = [k \in Recipient |-> 0]
    BY <1>1, SharesOfNothing
  <2> QED  BY <1>2, <2>1 DEF AllocationInit, Nothing
<1>5. SignedSum(received) = allotted
  <2>1. /\ \A k \in Recipient : received[k] \in Nat
        /\ \A k \in Recipient : received[k] = received[k] - received[k]
    BY <1>3
  <2>2. SignedSum(received) = SumOf(Recipient, received) - SumOf(Recipient, received)
    BY <1>3, <2>1, SumOfDifference
  <2>3. SumOf(Recipient, received) \in Nat
    BY <2>1, UnitsFinite
  <2> QED  BY <1>2, <2>2, <2>3
<1>6. ASSUME NEW k \in Recipient PROVE Near(k)
  <2>1. WeightSum(weights) \in Nat
    BY <1>1, ExactShares
  <2>2. Drift(k) = 0
    BY <1>1, <1>2, <1>3, <2>1 DEF Drift
  <2> QED  BY <2>2 DEF Near
<1> QED  BY <1>1, <1>2, <1>3, <1>4, <1>5, <1>6 DEF AllocInv

(* Less than a quantum more for one more total.                             *)
LEMMA DriftStep ==
    ASSUME NEW d \in Int, NEW e \in Int, NEW W \in Nat, NEW r \in Nat,
           d = 0 \/ (d < r * W /\ -d < r * W), e < W, -e < W
    PROVE  d + e < (r + 1) * W /\ -(d + e) < (r + 1) * W
<1>1. r * W \in Nat /\ (r + 1) * W = r * W + W
  OBVIOUS
<1> DEFINE m == r * W
<1> HIDE DEF m
<1>2. m \in Nat /\ (d = 0 \/ (d < m /\ -d < m)) /\ (r + 1) * W = m + W
  BY <1>1 DEF m
<1> QED  BY <1>2

(* One more total adds its shares, which add up to it and are less than a     *)
(* quantum away from the exact ones.                                        *)
LEMMA AllocStep == AllocInv /\ [AllocationNext]_allocationVars => AllocInv'
<1> SUFFICES ASSUME AllocInv, [AllocationNext]_allocationVars PROVE AllocInv'
  OBVIOUS
<1> USE RecipientAssumption
<1>1. CASE UNCHANGED allocationVars
  BY <1>1 DEF allocationVars, AllocInv, Near, Drift
<1>2. ASSUME NEW t \in (-MaxTotal)..MaxTotal, AllocateTotal(t) PROVE AllocInv'
  <2> DEFINE W == WeightSum(weights)
             share == Allocate(t, weights)
  <2>1. /\ weights \in [Recipient -> Nat] /\ Allocatable(weights)
        /\ weights' = weights /\ rounds' = rounds + 1 /\ rounds \in Nat
        /\ total' = t /\ t \in Int /\ allotted' = allotted + t
        /\ allotted \in Int /\ shares' = share
        /\ received \in [Recipient -> Int]
        /\ received' = [k \in Recipient |-> received[k] + share[k]]
    BY <1>2 DEF AllocateTotal, AllocInv
  <2>2. /\ share \in [Recipient -> Int]
        /\ SignedSum(share) = t
        /\ \A k \in Recipient : /\ share[k] * W - t * weights[k] < W
                                /\ t * weights[k] - share[k] * W < W
    BY <2>1, SharesOfTotal
  <2>3. W \in Nat
    BY <2>1, ExactShares
  <2> HIDE DEF share, W
  <2>4. received' \in [Recipient -> Int]
    BY <2>1, <2>2
  <2>5. SignedSum(received') = allotted'
    <3>1. \A k \in Recipient : received'[k] = received[k] + share[k]
      BY <2>1
    <3>2. SignedSum(received') = SignedSum(received) + SignedSum(share)
      <4>1. \A f, g, h \in [Recipient -> Int] :
              (\A k \in Recipient : h[k] = f[k] + g[k])
                => SignedSum(h) = SignedSum(f) + SignedSum(g)
        BY SumAdded
      <4> QED  BY <2>1, <2>2, <2>4, <3>1, <4>1
    <3> QED  BY <2>1, <2>2, <3>2 DEF AllocInv
  <2>6. ASSUME NEW k \in Recipient PROVE Near(k)'
    <3> DEFINE d == received[k] * W - allotted * weights[k]
               x == share[k] * W
               y == t * weights[k]
    <3>1. d \in Int /\ x \in Int /\ y \in Int
      BY <2>1, <2>2, <2>3
    <3>2. d = 0 \/ (d < rounds * W /\ -d < rounds * W)
      BY DEF AllocInv, Near, Drift, W
    <3>3. x - y < W /\ -(x - y) < W
      <4>1. x - y < W /\ y - x < W
        BY <2>2
      <4> HIDE DEF x, y
      <4> QED  BY <3>1, <4>1
    <3>4. Drift(k)' = d + (x - y)
      <4>1. (received[k] + share[k]) * W = received[k] * W + share[k] * W
        BY <2>1, <2>2, <2>3
      <4>2. (allotted + t) * weights[k] = allotted * weights[k] + t * weights[k]
        BY <2>1
      <4>3. Drift(k)' = (received[k] + share[k]) * W - (allotted + t) * weights[k]
        BY <2>1 DEF Drift, W
      <4> DEFINE a == received[k] * W
                 b == allotted * weights[k]
      <4>4. a \in Int /\ b \in Int
        BY <2>1, <2>3
      <4> HIDE DEF a, b, x, y
      <4>5. (a + x) - (b + y) = (a - b) + (x - y)
        BY <3>1, <4>4
      <4> QED  BY <4>1, <4>2, <4>3, <4>5 DEF a, b, x, y
    <3> HIDE DEF d, x, y
    <3>5. /\ d + (x - y) < (rounds + 1) * W
          /\ -(d + (x - y)) < (rounds + 1) * W
      <4>1. x - y \in Int
        BY <3>1
      <4> QED  BY <2>1, <2>3, <3>1, <3>2, <3>3, <4>1, DriftStep
    <3>6. (rounds * WeightSum(weights))' = (rounds + 1) * W
      BY <2>1 DEF W
    <3> QED  BY <3>4, <3>5, <3>6 DEF Near
  <2> QED  BY <2>1, <2>4, <2>5, <2>6 DEF AllocInv, share
<1> QED  BY <1>1, <1>2 DEF AllocationNext

(* What every behaviour keeps to.                                           *)
LEMMA AllocInvariant == AllocationSpec => []AllocInv
BY InitAlloc, AllocStep, PTL DEF AllocationSpec

(* For any recipients, weights and totals no quantum is lost or made, in one  *)
(* total or over many ("sum(result) == total, exactly", allocate).          *)
THEOREM NothingIsLost == AllocationSpec => []SumsExactly
<1>1. AllocInv => SumsExactly
  BY RecipientAssumption, SharesOfTotal DEF AllocInv, SumsExactly
<1> QED  BY <1>1, AllocInvariant, PTL

(* For any number of totals no recipient drifts from its exact part by a      *)
(* quantum per total ("each share is within one quantum", allocate).        *)
THEOREM RoundingStaysSmall == AllocationSpec => []DriftIsBounded
<1>1. AllocInv => DriftIsBounded
  <2> SUFFICES ASSUME AllocInv, NEW k \in Recipient
               PROVE  LET drift == Abs(Drift(k))
                      IN  drift < rounds * WeightSum(weights) \/ drift = 0
    BY DEF DriftIsBounded, Drift
  <2> QED  BY DEF AllocInv, Near, Abs
<1> QED  BY <1>1, AllocInvariant, PTL

-----------------------------------------------------------------------------
(* No other split deviates less. *)

(* What x more quanta add to the square of a deviation d, less their price.  *)
Costs(W, p, d, x) == Square(d + W * x) - Square(d) - W * (W - 2 * p) * x

(* One recipient: W is the denominator of the exact shares, r the remainder,  *)
(* up whether the share is rounded up, x how much more another split gives.   *)
(* Its deviation grows by at least x times the price W - 2 p of a quantum,    *)
(* if all whose shares are rounded up have a remainder of at least p and all  *)
(* others one of at most p.                                                 *)
LEMMA PriceOfAQuantum ==
    ASSUME NEW W \in Nat, NEW p \in Nat, NEW r \in Nat, p < W, r < W,
           NEW up \in BOOLEAN, up => r >= p, ~up => r <= p,
           NEW x \in Int, NEW d \in Int, d = (IF up THEN W ELSE 0) - r
    PROVE  /\ Costs(W, p, d, x) \in Nat
           /\ Costs(W, p, d, x) = 0 => \/ x = 0
                                       \/ x = 1 /\ ~up /\ r = p
                                       \/ x = -1 /\ up /\ r = p
<1> DEFINE y == W * x
           c == y + 2 * d - W + 2 * p
           more == Costs(W, p, d, x)
<1>1. more = W * (x * c)
  <2>1. W * (W - 2 * p) * x = y * (W - 2 * p)
    OBVIOUS
  <2>2. W * (x * c) = y * c
    OBVIOUS
  <2>3. y \in Int
    OBVIOUS
  <2> HIDE DEF y
  <2>4. (d + y) * (d + y) - d * d - y * (W - 2 * p) = y * (y + 2 * d - W + 2 * p)
    BY <2>3
  <2> QED  BY <2>1, <2>2, <2>4 DEF Costs, Square, y
<1>2. y \in Int /\ c \in Int
  OBVIOUS
<1>3. x >= 1 => y >= W
  OBVIOUS
<1>4. x >= 2 => y >= 2 * W
  OBVIOUS
<1>5. x <= -1 => y <= -W
  OBVIOUS
<1>6. x <= -2 => y <= -(2 * W)
  OBVIOUS
<1>7. x = 1 => y = W
  OBVIOUS
<1>8. x = -1 => y = -W
  OBVIOUS
<1> HIDE DEF y
<1>9. /\ x >= 1 => c >= 0
      /\ x >= 1 /\ c = 0 => x = 1 /\ ~up /\ r = p
  BY <1>2, <1>3, <1>4, <1>7
<1>10. /\ x <= -1 => c <= 0
       /\ x <= -1 /\ c = 0 => x = -1 /\ up /\ r = p
  BY <1>2, <1>5, <1>6, <1>8
<1> HIDE DEF c, more
<1>11. x * c >= 0 /\ x * c \in Int
  BY <1>2, <1>9, <1>10
<1>12. x * c = 0 => x = 0 \/ c = 0
  BY <1>2
<1>13. W * (x * c) \in Nat /\ (W * (x * c) = 0 => x * c = 0)
  <2> DEFINE z == x * c
  <2>1. z \in Nat
    BY <1>11
  <2> HIDE DEF z
  <2>2. W * z \in Nat /\ (W * z = 0 => z = 0)
    BY <2>1
  <2> QED  BY <2>2 DEF z
<1> QED  BY <1>1, <1>9, <1>10, <1>12, <1>13 DEF more

(* The remainder p that parts the lucky ones from the others.               *)
LEMMA PartingRemainder ==
    ASSUME NEW D \in SUBSET Nat, IsFiniteSet(D), NEW w \in [D -> Nat],
           Allocatable(w), NEW n \in Nat
    PROVE  LET rem == Remainders(n, w)  lucky == Lucky(n, w) IN
           \E p \in Nat :
              /\ p < WeightSum(w)
              /\ \A k \in D : /\ k \in lucky => rem[k] >= p
                              /\ k \notin lucky => rem[k] <= p
<1> DEFINE W == WeightSum(w)
           rem == Remainders(n, w)
           lucky == Lucky(n, w)
<1>1. W \in Nat /\ W > 0 /\ rem \in [D -> Nat] /\ \A k \in D : rem[k] < W
  BY ExactShares
<1>2. /\ lucky \in SUBSET D
      /\ \A k \in lucky : \A j \in D \ lucky : k \in Ahead(rem, j)
  BY LuckyOnes
<1> HIDE DEF W, rem, lucky
<1>3. CASE lucky = {}
  <2>1. W - 1 \in Nat /\ W - 1 < W /\ \A k \in D : rem[k] <= W - 1
    BY <1>1
  <2> QED  BY <1>3, <2>1 DEF W, rem, lucky
<1>4. CASE lucky # {}
  <2> DEFINE R == {rem[k] : k \in lucky}
  <2>1. R \in SUBSET Nat /\ R # {}
    BY <1>1, <1>2, <1>4
  <2>2. PICK p \in R : \A q \in R : p <= q
    BY <2>1, SmallestId
  <2>3. PICK l \in lucky : p = rem[l]
    BY <2>2
  <2>4. p \in Nat /\ p < W
    BY <1>1, <1>2, <2>3
  <2>5. \A k \in lucky : rem[k] >= p
    <3> TAKE k \in lucky
    <3>1. rem[k] \in R
      OBVIOUS
    <3> QED  BY <1>1, <1>2, <2>2, <2>4, <3>1
  <2>6. \A k \in D \ lucky : rem[k] <= p
    <3> TAKE k \in D \ lucky
    <3>1. l \in Ahead(rem, k)
      BY <1>2
    <3>2. rem[l] > rem[k] \/ rem[l] = rem[k]
      BY <3>1 DEF Ahead
    <3> QED  BY <1>1, <1>2, <2>3, <3>2
  <2> QED  BY <2>4, <2>5, <2>6 DEF W, rem, lucky
<1> QED  BY <1>3, <1>4

(* Amounts that grow by gains, and by a price for what adds up to nothing,    *)
(* grow by the gains in all.                                                *)
LEMMA SumGrown ==
    ASSUME NEW D, IsFiniteSet(D), NEW f \in [D -> Int], NEW g \in [D -> Int],
           NEW x \in [D -> Int], SignedSum(x) = 0, NEW c \in Int,
           \A k \in D : g[k] - f[k] - c * x[k] \in Nat
    PROVE  /\ SignedSum(f) \in Int /\ SignedSum(g) \in Int
           /\ SignedSum(f) <= SignedSum(g)
           /\ SignedSum(f) = SignedSum(g) => \A k \in D : g[k] - f[k] - c * x[k] = 0
<1> DEFINE more == [k \in D |-> g[k] - f[k] - c * x[k]]
           paid == [k \in D |-> c * x[k]]
           grown == [k \in D |-> more[k] + paid[k]]
<1>1. SignedSum(f) \in Int /\ SignedSum(g) \in Int
  BY SumIsInt
<1>2. more \in [D -> Nat] /\ paid \in [D -> Int]
  OBVIOUS
<1>3. SignedSum(paid) = c * SignedSum(x)
  BY SumScaled
<1>4. \A k \in D : g[k] = f[k] + (more[k] + paid[k])
  <2> TAKE k \in D
  <2> DEFINE y == c * x[k]
  <2>1. y \in Int /\ more[k] = g[k] - f[k] - y /\ paid[k] = y
    OBVIOUS
  <2> HIDE DEF y, more, paid
  <2> QED  BY <2>1
<1>5. \A k \in D : more[k] = g[k] - f[k] - c * x[k]
  OBVIOUS
<1> HIDE DEF paid, more
<1>6. SignedSum(more) \in Nat /\ (SignedSum(more) = 0 => \A k \in D : more[k] = 0)
  BY <1>2, SumOfGains
<1>7. /\ grown \in [D -> Int] /\ more \in [D -> Int]
      /\ \A k \in D : grown[k] = more[k] + paid[k]
      /\ \A k \in D : g[k] = f[k] + grown[k]
  BY <1>2, <1>4
<1> HIDE DEF grown
<1>8. SignedSum(grown) = SignedSum(more) + SignedSum(paid)
  BY <1>2, <1>7, SumAdded
<1>9. SignedSum(g) = SignedSum(f) + SignedSum(grown)
  BY <1>7, SumAdded
<1>10. SignedSum(g) = SignedSum(f) + SignedSum(more)
  BY <1>3, <1>6, <1>8, <1>9
<1> QED  BY <1>1, <1>5, <1>6, <1>10

(* How far shares are off when the recipients L are rounded up, and the       *)
(* squares of that before and after x[k] quanta are moved to each k.        *)
Off(D, W, rem, L) == [k \in D |-> (IF k \in L THEN W ELSE 0) - rem[k]]
Kept(D, W, rem, L) == [k \in D |-> Square(Off(D, W, rem, L)[k])]
Moved(D, W, rem, L, x) == [k \in D |-> Square(Off(D, W, rem, L)[k] + W * x[k])]

(* The remainder p parts those who are rounded up from the others.           *)
Parted(D, W, p, rem, L) ==
    /\ W \in Nat /\ p \in Nat /\ p < W
    /\ rem \in [D -> Nat]
    /\ \A k \in D : rem[k] < W
    /\ \A k \in D : k \in L => rem[k] >= p
    /\ \A k \in D : k \notin L => rem[k] <= p

(* Quanta are moved only from the lucky to others with the same remainder.    *)
OnlyTies(D, p, rem, L, x) ==
    \A k \in D : \/ x[k] = 0
                 \/ x[k] = 1 /\ k \notin L /\ rem[k] = p
                 \/ x[k] = -1 /\ k \in L /\ rem[k] = p

(* Whatever a split changes costs at least its price, and changes add up to   *)
(* nothing; so it deviates no less, and as much only when it moves quanta    *)
(* among recipients with the parting remainder.                             *)
LEMMA PricedSplit ==
    ASSUME NEW D, IsFiniteSet(D), NEW W, NEW p, NEW rem, NEW L,
           Parted(D, W, p, rem, L),
           NEW x, x \in [D -> Int], SignedSum(x) = 0
    PROVE  LET f == Kept(D, W, rem, L)  g == Moved(D, W, rem, L, x) IN
           /\ SignedSum(f) \in Int /\ SignedSum(g) \in Int
           /\ SignedSum(f) <= SignedSum(g)
           /\ SignedSum(f) = SignedSum(g) => OnlyTies(D, p, rem, L, x)
<1> DEFINE c == W * (W - 2 * p)
           d == Off(D, W, rem, L)
           f == Kept(D, W, rem, L)
           g == Moved(D, W, rem, L, x)
           more(k) == g[k] - f[k] - c * x[k]
<1>0. /\ W \in Nat /\ p \in Nat /\ p < W
      /\ rem \in [D -> Nat]
      /\ \A k \in D : rem[k] < W
      /\ \A k \in D : k \in L => rem[k] >= p
      /\ \A k \in D : k \notin L => rem[k] <= p
  BY DEF Parted
<1>1. c \in Int
  BY <1>0
<1>2. f \in [D -> Int] /\ g \in [D -> Int]
  <2>1. d \in [D -> Int]
    BY <1>0 DEF Off
  <2> HIDE DEF d
  <2> QED  BY <1>0, <2>1 DEF Square, Kept, Moved, d
<1>3. ASSUME NEW k \in D
      PROVE  /\ more(k) \in Nat
             /\ more(k) = 0 => \/ x[k] = 0
                               \/ x[k] = 1 /\ k \notin L /\ rem[k] = p
                               \/ x[k] = -1 /\ k \in L /\ rem[k] = p
  <2>1. PICK up \in BOOLEAN : up <=> k \in L
    OBVIOUS
  <2>2. PICK r \in Nat : r = rem[k]
    BY <1>0
  <2>3. PICK y \in Int : y = x[k]
    OBVIOUS
  <2>4. PICK e \in Int : e = (IF up THEN W ELSE 0) - r
    BY <1>0
  <2>5. e = d[k]
    BY <2>1, <2>2, <2>4 DEF Off
  <2> HIDE DEF d
  <2>6. more(k) = Costs(W, p, e, y)
    <3>1. f[k] = Square(e) /\ g[k] = Square(e + W * y)
      BY <2>3, <2>5 DEF Kept, Moved, d
    <3> HIDE DEF f, g
    <3> QED  BY <2>3, <3>1 DEF Costs
  <2>7. r < W /\ (up => r >= p) /\ (~up => r <= p)
    BY <1>0, <2>1, <2>2
  <2> HIDE DEF more
  <2>8. /\ more(k) \in Nat
        /\ more(k) = 0 => \/ y = 0
                          \/ y = 1 /\ ~up /\ r = p
                          \/ y = -1 /\ up /\ r = p
    BY <1>0, <2>4, <2>6, <2>7, PriceOfAQuantum
  <2> QED  BY <2>1, <2>2, <2>3, <2>8
<1> HIDE DEF c, f, g
<1>4. /\ SignedSum(f) \in Int /\ SignedSum(g) \in Int
      /\ SignedSum(f) <= SignedSum(g)
      /\ SignedSum(f) = SignedSum(g) => \A k \in D : more(k) = 0
  <2>1. \A a, b \in [D -> Int] : \A z \in Int :
          (\A k \in D : b[k] - a[k] - z * x[k] \in Nat)
            => /\ SignedSum(a) \in Int /\ SignedSum(b) \in Int
               /\ SignedSum(a) <= SignedSum(b)
               /\ SignedSum(a) = SignedSum(b) => \A k \in D : b[k] - a[k] - z * x[k] = 0
    BY SumGrown
  <2>2. \A k \in D : g[k] - f[k] - c * x[k] \in Nat
    BY <1>3
  <2> QED  BY <1>1, <1>2, <2>1, <2>2
<1> HIDE DEF more
<1>5. SignedSum(f) = SignedSum(g) => OnlyTies(D, p, rem, L, x)
  BY <1>3, <1>4 DEF OnlyTies
<1> QED  BY <1>4, <1>5 DEF f, g

(* What Deviation adds up.                                                  *)
Squares(w, v, n) ==
    [k \in DOMAIN w |-> Square(v[k] * WeightSum(w) - n * w[k])]

(* Any other split deviates more, or as much and favours later keys: what it  *)
(* gives to a recipient it takes from one further ahead.                    *)
LEMMA OtherSplit ==
    ASSUME NEW D \in SUBSET Nat, IsFiniteSet(D), NEW w \in [D -> Nat],
           Allocatable(w), NEW n \in Nat, NEW u \in [D -> Nat], SignedSum(u) = n
    PROVE  LET v == Allocate(n, w) IN
           \/ SignedSum(Squares(w, v, n)) < SignedSum(Squares(w, u, n))
           \/ /\ SignedSum(Squares(w, v, n)) = SignedSum(Squares(w, u, n))
              /\ ~\E k \in D : u[k] > v[k] /\ \A j \in D : j < k => u[j] = v[j]
<1>1. PICK v \in [D -> Nat] :
         /\ v = Allocate(n, w)
         /\ SumOf(D, v) = n
         /\ \A k \in D :
              v[k] * WeightSum(w) - n * w[k]
                = (IF k \in Lucky(n, w) THEN WeightSum(w) ELSE 0)
                    - Remainders(n, w)[k]
  BY SharesOfGain
<1>2. PICK x \in [D -> Int] : \A k \in D : u[k] = v[k] + x[k]
  <2> DEFINE diff == [k \in D |-> u[k] - v[k]]
  <2>1. diff \in [D -> Int] /\ \A k \in D : u[k] = v[k] + diff[k]
    OBVIOUS
  <2> QED  BY <2>1
<1>3. SignedSum(x) = 0
  <2>1. u \in [D -> Int] /\ v \in [D -> Int]
    OBVIOUS
  <2>2. SignedSum(u) = SignedSum(v) + SignedSum(x)
    <3>1. \A a, b, c \in [D -> Int] :
            (\A k \in D : c[k] = a[k] + b[k]) => SignedSum(c) = SignedSum(a) + SignedSum(b)
      BY SumAdded
    <3> QED  BY <1>2, <2>1, <3>1
  <2>3. SignedSum(v) = n
    BY <1>1, SumOfGains
  <2>4. SignedSum(x) \in Int
    BY SumIsInt
  <2> QED  BY <2>2, <2>3, <2>4
<1>4. PICK W \in Nat : W = WeightSum(w)
  BY ExactShares
<1>5. PICK rem \in [D -> Nat] :
         rem = Remainders(n, w) /\ \A k \in D : rem[k] < W
  <2>1. Remainders(n, w) \in [D -> Nat]
    BY ExactShares
  <2>2. \A k \in D : Remainders(n, w)[k] < W
    BY <1>4, ExactShares
  <2> QED  BY <2>1, <2>2
<1>6. PICK L \in SUBSET D :
         L = Lucky(n, w) /\ \A k \in L : \A j \in D \ L : k \in Ahead(rem, j)
  BY <1>5, LuckyOnes
<1>7. PICK p \in Nat :
         /\ p < W
         /\ \A k \in D : k \in L => rem[k] >= p
         /\ \A k \in D : k \notin L => rem[k] <= p
  BY <1>4, <1>5, <1>6, PartingRemainder
<1> DEFINE d == Off(D, W, rem, L)
           f == Kept(D, W, rem, L)
           g == Moved(D, W, rem, L, x)
<1>8. \A k \in D : d[k] \in Int /\ d[k] = v[k] * W - n * w[k]
  BY <1>1, <1>4, <1>5, <1>6 DEF Off
<1>9. Squares(w, v, n) = f
  <2> HIDE DEF d
  <2> QED  BY <1>4, <1>8 DEF Squares, Kept, d
<1>10. Squares(w, u, n) = g
  <2> HIDE DEF d
  <2>1. \A k \in D : u[k] * W - n * w[k] = d[k] + W * x[k]
    <3> TAKE k \in D
    <3> DEFINE a == v[k] * W
               b == n * w[k]
               c == W * x[k]
    <3>1. u[k] * W = a + c
      BY <1>2
    <3>2. a \in Int /\ b \in Int /\ c \in Int
      OBVIOUS
    <3>3. d[k] = a - b
      BY <1>8
    <3> HIDE DEF a, b, c
    <3> QED  BY <3>1, <3>2, <3>3 DEF b, c
  <2> QED  BY <1>4, <2>1 DEF Squares, Moved, d
<1>11. /\ SignedSum(f) \in Int /\ SignedSum(g) \in Int
       /\ SignedSum(f) <= SignedSum(g)
       /\ SignedSum(f) = SignedSum(g) => OnlyTies(D, p, rem, L, x)
  <2>1. Parted(D, W, p, rem, L)
    BY <1>5, <1>7 DEF Parted
  <2> QED  BY <1>3, <2>1, PricedSplit
<1> HIDE DEF f, g, d
<1>12. ASSUME SignedSum(f) = SignedSum(g), NEW k \in D, u[k] > v[k],
              \A j \in D : j < k => u[j] = v[j]
       PROVE  FALSE
  <2>1. x[k] >= 1
    BY <1>2, <1>12
  <2>2. k \notin L /\ rem[k] = p
    BY <1>11, <1>12, <2>1 DEF OnlyTies
  <2>3. PICK l \in D : x[l] < 0
    <3> SUFFICES ASSUME \A i \in D : ~(x[i] < 0) PROVE FALSE
      OBVIOUS
    <3>1. x \in [D -> Nat]
      OBVIOUS
    <3>2. x[k] = 0
      BY <1>3, <3>1, SumOfGains
    <3> QED  BY <2>1, <3>2
  <2>4. l \in L /\ rem[l] = p
    BY <1>11, <1>12, <2>3 DEF OnlyTies
  <2>5. ~(l < k)
    BY <1>2, <1>12, <2>3
  <2>6. l \in Ahead(rem, k)
    BY <1>6, <2>2, <2>4
  <2>7. rem[l] > rem[k] \/ l < k
    BY <2>6 DEF Ahead
  <2> QED  BY <2>2, <2>4, <2>5, <2>7
<1>13. \/ SignedSum(f) < SignedSum(g)
       \/ /\ SignedSum(f) = SignedSum(g)
          /\ ~\E k \in D : u[k] > v[k] /\ \A j \in D : j < k => u[j] = v[j]
  BY <1>11, <1>12
<1> QED  BY <1>1, <1>9, <1>10, <1>13

(* For any recipients, weights and totals no other way to split a total comes *)
(* closer to the exact shares, or as close in favour of earlier keys         *)
(* ("leftover quanta go to the largest fractional remainders, ties broken by *)
(* str(key)", allocate).                                                    *)
THEOREM LargestRemaindersAreBest == AllocationSpec => []LeastDeviation
<1>1. ASSUME AllocInv, NEW u \in Split(Abs(total))
      PROVE  LET n == Abs(total)
                 v == [k \in Recipient |-> Abs(shares[k])]
             IN  \/ Deviation(v, n) < Deviation(u, n)
                 \/ Deviation(v, n) = Deviation(u, n) /\ ~Favours(u, v)
  <2> DEFINE n == Abs(total)
             v == [k \in Recipient |-> Abs(shares[k])]
  <2>1. /\ weights \in [Recipient -> Nat] /\ Allocatable(weights)
        /\ total \in Int /\ shares = Allocate(total, weights)
    BY <1>1 DEF AllocInv
  <2>2. n \in Nat
    BY <2>1 DEF Abs
  <2>3. Allocate(n, weights) \in [Recipient -> Nat]
    BY <2>1, <2>2, RecipientAssumption, SharesOfGain
  <2>4. v = Allocate(n, weights)
    <3>1. CASE total >= 0
      <4>1. n = total
        BY <2>1, <3>1 DEF Abs
      <4> HIDE DEF n
      <4>2. \A k \in Recipient : Abs(shares[k]) = shares[k]
        BY <2>1, <2>3, <4>1 DEF Abs
      <4> QED  BY <2>1, <2>3, <4>1, <4>2
    <3>2. CASE total < 0
      <4>1. n = -total
        BY <2>1, <3>2 DEF Abs
      <4>2. \A k \in Recipient :
               Allocate(total, weights)[k] = -Allocate(-total, weights)[k]
        <5>1. IsFiniteSet(Recipient)
          BY RecipientAssumption
        <5> DEFINE D == Recipient
                   w == weights
                   t == total
        <5>2. /\ IsFiniteSet(D) /\ w \in [D -> Nat] /\ Allocatable(w)
              /\ t \in Int /\ t < 0
          BY <2>1, <3>2, <5>1
        <5> HIDE DEF D, w, t
        <5>3. \A k \in D : Allocate(t, w)[k] = -Allocate(-t, w)[k]
          BY <5>2, SharesOfLoss
        <5> QED  BY <5>3 DEF D, w, t
      <4> HIDE DEF n
      <4>3. \A k \in Recipient : Abs(shares[k]) = Allocate(n, weights)[k]
        <5> TAKE k \in Recipient
        <5> DEFINE share == Allocate(n, weights)[k]
        <5>1. share \in Nat /\ shares[k] = -share
          BY <2>1, <2>3, <4>1, <4>2, Zenon
        <5> HIDE DEF share
        <5>2. Abs(shares[k]) = share
          BY <5>1 DEF Abs
        <5> QED  BY <5>2 DEF share
      <4> QED  BY <2>3, <4>3
    <3> QED  BY <2>1, <3>1, <3>2
  <2>5. u \in [Recipient -> Nat] /\ SignedSum(u) = n
    <3> HIDE DEF n
    <3>1. u \in [Recipient -> 0..n] /\ SignedSum(u) = n
      BY <1>1 DEF Split, n
    <3>2. 0..n \subseteq Nat
      BY <2>2
    <3> QED  BY <3>1, <3>2
  <2>6. \A a : Deviation(a, n) = SignedSum(Squares(weights, a, n))
    BY <2>1 DEF Deviation, Squares
  <2> HIDE DEF n, v
  <2>7. \/ SignedSum(Squares(weights, v, n)) < SignedSum(Squares(weights, u, n))
        \/ /\ SignedSum(Squares(weights, v, n)) = SignedSum(Squares(weights, u, n))
           /\ ~\E k \in Recipient :
                 u[k] > v[k] /\ \A j \in Recipient : j < k => u[j] = v[j]
    BY <2>1, <2>2, <2>4, <2>5, RecipientAssumption, OtherSplit
  <2> QED  BY <2>6, <2>7 DEF Favours, n, v
<1>2. AllocInv => LeastDeviation
  BY <1>1 DEF LeastDeviation
<1> QED  BY <1>2, AllocInvariant, PTL

-----------------------------------------------------------------------------
(* Rounding. *)

(* A multiple of d is divided by d without a remainder.                     *)
LEMMA Multiple ==
    ASSUME NEW d \in Nat \ {0}, NEW m \in Nat
    PROVE  (d * m) \div d = m /\ (d * m) % d = 0
<1> DEFINE q == (d * m) \div d
           r == (d * m) % d
<1>1. d * m \in Nat
  OBVIOUS
<1>2. q \in Nat /\ r \in Nat /\ r < d /\ d * m = d * q + r
  BY <1>1, Division
<1> HIDE DEF q, r
<1>3. d * (m - q) = r
  BY <1>2
<1>4. m - q >= 1 => d * (m - q) >= d
  BY <1>2
<1>5. m - q <= -1 => d * (m - q) <= -d
  BY <1>2
<1>6. m - q = 0
  BY <1>2, <1>3, <1>4, <1>5
<1> QED  BY <1>2, <1>3, <1>6 DEF q, r

(* Rounding is off by at most half of what is rounded to.                   *)
LEMMA HalfEvenIsNear ==
    ASSUME NEW n \in Nat, NEW d \in Nat \ {0}
    PROVE  /\ HalfEven(n, d) \in Nat
           /\ 2 * (d * HalfEven(n, d)) - 2 * n \in (-d)..d
<1> DEFINE q == n \div d
           r == n % d
           x == d * q
<1>1. q \in Nat /\ r \in Nat /\ r < d /\ n = x + r
  BY Division
<1>2. x \in Nat /\ d * (q + 1) = x + d
  BY <1>1
<1>3. HalfEven(n, d) = IF 2 * r < d \/ (2 * r = d /\ q % 2 = 0) THEN q ELSE q + 1
  BY DEF HalfEven
<1> DEFINE h == HalfEven(n, d)
<1>4. (h = q /\ 2 * r <= d) \/ (h = q + 1 /\ 2 * r >= d)
  BY <1>1, <1>3
<1>5. (d * h = x /\ 2 * r <= d) \/ (d * h = x + d /\ 2 * r >= d)
  <2>1. CASE h = q /\ 2 * r <= d
    BY <2>1
  <2>2. CASE h = q + 1 /\ 2 * r >= d
    <3>1. d * h = d * (q + 1)
      BY <2>2
    <3> QED  BY <1>2, <2>2, <3>1, Zenon
  <2> QED  BY <1>4, <2>1, <2>2
<1>6. h \in Nat
  BY <1>1, <1>4
<1> HIDE DEF q, r, x, h
<1>7. 2 * (d * h) - 2 * n \in (-d)..d
  BY <1>1, <1>2, <1>5
<1> QED  BY <1>6, <1>7 DEF h

(* What an amount is worth at a rate, to the last fraction of a quantum,    *)
(* and as converted.                                                        *)
LEMMA ConvertIsNear ==
    ASSUME NEW a \in Nat, NEW rate \in [num : Nat \ {0}, den : Nat \ {0}],
           NEW P \in Nat \ {0}, P % rate.den = 0
    PROVE  LET worth == (P * a * rate.num) \div rate.den IN
           /\ worth \in Nat
           /\ Convert(a, rate) \in Nat
           /\ 2 * (P * Convert(a, rate)) - 2 * worth \in (-P)..P
<1> DEFINE d == rate.den
           n == a * rate.num
           k == P \div d
           b == Convert(a, rate)
<1>1. d \in Nat \ {0} /\ n \in Nat /\ rate.num \in Nat
  OBVIOUS
<1>2. k \in Nat /\ P = d * k
  BY <1>1, Division
<1>3. b \in Nat /\ 2 * (d * b) - 2 * n \in (-d)..d
  BY <1>1, HalfEvenIsNear DEF Convert
<1>4. P * a * rate.num = d * (k * n)
  <2>1. P * a * rate.num = P * n
    BY <1>1
  <2> HIDE DEF d, n, k
  <2>2. P * n = d * (k * n)
    BY <1>1, <1>2
  <2> QED  BY <2>1, <2>2
<1> HIDE DEF d, n, k, b
<1>5. k * n \in Nat /\ (d * (k * n)) \div d = k * n
  BY <1>1, <1>2, Multiple
<1>6. 2 * (P * b) - 2 * (k * n) \in (-P)..P
  <2> DEFINE e == 2 * (d * b) - 2 * n
  <2>1. 2 * (P * b) - 2 * (k * n) = k * e
    BY <1>1, <1>2, <1>3
  <2>2. e \in Int /\ -d <= e /\ e <= d
    BY <1>1, <1>3
  <2> HIDE DEF e
  <2>3. k * e <= k * d /\ k * (-d) <= k * e
    BY <1>1, <1>2, <2>2
  <2>4. k * d = P /\ k * (-d) = -P /\ k * e \in Int
    BY <1>1, <1>2, <2>2
  <2> QED  BY <2>1, <2>3, <2>4
<1> QED  BY <1>3, <1>4, <1>5, <1>6 DEF d, b

-----------------------------------------------------------------------------
(* Residuals. *)

(* What is counted with a sign: debits as they are, credits taken away.     *)
Signed(t, amounts) ==
    [j \in DOMAIN t |->
        IF t[j].direction = "DEBIT" THEN amounts[j] ELSE -amounts[j]]

(* A sum of amounts that differ from zero for some only.                    *)
LEMMA SumOfSome ==
    ASSUME NEW S, IsFiniteSet(S), NEW T \in SUBSET S, NEW c \in Nat,
           NEW f, \A i \in S : f[i] = IF i \in T THEN c ELSE 0
    PROVE  SumOf(S, f) = Cardinality(T) * c
<1>1. IsFiniteSet(T)
  BY FS_Subset
<1>2. SumOf(T, f) = Cardinality(T) * c
  BY <1>1, SumOfEqual
<1>3. Units(S, f) = Units(T, f)
  <2>1. \A i \in S : i \notin T => {i} \X (1..f[i]) = {}
    OBVIOUS
  <2> QED  BY <2>1 DEF Units
<1>4. SumOf(S, f) = SumOf(T, f)
  BY <1>3 DEF SumOf, Units
<1> QED  BY <1>2, <1>4

(* A residual is a whole number, *)
LEMMA ResidualIsInt ==
    ASSUME NEW t, IsFiniteSet(DOMAIN t), NEW x \in [DOMAIN t -> Int]
    PROVE  /\ Signed(t, x) \in [DOMAIN t -> Int]
           /\ Residual(t, x) = SignedSum(Signed(t, x))
           /\ Residual(t, x) \in Int
<1>1. Signed(t, x) \in [DOMAIN t -> Int]
  BY DEF Signed
<1>2. Residual(t, x) = SignedSum(Signed(t, x))
  BY DEF Residual, Signed
<1> QED  BY <1>1, <1>2, SumIsInt

(* z is c times x less d times y. *)
Combined(t, c, x, d, y, z) ==
    /\ x \in [DOMAIN t -> Int] /\ y \in [DOMAIN t -> Int]
    /\ z \in [DOMAIN t -> Int] /\ c \in Int /\ d \in Int
    /\ \A j \in DOMAIN t : z[j] = c * x[j] - d * y[j]

(* adds up and scales, *)
LEMMA ResidualIsLinear ==
    ASSUME NEW t, IsFiniteSet(DOMAIN t), NEW c, NEW x, NEW d, NEW y, NEW z,
           Combined(t, c, x, d, y, z)
    PROVE  Residual(t, z) = c * Residual(t, x) - d * Residual(t, y)
<1> DEFINE D == DOMAIN t
           sx == Signed(t, x)
           sy == Signed(t, y)
           sz == Signed(t, z)
           cx == [j \in D |-> c * sx[j]]
           dy == [j \in D |-> (0 - d) * sy[j]]
<1>0. /\ x \in [D -> Int] /\ y \in [D -> Int] /\ z \in [D -> Int]
      /\ c \in Int /\ d \in Int
      /\ \A j \in D : z[j] = c * x[j] - d * y[j]
  BY DEF Combined
<1>1. /\ sx \in [D -> Int] /\ sy \in [D -> Int] /\ sz \in [D -> Int]
      /\ Residual(t, x) = SignedSum(sx) /\ Residual(t, y) = SignedSum(sy)
      /\ Residual(t, z) = SignedSum(sz)
      /\ Residual(t, x) \in Int /\ Residual(t, y) \in Int
  BY <1>0, ResidualIsInt
<1>2. cx \in [D -> Int] /\ dy \in [D -> Int] /\ 0 - d \in Int
  BY <1>0, <1>1
<1>3. \A j \in D : sz[j] = cx[j] + dy[j]
  <2> SUFFICES ASSUME NEW j \in D
               PROVE  sz[j] = c * sx[j] + (0 - d) * sy[j]
    OBVIOUS
  <2> DEFINE a == x[j]
             b == y[j]
  <2>1. a \in Int /\ b \in Int /\ z[j] = c * a - d * b
    BY <1>0
  <2>2. /\ sx[j] = IF t[j].direction = "DEBIT" THEN a ELSE -a
        /\ sy[j] = IF t[j].direction = "DEBIT" THEN b ELSE -b
        /\ sz[j] = IF t[j].direction = "DEBIT" THEN c * a - d * b
                   ELSE -(c * a - d * b)
    BY <2>1 DEF Signed
  <2> HIDE DEF a, b, sx, sy, sz
  <2>3. c * (-a) = -(c * a) /\ (0 - d) * b = -(d * b) /\ (0 - d) * (-b) = d * b
        /\ c * a \in Int /\ d * b \in Int
    BY <1>0, <2>1
  <2> QED  BY <2>2, <2>3
<1>4. SignedSum(cx) = c * SignedSum(sx) /\ SignedSum(dy) = (0 - d) * SignedSum(sy)
  <2> DEFINE e == 0 - d
  <2>1. IsFiniteSet(D) /\ e \in Int
    BY <1>2
  <2> HIDE DEF D, e, sx, sy
  <2>2. SignedSum(cx) = c * SignedSum(sx)
    BY <1>0, <1>1, <2>1, SumScaled
  <2>3. SignedSum([j \in D |-> e * sy[j]]) = e * SignedSum(sy)
    BY <1>1, <2>1, SumScaled
  <2> QED  BY <2>2, <2>3 DEF e
<1> HIDE DEF cx, dy, sx, sy, sz
<1>5. SignedSum(sz) = SignedSum(cx) + SignedSum(dy)
  <2>1. IsFiniteSet(D)
    OBVIOUS
  <2> HIDE DEF D
  <2> QED  BY <1>1, <1>2, <1>3, <2>1, SumAdded
<1>6. (0 - d) * Residual(t, y) = -(d * Residual(t, y))
      /\ d * Residual(t, y) \in Int /\ c * Residual(t, x) \in Int
  BY <1>0, <1>1
<1> QED  BY <1>0, <1>1, <1>4, <1>5, <1>6

(* is no larger than the amounts are, *)
LEMMA ResidualIsBounded ==
    ASSUME NEW t, IsFiniteSet(DOMAIN t), NEW x \in [DOMAIN t -> Int],
           NEW b \in [DOMAIN t -> Nat],
           \A j \in DOMAIN t : x[j] \in (-b[j])..b[j]
    PROVE  /\ SumOf(DOMAIN t, b) \in Nat
           /\ Residual(t, x) \in (-SumOf(DOMAIN t, b))..SumOf(DOMAIN t, b)
<1> DEFINE D == DOMAIN t
           s == Signed(t, x)
           over == [j \in D |-> b[j] - s[j]]
           under == [j \in D |-> b[j] + s[j]]
           minus == [j \in D |-> (-1) * s[j]]
<1>1. /\ s \in [D -> Int] /\ Residual(t, x) = SignedSum(s)
      /\ Residual(t, x) \in Int
  BY ResidualIsInt
<1>2. \A j \in D : s[j] \in (-b[j])..b[j]
  <2> TAKE j \in D
  <2>1. x[j] \in (-b[j])..b[j] /\ x[j] \in Int /\ b[j] \in Nat
    OBVIOUS
  <2>2. s[j] = IF t[j].direction = "DEBIT" THEN x[j] ELSE -x[j]
    BY DEF Signed
  <2> QED  BY <2>1, <2>2
<1> HIDE DEF s
<1>3. /\ over \in [D -> Nat] /\ under \in [D -> Nat] /\ b \in [D -> Int]
      /\ minus \in [D -> Int]
      /\ over \in [D -> Int] /\ under \in [D -> Int]
  BY <1>1, <1>2
<1>4. /\ \A j \in D : over[j] = b[j] + minus[j]
      /\ \A j \in D : under[j] = b[j] + s[j]
  BY <1>1
<1>5. SignedSum(minus) = (-1) * SignedSum(s)
  <2>1. -1 \in Int
    OBVIOUS
  <2> QED  BY <1>1, <2>1, SumScaled
<1> HIDE DEF over, under, minus
<1>6. /\ SignedSum(over) = SignedSum(b) + SignedSum(minus)
      /\ SignedSum(under) = SignedSum(b) + SignedSum(s)
  <2>1. SignedSum(over) = SignedSum(b) + SignedSum(minus)
    BY <1>3, <1>4, SumAdded
  <2>2. SignedSum(under) = SignedSum(b) + SignedSum(s)
    <3>1. /\ b \in [D -> Int] /\ s \in [D -> Int] /\ under \in [D -> Int]
          /\ \A j \in D : under[j] = b[j] + s[j]
      BY <1>1, <1>3, <1>4
    <3> HIDE DEF D
    <3> QED  BY <3>1, SumAdded DEF D
  <2> QED  BY <2>1, <2>2
<1>7. /\ SignedSum(over) \in Nat /\ SignedSum(under) \in Nat
      /\ SignedSum(b) = SumOf(D, b) /\ SignedSum(b) \in Nat
  BY <1>3, SumOfGains
<1> QED  BY <1>1, <1>5, <1>6, <1>7

(* and follows each of the amounts.                                         *)
LEMMA ResidualOfChanged ==
    ASSUME NEW t, IsFiniteSet(DOMAIN t), NEW i \in DOMAIN t,
           NEW x \in [DOMAIN t -> Int], NEW y \in [DOMAIN t -> Int],
           \A j \in DOMAIN t : j # i => y[j] = x[j]
    PROVE  Residual(t, y)
             = Residual(t, x) + IF t[i].direction = "DEBIT" THEN y[i] - x[i]
                                ELSE x[i] - y[i]
<1> DEFINE D == DOMAIN t
           sx == Signed(t, x)
           sy == Signed(t, y)
           up == IF sy[i] > sx[i] THEN sy[i] - sx[i] ELSE 0
           down == IF sx[i] > sy[i] THEN sx[i] - sy[i] ELSE 0
           ups == [j \in D |-> IF j \in {i} THEN up ELSE 0]
           downs == [j \in D |-> IF j \in {i} THEN down ELSE 0]
           change == [j \in D |-> sy[j] - sx[j]]
<1>1. /\ sx \in [D -> Int] /\ sy \in [D -> Int]
      /\ Residual(t, x) = SignedSum(sx) /\ Residual(t, y) = SignedSum(sy)
      /\ Residual(t, x) \in Int /\ Residual(t, y) \in Int
  BY ResidualIsInt
<1>2. \A j \in D : j # i => sy[j] = sx[j]
  BY DEF Signed
<1>3. sy[i] - sx[i] = IF t[i].direction = "DEBIT" THEN y[i] - x[i] ELSE x[i] - y[i]
  <2>1. /\ sx[i] = IF t[i].direction = "DEBIT" THEN x[i] ELSE -x[i]
        /\ sy[i] = IF t[i].direction = "DEBIT" THEN y[i] ELSE -y[i]
    BY DEF Signed
  <2>2. x[i] \in Int /\ y[i] \in Int
    OBVIOUS
  <2> QED  BY <2>1, <2>2
<1> HIDE DEF sx, sy
<1>4. up \in Nat /\ down \in Nat /\ up - down = sy[i] - sx[i]
  BY <1>1
<1> HIDE DEF up, down
<1>5. SumOf(D, ups) = up /\ SumOf(D, downs) = down
  <2>1. {i} \in SUBSET D /\ Cardinality({i}) = 1
    BY FS_Singleton
  <2>2. /\ \A j \in D : ups[j] = IF j \in {i} THEN up ELSE 0
        /\ \A j \in D : downs[j] = IF j \in {i} THEN down ELSE 0
    OBVIOUS
  <2> HIDE DEF ups, downs
  <2>3. SumOf(D, ups) = Cardinality({i}) * up
    BY <1>4, <2>1, <2>2, SumOfSome
  <2>4. SumOf(D, downs) = Cardinality({i}) * down
    BY <1>4, <2>1, <2>2, SumOfSome
  <2> QED  BY <1>4, <2>1, <2>3, <2>4
<1>6. /\ change \in [D -> Int]
      /\ \A j \in D : ups[j] \in Nat
      /\ \A j \in D : downs[j] \in Nat
      /\ \A j \in D : change[j] = ups[j] - downs[j]
      /\ \A j \in D : sy[j] = sx[j] + change[j]
  <2>1. \A j \in D : sy[j] \in Int /\ sx[j] \in Int
    BY <1>1
  <2> QED  BY <1>2, <1>4, <2>1
<1> HIDE DEF change, ups, downs
<1>7. SignedSum(change) = SumOf(D, ups) - SumOf(D, downs)
  BY <1>6, SumOfDifference
<1>8. SignedSum(sy) = SignedSum(sx) + SignedSum(change)
  BY <1>1, <1>6, SumAdded
<1>9. SignedSum(change) = sy[i] - sx[i]
  BY <1>4, <1>5, <1>7
<1> QED  BY <1>1, <1>3, <1>8, <1>9

-----------------------------------------------------------------------------
(* The legs that are put together. *)

(* What may have been published.                                            *)
Published ==
    published \subseteq [currency : Currency, day : Days, rate : Rate]

(* The published rate, if there is one, is one of those that may be.        *)
LEMMA RateIsPublished ==
    ASSUME Published, NEW c, NEW d \in Nat
    PROVE  RateFor(published, c, d) \in Rate \cup {None}
<1> DEFINE known == {p \in published : p.currency = c /\ p.day <= d}
           days == {p.day : p \in known}
<1>1. CASE known = {}
  BY <1>1 DEF RateFor
<1>2. CASE known # {}
  <2>1. days \in SUBSET Nat /\ days \subseteq Days /\ days # {}
    BY <1>2 DEF Published, Days
  <2>2. IsFiniteSet(days)
    <3>1. IsFiniteSet(Days)
      BY RatesAssumption, FS_Interval DEF Days
    <3> QED  BY <2>1, <3>1, FS_Subset
  <2>3. PICK m \in days : \A e \in days : e <= m
    BY <2>1, <2>2, LargestId
  <2>4. \E p \in known : \A q \in known : q.day <= p.day
    BY <2>3
  <2> DEFINE last == CHOOSE p \in known : \A q \in known : q.day <= p.day
  <2>5. last \in known
    BY <2>4
  <2>6. RateFor(published, c, d) = last.rate
    BY <1>2 DEF RateFor
  <2> QED  BY <2>5, <2>6 DEF Published
<1> QED  BY <1>1, <1>2

(* A leg that is put together: its base amount is not given.                *)
Asked ==
    [account : {BaseCurrency} \cup Currency,
     currency : {BaseCurrency} \cup Currency,
     direction : {"DEBIT", "CREDIT"}, amount : Nat \ {0},
     rate : {None}, base : {None}]

(* What clients ask for are such legs.                                      *)
LEMMA AskedLegs == AskedLeg \subseteq Asked
BY RatesAssumption DEF AskedLeg, Asked

(* A quantum for each leg that is rounded.                                  *)
Rounded(t) == {j \in DOMAIN t : Foreign(t[j])}

(* The legs that are put together, with the rates they need.                *)
Priceable ==
    /\ Published
    /\ day \in Nat
    /\ legs \in Seq(Asked)
    /\ ~MissingFxRate(legs, published, day)

Raw == RawBases(legs, published, day)
Exacts == [j \in DOMAIN legs |-> Exact(j)]

(* Every leg is priced to the nearest quantum.                              *)
LEMMA PricedToTheQuantum ==
    ASSUME Priceable
    PROVE  /\ IsFiniteSet(DOMAIN legs)
           /\ Raw \in [DOMAIN legs -> Nat] /\ Exacts \in [DOMAIN legs -> Nat]
           /\ \A j \in DOMAIN legs : Adjustable(legs[j]) <=> Foreign(legs[j])
           /\ \A j \in DOMAIN legs :
                IF Foreign(legs[j])
                THEN 2 * (Precision * Raw[j]) - 2 * Exacts[j]
                        \in (-Precision)..Precision
                ELSE /\ Precision * Raw[j] = Exacts[j]
                     /\ Raw[j] > 0
<1> USE DEF Priceable
<1>0. IsFiniteSet(DOMAIN legs)
  BY FS_Interval
<1>1. Precision \in Nat \ {0}
  BY RatesAssumption
<1>2. ASSUME NEW j \in DOMAIN legs
      PROVE  /\ Adjustable(legs[j]) <=> Foreign(legs[j])
             /\ Raw[j] \in Nat /\ Exacts[j] \in Nat
             /\ IF Foreign(legs[j])
                THEN 2 * (Precision * Raw[j]) - 2 * Exacts[j]
                        \in (-Precision)..Precision
                ELSE /\ Precision * Raw[j] = Exacts[j]
                     /\ Raw[j] > 0
  <2>1. legs[j] \in Asked
    OBVIOUS
  <2>2. /\ legs[j].amount \in Nat \ {0}
        /\ legs[j].base = None /\ legs[j].rate = None
    BY <2>1 DEF Asked
  <2>3. Adjustable(legs[j]) <=> Foreign(legs[j])
    BY <2>2 DEF Adjustable
  <2>4. CASE Foreign(legs[j])
    <3> DEFINE r == RateOf(legs[j], published, day)
    <3>1. r \in Rate
      <4>1. r # None
        BY <2>4 DEF MissingFxRate
      <4>2. r = RateFor(published, legs[j].currency, day)
        BY <2>2 DEF RateOf
      <4> QED  BY <4>1, <4>2, RateIsPublished
    <3>2. r \in [num : Nat \ {0}, den : Nat \ {0}] /\ Precision % r.den = 0
      BY <3>1, RatesAssumption
    <3>3. /\ Raw[j] = Convert(legs[j].amount, r)
          /\ Exacts[j] = (Precision * legs[j].amount * r.num) \div r.den
      BY <2>2, <2>4 DEF Raw, RawBases, Exacts, Exact
    <3> HIDE DEF r
    <3> DEFINE a == legs[j].amount
    <3>4. a \in Nat
      BY <2>2
    <3> HIDE DEF a
    <3>5. LET worth == (Precision * a * r.num) \div r.den IN
           /\ worth \in Nat
           /\ Convert(a, r) \in Nat
           /\ 2 * (Precision * Convert(a, r)) - 2 * worth
                 \in (-Precision)..Precision
      BY <1>1, <3>2, <3>4, ConvertIsNear
    <3>6. /\ Exacts[j] \in Nat /\ Raw[j] \in Nat
          /\ 2 * (Precision * Raw[j]) - 2 * Exacts[j] \in (-Precision)..Precision
      BY <3>3, <3>5, Zenon DEF a
    <3> QED  BY <2>3, <2>4, <3>6
  <2>5. CASE ~Foreign(legs[j])
    <3>1. /\ Raw[j] = legs[j].amount
          /\ Exacts[j] = Precision * legs[j].amount
      BY <2>2, <2>5 DEF Raw, RawBases, Exacts, Exact
    <3>2. Exacts[j] \in Nat
      BY <1>1, <2>2, <3>1
    <3> QED  BY <2>2, <2>3, <2>5, <3>1, <3>2
  <2> QED  BY <2>4, <2>5
<1>3. Raw \in [DOMAIN legs -> Nat] /\ Exacts \in [DOMAIN legs -> Nat]
  <2>1. /\ Raw = [j \in DOMAIN legs |-> Raw[j]]
        /\ Exacts = [j \in DOMAIN legs |-> Exacts[j]]
    BY DEF Raw, RawBases, Exacts
  <2> QED  BY <1>2, <2>1
<1> QED  BY <1>0, <1>2, <1>3

(* Multiples compare as what they are multiples of.                         *)
LEMMA MultiplesCompare ==
    ASSUME NEW P \in Nat \ {0}, NEW a \in Int, NEW b \in Int, P * a <= P * b
    PROVE  a <= b
<1>1. a >= b + 1 => P * a >= P * (b + 1)
  OBVIOUS
<1>2. P * (b + 1) = P * b + P /\ P * a \in Int /\ P * b \in Int
  OBVIOUS
<1> QED  BY <1>1, <1>2

(* Twice what pricing adds to each leg, in parts of a quantum.              *)
Errors == [j \in DOMAIN legs |-> 2 * (Precision * Raw[j]) - 2 * Exacts[j]]

(* At most half a quantum is added, to converted legs alone.                *)
LEMMA EachError ==
    ASSUME Priceable
    PROVE  /\ Errors \in [DOMAIN legs -> Int]
           /\ \A j \in DOMAIN legs :
                /\ Errors[j] = 2 * (Precision * Raw[j]) - 2 * Exacts[j]
                /\ IF Foreign(legs[j])
                   THEN Errors[j] \in (-Precision)..Precision ELSE Errors[j] = 0
<1>0. Precision \in Nat
  BY RatesAssumption
<1>1. ASSUME NEW j \in DOMAIN legs
      PROVE  /\ Errors[j] \in Int
             /\ Errors[j] = 2 * (Precision * Raw[j]) - 2 * Exacts[j]
             /\ IF Foreign(legs[j])
                THEN Errors[j] \in (-Precision)..Precision ELSE Errors[j] = 0
  <2>1. Raw[j] \in Nat /\ Exacts[j] \in Nat
    BY PricedToTheQuantum
  <2>2. Errors[j] = 2 * (Precision * Raw[j]) - 2 * Exacts[j]
    BY DEF Errors
  <2>3. Foreign(legs[j]) => Errors[j] \in (-Precision)..Precision
    BY <2>2, PricedToTheQuantum
  <2>4. ~Foreign(legs[j]) => Precision * Raw[j] = Exacts[j]
    BY PricedToTheQuantum
  <2>5. ~Foreign(legs[j]) => Errors[j] = 0
    BY <2>1, <2>2, <2>4
  <2>6. Errors[j] \in Int
    BY <1>0, <2>1, <2>2
  <2> QED  BY <2>2, <2>3, <2>5, <2>6
<1>2. Errors = [j \in DOMAIN legs |-> Errors[j]]
  BY DEF Errors
<1> QED  BY <1>1, <1>2

(* What rounding does to the residual: no more than half a quantum for each *)
(* converted leg.                                                           *)
LEMMA RoundingAddsUp ==
    ASSUME Priceable
    PROVE  /\ Roundings \in Nat
           /\ Residual(legs, Raw) \in Int /\ ExactResidual \in Int
           /\ Errors \in [DOMAIN legs -> Int]
           /\ Residual(legs, Errors)
                = 2 * (Precision * Residual(legs, Raw)) - 2 * ExactResidual
           /\ Residual(legs, Errors)
                \in (-(Precision * Roundings))..(Precision * Roundings)
<1> DEFINE D == DOMAIN legs
           P == Precision
           F == Rounded(legs)
           b == [j \in D |-> IF j \in F THEN P ELSE 0]
<1>0. P \in Nat \ {0}
  BY RatesAssumption
<1>1. /\ IsFiniteSet(D) /\ Raw \in [D -> Nat] /\ Exacts \in [D -> Nat]
      /\ \A j \in D :
           IF Foreign(legs[j])
           THEN 2 * (P * Raw[j]) - 2 * Exacts[j] \in (-P)..P
           ELSE P * Raw[j] = Exacts[j]
  BY PricedToTheQuantum
<1>2. Raw \in [D -> Int] /\ Exacts \in [D -> Int]
  BY <1>1
<1>3. F \in SUBSET D /\ IsFiniteSet(F) /\ Roundings = Cardinality(F)
  BY <1>1, FS_Subset DEF Rounded, Roundings
<1>4. Roundings \in Nat
  BY <1>3, FS_CardinalityType
<1>5. Errors \in [D -> Int]
  BY EachError
<1>6. \A j \in D : Errors[j] \in (-b[j])..b[j]
  <2> TAKE j \in D
  <2>1. CASE Foreign(legs[j])
    <3>1. b[j] = P
      BY <2>1 DEF Rounded
    <3> QED  BY <2>1, <3>1, EachError, Zenon
  <2>2. CASE ~Foreign(legs[j])
    <3>1. b[j] = 0
      BY <2>2 DEF Rounded
    <3>2. Errors[j] = 0
      BY <2>2, EachError
    <3> QED  BY <3>1, <3>2
  <2> QED  BY <2>1, <2>2
<1>7. b \in [D -> Nat] /\ SumOf(D, b) = Roundings * P
  <2>1. \A j \in D : b[j] = IF j \in F THEN P ELSE 0
    OBVIOUS
  <2>2. b \in [D -> Nat]
    BY <1>0
  <2> HIDE DEF b
  <2>3. SumOf(D, b) = Cardinality(F) * P
    BY <1>0, <1>1, <1>3, <2>1, SumOfSome
  <2> QED  BY <1>3, <2>2, <2>3
<1> HIDE DEF b, D, F
<1>8. Residual(legs, Errors) \in (-SumOf(D, b))..SumOf(D, b)
  BY <1>1, <1>5, <1>6, <1>7, ResidualIsBounded DEF D
<1>9. Roundings * P = P * Roundings
  BY <1>0, <1>4
<1>10. Residual(legs, Raw) \in Int /\ Residual(legs, Exacts) \in Int
  BY <1>1, <1>2, ResidualIsInt DEF D
<1>11. Residual(legs, Errors)
         = (2 * P) * Residual(legs, Raw) - 2 * Residual(legs, Exacts)
  <2>1. 2 * P \in Int /\ 2 \in Int
    BY <1>0
  <2>2. \A j \in D : Errors[j] = (2 * P) * Raw[j] - 2 * Exacts[j]
    <3> TAKE j \in D
    <3>1. Raw[j] \in Nat /\ Exacts[j] \in Nat
      BY <1>1
    <3>2. Errors[j] = 2 * (P * Raw[j]) - 2 * Exacts[j]
      BY DEF Errors, D
    <3>3. 2 * (P * Raw[j]) = (2 * P) * Raw[j]
      BY <1>0, <3>1
    <3> QED  BY <3>2, <3>3, Zenon
  <2> DEFINE c == 2 * P
             d == 2
  <2>3. c \in Int /\ d \in Int
    BY <2>1
  <2>4. \A j \in D : Errors[j] = c * Raw[j] - d * Exacts[j]
    BY <2>2
  <2> HIDE DEF c, d
  <2>5. Combined(legs, c, Raw, d, Exacts, Errors) /\ IsFiniteSet(DOMAIN legs)
    BY <1>1, <1>2, <1>5, <2>3, <2>4 DEF Combined, D
  <2>6. Residual(legs, Errors)
          = c * Residual(legs, Raw) - d * Residual(legs, Exacts)
    BY <2>5, ResidualIsLinear
  <2> QED  BY <2>6 DEF c, d
<1>12. ExactResidual = Residual(legs, Exacts)
  BY DEF ExactResidual, Exacts
<1>13. (2 * P) * Residual(legs, Raw) = 2 * (P * Residual(legs, Raw))
  BY <1>0, <1>10
<1>14. Residual(legs, Errors) = 2 * (P * Residual(legs, Raw)) - 2 * ExactResidual
  BY <1>11, <1>12, <1>13, Zenon
<1>15. Residual(legs, Errors) \in (-(P * Roundings))..(P * Roundings)
  BY <1>7, <1>8, <1>9, Zenon
<1> QED  BY <1>4, <1>5, <1>10, <1>12, <1>14, <1>15 DEF D

(* Of finitely many legs that are rounded there is a largest one, the last  *)
(* of those of equal base amount.                                           *)
LEMMA LargestLeg ==
    ASSUME NEW D \in SUBSET Nat, IsFiniteSet(D), D # {}, NEW x, \A j \in D : x[j] \in Nat
    PROVE  \E i \in D : \A j \in D : x[j] < x[i] \/ (x[j] = x[i] /\ j <= i)
<1> DEFINE values == {x[j] : j \in D}
<1>1. values \in SUBSET Nat /\ values # {}
  OBVIOUS
<1>2. IsFiniteSet(values)
  <2> DEFINE value == [j \in D |-> x[j]]
  <2>1. value \in Surjection(D, values)
    BY DEF Surjection
  <2> QED  BY <2>1, FS_Surjection
<1>3. PICK m \in values : \A v \in values : v <= m
  BY <1>1, <1>2, LargestId
<1> DEFINE top == {j \in D : x[j] = m}
<1>4. top \in SUBSET Nat /\ top # {} /\ IsFiniteSet(top)
  <2>1. top \subseteq D
    OBVIOUS
  <2> QED  BY <2>1, FS_Subset
<1>5. PICK i \in top : \A j \in top : j <= i
  BY <1>4, LargestId
<1>6. ASSUME NEW j \in D PROVE x[j] < x[i] \/ (x[j] = x[i] /\ j <= i)
  <2>1. x[j] <= m /\ x[i] = m /\ x[j] \in Nat /\ m \in Nat
    BY <1>1, <1>3, <1>5
  <2>2. CASE x[j] = m
    BY <1>5, <2>1, <2>2
  <2>3. CASE x[j] # m
    BY <2>1, <2>3
  <2> QED  BY <2>2, <2>3
<1> QED  BY <1>5, <1>6

(* The residual taken up by leg l.                                          *)
Shifted(l) ==
    [Raw EXCEPT ![l] =
        @ + IF legs[l].direction = "DEBIT" THEN -Residual(legs, Raw)
            ELSE Residual(legs, Raw)]

(* The residual is left alone, or all of it taken up by one rounded leg.    *)
LEMMA ResidualIsTakenUp ==
    ASSUME Priceable
    PROVE  LET r == Residual(legs, Raw)
               within == Roundings > 0 /\ r \in (-Roundings)..Roundings
               bases == PriceLegs(legs, published, day)
           IN  /\ ~within => bases = Raw
               /\ within => \E l \in Rounded(legs) : bases = Shifted(l)
<1> DEFINE r == Residual(legs, Raw)
           within == Roundings > 0 /\ r \in (-Roundings)..Roundings
           bases == PriceLegs(legs, published, day)
           F == Rounded(legs)
           Best(i) == \A j \in F : Raw[j] < Raw[i] \/ (Raw[j] = Raw[i] /\ j <= i)
           l == CHOOSE i \in F : Best(i)
<1>1. /\ IsFiniteSet(DOMAIN legs) /\ Raw \in [DOMAIN legs -> Nat]
      /\ \A j \in DOMAIN legs : Adjustable(legs[j]) <=> Foreign(legs[j])
  BY PricedToTheQuantum
<1>2. /\ {j \in DOMAIN legs : Adjustable(legs[j])} = F
      /\ Roundings = Cardinality(F)
  BY <1>1 DEF Rounded, Roundings
<1>3. Absorbable(legs, r) <=> within
  BY <1>2, Zenon DEF Absorbable
<1>4. bases = IF within THEN Shifted(l) ELSE Raw
  <2> DEFINE C == {j \in DOMAIN legs : Adjustable(legs[j])}
             k == CHOOSE i \in C : \A j \in C :
                     Raw[j] < Raw[i] \/ (Raw[j] = Raw[i] /\ j <= i)
  <2>1. bases = Absorb(legs, Raw)
    BY DEF PriceLegs, Raw
  <2>2. Absorb(legs, Raw) = IF Absorbable(legs, r) THEN Shifted(k) ELSE Raw
    BY DEF Absorb, Shifted
  <2>3. k = l
    BY <1>2, Zenon
  <2> HIDE DEF k, l, r, within, bases
  <2> QED  BY <1>3, <2>1, <2>2, <2>3
<1>5. F \in SUBSET Nat /\ F \subseteq DOMAIN legs /\ IsFiniteSet(F)
  <2>1. F \subseteq DOMAIN legs
    BY DEF Rounded
  <2>2. DOMAIN legs \subseteq Nat
    BY DEF Priceable
  <2> QED  BY <1>1, <2>1, <2>2, FS_Subset
<1>6. ASSUME within PROVE l \in F
  <2>1. F # {}
    <3>1. Cardinality({}) = 0
      BY FS_EmptySet
    <3> QED  BY <1>2, <1>6, <3>1
  <2>2. \A j \in F : Raw[j] \in Nat
    BY <1>1, <1>5
  <2> HIDE DEF F
  <2>3. \E i \in F : Best(i)
    BY <1>5, <2>1, <2>2, LargestLeg
  <2> HIDE DEF Best
  <2> QED  BY <2>3
<1> QED  BY <1>4, <1>6

(* The amounts of two sums: what P * N bounds, by multiples of P.           *)
LEMMA WithinMultiples ==
    ASSUME NEW P \in Nat \ {0}, NEW N \in Nat, NEW r \in Int
    PROVE  /\ P * r \in Int /\ P * N \in Nat
           /\ r \in (-N)..N => P * r \in (-(P * N))..(P * N)
           /\ 2 * (P * r) \in (-(P * N))..(P * N) => 2 * r \in (-N)..N
<1>1. P * r \in Int /\ P * N \in Nat /\ P * (0 - N) = 0 - P * N
  OBVIOUS
<1>2. ASSUME r \in (-N)..N PROVE P * r \in (-(P * N))..(P * N)
  <2>1. P * r <= P * N /\ P * (0 - N) <= P * r
    BY <1>2
  <2> QED  BY <1>1, <2>1
<1>3. ASSUME 2 * (P * r) \in (-(P * N))..(P * N) PROVE 2 * r \in (-N)..N
  <2>1. P * (2 * r) = 2 * (P * r) /\ 2 * r \in Int /\ 0 - N \in Int
    OBVIOUS
  <2>2. P * (2 * r) <= P * N /\ P * (0 - N) <= P * (2 * r)
    BY <1>1, <1>3, <2>1
  <2>3. 2 * r <= N
    BY <2>1, <2>2, MultiplesCompare
  <2>4. 0 - N <= 2 * r
    BY <2>1, <2>2, MultiplesCompare
  <2> QED  BY <2>3, <2>4
<1> QED  BY <1>1, <1>2, <1>3

(* Rounding is all that pricing absorbs.                                    *)
LEMMA LegsThatBalance ==
    ASSUME Priceable, Residual(legs, PriceLegs(legs, published, day)) = 0
    PROVE  LET most == 3 * Precision * Roundings
           IN  2 * ExactResidual \in (-most)..most
<1> DEFINE P == Precision
           N == Roundings
           r == Residual(legs, Raw)
           e == Residual(legs, Errors)
           x == ExactResidual
<1>1. /\ N \in Nat /\ r \in Int /\ x \in Int
      /\ e = 2 * (P * r) - 2 * x /\ e \in (-(P * N))..(P * N)
  BY RoundingAddsUp
<1>2. P \in Nat \ {0}
  BY RatesAssumption
<1>3. r \in (-N)..N
  <2>1. CASE N > 0 /\ r \in (-N)..N
    BY <2>1
  <2>2. CASE ~(N > 0 /\ r \in (-N)..N)
    <3>1. PriceLegs(legs, published, day) = Raw
      BY <2>2, ResidualIsTakenUp
    <3>2. r = 0
      BY <3>1
    <3> QED  BY <1>1, <3>2
  <2> QED  BY <2>1, <2>2
<1> HIDE DEF P, N, r, e, x
<1>4. P * r \in (-(P * N))..(P * N) /\ P * r \in Int /\ P * N \in Nat
  BY <1>1, <1>2, <1>3, WithinMultiples
<1>5. 3 * P * N = 3 * (P * N)
  BY <1>1, <1>2
<1>6. 2 * x \in (-(3 * (P * N)))..(3 * (P * N))
  BY <1>1, <1>4
<1> QED  BY <1>5, <1>6, Zenon DEF P, N, x

(* What the other legs' rounding leaves of the residual for one leg to take *)
(* up is half a quantum less than what all may leave.                       *)
LEMMA RestIsSmaller ==
    ASSUME Priceable, NEW l \in Rounded(legs)
    PROVE  LET rest == Residual(legs, Errors)
                         - IF legs[l].direction = "DEBIT" THEN Errors[l]
                           ELSE -Errors[l]
               most == Precision * Roundings - Precision
           IN  /\ most \in Nat
               /\ rest \in (-most)..most
<1> DEFINE D == DOMAIN legs
           P == Precision
           F == Rounded(legs)
           others == [j \in D |-> IF j = l THEN 0 ELSE Errors[j]]
           b == [j \in D |-> IF j \in F \ {l} THEN P ELSE 0]
<1>0. P \in Nat \ {0}
  BY RatesAssumption
<1>1. /\ IsFiniteSet(D) /\ F \subseteq D /\ l \in D /\ IsFiniteSet(F)
      /\ Roundings = Cardinality(F)
  BY PricedToTheQuantum, FS_Subset DEF Rounded, Roundings
<1>2. /\ Errors \in [D -> Int] /\ Errors[l] \in Int
      /\ \A j \in D : IF j \in F THEN Errors[j] \in (-P)..P ELSE Errors[j] = 0
  BY <1>1, EachError DEF Rounded
<1>3. others \in [D -> Int]
  BY <1>2
<1>4. \A j \in D : others[j] \in (-b[j])..b[j]
  <2> TAKE j \in D
  <2>1. CASE j \in F \ {l}
    BY <1>2, <2>1
  <2>2. CASE j \notin F \ {l}
    <3>1. b[j] = 0 /\ others[j] = 0
      BY <1>2, <2>2
    <3> QED  BY <3>1
  <2> QED  BY <2>1, <2>2
<1>5. SumOf(D, b) = Cardinality(F \ {l}) * P /\ b \in [D -> Nat]
  <2>1. \A j \in D : b[j] = IF j \in F \ {l} THEN P ELSE 0
    OBVIOUS
  <2>2. b \in [D -> Nat]
    BY <1>0
  <2>3. F \ {l} \in SUBSET D
    BY <1>1
  <2> HIDE DEF b, D, F
  <2> DEFINE T == F \ {l}
  <2>4. T \in SUBSET D /\ \A j \in D : b[j] = IF j \in T THEN P ELSE 0
    BY <2>1, <2>3
  <2> HIDE DEF T
  <2>5. SumOf(D, b) = Cardinality(T) * P
    BY <1>0, <1>1, <2>4, SumOfSome
  <2> QED  BY <2>2, <2>5 DEF T
<1>6. Cardinality(F \ {l}) = Cardinality(F) - 1 /\ Cardinality(F) \in Nat
      /\ Cardinality(F \ {l}) \in Nat
  <2>1. IsFiniteSet(F \ {l})
    BY <1>1, FS_Subset
  <2> QED  BY <1>1, <2>1, FS_RemoveElement, FS_CardinalityType
<1>7. Residual(legs, others)
        = Residual(legs, Errors)
            + IF legs[l].direction = "DEBIT" THEN 0 - Errors[l] ELSE Errors[l] - 0
  <2>1. others[l] = 0 /\ \A j \in D : j # l => others[j] = Errors[j]
    BY <1>1, <1>2
  <2> HIDE DEF others
  <2> DEFINE i == l
  <2>2. Residual(legs, others)
         = Residual(legs, Errors)
             + IF legs[i].direction = "DEBIT" THEN others[i] - Errors[i]
               ELSE Errors[i] - others[i]
    BY <1>1, <1>2, <1>3, <2>1, ResidualOfChanged
  <2> QED  BY <2>1, <2>2, Zenon
<1> DEFINE n == Cardinality(F \ {l})
<1>8. Residual(legs, others) \in (-SumOf(D, b))..SumOf(D, b)
  <2> HIDE DEF others, b
  <2> QED  BY <1>1, <1>3, <1>4, <1>5, ResidualIsBounded
<1>9. Residual(legs, Errors) \in Int
  BY RoundingAddsUp
<1> HIDE DEF others, b, F, D, P
<1>10. SumOf(D, b) = P * Roundings - P /\ SumOf(D, b) \in Nat
  <2>1. Roundings = n + 1 /\ n \in Nat /\ SumOf(D, b) = n * P
    BY <1>1, <1>5, <1>6
  <2> HIDE DEF n
  <2>2. P * (n + 1) = P * n + P /\ n * P = P * n /\ P * n \in Nat
    BY <1>0, <2>1
  <2> QED  BY <1>0, <2>1, <2>2
<1> DEFINE z == Errors[l]
           e == Residual(legs, Errors)
<1>11. z \in Int /\ e \in Int
  BY <1>2, <1>9
<1>12. Residual(legs, others) = e - IF legs[l].direction = "DEBIT" THEN z ELSE -z
  <2> HIDE DEF z, e
  <2>1. e + (IF legs[l].direction = "DEBIT" THEN 0 - z ELSE z - 0)
          = e - IF legs[l].direction = "DEBIT" THEN z ELSE -z
    BY <1>11
  <2> QED  BY <1>7, <2>1, Zenon DEF z, e
<1> QED  BY <1>8, <1>10, <1>12, Zenon DEF P

(* Rounding refuses nothing that is worth more than it adds up to.          *)
LEMMA LegsThatShouldBalance ==
    ASSUME Priceable, ExactResidual = 0
    PROVE  LET bases == PriceLegs(legs, published, day) IN
           /\ Residual(legs, bases) = 0
           /\ (\A j \in DOMAIN legs :
                  Foreign(legs[j]) => 2 * Exact(j) > Precision * Roundings)
                 => Bookable(legs, bases)
<1> DEFINE D == DOMAIN legs
           P == Precision
           N == Roundings
           r == Residual(legs, Raw)
           e == Residual(legs, Errors)
           bases == PriceLegs(legs, published, day)
           Large == \A j \in D : Foreign(legs[j]) => 2 * Exacts[j] > P * N
<1>0. P \in Nat \ {0}
  BY RatesAssumption
<1>1. /\ N \in Nat /\ r \in Int
      /\ e = 2 * (P * r) - 2 * 0 /\ e \in (-(P * N))..(P * N)
  BY RoundingAddsUp
<1>2. P * r \in Int /\ P * N \in Nat /\ e = 2 * (P * r)
  BY <1>0, <1>1
<1>3. 2 * r \in (-N)..N
  <2> HIDE DEF P, N, r, e
  <2> QED  BY <1>0, <1>1, <1>2, WithinMultiples
<1>4. Large <=> \A j \in D : Foreign(legs[j]) => 2 * Exact(j) > P * N
  BY DEF Exacts
<1>5. ASSUME NEW j \in D
      PROVE  /\ Raw[j] \in Nat /\ Exacts[j] \in Nat
             /\ Foreign(legs[j]) /\ Large => Raw[j] > 0
             /\ ~Foreign(legs[j]) => Raw[j] > 0
  <2>1. /\ Raw[j] \in Nat /\ Exacts[j] \in Nat
        /\ ~Foreign(legs[j]) => Raw[j] > 0
        /\ Foreign(legs[j]) => 2 * (P * Raw[j]) - 2 * Exacts[j] \in (-P)..P
    BY PricedToTheQuantum
  <2>2. ASSUME Foreign(legs[j]), Large PROVE Raw[j] > 0
    <3>1. N >= 1
      <4>1. j \in Rounded(legs) /\ IsFiniteSet(Rounded(legs))
        BY <2>2, PricedToTheQuantum, FS_Subset DEF Rounded
      <4>2. N = Cardinality(Rounded(legs))
        BY DEF Rounded, Roundings
      <4>3. Cardinality(Rounded(legs)) # 0
        BY <4>1, FS_EmptySet
      <4> QED  BY <1>1, <4>2, <4>3
    <3>2. 2 * Exacts[j] > P * N
      BY <2>2
    <3> DEFINE x == Raw[j]
               y == Exacts[j]
    <3>3. x \in Nat /\ y \in Nat /\ 2 * (P * x) - 2 * y \in (-P)..P /\ 2 * y > P * N
      BY <2>1, <2>2, <3>2
    <3> HIDE DEF P, N, x, y
    <3>4. P * N >= P
      BY <1>0, <1>1, <3>1
    <3>5. P * x \in Nat
      BY <1>0, <3>3
    <3>6. P * x > 0
      BY <1>0, <1>2, <3>3, <3>4, <3>5
    <3>7. x # 0
      BY <1>0, <3>6
    <3> QED  BY <3>3, <3>7 DEF x
  <2> QED  BY <2>1, <2>2
<1>6. CASE N = 0
  <2>1. r = 0
    BY <1>1, <1>3, <1>6
  <2>2. bases = Raw
    BY <1>6, ResidualIsTakenUp
  <2>3. \A j \in D : bases[j] > 0
    <3> TAKE j \in D
    <3>1. Rounded(legs) = {}
      <4>1. IsFiniteSet(Rounded(legs)) /\ N = Cardinality(Rounded(legs))
        BY PricedToTheQuantum, FS_Subset DEF Rounded, Roundings
      <4> QED  BY <1>6, <4>1, FS_EmptySet
    <3>2. ~Foreign(legs[j])
      BY <3>1 DEF Rounded
    <3> QED  BY <1>5, <2>2, <3>2
  <2> QED  BY <2>1, <2>2, <2>3 DEF Bookable
<1>7. CASE N > 0
  <2>1. r \in (-N)..N
    BY <1>1, <1>3
  <2>2. PICK l \in Rounded(legs) : bases = Shifted(l)
    BY <1>7, <2>1, ResidualIsTakenUp
  <2>3. /\ l \in D /\ Foreign(legs[l])
        /\ Raw \in [D -> Nat] /\ Raw \in [D -> Int] /\ IsFiniteSet(D)
    BY PricedToTheQuantum DEF Rounded
  <2>4. /\ \A j \in D : j # l => bases[j] = Raw[j]
        /\ bases[l] = Raw[l] + IF legs[l].direction = "DEBIT" THEN -r ELSE r
        /\ bases \in [D -> Int]
    <3>1. Raw[l] \in Nat
      BY <1>5, <2>3
    <3> HIDE DEF r, bases, D
    <3> QED  BY <1>1, <2>2, <2>3, <3>1 DEF Shifted, r
  <2>5. Residual(legs, bases) = 0
    <3> HIDE DEF bases
    <3>1. Residual(legs, bases)
            = Residual(legs, Raw)
                + IF legs[l].direction = "DEBIT" THEN bases[l] - Raw[l]
                  ELSE Raw[l] - bases[l]
      BY <2>3, <2>4, ResidualOfChanged
    <3> DEFINE x == Raw[l]
               y == bases[l]
    <3>2. x \in Nat /\ y = x + IF legs[l].direction = "DEBIT" THEN -r ELSE r
      BY <2>3, <2>4
    <3>3. Residual(legs, bases)
            = r + IF legs[l].direction = "DEBIT" THEN y - x ELSE x - y
      BY <3>1
    <3> HIDE DEF x, y, r
    <3> QED  BY <1>1, <3>2, <3>3
  <2>6. ASSUME Large PROVE bases[l] > 0
    <3> DEFINE x == Raw[l]
               y == Exacts[l]
               z == Errors[l]
               s == legs[l].direction
               most == P * N - P
               q == e - IF s = "DEBIT" THEN z ELSE -z
               base == bases[l]
    <3>1. /\ x \in Nat /\ y \in Nat /\ 2 * y > P * N
          /\ z = 2 * (P * x) - 2 * y
      BY <1>5, <2>3, <2>6, EachError
    <3>2. most \in Nat /\ q \in (-most)..most
      BY RestIsSmaller
    <3>3. base = IF s = "DEBIT" THEN x - r ELSE x + r
      <4>1. base = x + IF s = "DEBIT" THEN -r ELSE r
        BY <2>4
      <4> HIDE DEF base, x, r, s
      <4> QED  BY <1>1, <3>1, <4>1
    <3> HIDE DEF P, N, x, y, z, s, base, r, e
    <3>4. /\ P * (x - r) = P * x - P * r /\ P * (x + r) = P * x + P * r
          /\ P * x \in Nat
      BY <1>0, <1>1, <3>1
    <3>5. 2 * (P * base) >= 2 * y - most /\ P * base \in Int /\ base \in Int
      <4>1. CASE s = "DEBIT"
        <5>1. P * base = P * x - P * r /\ base \in Int
          BY <1>1, <3>1, <3>3, <3>4, <4>1
        <5> HIDE DEF most
        <5> QED  BY <1>2, <3>1, <3>2, <3>4, <4>1, <5>1
      <4>2. CASE s # "DEBIT"
        <5>1. P * base = P * x + P * r /\ base \in Int
          BY <1>1, <3>1, <3>3, <3>4, <4>2
        <5> HIDE DEF most
        <5> QED  BY <1>2, <3>1, <3>2, <3>4, <4>2, <5>1
      <4> QED  BY <4>1, <4>2
    <3>6. P * base > 0
      BY <1>0, <1>2, <3>1, <3>5
    <3>7. base > 0
      BY <1>0, <3>5, <3>6
    <3> QED  BY <3>7 DEF base
  <2>7. ASSUME Large PROVE Bookable(legs, bases)
    <3>1. \A j \in D : bases[j] > 0
      <4> TAKE j \in D
      <4>1. CASE j = l
        BY <2>6, <2>7, <4>1
      <4>2. CASE j # l
        BY <1>5, <2>4, <2>7, <4>2
      <4> QED  BY <4>1, <4>2
    <3> QED  BY <2>5, <3>1 DEF Bookable
  <2> QED  BY <1>4, <2>5, <2>7
<1> QED  BY <1>1, <1>6, <1>7

-----------------------------------------------------------------------------
(* What is posted. *)

(* An entry.                                                                *)
PostedLeg ==
    [account : {BaseCurrency} \cup Currency,
     currency : {BaseCurrency} \cup Currency,
     direction : {"DEBIT", "CREDIT"}, amount : Nat,
     rate : Rate \cup {None}, base : Int]

(* One transfer takes back the other. *)
Undone(t, u) ==
    /\ Len(t) = Len(u)
    /\ \A j \in DOMAIN t :
          /\ u[j].account = t[j].account
          /\ u[j].direction # t[j].direction
          /\ u[j].amount = t[j].amount
          /\ u[j].base = t[j].base

(* What was reversed is undone by what reversed it.                         *)
PricedInv ==
    /\ Published
    /\ day \in Nat
    /\ legs \in Seq(Asked)
    /\ booked \in Seq(Seq(PostedLeg))
    /\ \A pair \in reversed :
          /\ pair[1] \in DOMAIN booked /\ pair[2] \in DOMAIN booked
          /\ Undone(booked[pair[1]], booked[pair[2]])

(* A leg as it may be asked for: with or without a rate and a base amount.  *)
LegToPrice ==
    [account : {BaseCurrency} \cup Currency,
     currency : {BaseCurrency} \cup Currency,
     direction : {"DEBIT", "CREDIT"}, amount : Nat,
     rate : Rate \cup {None}, base : Int \cup {None}]

(* Base amounts are whole quanta.                                           *)
LEMMA PricesAreWhole ==
    ASSUME Published, day \in Nat, NEW t \in Seq(LegToPrice),
           ~MissingFxRate(t, published, day)
    PROVE  /\ RawBases(t, published, day) \in [DOMAIN t -> Int]
           /\ PriceLegs(t, published, day) \in [DOMAIN t -> Int]
<1> DEFINE D == DOMAIN t
           raw == RawBases(t, published, day)
<1>1. IsFiniteSet(D)
  BY FS_Interval
<1>2. ASSUME NEW j \in D PROVE raw[j] \in Int
  <2>1. t[j] \in LegToPrice
    OBVIOUS
  <2>2. CASE t[j].base # None
    <3>1. raw[j] = t[j].base
      BY <2>2 DEF RawBases
    <3> QED  BY <2>1, <2>2, <3>1 DEF LegToPrice
  <2>3. CASE t[j].base = None /\ Foreign(t[j])
    <3> DEFINE r == RateOf(t[j], published, day)
               a == t[j].amount
    <3>1. raw[j] = Convert(a, r)
      BY <2>3 DEF RawBases
    <3>2. r # None
      BY <2>3 DEF MissingFxRate
    <3>3. r \in Rate \cup {None}
      BY <2>1, RateIsPublished DEF RateOf, LegToPrice
    <3>4. r \in [num : Nat \ {0}, den : Nat \ {0}]
      BY <3>2, <3>3, RatesAssumption
    <3>5. a \in Nat
      BY <2>1 DEF LegToPrice
    <3> HIDE DEF r, a
    <3>6. a * r.num \in Nat /\ r.den \in Nat \ {0}
      BY <3>4, <3>5
    <3>7. Convert(a, r) \in Nat
      BY <3>6, HalfEvenIsNear DEF Convert
    <3> QED  BY <3>1, <3>7
  <2>4. CASE t[j].base = None /\ ~Foreign(t[j])
    <3>1. raw[j] = t[j].amount
      BY <2>4 DEF RawBases
    <3> QED  BY <2>1, <3>1 DEF LegToPrice
  <2> QED  BY <2>2, <2>3, <2>4
<1>3. raw \in [D -> Int]
  <2>1. raw = [j \in D |-> raw[j]]
    BY DEF RawBases
  <2> QED  BY <1>2, <2>1
<1> HIDE DEF raw
<1>4. Residual(t, raw) \in Int
  BY <1>1, <1>3, ResidualIsInt
<1>5. Absorb(t, raw) \in [D -> Int]
  <2> DEFINE x == Residual(t, raw)
  <2> HIDE DEF x
  <2>1. CASE ~Absorbable(t, Residual(t, raw))
    BY <1>3, <2>1 DEF Absorb
  <2>2. CASE Absorbable(t, Residual(t, raw))
    <3> DEFINE candidates == {j \in DOMAIN t : Adjustable(t[j])}
               k == CHOOSE i \in candidates : \A j \in candidates :
                      raw[j] < raw[i] \/ (raw[j] = raw[i] /\ j <= i)
               v == raw[k] + IF t[k].direction = "DEBIT" THEN -x ELSE x
    <3>1. Absorb(t, raw) = [raw EXCEPT ![k] = v]
      BY <2>2 DEF Absorb, x
    <3>2. k \in D => v \in Int
      <4> HIDE DEF k
      <4>1. x \in Int
        BY <1>4 DEF x
      <4> QED  BY <1>3, <4>1
    <3> HIDE DEF k, v
    <3>3. [raw EXCEPT ![k] = v] \in [D -> Int]
      BY <1>3, <3>2
    <3> QED  BY <3>1, <3>3
  <2> QED  BY <2>1, <2>2
<1> QED  BY <1>3, <1>5 DEF PriceLegs, raw

(* Where every base amount is given, or none is converted, it is not        *)
(* touched.                                                                 *)
LEMMA NothingToAdjust ==
    ASSUME NEW t, \A j \in DOMAIN t : ~Adjustable(t[j])
    PROVE  PriceLegs(t, published, day) = RawBases(t, published, day)
<1>1. {j \in DOMAIN t : Adjustable(t[j])} = {}
  OBVIOUS
<1>2. Cardinality({j \in DOMAIN t : Adjustable(t[j])}) = 0
  BY <1>1, FS_EmptySet
<1>3. \A x : ~Absorbable(t, x)
  BY <1>2 DEF Absorbable
<1> QED  BY <1>3 DEF PriceLegs, Absorb

(* Whatever is asked for is booked as entries that say the same.            *)
LEMMA BookedLegs ==
    ASSUME Published, day \in Nat, NEW t \in Seq(LegToPrice),
           ~MissingFxRate(t, published, day),
           Bookable(t, PriceLegs(t, published, day))
    PROVE  /\ Booked(t, published, day) \in Seq(PostedLeg)
           /\ Len(Booked(t, published, day)) = Len(t)
           /\ \A j \in DOMAIN t :
                 LET leg == Booked(t, published, day)[j] IN
                 /\ leg.account = t[j].account
                 /\ leg.direction = t[j].direction
                 /\ leg.amount = t[j].amount
                 /\ leg.base = PriceLegs(t, published, day)[j]
<1> DEFINE bases == PriceLegs(t, published, day)
           u == Booked(t, published, day)
           rateOf(j) == IF Foreign(t[j]) THEN RateOf(t[j], published, day) ELSE None
<1>1. DOMAIN t = 1..Len(t) /\ Len(t) \in Nat
  OBVIOUS
<1>2. u = [j \in 1..Len(t) |-> [t[j] EXCEPT !.rate = rateOf(j), !.base = bases[j]]]
  BY <1>1 DEF Booked
<1>3. ASSUME NEW j \in 1..Len(t)
      PROVE  bases[j] \in Int /\ rateOf(j) \in Rate \cup {None}
  <2>1. RateOf(t[j], published, day) \in Rate \cup {None}
    <3>1. t[j] \in LegToPrice
      OBVIOUS
    <3>2. t[j].rate \in Rate \cup {None}
      BY <3>1 DEF LegToPrice
    <3>3. RateFor(published, t[j].currency, day) \in Rate \cup {None}
      BY RateIsPublished
    <3> QED  BY <3>2, <3>3 DEF RateOf
  <2>2. bases[j] \in Int
    BY PricesAreWhole, <1>1
  <2> QED  BY <2>1, <2>2
<1> HIDE DEF bases, rateOf, u
<1>4. ASSUME NEW j \in 1..Len(t)
      PROVE  /\ u[j] \in PostedLeg
             /\ u[j].account = t[j].account /\ u[j].direction = t[j].direction
             /\ u[j].amount = t[j].amount /\ u[j].base = bases[j]
  <2>1. t[j] \in LegToPrice
    OBVIOUS
  <2>2. u[j] = [t[j] EXCEPT !.rate = rateOf(j), !.base = bases[j]]
    BY <1>2
  <2> QED  BY <1>3, <2>1, <2>2 DEF LegToPrice, PostedLeg
<1>5. u \in Seq(PostedLeg) /\ Len(u) = Len(t)
  <2> DEFINE n == Len(t)
             leg(j) == [t[j] EXCEPT !.rate = rateOf(j), !.base = bases[j]]
  <2>1. n \in Nat /\ u = [j \in 1..n |-> leg(j)]
    BY <1>1, <1>2
  <2>2. \A j \in 1..n : leg(j) \in PostedLeg
    BY <1>2, <1>4
  <2> HIDE DEF n, leg
  <2> QED  BY <2>1, <2>2 DEF n
<1> QED  BY <1>1, <1>4, <1>5 DEF u, bases

(* Legs that are asked for can be priced, as far as their form goes.        *)
LEMMA AskedCanBePriced == Seq(Asked) \subseteq Seq(LegToPrice)
<1>1. Asked \subseteq LegToPrice
  BY DEF Asked, LegToPrice
<1> QED  BY <1>1

(* So can those of a purchase, whose base amounts are both what was paid.   *)
LEMMA PurchaseCanBePriced ==
    ASSUME Published, day \in Nat, NEW c \in Currency, NEW n \in Outlay,
           RateFor(published, c, day) # None
    PROVE  LET t == Purchase(c, n)
               cost == Cost(n, RateFor(published, c, day))
           IN  /\ cost \in Nat /\ cost % Penny = 0
               /\ t \in Seq(LegToPrice) /\ Len(t) = 2
               /\ ~MissingFxRate(t, published, day)
               /\ \A j \in DOMAIN t : ~Adjustable(t[j])
               /\ RawBases(t, published, day) = [j \in DOMAIN t |-> cost]
               /\ t[1].direction = "DEBIT" /\ t[2].direction = "CREDIT"
               /\ t[2].amount = cost
<1> DEFINE r == RateFor(published, c, day)
           cost == Cost(n, r)
           t == Purchase(c, n)
<1>1. r \in Rate /\ r \in [num : Nat \ {0}, den : Nat \ {0}]
  BY RateIsPublished, RatesAssumption
<1>2. n \in Nat /\ Penny \in Nat \ {0}
  BY RatesAssumption, PricingAssumption
<1> HIDE DEF r
<1>3. cost \in Nat /\ cost % Penny = 0
  <2> DEFINE a == n * r.num
             d == r.den * Penny
             h == HalfEven(a, d)
  <2>1. a \in Nat /\ d \in Nat \ {0}
    BY <1>1, <1>2
  <2>2. cost = h * Penny
    BY DEF Cost
  <2> HIDE DEF a, d
  <2>3. h \in Nat
    BY <2>1, HalfEvenIsNear
  <2> HIDE DEF h, cost
  <2>4. cost = Penny * h /\ Penny * h \in Nat
    BY <1>2, <2>2, <2>3
  <2> QED  BY <1>2, <2>3, <2>4, Multiple
<1>4. c # BaseCurrency /\ cost # None
  BY <1>3, RatesAssumption, PricingAssumption
<1>5. t = <<[account |-> c, currency |-> c, direction |-> "DEBIT",
             amount |-> n, rate |-> r, base |-> cost],
            [account |-> BaseCurrency, currency |-> BaseCurrency,
             direction |-> "CREDIT", amount |-> cost, rate |-> None,
             base |-> None]>>
  BY DEF Purchase, InvestmentLegs, InvestmentBase, r
<1> HIDE DEF cost, t
<1>6. /\ t[1] = [account |-> c, currency |-> c, direction |-> "DEBIT",
                 amount |-> n, rate |-> r, base |-> cost]
      /\ t[2] = [account |-> BaseCurrency, currency |-> BaseCurrency,
                 direction |-> "CREDIT", amount |-> cost, rate |-> None,
                 base |-> None]
      /\ DOMAIN t = {1, 2} /\ Len(t) = 2
  BY <1>5
<1>7. t[1] \in LegToPrice /\ t[2] \in LegToPrice
  BY <1>1, <1>2, <1>3, <1>6 DEF LegToPrice
<1>8. t \in Seq(LegToPrice)
  BY <1>5, <1>6, <1>7
<1>9. Foreign(t[1]) /\ ~Foreign(t[2])
  BY <1>4, <1>6 DEF Foreign
<1>10. ~MissingFxRate(t, published, day)
  <2>1. r # None
    BY DEF r
  <2>2. RateOf(t[1], published, day) # None
    BY <1>6, <2>1 DEF RateOf
  <2> QED  BY <1>6, <1>9, <2>2 DEF MissingFxRate
<1>11. \A j \in DOMAIN t : ~Adjustable(t[j])
  BY <1>4, <1>6, <1>9 DEF Adjustable
<1>12. RawBases(t, published, day) = [j \in DOMAIN t |-> cost]
  <2> DEFINE raw == RawBases(t, published, day)
  <2>1. raw[1] = cost
    BY <1>4, <1>6 DEF RawBases
  <2>2. raw[2] = cost
    BY <1>6, <1>9 DEF RawBases
  <2>3. raw = [j \in DOMAIN t |-> raw[j]]
    BY DEF RawBases
  <2> HIDE DEF raw
  <2>4. \A j \in DOMAIN t : raw[j] = cost
    BY <1>6, <2>1, <2>2
  <2> QED  BY <2>3, <2>4 DEF raw
<1> QED  BY <1>3, <1>6, <1>8, <1>10, <1>11, <1>12 DEF cost, t, r

(* So can those of a reversal, taken back at what was booked.               *)
LEMMA ReversalCanBePriced ==
    ASSUME NEW t \in Seq(PostedLeg)
    PROVE  LET u == ReversalLegs(t) IN
           /\ u \in Seq(LegToPrice) /\ Len(u) = Len(t)
           /\ \A j \in DOMAIN u : ~Adjustable(u[j])
           /\ \A j \in DOMAIN t :
                 /\ u[j].account = t[j].account
                 /\ u[j].direction # t[j].direction
                 /\ u[j].amount = t[j].amount
                 /\ RawBases(u, published, day)[j] = t[j].base
<1> DEFINE u == ReversalLegs(t)
           n == Len(t)
           leg(j) == [t[j] EXCEPT !.direction =
                        IF @ = "DEBIT" THEN "CREDIT" ELSE "DEBIT"]
<1>1. n \in Nat /\ DOMAIN t = 1..n /\ u = [j \in 1..n |-> leg(j)]
  BY DEF ReversalLegs
<1>2. ASSUME NEW j \in 1..n
      PROVE  /\ leg(j) \in LegToPrice
             /\ leg(j).account = t[j].account
             /\ leg(j).direction # t[j].direction
             /\ leg(j).amount = t[j].amount
             /\ leg(j).base = t[j].base /\ t[j].base # None
  <2>1. t[j] \in PostedLeg
    BY <1>1
  <2> QED  BY <2>1, PricingAssumption DEF PostedLeg, LegToPrice
<1> HIDE DEF leg, n, u
<1>3. u \in Seq(LegToPrice) /\ Len(u) = n /\ DOMAIN u = 1..n
  BY <1>1, <1>2
<1>4. \A j \in 1..n : u[j] = leg(j)
  BY <1>1
<1>5. \A j \in 1..n : RawBases(u, published, day)[j] = t[j].base
  BY <1>2, <1>3, <1>4 DEF RawBases
<1>6. \A j \in 1..n : ~Adjustable(u[j])
  BY <1>2, <1>4 DEF Adjustable
<1> QED  BY <1>1, <1>2, <1>3, <1>4, <1>5, <1>6 DEF u, n

(* Two legs at the same base amount, one on each side, balance.             *)
LEMMA TwoSides ==
    ASSUME NEW t, DOMAIN t = {1, 2}, t[1].direction = "DEBIT",
           t[2].direction = "CREDIT", NEW c \in Nat
    PROVE  Residual(t, [j \in DOMAIN t |-> c]) = 0
<1> DEFINE D == {1, 2}
           x == [j \in DOMAIN t |-> c]
           s == Signed(t, x)
           one == {1}
           two == {2}
           p == [j \in D |-> IF j \in one THEN c ELSE 0]
           q == [j \in D |-> IF j \in two THEN c ELSE 0]
<1>1. IsFiniteSet(D)
  <2>1. IsFiniteSet({1})
    BY FS_Singleton
  <2>2. IsFiniteSet({1} \cup {2})
    BY <2>1, FS_AddElement, Zenon
  <2>3. D = {1} \cup {2}
    OBVIOUS
  <2> QED  BY <2>2, <2>3, Zenon
<1>2. x \in [DOMAIN t -> Int]
  OBVIOUS
<1>3. Residual(t, x) = SignedSum(s) /\ s \in [D -> Int]
  BY <1>1, <1>2, ResidualIsInt
<1>4. s[1] = c /\ s[2] = -c
  BY DEF Signed
<1>5. /\ p[1] = c /\ p[2] = 0 /\ q[1] = 0 /\ q[2] = c
      /\ \A j \in D : p[j] \in Nat /\ p[j] = IF j \in one THEN c ELSE 0
      /\ \A j \in D : q[j] \in Nat /\ q[j] = IF j \in two THEN c ELSE 0
  OBVIOUS
<1>6. /\ one \in SUBSET D /\ Cardinality(one) = 1
      /\ two \in SUBSET D /\ Cardinality(two) = 1
  BY FS_Singleton
<1> HIDE DEF D, x, s, p, q, one, two
<1>7. SumOf(D, p) = Cardinality(one) * c
  BY <1>1, <1>5, <1>6, SumOfSome
<1>8. SumOf(D, q) = Cardinality(two) * c
  BY <1>1, <1>5, <1>6, SumOfSome
<1>9. \A j \in D : s[j] = p[j] - q[j]
  BY <1>4, <1>5 DEF D
<1>10. SignedSum(s) = SumOf(D, p) - SumOf(D, q)
  BY <1>1, <1>3, <1>5, <1>9, SumOfDifference
<1>11. SignedSum(s) = 0
  BY <1>6, <1>7, <1>8, <1>10
<1> QED  BY <1>3, <1>11 DEF x

(* A purchase balances.                                                     *)
LEMMA PurchaseBalances ==
    ASSUME Published, day \in Nat, NEW c \in Currency, NEW n \in Outlay,
           RateFor(published, c, day) # None
    PROVE  LET t == Purchase(c, n) IN
           /\ Residual(t, PriceLegs(t, published, day)) = 0
           /\ t[2].amount % Penny = 0
<1> DEFINE t == Purchase(c, n)
           cost == Cost(n, RateFor(published, c, day))
<1>1. /\ cost \in Nat /\ cost % Penny = 0
      /\ t \in Seq(LegToPrice) /\ Len(t) = 2
      /\ \A j \in DOMAIN t : ~Adjustable(t[j])
      /\ RawBases(t, published, day) = [j \in DOMAIN t |-> cost]
      /\ t[1].direction = "DEBIT" /\ t[2].direction = "CREDIT"
      /\ t[2].amount = cost
  BY PurchaseCanBePriced
<1> HIDE DEF t, cost
<1>2. PriceLegs(t, published, day) = [j \in DOMAIN t |-> cost]
  BY <1>1, NothingToAdjust
<1>3. DOMAIN t = {1, 2}
  BY <1>1
<1>4. Residual(t, [j \in DOMAIN t |-> cost]) = 0
  BY <1>1, <1>3, TwoSides
<1> QED  BY <1>1, <1>2, <1>4 DEF t

-----------------------------------------------------------------------------
(* The invariant. *)

(* Nothing has been published, asked for or booked.                         *)
LEMMA PricedInit == Init => PricedInv
<1> SUFFICES ASSUME Init PROVE PricedInv
  OBVIOUS
<1>1. booked \in Seq(Seq(PostedLeg)) /\ legs \in Seq(Asked)
  BY DEF Init
<1>2. published = {} /\ day = 1 /\ reversed = {}
  BY DEF Init
<1> QED  BY <1>1, <1>2 DEF PricedInv, Published

(* What is booked does not change: transfers are appended.                  *)
LEMMA PostAppends ==
    ASSUME PricedInv, NEW t \in Seq(LegToPrice), Post(t)
    PROVE  /\ Booked(t, published, day) \in Seq(PostedLeg)
           /\ booked' \in Seq(Seq(PostedLeg))
           /\ Len(booked) \in Nat
           /\ Len(booked') = Len(booked) + 1
           /\ booked'[Len(booked) + 1] = Booked(t, published, day)
           /\ \A i \in DOMAIN booked :
                 i \in DOMAIN booked' /\ booked'[i] = booked[i]
<1> DEFINE u == Booked(t, published, day)
           S == Seq(PostedLeg)
<1>1. u \in S
  BY BookedLegs DEF PricedInv, Post
<1>2. booked \in Seq(S) /\ booked' = Append(booked, u)
  BY DEF PricedInv, Post
<1> HIDE DEF u, S
<1> QED  BY <1>1, <1>2 DEF u, S

(* The pairs that were reversed stay as they are.                           *)
LEMMA PairsStay ==
    ASSUME PricedInv, NEW t \in Seq(LegToPrice), Post(t), NEW pair \in reversed
    PROVE  /\ pair[1] \in DOMAIN booked' /\ pair[2] \in DOMAIN booked'
           /\ Undone(booked'[pair[1]], booked'[pair[2]])
<1>1. /\ pair[1] \in DOMAIN booked /\ pair[2] \in DOMAIN booked
      /\ Undone(booked[pair[1]], booked[pair[2]])
  BY DEF PricedInv
<1> QED  BY <1>1, PostAppends

(* Every step keeps it.                                                     *)
LEMMA PricedStep == PricedInv /\ [Next]_vars => PricedInv'
<1> SUFFICES ASSUME PricedInv, [Next]_vars PROVE PricedInv'
  OBVIOUS
<1>1. /\ Published /\ day \in Nat /\ legs \in Seq(Asked)
      /\ booked \in Seq(Seq(PostedLeg))
      /\ \A pair \in reversed :
            /\ pair[1] \in DOMAIN booked /\ pair[2] \in DOMAIN booked
            /\ Undone(booked[pair[1]], booked[pair[2]])
  BY DEF PricedInv
<1>2. ASSUME NEW c \in Currency, NEW d \in Days, NEW r \in Rate, Publish(c, d, r)
      PROVE  PricedInv'
  <2>1. Published'
    BY <1>1, <1>2 DEF Published, Publish
  <2>2. UNCHANGED <<day, legs, booked, reversed>>
    BY <1>2 DEF Publish
  <2> QED  BY <1>1, <2>1, <2>2 DEF PricedInv
<1>3. CASE NextDay
  <2>1. (day \in Nat)' /\ UNCHANGED <<published, legs, booked, reversed>>
    BY <1>1, <1>3 DEF NextDay
  <2> QED  BY <1>1, <2>1 DEF PricedInv, Published
<1>4. ASSUME NEW leg \in AskedLeg, AddLeg(leg) PROVE PricedInv'
  <2>1. leg \in Asked
    BY AskedLegs
  <2>2. legs' = Append(legs, leg) /\ UNCHANGED <<published, day, booked, reversed>>
    BY <1>4 DEF AddLeg
  <2>3. legs' \in Seq(Asked)
    BY <1>1, <2>1, <2>2
  <2> QED  BY <1>1, <2>2, <2>3 DEF PricedInv, Published
<1>5. CASE PostLegs
  <2>1. /\ Post(legs) /\ legs' = <<>>
        /\ UNCHANGED <<published, day, reversed>>
    BY <1>5 DEF PostLegs
  <2>2. legs \in Seq(LegToPrice)
    BY <1>1, AskedCanBePriced
  <2>3. booked' \in Seq(Seq(PostedLeg))
    BY <2>1, <2>2, PostAppends
  <2>4. \A pair \in reversed :
           /\ pair[1] \in DOMAIN booked' /\ pair[2] \in DOMAIN booked'
           /\ Undone(booked'[pair[1]], booked'[pair[2]])
    BY <2>1, <2>2, PairsStay
  <2>5. legs' \in Seq(Asked)
    BY <2>1
  <2> QED  BY <1>1, <2>1, <2>3, <2>4, <2>5 DEF PricedInv, Published
<1>6. ASSUME NEW c \in Currency, NEW n \in Outlay, Invest(c, n) PROVE PricedInv'
  <2>1. /\ RateFor(published, c, day) # None /\ Post(Purchase(c, n))
        /\ UNCHANGED <<published, day, legs, reversed>>
    BY <1>6 DEF Invest
  <2>2. Purchase(c, n) \in Seq(LegToPrice)
    BY <1>1, <2>1, PurchaseCanBePriced
  <2>3. booked' \in Seq(Seq(PostedLeg))
    BY <2>1, <2>2, PostAppends
  <2>4. \A pair \in reversed :
           /\ pair[1] \in DOMAIN booked' /\ pair[2] \in DOMAIN booked'
           /\ Undone(booked'[pair[1]], booked'[pair[2]])
    BY <2>1, <2>2, PairsStay
  <2> QED  BY <1>1, <2>1, <2>3, <2>4 DEF PricedInv, Published
<1>7. ASSUME NEW i \in DOMAIN booked, Reverse(i) PROVE PricedInv'
  <2> DEFINE t == booked[i]
             asked == ReversalLegs(t)
             u == Booked(asked, published, day)
             k == Len(booked) + 1
  <2>1. /\ Post(asked) /\ reversed' = reversed \cup {<<i, k>>}
        /\ UNCHANGED <<published, day, legs>>
    BY <1>7 DEF Reverse
  <2>2. t \in Seq(PostedLeg)
    BY <1>1
  <2>3. /\ asked \in Seq(LegToPrice) /\ Len(asked) = Len(t)
        /\ \A j \in DOMAIN asked : ~Adjustable(asked[j])
        /\ \A j \in DOMAIN t :
              /\ asked[j].account = t[j].account
              /\ asked[j].direction # t[j].direction
              /\ asked[j].amount = t[j].amount
              /\ RawBases(asked, published, day)[j] = t[j].base
    BY <2>2, ReversalCanBePriced
  <2>4. /\ Len(u) = Len(asked)
        /\ \A j \in DOMAIN asked :
              /\ u[j].account = asked[j].account
              /\ u[j].direction = asked[j].direction
              /\ u[j].amount = asked[j].amount
              /\ u[j].base = PriceLegs(asked, published, day)[j]
    BY <1>1, <2>1, <2>3, BookedLegs DEF Post
  <2>5. PriceLegs(asked, published, day) = RawBases(asked, published, day)
    BY <2>3, NothingToAdjust
  <2>6. /\ booked' \in Seq(Seq(PostedLeg)) /\ booked'[k] = u
        /\ booked'[i] = t /\ Len(booked') = k /\ k \in Nat
        /\ i \in DOMAIN booked'
    BY <2>1, <2>3, PostAppends
  <2>7. \A pair \in reversed :
           /\ pair[1] \in DOMAIN booked' /\ pair[2] \in DOMAIN booked'
           /\ Undone(booked'[pair[1]], booked'[pair[2]])
    BY <2>1, <2>3, PairsStay
  <2> HIDE DEF t, asked, u, k
  <2>8. DOMAIN asked = DOMAIN t
    BY <2>2, <2>3
  <2>9. Undone(t, u)
    BY <2>3, <2>4, <2>5, <2>8 DEF Undone
  <2>10. k \in DOMAIN booked'
    BY <2>6, k >= 1 DEF k
  <2>11. \A pair \in reversed' :
            /\ pair[1] \in DOMAIN booked' /\ pair[2] \in DOMAIN booked'
            /\ Undone(booked'[pair[1]], booked'[pair[2]])
    BY <2>1, <2>6, <2>7, <2>9, <2>10
  <2> QED  BY <1>1, <2>1, <2>6, <2>11 DEF PricedInv, Published
<1>8. CASE UNCHANGED vars
  BY <1>1, <1>8 DEF vars, PricedInv, Published
<1> QED  BY <1>2, <1>3, <1>4, <1>5, <1>6, <1>7, <1>8 DEF Next

(* So it always holds.                                                      *)
LEMMA PricedAlways == Spec => []PricedInv
<1> QED  BY PricedInit, PricedStep, PTL DEF Spec

-----------------------------------------------------------------------------

(* RoundingNeverRefuses: legs that balance at the day's rates balance as    *)
(* priced (price_legs), however many legs, and at any rates: each of them   *)
(* is off by half a quantum at most, and the largest one takes up the rest. *)
(* They are booked, too, unless one is worth no more than half a quantum    *)
(* for each converted leg.                                                  *)
THEOREM RoundingRefusesNothing == Spec => []RoundingNeverRefuses
<1>1. PricedInv => RoundingNeverRefuses
  <2> SUFFICES ASSUME PricedInv, ~MissingFxRate(legs, published, day),
                      ExactResidual = 0
               PROVE  RoundingNeverRefuses
    BY DEF RoundingNeverRefuses
  <2>1. Priceable
    BY DEF Priceable, PricedInv
  <2> QED  BY <2>1, LegsThatShouldBalance DEF RoundingNeverRefuses
<1> QED  BY <1>1, PricedAlways, PTL

(* OnlyRoundingIsAbsorbed: no more is ever hidden in a leg                  *)
(* (_absorb_rounding_residual) than rounding can have left.                 *)
THEOREM NothingElseIsAbsorbed == Spec => []OnlyRoundingIsAbsorbed
<1>1. PricedInv => OnlyRoundingIsAbsorbed
  <2> SUFFICES ASSUME PricedInv, ~MissingFxRate(legs, published, day),
                      Residual(legs, PriceLegs(legs, published, day)) = 0
               PROVE  OnlyRoundingIsAbsorbed
    BY DEF OnlyRoundingIsAbsorbed
  <2>1. Priceable
    BY DEF Priceable, PricedInv
  <2> QED  BY <2>1, LegsThatBalance DEF OnlyRoundingIsAbsorbed
<1> QED  BY <1>1, PricedAlways, PTL

(* ReversalUndoes: a reversal (reverse_transfer) takes back the amounts and *)
(* the base amounts that were booked, whatever is published meanwhile.      *)
THEOREM ReversalsTakeBack == Spec => []ReversalUndoes
<1>1. PricedInv => ReversalUndoes
  BY DEF PricedInv, Undone, ReversalUndoes
<1> QED  BY <1>1, PricedAlways, PTL

(* PurchaseIsPriced: a purchase in any currency at any rate                 *)
(* (record_investment) balances, and pays whole pennies.                    *)
THEOREM PurchasesBalance == Spec => []PurchaseIsPriced
<1>1. PricedInv => PurchaseIsPriced
  <2> SUFFICES ASSUME PricedInv, NEW c \in Currency, NEW n \in Outlay,
                      RateFor(published, c, day) # None
               PROVE  LET asked == Purchase(c, n)
                          bases == PriceLegs(asked, published, day)
                      IN  /\ Residual(asked, bases) = 0
                          /\ asked[2].amount % Penny = 0
    BY DEF PurchaseIsPriced
  <2> QED  BY PurchaseBalances DEF PricedInv
<1> QED  BY <1>1, PricedAlways, PTL

=============================================================================
