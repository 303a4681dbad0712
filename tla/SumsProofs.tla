----------------------------- MODULE SumsProofs ------------------------------
(***************************************************************************)
(* Facts about the sums of Sums.tla: a sum is the sum of its parts, and it   *)
(* does not depend on how its terms are numbered; and about the shares of   *)
(* Allocation.tla, which are such terms: they add up to the total.          *)
(***************************************************************************)
EXTENDS Allocation, FiniteSetTheorems, WellFoundedInduction, TLAPS

(* Among account ids there is always a smallest one to lock next.           *)
LEMMA SmallestId ==
    ASSUME NEW T \in SUBSET Nat, T # {}
    PROVE  \E x \in T : \A y \in T : x <= y
<1> DEFINE Less == {ss \in Nat \X Nat : ss[1] < ss[2]}
<1>1. IsWellFoundedOn(Less, Nat)
  BY NatLessThanWellFounded DEF OpToRel
<1>2. PICK x \in T : \A y \in T : <<y, x>> \notin Less
  <2> HIDE DEF Less
  <2> QED  BY <1>1, WFMin
<1>3. \A y \in T : x <= y
  <2> TAKE y \in T
  <2>1. x \in Nat /\ y \in Nat /\ ~(y < x)
    BY <1>2
  <2> QED  BY <2>1
<1> QED  BY <1>3

(* Finitely many naturals have a largest.                                   *)
LEMMA LargestId ==
    ASSUME NEW T \in SUBSET Nat, IsFiniteSet(T), T # {}
    PROVE  \E x \in T : \A y \in T : y <= x
<1> DEFINE Below == {1..i : i \in T}
           below == [i \in T |-> 1..i]
           U == UNION Below
           B == Cardinality(U)
           Gaps == {B - i : i \in T}
<1>1. IsFiniteSet(U)
  <2>1. below \in Surjection(T, Below)
    BY DEF Surjection
  <2>2. IsFiniteSet(Below)
    BY <2>1, FS_Surjection
  <2>3. \A X \in Below : IsFiniteSet(X)
    BY FS_Interval
  <2> QED  BY <2>2, <2>3, FS_UNION
<1>2. \A i \in T : i <= B
  <2> TAKE i \in T
  <2>1. 1..i \in SUBSET U
    OBVIOUS
  <2>2. Cardinality(1..i) <= B
    BY <1>1, <2>1, FS_Subset
  <2>3. Cardinality(1..i) = i
    BY FS_Interval
  <2> QED  BY <2>2, <2>3
<1>3. B \in Nat
  BY <1>1, FS_CardinalityType
<1> HIDE DEF B
<1>4. Gaps \in SUBSET Nat /\ Gaps # {}
  <2>1. \A i \in T : B - i \in Nat
    BY <1>2, <1>3
  <2> QED  BY <2>1
<1>5. PICK g \in Gaps : \A h \in Gaps : g <= h
  BY <1>4, SmallestId
<1>6. PICK x \in T : g = B - x
  BY <1>5
<1>7. \A y \in T : y <= x
  <2> TAKE y \in T
  <2>1. B - y \in Gaps
    OBVIOUS
  <2>2. B - x <= B - y
    BY <1>5, <1>6, <2>1
  <2> QED  BY <1>3, <2>2
<1> QED  BY <1>7

Units(S, f) == UNION {{i} \X (1..f[i]) : i \in S}

(* The units of finitely many amounts are finitely many, so that their      *)
(* number is a sum (SumOf) and not an arbitrary value.                      *)
LEMMA UnitsFinite ==
    ASSUME NEW S, IsFiniteSet(S), NEW f, \A i \in S : f[i] \in Nat
    PROVE  /\ IsFiniteSet(Units(S, f))
           /\ SumOf(S, f) \in Nat
<1> DEFINE Part(i) == {i} \X (1..f[i])
           Parts == {Part(i) : i \in S}
           part == [i \in S |-> Part(i)]
<1>1. \A i \in S : IsFiniteSet(Part(i))
  <2> TAKE i \in S
  <2>1. IsFiniteSet({i})
    BY FS_Singleton
  <2>2. IsFiniteSet(1..f[i])
    BY FS_Interval
  <2> QED  BY <2>1, <2>2, FS_Product
<1>2. part \in Surjection(S, Parts)
  BY DEF Surjection
<1>3. IsFiniteSet(Parts)
  BY <1>2, FS_Surjection
<1>4. IsFiniteSet(UNION Parts)
  BY <1>1, <1>3, FS_UNION
<1> QED  BY <1>4, FS_CardinalityType DEF Units, SumOf

(* The empty sum.                                                           *)
LEMMA EmptySum == \A f : SumOf({}, f) = 0
<1> TAKE f
<1>1. Units({}, f) = {}
  BY DEF Units
<1> QED  BY <1>1, FS_EmptySet DEF SumOf, Units

(* A sum over two disjoint index sets is the sum of the two sums.           *)
LEMMA SumOfUnion ==
    ASSUME NEW S, IsFiniteSet(S), NEW T, IsFiniteSet(T), S \cap T = {},
           NEW f, \A i \in S \cup T : f[i] \in Nat
    PROVE  SumOf(S \cup T, f) = SumOf(S, f) + SumOf(T, f)
<1>1. IsFiniteSet(Units(S, f)) /\ IsFiniteSet(Units(T, f))
  BY UnitsFinite
<1>2. Units(S \cup T, f) = Units(S, f) \cup Units(T, f)
  BY DEF Units
<1>3. Units(S, f) \cap Units(T, f) = {}
  BY DEF Units
<1>4. Cardinality(Units(S, f) \cup Units(T, f))
        = Cardinality(Units(S, f)) + Cardinality(Units(T, f))
  <2>1. Cardinality({}) = 0
    BY FS_EmptySet
  <2>2. Cardinality(Units(S, f)) \in Nat /\ Cardinality(Units(T, f)) \in Nat
    BY <1>1, FS_CardinalityType
  <2> DEFINE A == Units(S, f)
             B == Units(T, f)
  <2>3. Cardinality(A \cup B)
          = Cardinality(A) + Cardinality(B) - Cardinality(A \cap B)
    BY <1>1, FS_Union
  <2>4. Cardinality(A \cap B) = 0
    BY <1>3, <2>1
  <2> QED  BY <2>2, <2>3, <2>4
<1> QED  BY <1>2, <1>4 DEF SumOf, Units

(* A sum does not depend on the numbering of its terms: h renames them.     *)
LEMMA SumOfRenamed ==
    ASSUME NEW S, IsFiniteSet(S), NEW T, NEW h \in Bijection(S, T),
           NEW f, \A i \in S : f[i] \in Nat,
           NEW g, \A i \in S : g[h[i]] = f[i]
    PROVE  SumOf(T, g) = SumOf(S, f)
<1> DEFINE rename == [u \in Units(S, f) |-> <<h[u[1]], u[2]>>]
<1>0. /\ h \in [S -> T]
      /\ \A i, j \in S : h[i] = h[j] => i = j
      /\ \A t \in T : \E i \in S : h[i] = t
  BY DEF Bijection, Injection, Surjection, IsInjective
<1>1. \A u \in Units(S, f) : u[1] \in S /\ u[2] \in 1..f[u[1]]
                             /\ u = <<u[1], u[2]>>
  BY DEF Units
<1>2. \A u \in Units(S, f) : rename[u] \in Units(T, g)
  BY <1>0, <1>1 DEF Units
<1>3. \A u, v \in Units(S, f) : rename[u] = rename[v] => u = v
  BY <1>0, <1>1
<1>4. \A x \in Units(T, g) : \E u \in Units(S, f) : rename[u] = x
  <2> SUFFICES ASSUME NEW x \in Units(T, g)
               PROVE  \E u \in Units(S, f) : rename[u] = x
    OBVIOUS
  <2>1. PICK t \in T : x \in {t} \X (1..g[t])
    BY DEF Units
  <2>2. PICK i \in S : h[i] = t
    BY <1>0
  <2>3. <<i, x[2]>> \in Units(S, f)
    BY <2>1, <2>2 DEF Units
  <2>4. rename[<<i, x[2]>>] = x
    BY <2>1, <2>2, <2>3
  <2> QED  BY <2>3, <2>4
<1>5. rename \in Bijection(Units(S, f), Units(T, g))
  BY <1>2, <1>3, <1>4 DEF Bijection, Injection, Surjection, IsInjective
<1>6. ExistsBijection(Units(S, f), Units(T, g))
  BY <1>5 DEF ExistsBijection
<1>7. IsFiniteSet(Units(S, f))
  BY UnitsFinite
<1> QED  BY <1>6, <1>7, FS_Bijection DEF SumOf, Units

(* A sum grows by the sum of what is added to it, wherever the new terms     *)
(* are placed.                                                              *)
LEMMA SumOfExtended ==
    ASSUME NEW S, IsFiniteSet(S), NEW J, IsFiniteSet(J),
           NEW T, NEW place \in Bijection(J, T), S \cap T = {},
           NEW f, NEW g, NEW h,
           \A e \in S : g[e] \in Nat /\ f[e] = g[e],
           \A j \in J : h[j] \in Nat /\ f[place[j]] = h[j]
    PROVE  SumOf(S \cup T, f) = SumOf(S, g) + SumOf(J, h)
<1>1. IsFiniteSet(T)
  BY FS_Bijection DEF ExistsBijection
<1>2. \A t \in T : \E j \in J : place[j] = t
  BY DEF Bijection, Surjection
<1>3. \A e \in S \cup T : f[e] \in Nat
  BY <1>2
<1>4. SumOf(S \cup T, f) = SumOf(S, f) + SumOf(T, f)
  BY <1>1, <1>3, SumOfUnion
<1>5. SumOf(S, f) = SumOf(S, g)
  <2>1. Units(S, f) = Units(S, g)
    BY DEF Units
  <2> QED  BY <2>1 DEF SumOf, Units
<1>6. SumOf(T, f) = SumOf(J, h)
  BY SumOfRenamed
<1> QED  BY <1>4, <1>5, <1>6

(* Pairing with a fixed n numbers a set anew.                               *)
LEMMA Pairing ==
    ASSUME NEW J, NEW n
    PROVE  [j \in J |-> <<n, j>>] \in Bijection(J, {n} \X J)
<1> DEFINE place == [j \in J |-> <<n, j>>]
<1>1. place \in [J -> {n} \X J]
  OBVIOUS
<1>2. \A i, j \in J : place[i] = place[j] => i = j
  OBVIOUS
<1>3. \A x \in {n} \X J : \E j \in J : place[j] = x
  <2> TAKE x \in {n} \X J
  <2>1. x[2] \in J /\ x = <<n, x[2]>>
    OBVIOUS
  <2> QED  BY <2>1
<1>4. place \in Bijection(J, {n} \X J)
  <2> HIDE DEF place
  <2> QED  BY <1>1, <1>2, <1>3
           DEF Bijection, Injection, Surjection, IsInjective
<1> QED  BY <1>4

-----------------------------------------------------------------------------
(* Adding, repeating and comparing sums. *)

(* Sums of the same amounts are the same.                                   *)
LEMMA SumOfSame ==
    ASSUME NEW S, NEW f, NEW g, \A i \in S : f[i] = g[i]
    PROVE  SumOf(S, f) = SumOf(S, g)
<1>1. Units(S, f) = Units(S, g)
  BY DEF Units
<1> QED  BY <1>1 DEF SumOf, Units

(* Sums add up: the units of g come after those of f.                       *)
LEMMA SumOfAdded ==
    ASSUME NEW S, IsFiniteSet(S),
           NEW f, \A i \in S : f[i] \in Nat,
           NEW g, \A i \in S : g[i] \in Nat,
           NEW h, \A i \in S : h[i] = f[i] + g[i]
    PROVE  SumOf(S, h) = SumOf(S, f) + SumOf(S, g)
<1> DEFINE U == Units(S, f)
           V == Units(S, g)
           After == UNION {{i} \X ((f[i] + 1)..(f[i] + g[i])) : i \in S}
           shift == [v \in V |-> <<v[1], f[v[1]] + v[2]>>]
<1>1. IsFiniteSet(U) /\ IsFiniteSet(V)
  BY UnitsFinite
<1>2. Units(S, h) = U \cup After
  <2>1. \A i \in S : {i} \X (1..h[i])
                      = ({i} \X (1..f[i])) \cup ({i} \X ((f[i] + 1)..(f[i] + g[i])))
    <3> TAKE i \in S
    <3>1. 1..h[i] = (1..f[i]) \cup ((f[i] + 1)..(f[i] + g[i]))
      OBVIOUS
    <3> QED  BY <3>1
  <2> QED  BY <2>1 DEF Units
<1>3. U \cap After = {}
  <2> SUFFICES ASSUME NEW x \in U, x \in After PROVE FALSE
    OBVIOUS
  <2>1. PICK i \in S : x \in {i} \X (1..f[i])
    BY DEF Units
  <2>2. PICK j \in S : x \in {j} \X ((f[j] + 1)..(f[j] + g[j]))
    OBVIOUS
  <2>3. i = j
    BY <2>1, <2>2
  <2>4. x[2] \in 1..f[i] /\ x[2] \in (f[i] + 1)..(f[i] + g[i])
    BY <2>1, <2>2, <2>3
  <2> QED  BY <2>4
<1>4. shift \in Bijection(V, After)
  <2>1. \A v \in V : v[1] \in S /\ v[2] \in 1..g[v[1]] /\ v = <<v[1], v[2]>>
    BY DEF Units
  <2>2. \A v \in V : shift[v] \in After
    <3> TAKE v \in V
    <3>1. f[v[1]] + v[2] \in (f[v[1]] + 1)..(f[v[1]] + g[v[1]])
      BY <2>1
    <3>2. shift[v] = <<v[1], f[v[1]] + v[2]>>
      OBVIOUS
    <3> QED  BY <2>1, <3>1, <3>2
  <2>3. \A v, u \in V : shift[v] = shift[u] => v = u
    <3> TAKE v, u \in V
    <3> HAVE shift[v] = shift[u]
    <3>1. v[1] = u[1] /\ f[v[1]] + v[2] = f[u[1]] + u[2]
      OBVIOUS
    <3>2. v[2] = u[2]
      BY <2>1, <3>1
    <3> QED  BY <2>1, <3>1, <3>2
  <2>4. \A x \in After : \E v \in V : shift[v] = x
    <3> TAKE x \in After
    <3>1. PICK i \in S : x \in {i} \X ((f[i] + 1)..(f[i] + g[i]))
      OBVIOUS
    <3> DEFINE v == <<i, x[2] - f[i]>>
    <3>2. x[2] - f[i] \in 1..g[i] /\ x = <<i, x[2]>>
      BY <3>1
    <3>3. v \in V
      BY <3>2 DEF Units
    <3>4. shift[v] = <<i, f[i] + (x[2] - f[i])>>
      BY <3>3
    <3>5. f[i] + (x[2] - f[i]) = x[2]
      BY <3>1
    <3> QED  BY <3>2, <3>3, <3>4, <3>5
  <2> HIDE DEF shift, After
  <2> QED  BY <2>2, <2>3, <2>4
           DEF Bijection, Injection, Surjection, IsInjective, shift
<1>5. IsFiniteSet(After) /\ Cardinality(After) = Cardinality(V)
  BY <1>1, <1>4, FS_Bijection DEF ExistsBijection
<1>6. Cardinality(U \cup After) = Cardinality(U) + Cardinality(After)
  <2>1. Cardinality(U \cup After)
          = Cardinality(U) + Cardinality(After) - Cardinality(U \cap After)
    BY <1>1, <1>5, FS_Union
  <2>2. Cardinality(U \cap After) = 0
    BY <1>3, FS_EmptySet
  <2>3. Cardinality(U) \in Nat /\ Cardinality(After) \in Nat
    BY <1>1, <1>5, FS_CardinalityType
  <2> QED  BY <2>1, <2>2, <2>3
<1> QED  BY <1>2, <1>5, <1>6 DEF SumOf, Units

(* The sum of equal amounts.                                                *)
LEMMA SumOfEqual ==
    ASSUME NEW S, IsFiniteSet(S), NEW c \in Nat,
           NEW f, \A i \in S : f[i] = c
    PROVE  SumOf(S, f) = Cardinality(S) * c
<1>1. Units(S, f) = S \X (1..c)
  BY DEF Units
<1>2. IsFiniteSet(1..c) /\ Cardinality(1..c) = c
  BY FS_Interval
<1>3. Cardinality(S \X (1..c)) = Cardinality(S) * c
  BY <1>2, FS_Product
<1> QED  BY <1>1, <1>3 DEF SumOf, Units

(* One index more adds one term.                                            *)
LEMMA SumWithOneMore ==
    ASSUME NEW S, IsFiniteSet(S), NEW x, x \notin S,
           NEW f, \A i \in S : f[i] \in Nat, f[x] \in Nat
    PROVE  SumOf(S \cup {x}, f) = SumOf(S, f) + f[x]
<1>1. IsFiniteSet({x}) /\ Cardinality({x}) = 1 /\ S \cap {x} = {}
  BY FS_Singleton
<1>2. \A i \in S \cup {x} : f[i] \in Nat
  OBVIOUS
<1>3. SumOf(S \cup {x}, f) = SumOf(S, f) + SumOf({x}, f)
  BY <1>1, <1>2, SumOfUnion
<1>4. SumOf({x}, f) = f[x]
  <2> DEFINE One == {x}  c == f[x]
  <2>1. IsFiniteSet(One) /\ Cardinality(One) = 1 /\ c \in Nat
        /\ \A i \in One : f[i] = c
    BY <1>1
  <2> HIDE DEF One, c
  <2>2. SumOf(One, f) = 1 * c
    BY <2>1, SumOfEqual
  <2>3. SumOf(One, f) = c
    BY <2>1, <2>2
  <2> QED  BY <2>3 DEF One, c
<1> QED  BY <1>3, <1>4

(* A sum of smaller amounts is no larger.                                   *)
LEMMA SumOfSmaller ==
    ASSUME NEW S, IsFiniteSet(S),
           NEW f, \A i \in S : f[i] \in Nat,
           NEW g, \A i \in S : g[i] \in Nat /\ f[i] <= g[i]
    PROVE  SumOf(S, f) <= SumOf(S, g)
<1>1. Units(S, f) \in SUBSET Units(S, g)
  BY DEF Units
<1>2. IsFiniteSet(Units(S, g))
  BY UnitsFinite
<1> QED  BY <1>1, <1>2, FS_Subset DEF SumOf, Units

(* A sum may be scaled: were a least factor to fail, the one before it       *)
(* would hold, and SumOfAdded would have this one hold too.                 *)
LEMMA SumOfScaled ==
    ASSUME NEW S, IsFiniteSet(S), NEW c \in Nat,
           NEW f, \A i \in S : f[i] \in Nat
    PROVE  SumOf(S, [i \in S |-> c * f[i]]) = c * SumOf(S, f)
<1> DEFINE Times(n) == [i \in S |-> n * f[i]]
           Fails == {n \in Nat : SumOf(S, Times(n)) # n * SumOf(S, f)}
<1>0. SumOf(S, f) \in Nat
  BY UnitsFinite
<1>1. SUFFICES ASSUME Fails # {} PROVE FALSE
  OBVIOUS
<1>2. PICK n \in Fails : \A m \in Fails : n <= m
  BY <1>1, SmallestId
<1>3. CASE n = 0
  <2>1. \A i \in S : Times(0)[i] = 0
    OBVIOUS
  <2>2. SumOf(S, Times(0)) = Cardinality(S) * 0
    <3> HIDE DEF Times
    <3> QED  BY <2>1, SumOfEqual
  <2>3. Cardinality(S) * 0 = 0 * SumOf(S, f)
    BY <1>0, FS_CardinalityType
  <2> QED  BY <1>2, <1>3, <2>2, <2>3
<1>4. CASE n # 0
  <2>1. n - 1 \in Nat /\ n - 1 \notin Fails
    BY <1>2, <1>4
  <2>2. SumOf(S, Times(n - 1)) = (n - 1) * SumOf(S, f)
    BY <2>1
  <2>3. \A i \in S : Times(n - 1)[i] \in Nat
    BY <2>1
  <2>4. \A i \in S : Times(n)[i] = Times(n - 1)[i] + f[i]
    BY <1>2, <2>1
  <2>5. SumOf(S, Times(n)) = SumOf(S, Times(n - 1)) + SumOf(S, f)
    <3> HIDE DEF Times
    <3> QED  BY <2>3, <2>4, SumOfAdded
  <2>6. (n - 1) * SumOf(S, f) + SumOf(S, f) = n * SumOf(S, f)
    BY <1>0, <1>2, <2>1
  <2> QED  BY <1>2, <2>2, <2>5, <2>6
<1> QED  BY <1>3, <1>4

(* Counting by summing.                                                     *)
LEMMA SumOfOnes ==
    ASSUME NEW S, IsFiniteSet(S), NEW T \in SUBSET S,
           NEW f, \A i \in S : f[i] = IF i \in T THEN 1 ELSE 0
    PROVE  SumOf(S, f) = Cardinality(T)
<1>1. IsFiniteSet(T)
  BY FS_Subset
<1>2. SumOf(T, f) = Cardinality(T) * 1
  BY <1>1, SumOfEqual
<1>3. Cardinality(T) \in Nat
  BY <1>1, FS_CardinalityType
<1>4. Units(S, f) = Units(T, f)
  <2>1. \A i \in S : i \notin T => {i} \X (1..f[i]) = {}
    OBVIOUS
  <2> QED  BY <2>1 DEF Units
<1>5. SumOf(S, f) = SumOf(T, f)
  BY <1>4 DEF SumOf, Units
<1> QED  BY <1>2, <1>3, <1>5

-----------------------------------------------------------------------------
(* Sums of gains and losses. *)

(* The two parts of an amount that may be either.                           *)
AboveZero(f) == [k \in DOMAIN f |-> IF f[k] > 0 THEN f[k] ELSE 0]
BelowZero(f) == [k \in DOMAIN f |-> IF f[k] < 0 THEN -f[k] ELSE 0]

(* A sum is that of the gains less that of the losses.                      *)
LEMMA SumOfParts ==
    ASSUME NEW D, IsFiniteSet(D), NEW f \in [D -> Int]
    PROVE  /\ AboveZero(f) \in [D -> Nat] /\ BelowZero(f) \in [D -> Nat]
           /\ SumOf(D, AboveZero(f)) \in Nat /\ SumOf(D, BelowZero(f)) \in Nat
           /\ SignedSum(f) = SumOf(D, AboveZero(f)) - SumOf(D, BelowZero(f))
<1> DEFINE minus == [k \in D |-> -f[k]]
<1>1. AboveZero(f) \in [D -> Nat] /\ BelowZero(f) \in [D -> Nat]
  BY DEF AboveZero, BelowZero
<1>2. SumOf(D, AboveZero(f)) \in Nat /\ SumOf(D, BelowZero(f)) \in Nat
  BY <1>1, UnitsFinite
<1>3. SumOf(D, f) = SumOf(D, AboveZero(f))
  <2>1. \A k \in D : 1..f[k] = 1..AboveZero(f)[k]
    BY DEF AboveZero
  <2>2. Units(D, f) = Units(D, AboveZero(f))
    BY <2>1 DEF Units
  <2> QED  BY <2>2 DEF SumOf, Units
<1>4. SumOf(D, minus) = SumOf(D, BelowZero(f))
  <2>1. \A k \in D : 1..minus[k] = 1..BelowZero(f)[k]
    BY DEF BelowZero
  <2> HIDE DEF minus
  <2>2. Units(D, minus) = Units(D, BelowZero(f))
    BY <2>1 DEF Units
  <2> QED  BY <2>2 DEF SumOf, Units
<1>5. SignedSum(f) = SumOf(D, f) - SumOf(D, minus)
  BY DEF SignedSum
<1> QED  BY <1>1, <1>2, <1>3, <1>4, <1>5

(* So it is whole.                                                         *)
LEMMA SumIsInt ==
    ASSUME NEW D, IsFiniteSet(D), NEW f \in [D -> Int]
    PROVE  SignedSum(f) \in Int
BY SumOfParts

(* It is that of any gains and losses whose differences are the amounts.    *)
LEMMA SumOfDifference ==
    ASSUME NEW D, IsFiniteSet(D), NEW f \in [D -> Int],
           NEW p, NEW q, \A k \in D : p[k] \in Nat, \A k \in D : q[k] \in Nat,
           \A k \in D : f[k] = p[k] - q[k]
    PROVE  SignedSum(f) = SumOf(D, p) - SumOf(D, q)
<1> DEFINE G == AboveZero(f)
           L == BelowZero(f)
           both == [k \in D |-> G[k] + q[k]]
<1>1. /\ G \in [D -> Nat] /\ L \in [D -> Nat]
      /\ SumOf(D, G) \in Nat /\ SumOf(D, L) \in Nat
      /\ SignedSum(f) = SumOf(D, G) - SumOf(D, L)
  BY SumOfParts
<1>2. \A k \in D : G[k] - L[k] = f[k]
  BY DEF AboveZero, BelowZero
<1> HIDE DEF G, L
<1>3. /\ \A k \in D : G[k] \in Nat
      /\ \A k \in D : L[k] \in Nat
      /\ \A k \in D : both[k] = G[k] + q[k]
      /\ \A k \in D : both[k] = L[k] + p[k]
  <2>1. ASSUME NEW k \in D PROVE G[k] + q[k] = L[k] + p[k]
    <3>1. /\ G[k] \in Nat /\ L[k] \in Nat /\ p[k] \in Nat /\ q[k] \in Nat
          /\ G[k] - L[k] = p[k] - q[k]
      BY <1>1, <1>2
    <3> QED  BY <3>1
  <2> QED  BY <1>1, <2>1
<1> HIDE DEF both
<1>4. SumOf(D, both) = SumOf(D, G) + SumOf(D, q)
  BY <1>3, SumOfAdded
<1>5. SumOf(D, both) = SumOf(D, L) + SumOf(D, p)
  BY <1>3, SumOfAdded
<1>6. SumOf(D, p) \in Nat /\ SumOf(D, q) \in Nat
  BY UnitsFinite
<1> QED  BY <1>1, <1>4, <1>5, <1>6

(* The sum of sums, losses included.                                       *)
LEMMA SumAdded ==
    ASSUME NEW D, IsFiniteSet(D), NEW f \in [D -> Int], NEW g \in [D -> Int],
           NEW h \in [D -> Int], \A k \in D : h[k] = f[k] + g[k]
    PROVE  SignedSum(h) = SignedSum(f) + SignedSum(g)
<1> DEFINE F == AboveZero(f)
           G == AboveZero(g)
           K == BelowZero(f)
           L == BelowZero(g)
           up == [k \in D |-> F[k] + G[k]]
           down == [k \in D |-> K[k] + L[k]]
<1>1. /\ F \in [D -> Nat] /\ K \in [D -> Nat]
      /\ SumOf(D, F) \in Nat /\ SumOf(D, K) \in Nat
      /\ SignedSum(f) = SumOf(D, F) - SumOf(D, K)
  BY SumOfParts
<1>2. /\ G \in [D -> Nat] /\ L \in [D -> Nat]
      /\ SumOf(D, G) \in Nat /\ SumOf(D, L) \in Nat
      /\ SignedSum(g) = SumOf(D, G) - SumOf(D, L)
  BY SumOfParts
<1>3. \A k \in D : f[k] = F[k] - K[k] /\ g[k] = G[k] - L[k]
  BY DEF AboveZero, BelowZero
<1> HIDE DEF F, G, K, L
<1>4. /\ \A k \in D : F[k] \in Nat
      /\ \A k \in D : G[k] \in Nat
      /\ \A k \in D : K[k] \in Nat
      /\ \A k \in D : L[k] \in Nat
      /\ \A k \in D : up[k] \in Nat
      /\ \A k \in D : down[k] \in Nat
      /\ \A k \in D : up[k] = F[k] + G[k]
      /\ \A k \in D : down[k] = K[k] + L[k]
      /\ \A k \in D : h[k] = up[k] - down[k]
  BY <1>1, <1>2, <1>3
<1> HIDE DEF up, down
<1>5. SumOf(D, up) = SumOf(D, F) + SumOf(D, G)
  BY <1>4, SumOfAdded
<1>6. SumOf(D, down) = SumOf(D, K) + SumOf(D, L)
  BY <1>4, SumOfAdded
<1>7. SignedSum(h) = SumOf(D, up) - SumOf(D, down)
  BY <1>4, SumOfDifference
<1> QED  BY <1>1, <1>2, <1>5, <1>6, <1>7

(* The sum of multiples is the multiple of the sum.                         *)
LEMMA SumScaled ==
    ASSUME NEW D, IsFiniteSet(D), NEW f \in [D -> Int], NEW c \in Int
    PROVE  /\ SignedSum(f) \in Int
           /\ SignedSum([k \in D |-> c * f[k]]) = c * SignedSum(f)
<1> DEFINE G == AboveZero(f)
           L == BelowZero(f)
           m == IF c < 0 THEN -c ELSE c
           up == [k \in D |-> m * G[k]]
           down == [k \in D |-> m * L[k]]
           h == [k \in D |-> c * f[k]]
<1>1. /\ G \in [D -> Nat] /\ L \in [D -> Nat]
      /\ SumOf(D, G) \in Nat /\ SumOf(D, L) \in Nat
      /\ SignedSum(f) = SumOf(D, G) - SumOf(D, L)
  BY SumOfParts
<1>2. \A k \in D : f[k] = G[k] - L[k]
  BY DEF AboveZero, BelowZero
<1>3. m \in Nat /\ (c = m \/ (c < 0 /\ c = -m))
  OBVIOUS
<1> HIDE DEF G, L, m
<1>4. SumOf(D, up) = m * SumOf(D, G) /\ SumOf(D, down) = m * SumOf(D, L)
  <2>1. (\A k \in D : G[k] \in Nat) /\ (\A k \in D : L[k] \in Nat)
    BY <1>1
  <2> QED  BY <1>3, <2>1, SumOfScaled
<1>5. /\ h \in [D -> Int]
      /\ \A k \in D : up[k] \in Nat
      /\ \A k \in D : down[k] \in Nat
  BY <1>1, <1>3
<1>6. \A k \in D : m * f[k] = up[k] - down[k]
  <2> TAKE k \in D
  <2>1. G[k] \in Nat /\ L[k] \in Nat /\ f[k] = G[k] - L[k]
    BY <1>1, <1>2
  <2>2. m * (G[k] - L[k]) = m * G[k] - m * L[k]
    BY <1>3, <2>1
  <2> QED  BY <2>1, <2>2
<1>7. CASE c = m
  <2>1. \A k \in D : h[k] = up[k] - down[k]
    BY <1>6, <1>7
  <2> HIDE DEF h, up, down
  <2>2. SignedSum(h) = SumOf(D, up) - SumOf(D, down)
    BY <1>5, <2>1, SumOfDifference
  <2>3. m * (SumOf(D, G) - SumOf(D, L)) = m * SumOf(D, G) - m * SumOf(D, L)
    BY <1>1, <1>3
  <2>4. SignedSum(h) = c * SignedSum(f)
    BY <1>1, <1>4, <1>7, <2>2, <2>3
  <2> QED  BY <1>1, <2>4 DEF h
<1>8. CASE c = -m
  <2>1. \A k \in D : h[k] = down[k] - up[k]
    <3> TAKE k \in D
    <3>1. c * f[k] = -(m * f[k])
      BY <1>3, <1>8
    <3>2. m * f[k] = up[k] - down[k]
      BY <1>6
    <3>3. up[k] \in Nat /\ down[k] \in Nat
      BY <1>5
    <3> HIDE DEF up, down
    <3> QED  BY <3>1, <3>2, <3>3
  <2> HIDE DEF h, up, down
  <2>2. SignedSum(h) = SumOf(D, down) - SumOf(D, up)
    BY <1>5, <2>1, SumOfDifference
  <2>3. (-m) * (SumOf(D, G) - SumOf(D, L)) = m * SumOf(D, L) - m * SumOf(D, G)
    BY <1>1, <1>3
  <2>4. SignedSum(h) = c * SignedSum(f)
    BY <1>1, <1>4, <1>8, <2>2, <2>3
  <2> QED  BY <1>1, <2>4 DEF h
<1> QED  BY <1>3, <1>7, <1>8

(* What is never a loss is no less than zero in all, and zero in all only    *)
(* when it is nothing to anybody.                                           *)
LEMMA SumOfGains ==
    ASSUME NEW D, IsFiniteSet(D), NEW f \in [D -> Nat]
    PROVE  /\ SignedSum(f) = SumOf(D, f)
           /\ SignedSum(f) \in Nat
           /\ SignedSum(f) = 0 => \A k \in D : f[k] = 0
<1> DEFINE none == [k \in D |-> 0]
<1>1. SumOf(D, f) \in Nat
  BY UnitsFinite
<1>2. SignedSum(f) = SumOf(D, f)
  <2>1. /\ \A k \in D : f[k] \in Nat
        /\ \A k \in D : none[k] \in Nat
        /\ \A k \in D : none[k] = 0
        /\ \A k \in D : f[k] = f[k] - none[k]
        /\ f \in [D -> Int]
    OBVIOUS
  <2> HIDE DEF none
  <2>2. SignedSum(f) = SumOf(D, f) - SumOf(D, none)
    BY <2>1, SumOfDifference
  <2>3. SumOf(D, none) = Cardinality(D) * 0
    BY <2>1, SumOfEqual
  <2>4. Cardinality(D) \in Nat
    BY FS_CardinalityType
  <2> QED  BY <1>1, <2>2, <2>3, <2>4
<1>3. ASSUME SumOf(D, f) = 0, NEW k \in D PROVE f[k] = 0
  <2>1. IsFiniteSet(Units(D, f))
    BY UnitsFinite
  <2>2. Cardinality(Units(D, f)) = 0
    BY <1>3 DEF SumOf, Units
  <2>3. Units(D, f) = {}
    BY <2>1, <2>2, FS_EmptySet
  <2>4. ASSUME f[k] # 0 PROVE FALSE
    <3>1. 1 \in 1..f[k]
      BY <2>4
    <3>2. <<k, 1>> \in {k} \X (1..f[k])
      BY <3>1
    <3> QED  BY <2>3, <3>2 DEF Units
  <2> QED  BY <2>4
<1> QED  BY <1>1, <1>2, <1>3

-----------------------------------------------------------------------------
(* The shares that allocate gives. *)

(* Whole division.                                                          *)
LEMMA Division ==
    ASSUME NEW a \in Nat, NEW b \in Nat, b # 0
    PROVE  /\ a \div b \in Nat
           /\ a % b \in Nat /\ a % b < b
           /\ a = b * (a \div b) + (a % b)
<1>1. b > 0
  OBVIOUS
<1> QED  BY <1>1

(* What allocate computes first.                                            *)
LEMMA ExactShares ==
    ASSUME NEW D, IsFiniteSet(D), NEW w \in [D -> Nat], Allocatable(w),
           NEW n \in Nat
    PROVE  /\ WeightSum(w) \in Nat /\ WeightSum(w) > 0
           /\ Floors(n, w) \in [D -> Nat]
           /\ Remainders(n, w) \in [D -> Nat]
           /\ \A k \in D :
                /\ Remainders(n, w)[k] < WeightSum(w)
                /\ n * w[k] = WeightSum(w) * Floors(n, w)[k] + Remainders(n, w)[k]
<1> DEFINE W == WeightSum(w)
<1>1. DOMAIN w = D
  OBVIOUS
<1>2. W \in Nat
  BY <1>1, UnitsFinite DEF WeightSum
<1>3. W > 0
  BY <1>2 DEF Allocatable
<1> HIDE DEF W
<1>4. \A k \in D : n * w[k] \in Nat
  OBVIOUS
<1>5. /\ Floors(n, w) = [k \in D |-> (n * w[k]) \div W]
      /\ Remainders(n, w) = [k \in D |-> (n * w[k]) % W]
  BY <1>1 DEF Floors, Remainders, W
<1>6. \A k \in D :
        /\ (n * w[k]) \div W \in Nat
        /\ (n * w[k]) % W \in Nat /\ (n * w[k]) % W < W
        /\ n * w[k] = W * ((n * w[k]) \div W) + ((n * w[k]) % W)
  <2> TAKE k \in D
  <2> DEFINE a == n * w[k]
  <2>1. a \in Nat
    BY <1>4
  <2> HIDE DEF a
  <2>2. a \div W \in Nat /\ a % W \in Nat /\ a % W < W
        /\ a = W * (a \div W) + (a % W)
    BY <1>2, <1>3, <2>1, Division
  <2> QED  BY <2>2 DEF a
<1> QED  BY <1>2, <1>3, <1>5, <1>6 DEF W

(* What the floors leave is what the remainders add up to.                  *)
LEMMA LeftoverOfRemainders ==
    ASSUME NEW D, IsFiniteSet(D), NEW w \in [D -> Nat], Allocatable(w),
           NEW n \in Nat
    PROVE  /\ Leftover(n, w) \in Int
           /\ WeightSum(w) * Leftover(n, w) = SumOf(D, Remainders(n, w))
<1> DEFINE W == WeightSum(w)
           fl == Floors(n, w)
           rem == Remainders(n, w)
           whole == [k \in D |-> W * fl[k]]
           exact == [k \in D |-> n * w[k]]
<1>1. /\ W \in Nat /\ W > 0
      /\ fl \in [D -> Nat] /\ rem \in [D -> Nat]
      /\ \A k \in D : n * w[k] = W * fl[k] + rem[k]
  BY ExactShares
<1>2. Leftover(n, w) = n - SumOf(D, fl)
  BY DEF Leftover
<1>3. W = SumOf(D, w)
  BY DEF WeightSum
<1> HIDE DEF W, fl, rem
<1>4. SumOf(D, exact) = n * W
  BY <1>3, SumOfScaled
<1>5. SumOf(D, whole) = W * SumOf(D, fl)
  BY <1>1, SumOfScaled
<1>6. SumOf(D, exact) = SumOf(D, whole) + SumOf(D, rem)
  <2>1. \A k \in D : whole[k] \in Nat /\ rem[k] \in Nat
    BY <1>1
  <2>2. \A k \in D : exact[k] = whole[k] + rem[k]
    BY <1>1
  <2> HIDE DEF whole, exact
  <2> QED  BY <2>1, <2>2, SumOfAdded
<1>7. SumOf(D, fl) \in Nat /\ SumOf(D, rem) \in Nat
  BY <1>1, UnitsFinite
<1>8. n * W = W * SumOf(D, fl) + SumOf(D, rem)
  BY <1>4, <1>5, <1>6
<1>9. W * (n - SumOf(D, fl)) = n * W - W * SumOf(D, fl)
  BY <1>1, <1>7
<1> QED  BY <1>2, <1>7, <1>8, <1>9, <1>1 DEF W, rem

(* Fewer quanta are left than recipients with a remainder, so that whoever   *)
(* has none is behind all the lucky ones.                                   *)
LEMMA LeftoverIsSmall ==
    ASSUME NEW D, IsFiniteSet(D), NEW w \in [D -> Nat], Allocatable(w),
           NEW n \in Nat
    PROVE  LET uneven == {k \in D : Remainders(n, w)[k] > 0} IN
           /\ Leftover(n, w) \in Nat
           /\ Leftover(n, w) <= Cardinality(uneven)
<1> DEFINE W == WeightSum(w)
           left == Leftover(n, w)
           rem == Remainders(n, w)
           T == {k \in D : rem[k] > 0}
           ones == [k \in D |-> IF k \in T THEN 1 ELSE 0]
           most == [k \in D |-> W * ones[k]]
<1>1. /\ W \in Nat /\ W > 0
      /\ rem \in [D -> Nat]
      /\ \A k \in D : rem[k] < W
  BY ExactShares
<1>2. left \in Int /\ W * left = SumOf(D, rem)
  BY LeftoverOfRemainders
<1> HIDE DEF W, left, rem
<1>3. SumOf(D, rem) \in Nat
  BY <1>1, UnitsFinite
<1>4. \A k \in D : ones[k] \in Nat
  OBVIOUS
<1>5. SumOf(D, ones) = Cardinality(T)
  <2>1. T \in SUBSET D
    OBVIOUS
  <2> HIDE DEF T
  <2> QED  BY <2>1, SumOfOnes
<1>6. SumOf(D, most) = W * Cardinality(T)
  <2> HIDE DEF ones
  <2>1. SumOf(D, most) = W * SumOf(D, ones)
    BY <1>1, <1>4, SumOfScaled
  <2> QED  BY <1>5, <2>1
<1>7. \A k \in D : most[k] \in Nat /\ rem[k] \in Nat /\ rem[k] <= most[k]
  <2> TAKE k \in D
  <2>1. most[k] = IF rem[k] > 0 THEN W ELSE 0
    BY <1>1
  <2> QED  BY <1>1, <2>1
<1>8. SumOf(D, rem) <= W * Cardinality(T)
  <2> HIDE DEF most
  <2> QED  BY <1>6, <1>7, SumOfSmaller
<1>9. Cardinality(T) \in Nat
  <2>1. T \in SUBSET D
    OBVIOUS
  <2>2. IsFiniteSet(T)
    BY <2>1, FS_Subset
  <2> QED  BY <2>2, FS_CardinalityType
<1> HIDE DEF T
<1>10. left >= 0
  <2> SUFFICES ASSUME left < 0 PROVE FALSE
    BY <1>2
  <2>1. W * left < 0
    BY <1>1, <1>2
  <2> QED  BY <1>2, <1>3, <2>1
<1>11. left <= Cardinality(T)
  <2> SUFFICES ASSUME left > Cardinality(T) PROVE FALSE
    BY <1>2, <1>9
  <2>1. W * left > W * Cardinality(T)
    BY <1>1, <1>2, <1>9
  <2>2. W * left \in Int /\ W * Cardinality(T) \in Int
    BY <1>1, <1>2, <1>9
  <2> QED  BY <1>2, <1>3, <1>8, <2>1, <2>2
<1> QED  BY <1>2, <1>10, <1>11 DEF left, rem, T

-----------------------------------------------------------------------------
(* Who is lucky. *)

(* by_remainder is a strict order: of two recipients one is ahead, and with   *)
(* it all that are ahead of it.                                             *)
LEMMA AheadIsAnOrder ==
    ASSUME NEW D \in SUBSET Nat, IsFiniteSet(D), NEW rem \in [D -> Nat],
           NEW j \in D, NEW k \in D
    PROVE  LET rank(i) == Cardinality(Ahead(rem, i)) IN
           /\ rank(k) \in Nat /\ rank(k) < Cardinality(D)
           /\ j # k => j \in Ahead(rem, k) \/ k \in Ahead(rem, j)
           /\ j \in Ahead(rem, k) => rank(j) < rank(k)
<1>1. Ahead(rem, k) \in SUBSET (D \ {k}) /\ Ahead(rem, j) \in SUBSET D
  BY DEF Ahead
<1>2. /\ IsFiniteSet(D \ {k})
      /\ Cardinality(D \ {k}) = Cardinality(D) - 1
  BY FS_RemoveElement
<1>3. IsFiniteSet(Ahead(rem, k)) /\ IsFiniteSet(Ahead(rem, j))
  BY <1>1, <1>2, FS_Subset
<1>4. /\ Cardinality(Ahead(rem, k)) \in Nat /\ Cardinality(Ahead(rem, j)) \in Nat
      /\ Cardinality(D) \in Nat
  BY <1>3, FS_CardinalityType
<1>5. Cardinality(Ahead(rem, k)) < Cardinality(D)
  <2>1. Cardinality(Ahead(rem, k)) <= Cardinality(D \ {k})
    BY <1>1, <1>2, FS_Subset
  <2> QED  BY <1>2, <1>4, <2>1
<1>6. j # k => j \in Ahead(rem, k) \/ k \in Ahead(rem, j)
  BY DEF Ahead
<1>7. ASSUME j \in Ahead(rem, k)
      PROVE  Cardinality(Ahead(rem, j)) < Cardinality(Ahead(rem, k))
  <2>1. Ahead(rem, j) \in SUBSET Ahead(rem, k)
    <3> SUFFICES ASSUME NEW i \in Ahead(rem, j) PROVE i \in Ahead(rem, k)
      OBVIOUS
    <3>1. i \in D /\ (rem[i] > rem[j] \/ (rem[i] = rem[j] /\ i < j))
      BY DEF Ahead
    <3>2. rem[j] > rem[k] \/ (rem[j] = rem[k] /\ j < k)
      BY <1>7 DEF Ahead
    <3>3. rem[i] > rem[k] \/ (rem[i] = rem[k] /\ i < k)
      BY <3>1, <3>2
    <3> QED  BY <3>1, <3>3 DEF Ahead
  <2>2. Ahead(rem, j) # Ahead(rem, k)
    BY <1>7 DEF Ahead
  <2>3. Cardinality(Ahead(rem, j)) <= Cardinality(Ahead(rem, k))
    BY <1>3, <2>1, FS_Subset
  <2>4. Cardinality(Ahead(rem, k)) # Cardinality(Ahead(rem, j))
    BY <1>3, <2>1, <2>2, FS_Subset
  <2> QED  BY <1>4, <2>3, <2>4
<1> QED  BY <1>4, <1>5, <1>6, <1>7

(* The first m recipients of by_remainder are m recipients, and ahead of all  *)
(* others (by_remainder[:leftover]): the ranks are 0 up to the number of     *)
(* recipients, each taken once.                                             *)
LEMMA FirstOnes ==
    ASSUME NEW D \in SUBSET Nat, IsFiniteSet(D), NEW rem \in [D -> Nat],
           NEW m \in Nat, m <= Cardinality(D)
    PROVE  LET first == {k \in D : Cardinality(Ahead(rem, k)) < m} IN
           /\ Cardinality(first) = m
           /\ \A k \in first : \A j \in D \ first : k \in Ahead(rem, j)
<1> DEFINE N == Cardinality(D)
           rank == [k \in D |-> Cardinality(Ahead(rem, k))]
           first == {k \in D : Cardinality(Ahead(rem, k)) < m}
           place == [k \in first |-> rank[k]]
<1>1. /\ \A k \in D : rank[k] \in Nat /\ rank[k] < N
      /\ \A j, k \in D : j # k => j \in Ahead(rem, k) \/ k \in Ahead(rem, j)
      /\ \A j, k \in D : j \in Ahead(rem, k) => rank[j] < rank[k]
  BY AheadIsAnOrder
<1>2. first = {k \in D : rank[k] < m} /\ first \in SUBSET D
  OBVIOUS
<1>3. N \in Nat
  BY FS_CardinalityType
<1> HIDE DEF N, rank, first
<1>4. \A j, k \in D : rank[j] = rank[k] => j = k
  <2> SUFFICES ASSUME NEW j \in D, NEW k \in D, rank[j] = rank[k], j # k
               PROVE  FALSE
    OBVIOUS
  <2>1. rank[j] < rank[k] \/ rank[k] < rank[j]
    BY <1>1
  <2> QED  BY <1>1, <2>1
<1>5. \A r \in 0..(N - 1) : \E k \in D : rank[k] = r
  <2>1. rank \in Injection(D, 0..(N - 1))
    BY <1>1, <1>3, <1>4 DEF Injection, IsInjective, rank
  <2>2. IsFiniteSet(0..(N - 1)) /\ Cardinality(0..(N - 1)) = N
    BY <1>3, FS_Interval
  <2>3. rank \in Surjection(D, 0..(N - 1))
    BY <2>1, <2>2, FS_Injection DEF N
  <2> QED  BY <2>3 DEF Surjection
<1>6. place \in Bijection(first, 0..(m - 1))
  <2>1. \A k \in first : place[k] \in 0..(m - 1)
    BY <1>1, <1>2
  <2>2. \A j, k \in first : place[j] = place[k] => j = k
    BY <1>2, <1>4
  <2>3. \A r \in 0..(m - 1) : \E k \in first : place[k] = r
    <3> TAKE r \in 0..(m - 1)
    <3>1. r \in 0..(N - 1)
      BY <1>3 DEF N
    <3>2. PICK k \in D : rank[k] = r
      BY <1>5, <3>1
    <3>3. k \in first
      BY <1>2, <3>2
    <3> QED  BY <3>2, <3>3
  <2> QED  BY <2>1, <2>2, <2>3
           DEF Bijection, Injection, Surjection, IsInjective
<1>7. Cardinality(first) = m
  <2>1. IsFiniteSet(first)
    BY <1>2, FS_Subset
  <2>2. Cardinality(0..(m - 1)) = m
    BY FS_Interval
  <2> QED  BY <1>6, <2>1, <2>2, FS_Bijection DEF ExistsBijection
<1>8. \A k \in first : \A j \in D \ first : k \in Ahead(rem, j)
  <2> SUFFICES ASSUME NEW k \in first, NEW j \in D, j \notin first,
                      k \notin Ahead(rem, j)
               PROVE  FALSE
    OBVIOUS
  <2>1. rank[j] < rank[k]
    BY <1>1, <1>2
  <2> QED  BY <1>1, <1>2, <2>1
<1> QED  BY <1>7, <1>8 DEF first

(* As many are lucky as quanta are left; all of them have a remainder, and   *)
(* all are ahead of all others.                                             *)
LEMMA LuckyOnes ==
    ASSUME NEW D \in SUBSET Nat, IsFiniteSet(D), NEW w \in [D -> Nat],
           Allocatable(w), NEW n \in Nat
    PROVE  LET rem == Remainders(n, w)
               lucky == Lucky(n, w)
           IN  /\ lucky \in SUBSET D
               /\ Cardinality(lucky) = Leftover(n, w)
               /\ \A k \in lucky : rem[k] > 0
               /\ \A k \in lucky : \A j \in D \ lucky : k \in Ahead(rem, j)
<1> DEFINE rem == Remainders(n, w)
           lucky == Lucky(n, w)
           left == Leftover(n, w)
           uneven == {k \in D : rem[k] > 0}
<1>1. rem \in [D -> Nat]
  BY ExactShares
<1>2. left \in Nat /\ left <= Cardinality(uneven)
  BY LeftoverIsSmall
<1>3. lucky = {k \in D : Cardinality(Ahead(rem, k)) < left}
  BY DEF Lucky
<1> HIDE DEF rem, lucky, left
<1>4. IsFiniteSet(uneven) /\ Cardinality(uneven) <= Cardinality(D)
  <2>1. uneven \in SUBSET D
    OBVIOUS
  <2> HIDE DEF uneven
  <2> QED  BY <2>1, FS_Subset
<1>5. Cardinality(uneven) \in Nat /\ Cardinality(D) \in Nat
  BY <1>4, FS_CardinalityType
<1>6. left <= Cardinality(D)
  BY <1>2, <1>4, <1>5
<1>7. /\ Cardinality(lucky) = left
      /\ \A k \in lucky : \A j \in D \ lucky : k \in Ahead(rem, j)
  BY <1>1, <1>2, <1>3, <1>6, FirstOnes
<1>8. \A k \in lucky : rem[k] > 0
  <2> SUFFICES ASSUME NEW k \in lucky, ~(rem[k] > 0) PROVE FALSE
    OBVIOUS
  <2>1. k \in D /\ Cardinality(Ahead(rem, k)) < left
    BY <1>3
  <2>2. rem[k] = 0
    BY <1>1, <2>1
  <2>3. uneven \in SUBSET Ahead(rem, k)
    BY <1>1, <2>2 DEF Ahead
  <2>4. Ahead(rem, k) \in SUBSET D
    BY <1>1 DEF Ahead
  <2>5. IsFiniteSet(Ahead(rem, k))
    BY <2>4, FS_Subset
  <2>6. Cardinality(uneven) <= Cardinality(Ahead(rem, k))
    BY <2>3, <2>5, FS_Subset
  <2>7. Cardinality(Ahead(rem, k)) \in Nat
    BY <2>5, FS_CardinalityType
  <2> QED  BY <1>2, <1>5, <2>1, <2>6, <2>7
<1> QED  BY <1>3, <1>7, <1>8 DEF rem, lucky, left

(* SumOfAdded, of functions.                                                *)
LEMMA AddedUp ==
    ASSUME NEW D, IsFiniteSet(D)
    PROVE  \A f, g, h \in [D -> Nat] :
              (\A k \in D : h[k] = f[k] + g[k])
                => SumOf(D, h) = SumOf(D, f) + SumOf(D, g)
<1> TAKE f, g, h \in [D -> Nat]
<1> HAVE \A k \in D : h[k] = f[k] + g[k]
<1>1. \A k \in D : f[k] \in Nat
  OBVIOUS
<1>2. \A k \in D : g[k] \in Nat
  OBVIOUS
<1> QED  BY <1>1, <1>2, SumOfAdded

(* The shares of a total that is no loss add up to it, and each is its        *)
(* exact share less the remainder, or rounded up.                           *)
LEMMA SharesOfGain ==
    ASSUME NEW D \in SUBSET Nat, IsFiniteSet(D), NEW w \in [D -> Nat],
           Allocatable(w), NEW n \in Nat
    PROVE  LET share == Allocate(n, w)  W == WeightSum(w) IN
           /\ share \in [D -> Nat]
           /\ SumOf(D, share) = n
           /\ \A k \in D :
                share[k] * W - n * w[k]
                  = (IF k \in Lucky(n, w) THEN W ELSE 0) - Remainders(n, w)[k]
<1>0. /\ WeightSum(w) \in Nat /\ WeightSum(w) > 0
      /\ Floors(n, w) \in [D -> Nat]
      /\ Remainders(n, w) \in [D -> Nat]
      /\ \A k \in D :
           /\ Remainders(n, w)[k] < WeightSum(w)
           /\ n * w[k] = WeightSum(w) * Floors(n, w)[k] + Remainders(n, w)[k]
  BY ExactShares, Zenon
<1> DEFINE W == WeightSum(w)
           fl == Floors(n, w)
           rem == Remainders(n, w)
           lucky == Lucky(n, w)
           up == [k \in D |-> IF k \in lucky THEN 1 ELSE 0]
           share == Allocate(n, w)
<1>1. /\ W \in Nat /\ W > 0
      /\ fl \in [D -> Nat] /\ rem \in [D -> Nat]
      /\ \A k \in D : n * w[k] = W * fl[k] + rem[k]
  BY <1>0
<1>2. Leftover(n, w) = n - SumOf(D, fl)
  BY DEF Leftover
<1>3. lucky \in SUBSET D /\ Cardinality(lucky) = Leftover(n, w)
  BY LuckyOnes
<1>4. share = [k \in D |-> 1 * (fl[k] + IF k \in lucky THEN 1 ELSE 0)]
  BY DEF Allocate
<1> HIDE DEF W, fl, rem, lucky, share
<1>5. /\ \A k \in D : up[k] \in Nat
      /\ \A k \in D : share[k] = fl[k] + up[k]
  BY <1>1, <1>4
<1>6. share \in [D -> Nat]
  BY <1>1, <1>4
<1>7. SumOf(D, up) = Cardinality(lucky)
  <2>1. \A k \in D : up[k] = IF k \in lucky THEN 1 ELSE 0
    OBVIOUS
  <2> HIDE DEF up
  <2> QED  BY <1>3, <2>1, SumOfOnes
<1>8. SumOf(D, share) = n
  <2>1. SumOf(D, share) = SumOf(D, fl) + SumOf(D, up)
    <3>1. up \in [D -> Nat]
      OBVIOUS
    <3> HIDE DEF up
    <3>2. \A f, g, h \in [D -> Nat] :
            (\A k \in D : h[k] = f[k] + g[k])
              => SumOf(D, h) = SumOf(D, f) + SumOf(D, g)
      BY AddedUp
    <3>3. fl \in [D -> Nat]
      BY <1>1
    <3>4. \A k \in D : share[k] = fl[k] + up[k]
      BY <1>5
    <3> QED  BY <1>6, <3>1, <3>2, <3>3, <3>4
  <2>2. SumOf(D, fl) \in Nat
    BY <1>1, UnitsFinite
  <2> QED  BY <1>2, <1>3, <1>7, <2>1, <2>2
<1>9. \A k \in D : share[k] * W - n * w[k]
                    = (IF k \in lucky THEN W ELSE 0) - rem[k]
  <2> TAKE k \in D
  <2>1. (fl[k] + 1) * W = W * fl[k] + W /\ fl[k] * W = W * fl[k]
    BY <1>1
  <2>2. W * fl[k] \in Nat /\ rem[k] \in Nat
    BY <1>1
  <2>3. n * w[k] = W * fl[k] + rem[k]
    BY <1>1
  <2>4. share[k] * W = W * fl[k] + IF k \in lucky THEN W ELSE 0
    BY <1>1, <1>5, <2>1, <2>2
  <2> DEFINE x == W * fl[k]
             y == n * w[k]
             z == share[k] * W
  <2> HIDE DEF x, y, z
  <2>5. x \in Nat /\ y = x + rem[k] /\ z = x + IF k \in lucky THEN W ELSE 0
    BY <2>2, <2>3, <2>4 DEF x, y, z
  <2>6. z - y = (IF k \in lucky THEN W ELSE 0) - rem[k]
    BY <1>1, <2>2, <2>5
  <2> QED  BY <2>6 DEF y, z
<1> QED  BY <1>6, <1>8, <1>9 DEF W, rem, lucky, share

-----------------------------------------------------------------------------
(* Sums over many sets. *)

(* What E makes of the indices D.                                           *)
UnionOf(D, E) == UNION {E[q] : q \in D}

(* A sum over finitely many disjoint sets is the sum of their sums: the      *)
(* units of each set are counted off, and the count numbers them.           *)
LEMMA SumOfSums ==
    ASSUME NEW D, IsFiniteSet(D), NEW E, \A q \in D : IsFiniteSet(E[q]),
           \A q, r \in D : q # r => E[q] \cap E[r] = {},
           NEW f, \A q \in D : \A i \in E[q] : f[i] \in Nat,
           NEW g, \A q \in D : g[q] = SumOf(E[q], f)
    PROVE  /\ \A q \in D : g[q] \in Nat
           /\ SumOf(UnionOf(D, E), f) = SumOf(D, g)
<1> DEFINE U == Units(UnionOf(D, E), f)
           Of(q) == Units(E[q], f)
           IsCount(c, q) == c \in Bijection(1..g[q], Of(q))
           count == [q \in D |-> CHOOSE c : IsCount(c, q)]
           place == [x \in Units(D, g) |-> count[x[1]][x[2]]]
<1>1. \A q \in D : g[q] \in Nat /\ IsFiniteSet(Of(q)) /\ g[q] = Cardinality(Of(q))
  <2> TAKE q \in D
  <2>1. IsFiniteSet(Of(q)) /\ SumOf(E[q], f) \in Nat
    BY UnitsFinite
  <2> QED  BY <2>1 DEF SumOf, Units
<1>2. \A q \in D : \E c : IsCount(c, q)
  <2> TAKE q \in D
  <2>1. ExistsBijection(1..g[q], Of(q))
    <3> HIDE DEF Of
    <3> QED  BY <1>1, FS_NatBijection, FS_CountingElements
  <2> QED  BY <2>1 DEF ExistsBijection
<1>3. \A q \in D : IsCount(count[q], q)
  BY <1>2
<1> HIDE DEF count
<1>4. \A q \in D : /\ \A n \in 1..g[q] : count[q][n] \in Of(q)
                   /\ \A m, n \in 1..g[q] : count[q][m] = count[q][n] => m = n
                   /\ \A u \in Of(q) : \E n \in 1..g[q] : count[q][n] = u
  <2> HIDE DEF Of
  <2> TAKE q \in D
  <2> DEFINE c == count[q]  N == 1..g[q]  V == Of(q)
  <2>1. c \in Bijection(N, V)
    BY <1>3
  <2> HIDE DEF c, N, V
  <2>2. /\ \A n \in N : c[n] \in V
        /\ \A m, n \in N : c[m] = c[n] => m = n
        /\ \A u \in V : \E n \in N : c[n] = u
    BY <2>1 DEF Bijection, Injection, Surjection, IsInjective
  <2> QED  BY <2>2 DEF c, N, V
<1>5. \A q \in D : \A u \in Of(q) : u \in U /\ u[1] \in E[q]
  BY DEF Units, UnionOf
<1>6. \A u \in U : \E q \in D : u \in Of(q)
  BY DEF Units, UnionOf
<1>7. \A x \in Units(D, g) : /\ x[1] \in D /\ x[2] \in 1..g[x[1]]
                             /\ x = <<x[1], x[2]>>
  BY DEF Units
<1> HIDE DEF U, Of
<1>8. place \in Bijection(Units(D, g), U)
  <2>1. \A x \in Units(D, g) : place[x] = count[x[1]][x[2]]
                               /\ place[x] \in Of(x[1]) /\ place[x] \in U
    BY <1>4, <1>5, <1>7
  <2>2. \A x, y \in Units(D, g) : place[x] = place[y] => x = y
    <3> SUFFICES ASSUME NEW x \in Units(D, g), NEW y \in Units(D, g),
                        place[x] = place[y]
                 PROVE  x = y
      OBVIOUS
    <3> HIDE DEF place
    <3>1. place[x][1] \in E[x[1]] /\ place[x][1] \in E[y[1]]
      BY <1>5, <1>7, <2>1
    <3>2. x[1] = y[1]
      BY <1>7, <3>1
    <3>3. x[2] = y[2]
      BY <1>4, <1>7, <2>1, <3>2
    <3> QED  BY <1>7, <3>2, <3>3
  <2>3. \A u \in U : \E x \in Units(D, g) : place[x] = u
    <3> TAKE u \in U
    <3>1. PICK q \in D : u \in Of(q)
      BY <1>6
    <3>2. PICK n \in 1..g[q] : count[q][n] = u
      BY <1>4, <3>1
    <3>3. <<q, n>> \in Units(D, g)
      BY <3>2 DEF Units
    <3>4. place[<<q, n>>] = u
      BY <3>2, <3>3
    <3> QED  BY <3>3, <3>4
  <2> HIDE DEF place
  <2>4. place \in [Units(D, g) -> U]
    <3>1. place = [x \in Units(D, g) |-> count[x[1]][x[2]]]
      BY DEF place
    <3> QED  BY <2>1, <3>1
  <2> QED  BY <2>2, <2>3, <2>4
           DEF Bijection, Injection, Surjection, IsInjective
<1>9. IsFiniteSet(Units(D, g))
  BY <1>1, UnitsFinite
<1>10. Cardinality(U) = Cardinality(Units(D, g))
  BY <1>8, <1>9, FS_Bijection DEF ExistsBijection
<1> QED  BY <1>1, <1>10 DEF SumOf, Units, U

(* A row and a column of a table.                                           *)
Across(f, T, s) == [t \in T |-> f[<<s, t>>]]
Down(f, S, t) == [s \in S |-> f[<<s, t>>]]

(* What the rows of a table of amounts add up to.                           *)
RowSums(S, T, f, g) ==
    /\ IsFiniteSet(S) /\ IsFiniteSet(T)
    /\ \A s \in S : \A t \in T : f[<<s, t>>] \in Nat
    /\ \A s \in S : g[s] = SumOf(T, Across(f, T, s))

(* The table's sum is that of its rows' sums.                               *)
LEMMA SumOfRows ==
    ASSUME NEW S, NEW T, NEW f, NEW g, RowSums(S, T, f, g)
    PROVE  /\ \A s \in S : g[s] \in Nat
           /\ SumOf(S \X T, f) = SumOf(S, g)
<1> USE DEF RowSums
<1> DEFINE E == [s \in S |-> {s} \X T]
<1>1. \A s \in S : IsFiniteSet(E[s])
  <2> TAKE s \in S
  <2>1. IsFiniteSet({s})
    BY FS_Singleton
  <2>2. IsFiniteSet({s} \X T)
    BY <2>1, FS_Product
  <2> QED  BY <2>2
<1>2. \A s, r \in S : s # r => E[s] \cap E[r] = {}
  OBVIOUS
<1>3. \A s \in S : \A i \in E[s] : f[i] \in Nat
  <2> SUFFICES ASSUME NEW s \in S, NEW i \in {s} \X T PROVE f[i] \in Nat
    OBVIOUS
  <2>1. i = <<s, i[2]>> /\ i[2] \in T
    OBVIOUS
  <2> QED  BY <2>1
<1>4. \A s \in S : g[s] = SumOf(E[s], f)
  <2> TAKE s \in S
  <2> DEFINE pair == [t \in T |-> <<s, t>>]
             row == [t \in T |-> f[<<s, t>>]]
             X == {s} \X T
  <2>1. pair \in Bijection(T, X)
    BY Pairing
  <2>2. (\A t \in T : row[t] \in Nat) /\ (\A t \in T : f[pair[t]] = row[t])
    OBVIOUS
  <2>3. g[s] = SumOf(T, row) /\ E[s] = X
    BY DEF Across
  <2> HIDE DEF pair, row, X, E
  <2>4. SumOf(X, f) = SumOf(T, row)
    BY <2>1, <2>2, SumOfRenamed
  <2> QED  BY <2>3, <2>4
<1>5. UnionOf(S, E) = S \X T
  BY DEF UnionOf
<1> HIDE DEF E
<1>6. /\ \A s \in S : g[s] \in Nat
      /\ SumOf(UnionOf(S, E), f) = SumOf(S, g)
  BY <1>1, <1>2, <1>3, <1>4, SumOfSums
<1> QED  BY <1>5, <1>6

(* It does not matter whether rows or columns are added up first.           *)
LEMMA RowsOrColumns ==
    ASSUME NEW S, IsFiniteSet(S), NEW T, IsFiniteSet(T),
           NEW f, \A s \in S : \A t \in T : f[<<s, t>>] \in Nat,
           NEW g, \A s \in S : g[s] = SumOf(T, Across(f, T, s)),
           NEW h, \A t \in T : h[t] = SumOf(S, Down(f, S, t))
    PROVE  /\ \A s \in S : g[s] \in Nat
           /\ \A t \in T : h[t] \in Nat
           /\ SumOf(S, g) = SumOf(T, h)
<1> DEFINE turned == [x \in T \X S |-> f[<<x[2], x[1]>>]]
           turn == [x \in S \X T |-> <<x[2], x[1]>>]
           A == S \X T
           B == T \X S
<1>1. (\A s \in S : g[s] \in Nat) /\ SumOf(A, f) = SumOf(S, g)
  <2>1. RowSums(S, T, f, g)
    BY DEF RowSums
  <2> QED  BY <2>1, SumOfRows
<1>2. (\A t \in T : h[t] \in Nat) /\ SumOf(B, turned) = SumOf(T, h)
  <2>1. \A t \in T : \A s \in S : turned[<<t, s>>] = f[<<s, t>>]
    OBVIOUS
  <2>2. \A t \in T : Across(turned, S, t) = Down(f, S, t)
    BY <2>1 DEF Across, Down
  <2>3. \A t \in T : \A s \in S : turned[<<t, s>>] \in Nat
    BY <2>1
  <2>4. \A t \in T : h[t] = SumOf(S, Across(turned, S, t))
    BY <2>2
  <2> HIDE DEF turned
  <2>5. RowSums(T, S, turned, h)
    BY <2>3, <2>4 DEF RowSums
  <2> QED  BY <2>5, SumOfRows
<1>3. turn \in Bijection(A, B)
  <2>1. \A x \in A : x = <<x[1], x[2]>> /\ x[1] \in S /\ x[2] \in T
    OBVIOUS
  <2>2. turn \in [A -> B]
    OBVIOUS
  <2>3. \A x, y \in A : turn[x] = turn[y] => x = y
    BY <2>1
  <2>4. \A y \in B : \E x \in A : turn[x] = y
    <3> TAKE y \in B
    <3>1. <<y[2], y[1]>> \in A /\ turn[<<y[2], y[1]>>] = y
      OBVIOUS
    <3> QED  BY <3>1
  <2> HIDE DEF turn, A, B
  <2> QED  BY <2>2, <2>3, <2>4
           DEF Bijection, Injection, Surjection, IsInjective
<1>4. \A x \in A : f[x] \in Nat /\ turned[turn[x]] = f[x]
  <2> TAKE x \in A
  <2>1. x = <<x[1], x[2]>> /\ x[1] \in S /\ x[2] \in T
    OBVIOUS
  <2>2. turn[x] = <<x[2], x[1]>> /\ <<x[2], x[1]>> \in T \X S
    BY <2>1
  <2>3. turned[<<x[2], x[1]>>] = f[<<x[1], x[2]>>]
    BY <2>1, <2>2
  <2> HIDE DEF turned, turn
  <2> QED  BY <2>1, <2>2, <2>3
<1>5. IsFiniteSet(A)
  BY FS_Product
<1> HIDE DEF A, B, turn, turned
<1>6. SumOf(B, turned) = SumOf(A, f)
  BY <1>3, <1>4, <1>5, SumOfRenamed
<1> QED  BY <1>1, <1>2, <1>6

(* What the rows and the columns of a table add up to, when there are       *)
(* losses among the amounts.                                                *)
SignedTable(S, T, f, g, h) ==
    /\ IsFiniteSet(S) /\ IsFiniteSet(T)
    /\ \A s \in S : \A t \in T : f[<<s, t>>] \in Int
    /\ g \in [S -> Int] /\ h \in [T -> Int]
    /\ \A s \in S : g[s] = SignedSum(Across(f, T, s))
    /\ \A t \in T : h[t] = SignedSum(Down(f, S, t))

(* It does not matter then either.                                          *)
LEMMA SignedRowsOrColumns ==
    ASSUME NEW S, NEW T, NEW f, NEW g, NEW h, SignedTable(S, T, f, g, h)
    PROVE  SignedSum(g) = SignedSum(h)
<1>0. /\ IsFiniteSet(S) /\ IsFiniteSet(T)
      /\ \A s \in S : \A t \in T : f[<<s, t>>] \in Int
      /\ g \in [S -> Int] /\ h \in [T -> Int]
      /\ \A s \in S : g[s] = SignedSum(Across(f, T, s))
      /\ \A t \in T : h[t] = SignedSum(Down(f, S, t))
  BY DEF SignedTable
<1> DEFINE up == [x \in S \X T |-> IF f[x] > 0 THEN f[x] ELSE 0]
           down == [x \in S \X T |-> IF f[x] < 0 THEN -f[x] ELSE 0]
           gUp == [s \in S |-> SumOf(T, Across(up, T, s))]
           gDown == [s \in S |-> SumOf(T, Across(down, T, s))]
           hUp == [t \in T |-> SumOf(S, Down(up, S, t))]
           hDown == [t \in T |-> SumOf(S, Down(down, S, t))]
<1>1. \A s \in S : \A t \in T :
         /\ up[<<s, t>>] \in Nat /\ down[<<s, t>>] \in Nat
         /\ f[<<s, t>>] = up[<<s, t>>] - down[<<s, t>>]
  <2> SUFFICES ASSUME NEW s \in S, NEW t \in T
               PROVE  /\ up[<<s, t>>] \in Nat /\ down[<<s, t>>] \in Nat
                      /\ f[<<s, t>>] = up[<<s, t>>] - down[<<s, t>>]
    OBVIOUS
  <2> DEFINE x == <<s, t>>
  <2>1. x \in S \X T /\ f[x] \in Int
    BY <1>0
  <2>2. /\ up[x] = IF f[x] > 0 THEN f[x] ELSE 0
        /\ down[x] = IF f[x] < 0 THEN -f[x] ELSE 0
    BY <2>1
  <2> HIDE DEF up, down, x
  <2>3. up[x] \in Nat /\ down[x] \in Nat /\ f[x] = up[x] - down[x]
    BY <2>1, <2>2
  <2> QED  BY <2>3 DEF x
<1> HIDE DEF up, down
<1>2. /\ \A s \in S : gUp[s] \in Nat
      /\ \A t \in T : hUp[t] \in Nat
      /\ SumOf(S, gUp) = SumOf(T, hUp)
  <2>1. \A s \in S : gUp[s] = SumOf(T, Across(up, T, s))
    OBVIOUS
  <2>2. \A t \in T : hUp[t] = SumOf(S, Down(up, S, t))
    OBVIOUS
  <2>3. \A s \in S : \A t \in T : up[<<s, t>>] \in Nat
    BY <1>1
  <2> HIDE DEF gUp, hUp, gDown, hDown
  <2> QED  BY <1>0, <2>1, <2>2, <2>3, RowsOrColumns, SMTT(30)
<1>3. /\ \A s \in S : gDown[s] \in Nat
      /\ \A t \in T : hDown[t] \in Nat
      /\ SumOf(S, gDown) = SumOf(T, hDown)
  <2>1. \A s \in S : gDown[s] = SumOf(T, Across(down, T, s))
    OBVIOUS
  <2>2. \A t \in T : hDown[t] = SumOf(S, Down(down, S, t))
    OBVIOUS
  <2>3. \A s \in S : \A t \in T : down[<<s, t>>] \in Nat
    BY <1>1
  <2> HIDE DEF gUp, hUp, gDown, hDown
  <2> QED  BY <1>0, <2>1, <2>2, <2>3, RowsOrColumns, SMTT(30)
<1>4. \A s \in S : g[s] = gUp[s] - gDown[s]
  <2> TAKE s \in S
  <2> DEFINE row == Across(f, T, s)
             p == Across(up, T, s)
             q == Across(down, T, s)
  <2>1. /\ row \in [T -> Int] /\ g[s] = SignedSum(row)
        /\ gUp[s] = SumOf(T, p) /\ gDown[s] = SumOf(T, q)
        /\ \A t \in T : p[t] \in Nat
        /\ \A t \in T : q[t] \in Nat
        /\ \A t \in T : row[t] = p[t] - q[t]
    BY <1>0, <1>1 DEF Across
  <2> HIDE DEF row, p, q, gUp, gDown
  <2>2. SignedSum(row) = SumOf(T, p) - SumOf(T, q)
    BY <1>0, <2>1, SumOfDifference
  <2> QED  BY <2>1, <2>2
<1>5. \A t \in T : h[t] = hUp[t] - hDown[t]
  <2> TAKE t \in T
  <2> DEFINE column == Down(f, S, t)
             p == Down(up, S, t)
             q == Down(down, S, t)
  <2>1. /\ column \in [S -> Int] /\ h[t] = SignedSum(column)
        /\ hUp[t] = SumOf(S, p) /\ hDown[t] = SumOf(S, q)
        /\ \A s \in S : p[s] \in Nat
        /\ \A s \in S : q[s] \in Nat
        /\ \A s \in S : column[s] = p[s] - q[s]
    BY <1>0, <1>1 DEF Down
  <2> HIDE DEF column, p, q, hUp, hDown
  <2>2. SignedSum(column) = SumOf(S, p) - SumOf(S, q)
    BY <1>0, <2>1, SumOfDifference
  <2> QED  BY <2>1, <2>2
<1> HIDE DEF gUp, gDown, hUp, hDown
<1>6. SignedSum(g) = SumOf(S, gUp) - SumOf(S, gDown)
  BY <1>0, <1>2, <1>3, <1>4, SumOfDifference
<1>7. SignedSum(h) = SumOf(T, hUp) - SumOf(T, hDown)
  BY <1>0, <1>2, <1>3, <1>5, SumOfDifference
<1> QED  BY <1>2, <1>3, <1>6, <1>7

(* One amount more, gained or lost.                                         *)
LEMMA SignedWithOneMore ==
    ASSUME NEW S, IsFiniteSet(S), NEW x, x \notin S,
           NEW f \in [S \cup {x} -> Int], NEW g \in [S -> Int],
           \A k \in S : g[k] = f[k]
    PROVE  /\ SignedSum(g) \in Int
           /\ SignedSum(f) = SignedSum(g) + f[x]
<1> DEFINE D == S \cup {x}
           G == AboveZero(f)
           L == BelowZero(f)
<1>1. IsFiniteSet(D)
  BY FS_AddElement
<1>2. f \in [D -> Int]
  OBVIOUS
<1> HIDE DEF D
<1>3. G \in [D -> Nat] /\ L \in [D -> Nat] /\ SignedSum(f) = SumOf(D, G) - SumOf(D, L)
  BY <1>1, <1>2, SumOfParts
<1>4. \A k \in D : f[k] = G[k] - L[k]
  BY <1>2 DEF AboveZero, BelowZero
<1> HIDE DEF G, L
<1>5. (\A k \in D : G[k] \in Nat) /\ (\A k \in D : L[k] \in Nat)
  BY <1>3
<1>6. /\ \A k \in S : G[k] \in Nat
      /\ \A k \in S : L[k] \in Nat
      /\ \A k \in S : g[k] = G[k] - L[k]
      /\ G[x] \in Nat /\ L[x] \in Nat /\ f[x] = G[x] - L[x]
  BY <1>4, <1>5 DEF D
<1>7. SignedSum(g) = SumOf(S, G) - SumOf(S, L)
  BY <1>6, SumOfDifference
<1>8. SumOf(D, G) = SumOf(S, G) + G[x]
  BY <1>6, SumWithOneMore DEF D
<1>9. SumOf(D, L) = SumOf(S, L) + L[x]
  BY <1>6, SumWithOneMore DEF D
<1>10. SumOf(S, G) \in Nat /\ SumOf(S, L) \in Nat
  BY <1>6, UnitsFinite
<1> QED  BY <1>3, <1>6, <1>7, <1>8, <1>9, <1>10

(* A loss is the gain of the same magnitude, taken away.                    *)
LEMMA SharesOfLoss ==
    ASSUME NEW D, IsFiniteSet(D), NEW w \in [D -> Nat], Allocatable(w),
           NEW t \in Int, t < 0
    PROVE  /\ Allocate(t, w) \in [D -> Int]
           /\ \A k \in D : Allocate(t, w)[k] = -Allocate(-t, w)[k]
<1>1. (-1) * t = -t /\ 1 * (-t) = -t /\ ~(-t < 0)
  OBVIOUS
<1>2. Allocate(t, w) = [k \in D |-> (-1) * (Floors(-t, w)[k]
                                   + IF k \in Lucky(-t, w) THEN 1 ELSE 0)]
  BY <1>1 DEF Allocate
<1>3. Allocate(-t, w) = [k \in D |-> 1 * (Floors(-t, w)[k]
                                   + IF k \in Lucky(-t, w) THEN 1 ELSE 0)]
  BY <1>1 DEF Allocate
<1>4. -t \in Nat
  OBVIOUS
<1>5. Floors(-t, w) \in [D -> Nat]
  BY <1>4, ExactShares, Zenon
<1>6. \A k \in D : Floors(-t, w)[k] + (IF k \in Lucky(-t, w) THEN 1 ELSE 0) \in Int
  BY <1>5
<1>7. \A x \in Int : 1 * x = x /\ (-1) * x = -x
  OBVIOUS
<1> QED  BY <1>2, <1>3, <1>6, <1>7

(* The shares add up to the total and are less than a quantum away from the   *)
(* exact ones (the first two guarantees of allocate).                       *)
LEMMA SharesOfTotal ==
    ASSUME NEW D \in SUBSET Nat, IsFiniteSet(D), NEW w \in [D -> Nat],
           Allocatable(w), NEW t \in Int
    PROVE  LET share == Allocate(t, w)  W == WeightSum(w) IN
           /\ share \in [D -> Int]
           /\ SignedSum(share) = t
           /\ \A k \in D : /\ share[k] * W - t * w[k] < W
                           /\ t * w[k] - share[k] * W < W
<1>0. t < 0 => /\ Allocate(t, w) \in [D -> Int]
               /\ \A k \in D : Allocate(t, w)[k] = -Allocate(-t, w)[k]
  BY SharesOfLoss
<1> DEFINE W == WeightSum(w)
           n == IF t < 0 THEN -t ELSE t
           gain == Allocate(n, w)
           share == Allocate(t, w)
<1>1. n \in Nat
  OBVIOUS
<1> HIDE DEF n
<1>2. /\ W \in Nat /\ W > 0
      /\ \A k \in D : Remainders(n, w)[k] \in Nat /\ Remainders(n, w)[k] < W
  <2>1. /\ W \in Nat /\ W > 0
        /\ Floors(n, w) \in [D -> Nat]
        /\ Remainders(n, w) \in [D -> Nat]
        /\ \A k \in D :
             /\ Remainders(n, w)[k] < W
             /\ n * w[k] = W * Floors(n, w)[k] + Remainders(n, w)[k]
    BY <1>1, ExactShares, Zenon
  <2> HIDE DEF W
  <2> QED  BY <2>1
<1>3. /\ gain \in [D -> Nat]
      /\ SumOf(D, gain) = n
  BY <1>1, SharesOfGain
<1>4. \A k \in D : gain[k] * W - n * w[k] < W /\ n * w[k] - gain[k] * W < W
  <2> TAKE k \in D
  <2> DEFINE r == Remainders(n, w)[k]
             lucky == k \in Lucky(n, w)
             x == gain[k] * W
             y == n * w[k]
  <2>1. r \in Nat /\ r < W
    BY <1>2
  <2>2. lucky => r > 0
    BY <1>1, LuckyOnes
  <2>3. x - y = (IF lucky THEN W ELSE 0) - r
    BY <1>1, SharesOfGain
  <2>4. x \in Int /\ y \in Int
    BY <1>1, <1>2, <1>3
  <2> HIDE DEF W, r, lucky, x, y, gain
  <2>5. x - y < W /\ y - x < W
    BY <1>2, <2>1, <2>2, <2>3, <2>4
  <2> QED  BY <2>5 DEF x, y
<1>5. SignedSum(gain) = n
  BY <1>3, SumOfGains
<1> HIDE DEF W
<1>6. CASE t >= 0
  <2>1. n = t
    BY <1>6 DEF n
  <2> QED  BY <1>3, <1>4, <1>5, <2>1 DEF W
<1>7. CASE t < 0
  <2>1. n = -t /\ t = (-1) * n
    BY <1>7 DEF n
  <2>2. share \in [D -> Int] /\ \A k \in D : share[k] = -gain[k]
    <3> HIDE DEF gain, share
    <3> QED  BY <1>0, <1>7, <2>1 DEF gain, share
  <2> HIDE DEF gain, share
  <2>3. gain \in [D -> Int]
    BY <1>3
  <2>4. SignedSum(share) = t
    <3>1. SignedSum([k \in D |-> (-1) * gain[k]]) = (-1) * SignedSum(gain)
      <4>1. -1 \in Int
        OBVIOUS
      <4> QED  BY <2>3, <4>1, SumScaled, Zenon
    <3>2. \A x \in Int : (-1) * x = -x
      OBVIOUS
    <3>3. share = [k \in D |-> (-1) * gain[k]]
      BY <2>2, <2>3, <3>2
    <3> QED  BY <1>5, <2>1, <3>1, <3>3
  <2>5. share \in [D -> Int]
    BY <2>2, <2>3
  <2>6. \A k \in D : share[k] * W - t * w[k] < W /\ t * w[k] - share[k] * W < W
    <3> TAKE k \in D
    <3> DEFINE x == gain[k] * W
               y == n * w[k]
    <3>1. x - y < W /\ y - x < W /\ x \in Int /\ y \in Int
      BY <1>1, <1>2, <1>4, <2>3
    <3>2. share[k] * W = -x
      BY <1>2, <2>2, <2>3
    <3>3. t * w[k] = -y
      BY <1>1, <2>1
    <3> HIDE DEF x, y
    <3>4. -x - (-y) < W /\ -y - (-x) < W
      BY <1>2, <3>1
    <3> QED  BY <3>2, <3>3, <3>4
  <2> QED  BY <2>4, <2>5, <2>6 DEF W, share
<1> QED  BY <1>6, <1>7

=============================================================================
