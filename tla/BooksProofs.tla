---------------------------- MODULE BooksProofs -----------------------------
(***************************************************************************)
(* Facts about the sums of Books.tla: the balance of an account grows by     *)
(* exactly what a transfer's legs say when it is appended, reversals cancel, *)
(* and balanced transfers leave no imbalance.                               *)
(***************************************************************************)
EXTENDS Books, SumsProofs

(* Appending a transfer adds its legs, numbered by its place in the book, to *)
(* the entries and changes no entry there was.                              *)
LEMMA EntriesOfAppend ==
    ASSUME NEW b \in Seq(TransferRow), NEW t \in TransferRow
    PROVE  LET n == Len(b) + 1  c == Append(b, t) IN
           /\ Entries(c) = Entries(b) \cup ({n} \X DOMAIN t.legs)
           /\ Entries(b) \cap ({n} \X DOMAIN t.legs) = {}
           /\ \A e \in Entries(b) : EntryOf(c, e) = EntryOf(b, e)
           /\ \A j \in DOMAIN t.legs : EntryOf(c, <<n, j>>) = t.legs[j]
<1> DEFINE n == Len(b) + 1
           c == Append(b, t)
<1>1. /\ DOMAIN b = 1..Len(b)
      /\ DOMAIN c = 1..n
      /\ \A i \in 1..Len(b) : c[i] = b[i]
      /\ c[n] = t
  OBVIOUS
<1>2. \A i \in 1..Len(b) : i # n
  OBVIOUS
<1>3. Entries(c) = Entries(b) \cup ({n} \X DOMAIN t.legs)
  <2>1. 1..n = (1..Len(b)) \cup {n}
    OBVIOUS
  <2> QED  BY <1>1, <2>1 DEF Entries
<1>4. Entries(b) \cap ({n} \X DOMAIN t.legs) = {}
  BY <1>1, <1>2 DEF Entries
<1>5. \A e \in Entries(b) : EntryOf(c, e) = EntryOf(b, e)
  BY <1>1 DEF Entries, EntryOf
<1>6. \A j \in DOMAIN t.legs : EntryOf(c, <<n, j>>) = t.legs[j]
  BY <1>1 DEF EntryOf
<1> HIDE DEF n, c
<1> QED  BY <1>3, <1>4, <1>5, <1>6 DEF n, c

(* The amounts and the finiteness that the sums over a book need.           *)
LEMMA EntriesAreLegs ==
    ASSUME NEW b \in Seq(TransferRow), NEW e \in Entries(b)
    PROVE  EntryOf(b, e) \in Leg
<1>1. PICK i \in DOMAIN b : e \in {i} \X DOMAIN b[i].legs
  BY DEF Entries
<1>2. b[i] \in TransferRow
  OBVIOUS
<1>3. b[i].legs \in Seq(Leg)
  BY <1>2 DEF TransferRow
<1>4. e[1] = i /\ e[2] \in DOMAIN b[i].legs
  BY <1>1
<1> QED  BY <1>3, <1>4 DEF EntryOf

(* The balance of an account after a transfer is its balance before plus     *)
(* what the legs of the transfer say (native_balance).                      *)
LEMMA BalanceOfAppend ==
    ASSUME NEW b \in Seq(TransferRow), IsFiniteSet(Entries(b)),
           NEW t \in TransferRow, NEW a
    PROVE  /\ NativeBalance(b, a) \in Int
           /\ Delta(t.legs, a) \in Int
           /\ NativeBalance(Append(b, t), a)
                = NativeBalance(b, a) + Delta(t.legs, a)
<1> DEFINE n == Len(b) + 1
           c == Append(b, t)
           Old(d) == EntriesOn(b, a, d)
           New(d) == {j \in Side(t.legs, d) : t.legs[j].account = a}
           g == [e \in Entries(b) |-> EntryOf(b, e).amount]
           f == [e \in Entries(c) |-> EntryOf(c, e).amount]
           h == Amounts(t.legs)
<1>1. t.legs \in Seq(Leg) /\ c \in Seq(TransferRow)
  BY DEF TransferRow
<1>2. /\ Entries(c) = Entries(b) \cup ({n} \X DOMAIN t.legs)
      /\ Entries(b) \cap ({n} \X DOMAIN t.legs) = {}
      /\ \A e \in Entries(b) : EntryOf(c, e) = EntryOf(b, e)
      /\ \A j \in DOMAIN t.legs : EntryOf(c, <<n, j>>) = t.legs[j]
  BY EntriesOfAppend
<1>3. IsFiniteSet(DOMAIN t.legs)
  BY <1>1, FS_Interval
<1>4. \A d : Old(d) \subseteq Entries(b) /\ IsFiniteSet(Old(d))
  BY FS_Subset DEF EntriesOn
<1>5. \A d : New(d) \subseteq DOMAIN t.legs /\ IsFiniteSet(New(d))
  BY <1>3, FS_Subset DEF Side
<1>6. \A e \in Entries(b) : g[e] \in Nat /\ f[e] = g[e]
  BY <1>2, EntriesAreLegs DEF Leg
<1>7. \A j \in DOMAIN t.legs : h[j] \in Nat /\ f[<<n, j>>] = h[j]
  <2> TAKE j \in DOMAIN t.legs
  <2>1. t.legs[j] \in Leg
    BY <1>1
  <2>2. <<n, j>> \in Entries(c)
    BY <1>2
  <2>3. f[<<n, j>>] = t.legs[j].amount
    BY <1>2, <2>2
  <2> QED  BY <2>1, <2>3 DEF Leg, Amounts
<1>8. \A d : EntriesOn(c, a, d) = Old(d) \cup ({n} \X New(d))
  BY <1>2 DEF EntriesOn, Side
<1> HIDE DEF f, g, h, n, c
<1>9. \A d : /\ SumOf(EntriesOn(c, a, d), f) = SumOf(Old(d), g) + SumOf(New(d), h)
             /\ SumOf(Old(d), g) \in Nat
             /\ SumOf(New(d), h) \in Nat
  <2> TAKE d
  <2> DEFINE S == Old(d)
             J == New(d)
             T == {n} \X J
             place == [j \in J |-> <<n, j>>]
  <2>1. /\ IsFiniteSet(S) /\ IsFiniteSet(J) /\ S \cap T = {}
        /\ EntriesOn(c, a, d) = S \cup T
    BY <1>2, <1>4, <1>5, <1>8
  <2>2. \A e \in S : g[e] \in Nat /\ f[e] = g[e]
    BY <1>4, <1>6
  <2>3. \A j \in J : h[j] \in Nat /\ f[place[j]] = h[j]
    BY <1>5, <1>7
  <2>4. place \in Bijection(J, T)
    BY Pairing
  <2>5. SumOf(S \cup T, f) = SumOf(S, g) + SumOf(J, h)
    <3> HIDE DEF S, J, T, place
    <3> QED  BY <2>1, <2>2, <2>3, <2>4, SumOfExtended
  <2>6. SumOf(S, g) \in Nat /\ SumOf(J, h) \in Nat
    BY <2>1, <2>2, <2>3, UnitsFinite
  <2> QED  BY <2>1, <2>5, <2>6
<1>10. /\ NativeBalance(c, a) = SumOf(EntriesOn(c, a, "DEBIT"), f)
                                  - SumOf(EntriesOn(c, a, "CREDIT"), f)
       /\ NativeBalance(b, a) = SumOf(Old("DEBIT"), g) - SumOf(Old("CREDIT"), g)
       /\ Delta(t.legs, a) = SumOf(New("DEBIT"), h) - SumOf(New("CREDIT"), h)
  BY DEF NativeBalance, Delta, f, g, h
<1>11. NativeBalance(c, a) = NativeBalance(b, a) + Delta(t.legs, a)
  BY <1>9, <1>10
<1>12. NativeBalance(b, a) \in Int /\ Delta(t.legs, a) \in Int
  BY <1>9, <1>10
<1> QED  BY <1>11, <1>12 DEF c

(* The empty book has no entries and every balance in it is zero.           *)
LEMMA EmptyBook ==
    /\ IsFiniteSet(Entries(<<>>))
    /\ \A a : NativeBalance(<<>>, a) = 0
<1>1. Entries(<<>>) = {}
  BY DEF Entries
<1>2. \A a, d : EntriesOn(<<>>, a, d) = {}
  BY <1>1 DEF EntriesOn
<1>3. \A f : SumOf({}, f) = 0
  BY EmptySum
<1>4. \A a : NativeBalance(<<>>, a) = 0
  <2> TAKE a
  <2> DEFINE amount == [e \in Entries(<<>>) |-> EntryOf(<<>>, e).amount]
  <2>1. NativeBalance(<<>>, a) = SumOf({}, amount) - SumOf({}, amount)
    BY <1>2, Zenon DEF NativeBalance
  <2> HIDE DEF amount
  <2> QED  BY <1>3, <2>1
<1> QED  BY <1>1, <1>4, FS_EmptySet

(* A book stays finite.                                                     *)
LEMMA FiniteAppend ==
    ASSUME NEW b \in Seq(TransferRow), IsFiniteSet(Entries(b)),
           NEW t \in TransferRow
    PROVE  IsFiniteSet(Entries(Append(b, t)))
<1> DEFINE T == {Len(b) + 1} \X DOMAIN t.legs
<1>1. IsFiniteSet(DOMAIN t.legs)
  BY FS_Interval DEF TransferRow
<1>2. IsFiniteSet({Len(b) + 1})
  BY FS_Singleton
<1>3. IsFiniteSet(T)
  BY <1>1, <1>2, FS_Product
<1>4. Entries(Append(b, t)) = Entries(b) \cup T
  BY EntriesOfAppend
<1> HIDE DEF T
<1> QED  BY <1>3, <1>4, FS_Union

(* What legs do to an account is a whole number.                            *)
LEMMA DeltaIsWhole ==
    ASSUME NEW legs \in Seq(Leg), NEW a
    PROVE  Delta(legs, a) \in Int
<1> DEFINE On(d) == {j \in Side(legs, d) : legs[j].account = a}
           h == Amounts(legs)
<1>1. IsFiniteSet(DOMAIN legs)
  BY FS_Interval
<1>2. \A d : IsFiniteSet(On(d))
  BY <1>1, FS_Subset DEF Side
<1>3. \A j \in DOMAIN legs : h[j] \in Nat
  <2> TAKE j \in DOMAIN legs
  <2>1. legs[j] \in Leg
    OBVIOUS
  <2> QED  BY <2>1 DEF Leg, Amounts
<1>4. \A d : \A j \in On(d) : h[j] \in Nat
  BY <1>3 DEF Side
<1>5. Delta(legs, a) = SumOf(On("DEBIT"), h) - SumOf(On("CREDIT"), h)
  BY Zenon DEF Delta
<1> HIDE DEF On, h
<1>6. \A d : SumOf(On(d), h) \in Nat
  BY <1>2, <1>4, UnitsFinite
<1> QED  BY <1>5, <1>6

(* The legs of a reversal take back exactly what the original did to each   *)
(* account, and are legs again (_flip).                                     *)
LEMMA FlipCancels ==
    ASSUME NEW legs \in Seq(Leg)
    PROVE  /\ Flip(legs) \in Seq(Leg)
           /\ Touched(Flip(legs)) = Touched(legs)
           /\ Balanced(legs) => Balanced(Flip(legs))
           /\ \A a : Delta(legs, a) + Delta(Flip(legs), a) = 0
<1> DEFINE flipped == Flip(legs)
<1>1. /\ DOMAIN flipped = DOMAIN legs
      /\ \A j \in DOMAIN legs :
            /\ legs[j] \in Leg
            /\ flipped[j] \in Leg
            /\ flipped[j].direction = Opposite(legs[j].direction)
            /\ flipped[j].account = legs[j].account
            /\ flipped[j].amount = legs[j].amount
            /\ flipped[j].base = legs[j].base
  <2>1. DOMAIN flipped = DOMAIN legs
    BY DEF Flip
  <2>2. SUFFICES ASSUME NEW j \in DOMAIN legs
                 PROVE  /\ legs[j] \in Leg
                        /\ flipped[j] \in Leg
                        /\ flipped[j].direction = Opposite(legs[j].direction)
                        /\ flipped[j].account = legs[j].account
                        /\ flipped[j].amount = legs[j].amount
                        /\ flipped[j].base = legs[j].base
    BY <2>1
  <2>3. legs[j] \in Leg
    OBVIOUS
  <2>4. flipped[j] = [legs[j] EXCEPT !.direction = Opposite(legs[j].direction)]
    BY DEF Flip
  <2> QED  BY <2>3, <2>4 DEF Leg, Opposite
<1>2. flipped \in Seq(Leg)
  <2>1. DOMAIN legs = 1..Len(legs) /\ Len(legs) \in Nat
    OBVIOUS
  <2>2. flipped \in [1..Len(legs) -> Leg]
    BY <1>1, <2>1 DEF Flip
  <2> QED  BY <2>1, <2>2
<1> HIDE DEF flipped
<1>3. /\ Side(flipped, "DEBIT") = Side(legs, "CREDIT")
      /\ Side(flipped, "CREDIT") = Side(legs, "DEBIT")
  BY <1>1 DEF Side, Opposite, Leg
<1>4. Amounts(flipped) = Amounts(legs) /\ Bases(flipped) = Bases(legs)
  BY <1>1 DEF Amounts, Bases
<1>5. Touched(flipped) = Touched(legs)
  BY <1>1 DEF Touched
<1>6. Balanced(legs) => Balanced(flipped)
  BY <1>3, <1>4 DEF Balanced
<1>7. \A a : Delta(legs, a) + Delta(flipped, a) = 0
  <2> TAKE a
  <2> DEFINE Of(d) == {j \in Side(legs, d) : legs[j].account = a}
             x == SumOf(Of("DEBIT"), Amounts(legs))
             y == SumOf(Of("CREDIT"), Amounts(legs))
  <2>1. \A d : IsFiniteSet(Of(d)) /\ Of(d) \subseteq DOMAIN legs
    BY FS_Interval, FS_Subset DEF Side
  <2>2. \A j \in DOMAIN legs : Amounts(legs)[j] \in Nat
    BY <1>1 DEF Amounts, Leg
  <2>3. x \in Nat /\ y \in Nat
    BY <2>1, <2>2, UnitsFinite
  <2>4. /\ {j \in Side(flipped, "DEBIT") : flipped[j].account = a} = Of("CREDIT")
        /\ {j \in Side(flipped, "CREDIT") : flipped[j].account = a} = Of("DEBIT")
    BY <1>1, <1>3 DEF Side
  <2>5. Delta(legs, a) = x - y /\ Delta(flipped, a) = y - x
    BY <1>4, <2>4 DEF Delta
  <2> HIDE DEF x, y
  <2> QED  BY <2>3, <2>5
<1> QED  BY <1>2, <1>5, <1>6, <1>7 DEF flipped

(* Those of the legs J of a transfer that are debits, or credits.           *)
SideOf(t, J, d) == {j \in J : t.legs[j].direction = d}

(* Some entries of a book, and those legs of its next transfer.             *)
AndNew(b, E, J) == E \cup ({Len(b) + 1} \X J)

(* What the book shows of some entries grows, with a transfer, by what is    *)
(* counted of its legs.                                                     *)
LEMMA ImbalanceGrows ==
    ASSUME NEW b \in Seq(TransferRow), IsFiniteSet(Entries(b)),
           NEW t \in TransferRow, NEW J \in SUBSET DOMAIN t.legs,
           NEW E \in SUBSET Entries(b)
    PROVE  LET c == Append(b, t)
               In == SumOf(SideOf(t, J, "DEBIT"), Bases(t.legs))
               Out == SumOf(SideOf(t, J, "CREDIT"), Bases(t.legs))
           IN  /\ Imbalance(c, E) = Imbalance(b, E)
               /\ Imbalance(b, E) \in Int
               /\ In \in Nat /\ Out \in Nat
               /\ Imbalance(c, AndNew(b, E, J)) = Imbalance(b, E) + (In - Out)
<1> DEFINE n == Len(b) + 1
           c == Append(b, t)
           N == {n} \X J
           Old(d) == {e \in E : EntryOf(b, e).direction = d}
           New(d) == SideOf(t, J, d)
           g == [e \in E |-> EntryOf(b, e).base]
           f == [e \in E \cup N |-> EntryOf(c, e).base]
           h == Bases(t.legs)
<1>1. t.legs \in Seq(Leg)
  BY DEF TransferRow
<1>2. /\ Entries(b) \cap N = {}
      /\ \A e \in E : EntryOf(c, e) = EntryOf(b, e)
      /\ \A j \in J : EntryOf(c, <<n, j>>) = t.legs[j]
  BY EntriesOfAppend
<1>3. Imbalance(c, E) = Imbalance(b, E)
  <2>1. [e \in E |-> EntryOf(c, e).base] = g
    BY <1>2
  <2>2. \A d : {e \in E : EntryOf(c, e).direction = d} = Old(d)
    BY <1>2
  <2> QED  BY <2>1, <2>2 DEF Imbalance
<1>4. IsFiniteSet(J) /\ IsFiniteSet(E)
  <2>1. IsFiniteSet(J)
    BY <1>1, FS_Interval, FS_Subset
  <2> QED  BY <2>1, FS_Subset
<1>5. \A d : IsFiniteSet(Old(d)) /\ IsFiniteSet(New(d)) /\ New(d) \subseteq J
  BY <1>4, FS_Subset DEF SideOf
<1>6. \A e \in E : g[e] \in Nat /\ f[e] = g[e]
  <2> TAKE e \in E
  <2>1. EntryOf(b, e) \in Leg
    BY EntriesAreLegs
  <2> QED  BY <1>2, <2>1 DEF Leg
<1>7. \A j \in J : h[j] \in Nat /\ f[<<n, j>>] = h[j]
  <2> TAKE j \in J
  <2>1. t.legs[j] \in Leg
    BY <1>1
  <2>2. f[<<n, j>>] = t.legs[j].base
    BY <1>2
  <2> QED  BY <2>1, <2>2 DEF Leg, Bases
<1>8. \A d : {e \in E \cup N : EntryOf(c, e).direction = d}
               = Old(d) \cup ({n} \X New(d))
  <2> TAKE d
  <2>1. {e \in N : EntryOf(c, e).direction = d} = {n} \X New(d)
    BY <1>2 DEF SideOf
  <2>2. {e \in E : EntryOf(c, e).direction = d} = Old(d)
    BY <1>2
  <2> QED  BY <2>1, <2>2
<1> HIDE DEF f, g, h, n, c
<1>9. \A d : /\ SumOf(Old(d) \cup ({n} \X New(d)), f)
                  = SumOf(Old(d), g) + SumOf(New(d), h)
             /\ SumOf(Old(d), g) \in Nat
             /\ SumOf(New(d), h) \in Nat
  <2> TAKE d
  <2> DEFINE S == Old(d)
             K == New(d)
             T == {n} \X K
             place == [j \in K |-> <<n, j>>]
  <2>1. /\ IsFiniteSet(S) /\ IsFiniteSet(K) /\ S \cap T = {}
    BY <1>2, <1>5
  <2>2. \A e \in S : g[e] \in Nat /\ f[e] = g[e]
    BY <1>6
  <2>3. \A j \in K : h[j] \in Nat /\ f[place[j]] = h[j]
    BY <1>5, <1>7
  <2>4. place \in Bijection(K, T)
    BY Pairing
  <2>5. SumOf(S \cup T, f) = SumOf(S, g) + SumOf(K, h)
    <3> HIDE DEF S, K, T, place
    <3> QED  BY <2>1, <2>2, <2>3, <2>4, SumOfExtended
  <2>6. SumOf(S, g) \in Nat /\ SumOf(K, h) \in Nat
    BY <2>1, <2>2, <2>3, UnitsFinite
  <2> QED  BY <2>5, <2>6
<1>10. Imbalance(c, E \cup N)
         = SumOf(Old("DEBIT") \cup ({n} \X New("DEBIT")), f)
             - SumOf(Old("CREDIT") \cup ({n} \X New("CREDIT")), f)
  BY <1>8 DEF Imbalance, f
<1>11. Imbalance(b, E) = SumOf(Old("DEBIT"), g) - SumOf(Old("CREDIT"), g)
  BY DEF Imbalance, g
<1>12. /\ Imbalance(b, E) \in Int
       /\ Imbalance(c, E \cup N)
            = Imbalance(b, E) + (SumOf(New("DEBIT"), h) - SumOf(New("CREDIT"), h))
  <2> HIDE DEF N, Old, New
  <2> QED  BY <1>9, <1>10, <1>11
<1> QED  BY <1>3, <1>9, <1>12 DEF n, c, h, AndNew

(* A balanced transfer leaves every imbalance what it was, whether all of    *)
(* its entries are counted or none (total_imbalance, period_imbalance,      *)
(* fund_imbalance).                                                         *)
LEMMA ImbalanceOfAppend ==
    ASSUME NEW b \in Seq(TransferRow), IsFiniteSet(Entries(b)),
           NEW t \in TransferRow, Balanced(t.legs),
           NEW E \in SUBSET Entries(b)
    PROVE  LET c == Append(b, t) IN
           /\ Imbalance(c, E) = Imbalance(b, E)
           /\ Imbalance(c, E \cup ({Len(b) + 1} \X DOMAIN t.legs))
                = Imbalance(b, E)
<1> DEFINE n == Len(b) + 1
           c == Append(b, t)
           J == DOMAIN t.legs
           In == SumOf(SideOf(t, J, "DEBIT"), Bases(t.legs))
           Out == SumOf(SideOf(t, J, "CREDIT"), Bases(t.legs))
<1>1. /\ SideOf(t, J, "DEBIT") = Side(t.legs, "DEBIT")
      /\ SideOf(t, J, "CREDIT") = Side(t.legs, "CREDIT")
  BY DEF SideOf, Side
<1>2. /\ Imbalance(c, E) = Imbalance(b, E)
      /\ Imbalance(b, E) \in Int /\ In \in Nat /\ Out \in Nat
      /\ Imbalance(c, AndNew(b, E, J)) = Imbalance(b, E) + (In - Out)
  BY ImbalanceGrows
<1>3. In = Out
  BY <1>1 DEF Balanced
<1> HIDE DEF c, n, J, In, Out
<1> QED  BY <1>2, <1>3 DEF c, n, J, AndNew

-----------------------------------------------------------------------------
(* What parts of a book show, and the whole. *)

(* The base amounts of a book's entries, and the debits or the credits      *)
(* among some of them.                                                      *)
BasesIn(b) == [e \in Entries(b) |-> EntryOf(b, e).base]
Sided(b, E, d) == {e \in E : EntryOf(b, e).direction = d}

(* What entries show is the sum of the debits less that of the credits.     *)
LEMMA ImbalanceOfSides ==
    ASSUME NEW b \in Seq(TransferRow), IsFiniteSet(Entries(b)),
           NEW E \in SUBSET Entries(b)
    PROVE  /\ IsFiniteSet(E)
           /\ \A e \in E : BasesIn(b)[e] \in Nat
           /\ \A d : /\ IsFiniteSet(Sided(b, E, d))
                     /\ SumOf(Sided(b, E, d), BasesIn(b)) \in Nat
           /\ Imbalance(b, E) = SumOf(Sided(b, E, "DEBIT"), BasesIn(b))
                                  - SumOf(Sided(b, E, "CREDIT"), BasesIn(b))
           /\ Imbalance(b, E) \in Int
<1> DEFINE base == [e \in E |-> EntryOf(b, e).base]
           B == BasesIn(b)
<1>1. \A e \in E : B[e] \in Nat /\ base[e] = B[e]
  <2> TAKE e \in E
  <2>1. EntryOf(b, e) \in Leg
    BY EntriesAreLegs
  <2> QED  BY <2>1 DEF Leg, BasesIn
<1>2. IsFiniteSet(E)
  BY FS_Subset
<1>3. \A d : Sided(b, E, d) \subseteq E /\ IsFiniteSet(Sided(b, E, d))
  BY <1>2, FS_Subset DEF Sided
<1>4. Imbalance(b, E)
        = SumOf(Sided(b, E, "DEBIT"), base) - SumOf(Sided(b, E, "CREDIT"), base)
  BY Zenon DEF Imbalance, Sided
<1> HIDE DEF base, B
<1>5. \A d : SumOf(Sided(b, E, d), base) = SumOf(Sided(b, E, d), B)
  <2> TAKE d
  <2>1. \A e \in Sided(b, E, d) : base[e] = B[e]
    BY <1>1, <1>3
  <2> QED  BY <2>1, SumOfSame
<1>6. \A d : SumOf(Sided(b, E, d), B) \in Nat
  <2> TAKE d
  <2>1. \A e \in Sided(b, E, d) : B[e] \in Nat
    BY <1>1, <1>3
  <2> QED  BY <1>3, <2>1, UnitsFinite
<1>7. Imbalance(b, E)
        = SumOf(Sided(b, E, "DEBIT"), B) - SumOf(Sided(b, E, "CREDIT"), B)
  BY <1>4, <1>5
<1>8. Imbalance(b, E) \in Int
  BY <1>6, <1>7
<1> QED  BY <1>1, <1>2, <1>3, <1>6, <1>7, <1>8 DEF B

(* Disjoint sets of entries show together what they show one by one.        *)
LEMMA ImbalanceOfParts ==
    ASSUME NEW b \in Seq(TransferRow), IsFiniteSet(Entries(b)),
           NEW D, IsFiniteSet(D), NEW E,
           \A q \in D : E[q] \in SUBSET Entries(b),
           \A q, r \in D : q # r => E[q] \cap E[r] = {},
           NEW g \in [D -> Int], \A q \in D : g[q] = Imbalance(b, E[q])
    PROVE  Imbalance(b, UnionOf(D, E)) = SignedSum(g)
<1> DEFINE B == BasesIn(b)
           U == UnionOf(D, E)
           Of(d) == [q \in D |-> Sided(b, E[q], d)]
           sum(d) == [q \in D |-> SumOf(Sided(b, E[q], d), B)]
<1>1. U \in SUBSET Entries(b)
  BY DEF UnionOf
<1>2. \A q \in D :
        /\ \A e \in E[q] : B[e] \in Nat
        /\ \A d : /\ IsFiniteSet(Sided(b, E[q], d))
                  /\ SumOf(Sided(b, E[q], d), B) \in Nat
        /\ Imbalance(b, E[q]) = SumOf(Sided(b, E[q], "DEBIT"), B)
                                  - SumOf(Sided(b, E[q], "CREDIT"), B)
  <2> TAKE q \in D
  <2> DEFINE F == E[q]
  <2>1. F \in SUBSET Entries(b)
    OBVIOUS
  <2> HIDE DEF F
  <2>2. /\ \A e \in F : B[e] \in Nat
        /\ \A d : /\ IsFiniteSet(Sided(b, F, d))
                  /\ SumOf(Sided(b, F, d), B) \in Nat
        /\ Imbalance(b, F) = SumOf(Sided(b, F, "DEBIT"), B)
                                  - SumOf(Sided(b, F, "CREDIT"), B)
    BY <2>1, ImbalanceOfSides
  <2> QED  BY <2>2 DEF F
<1>3. Imbalance(b, U) = SumOf(Sided(b, U, "DEBIT"), B)
                          - SumOf(Sided(b, U, "CREDIT"), B)
  <2> HIDE DEF U
  <2> QED  BY <1>1, ImbalanceOfSides
<1>4. \A d : Sided(b, U, d) = UnionOf(D, Of(d))
  BY DEF Sided, UnionOf
<1> HIDE DEF B, U
<1>5. \A d : /\ \A q \in D : sum(d)[q] \in Nat
             /\ SumOf(UnionOf(D, Of(d)), B) = SumOf(D, sum(d))
  <2> TAKE d
  <2> DEFINE P == Of(d)
             s == sum(d)
  <2>1. \A q \in D : P[q] = Sided(b, E[q], d) /\ s[q] = SumOf(P[q], B)
    OBVIOUS
  <2>2. \A q \in D : P[q] \subseteq E[q]
    BY <2>1 DEF Sided
  <2> HIDE DEF P, s
  <2>3. \A q \in D : IsFiniteSet(P[q])
    BY <1>2, <2>1
  <2>4. \A q \in D : \A i \in P[q] : B[i] \in Nat
    BY <1>2, <2>2
  <2>5. \A q, r \in D : q # r => P[q] \cap P[r] = {}
    <3> SUFFICES ASSUME NEW q \in D, NEW r \in D, q # r PROVE P[q] \cap P[r] = {}
      OBVIOUS
    <3>1. P[q] \subseteq E[q] /\ P[r] \subseteq E[r] /\ E[q] \cap E[r] = {}
      BY <2>2
    <3> QED  BY <3>1
  <2>6. \A q \in D : s[q] = SumOf(P[q], B)
    BY <2>1
  <2>7. /\ \A q \in D : s[q] \in Nat
        /\ SumOf(UnionOf(D, P), B) = SumOf(D, s)
    BY <2>3, <2>4, <2>5, <2>6, SumOfSums
  <2> QED  BY <2>7 DEF P, s
<1>6. \A q \in D : g[q] = sum("DEBIT")[q] - sum("CREDIT")[q]
  <2> TAKE q \in D
  <2>1. /\ sum("DEBIT")[q] = SumOf(Sided(b, E[q], "DEBIT"), B)
        /\ sum("CREDIT")[q] = SumOf(Sided(b, E[q], "CREDIT"), B)
    OBVIOUS
  <2> HIDE DEF sum
  <2> QED  BY <1>2, <2>1
<1> DEFINE p == sum("DEBIT")  n == sum("CREDIT")
<1>7. /\ \A q \in D : p[q] \in Nat
      /\ \A q \in D : n[q] \in Nat
      /\ \A q \in D : g[q] = p[q] - n[q]
  <2> HIDE DEF sum
  <2> QED  BY <1>5, <1>6
<1>8. /\ SumOf(Sided(b, U, "DEBIT"), B) = SumOf(D, p)
      /\ SumOf(Sided(b, U, "CREDIT"), B) = SumOf(D, n)
  <2> HIDE DEF sum, Of
  <2> QED  BY <1>4, <1>5
<1> HIDE DEF p, n
<1>9. SignedSum(g) = SumOf(D, p) - SumOf(D, n)
  BY <1>7, SumOfDifference
<1> QED  BY <1>3, <1>8, <1>9 DEF U

(* Two disjoint sets of entries.                                            *)
LEMMA ImbalanceOfUnion ==
    ASSUME NEW b \in Seq(TransferRow), IsFiniteSet(Entries(b)),
           NEW E \in SUBSET Entries(b), NEW F \in SUBSET Entries(b),
           E \cap F = {}
    PROVE  /\ Imbalance(b, E) \in Int /\ Imbalance(b, F) \in Int
           /\ Imbalance(b, E \cup F) = Imbalance(b, E) + Imbalance(b, F)
<1> DEFINE B == BasesIn(b)
           U == E \cup F
<1>0. U \in SUBSET Entries(b)
  OBVIOUS
<1>1. \A d : Sided(b, U, d) = Sided(b, E, d) \cup Sided(b, F, d)
  BY DEF Sided
<1>2. \A d : Sided(b, E, d) \subseteq E /\ Sided(b, F, d) \subseteq F
  BY DEF Sided
<1> HIDE DEF B, U
<1>3. /\ \A e \in E : B[e] \in Nat
      /\ \A d : /\ IsFiniteSet(Sided(b, E, d))
                /\ SumOf(Sided(b, E, d), B) \in Nat
      /\ Imbalance(b, E) = SumOf(Sided(b, E, "DEBIT"), B)
                             - SumOf(Sided(b, E, "CREDIT"), B)
  BY ImbalanceOfSides DEF B
<1>4. /\ \A e \in F : B[e] \in Nat
      /\ \A d : /\ IsFiniteSet(Sided(b, F, d))
                /\ SumOf(Sided(b, F, d), B) \in Nat
      /\ Imbalance(b, F) = SumOf(Sided(b, F, "DEBIT"), B)
                             - SumOf(Sided(b, F, "CREDIT"), B)
  BY ImbalanceOfSides DEF B
<1>5. Imbalance(b, U) = SumOf(Sided(b, U, "DEBIT"), B)
                          - SumOf(Sided(b, U, "CREDIT"), B)
  BY <1>0, ImbalanceOfSides DEF B
<1>6. \A d : SumOf(Sided(b, U, d), B)
               = SumOf(Sided(b, E, d), B) + SumOf(Sided(b, F, d), B)
  <2> TAKE d
  <2> DEFINE S == Sided(b, E, d)  T == Sided(b, F, d)
  <2>1. IsFiniteSet(S) /\ IsFiniteSet(T) /\ S \cap T = {}
    BY <1>2, <1>3, <1>4
  <2>2. \A i \in S \cup T : B[i] \in Nat
    BY <1>2, <1>3, <1>4
  <2> HIDE DEF S, T
  <2>3. SumOf(S \cup T, B) = SumOf(S, B) + SumOf(T, B)
    BY <2>1, <2>2, SumOfUnion
  <2> QED  BY <1>1, <2>3 DEF S, T
<1>7. Imbalance(b, U) = Imbalance(b, E) + Imbalance(b, F)
  BY <1>3, <1>4, <1>5, <1>6
<1> QED  BY <1>3, <1>4, <1>7 DEF U

=============================================================================
