-------------------------- MODULE StatementProofs ----------------------------
(***************************************************************************)
(* Statements, for every fund, chart, book and number of periods: what the  *)
(* partners own is what the fund holds, a closed period's statement is      *)
(* final, and it is read whole whatever is posted meanwhile.                *)
(***************************************************************************)
EXTENDS Statements, BooksProofs

-----------------------------------------------------------------------------
(* The chart and the periods. *)

(* The accounts of a fund are all different and all its own, and its LPs     *)
(* can be given shares (open_fund_accounts).                                *)
LEMMA FundChart ==
    ASSUME NEW f \in Fund
    PROVE  /\ LPs(f) \in SUBSET Nat /\ IsFiniteSet(LPs(f))
           /\ Commitment[f] \in [LPs(f) -> Nat]
           /\ \A lp \in LPs(f) : Commitment[f][lp] # 0
           /\ \A lp, k \in LPs(f) : Chart[f].lp[lp] = Chart[f].lp[k] => lp = k
           /\ \A lp \in LPs(f) :
                Chart[f].lp[lp] \notin {Chart[f].cash, Chart[f].holding,
                                        Chart[f].fee, Chart[f].gain}
           /\ \A a \in Charted(f) : AccountFund[a] = f
           /\ Cardinality({Chart[f].cash, Chart[f].holding,
                           Chart[f].fee, Chart[f].gain}) = 4
<1> DEFINE c == Chart[f]
           Own == {c.cash, c.holding, c.fee, c.gain}
           OfLps == {c.lp[lp] : lp \in DOMAIN c.lp}
<1>1. /\ Own \cup OfLps \subseteq {a \in Account : AccountFund[a] = f}
      /\ Cardinality(Own) = 4
      /\ Own \cap OfLps = {}
      /\ IsFiniteSet(DOMAIN c.lp) /\ DOMAIN c.lp \subseteq Nat
      /\ Commitment[f] \in [DOMAIN c.lp -> Nat \ {0}]
      /\ \A lp, k \in DOMAIN c.lp : c.lp[lp] = c.lp[k] => lp = k
  BY OperationsAssumption, Zenon
<1>2. LPs(f) = DOMAIN c.lp
  BY <1>1 DEF LPs
<1>3. \A lp \in LPs(f) : c.lp[lp] \in OfLps
  BY <1>2
<1>4. Charted(f) = Own \cup OfLps
  BY <1>2 DEF Charted
<1>5. \A a \in Charted(f) : AccountFund[a] = f
  <2> HIDE DEF Own, OfLps
  <2> QED  BY <1>1, <1>4
<1>6. \A lp \in LPs(f) : c.lp[lp] \notin Own
  <2> HIDE DEF Own, OfLps
  <2> QED  BY <1>1, <1>3
<1>7. /\ Commitment[f] \in [LPs(f) -> Nat]
      /\ \A lp \in LPs(f) : Commitment[f][lp] # 0
  BY <1>1, <1>2
<1> QED  BY <1>1, <1>2, <1>5, <1>6, <1>7

(* Four accounts of one kind each are four accounts.                        *)
LEMMA FourAccounts ==
    ASSUME NEW w, NEW x, NEW y, NEW z, Cardinality({w, x, y, z}) = 4
    PROVE  w # x /\ w # y /\ w # z /\ x # y /\ x # z /\ y # z
<1>1. \A u, v, t : Cardinality({u, v, t}) # 4
  <2> TAKE u, v, t
  <2> DEFINE A == {u}  B == A \cup {v}  C == B \cup {t}
  <2>1. IsFiniteSet(A) /\ Cardinality(A) = 1
    BY FS_Singleton
  <2> HIDE DEF A
  <2>2. IsFiniteSet(B) /\ Cardinality(B) \in {1, 2}
    BY <2>1, FS_AddElement
  <2> HIDE DEF B
  <2>3. Cardinality(C) \in {1, 2, 3}
    BY <2>2, FS_AddElement
  <2>4. C = {u, v, t}
    BY DEF A, B
  <2> QED  BY <2>3, <2>4
<1>2. w = x => {w, x, y, z} = {w, y, z}
  OBVIOUS
<1>3. w = y => {w, x, y, z} = {w, x, z}
  OBVIOUS
<1>4. w = z => {w, x, y, z} = {w, x, y}
  OBVIOUS
<1>5. x = y => {w, x, y, z} = {w, x, z}
  OBVIOUS
<1>6. x = z => {w, x, y, z} = {w, x, y}
  OBVIOUS
<1>7. y = z => {w, x, y, z} = {w, x, y}
  OBVIOUS
<1> QED  BY <1>1, <1>2, <1>3, <1>4, <1>5, <1>6, <1>7

(* The LPs' parts of a gain or a fee are all of it (allocate).              *)
LEMMA PartsAddUp ==
    ASSUME NEW f \in Fund, LPs(f) # {}, NEW n \in Int
    PROVE  /\ \A lp \in LPs(f) : Part(f, lp, n) \in Int
           /\ SignedSum([lp \in LPs(f) |-> Part(f, lp, n)]) = n
<1> DEFINE D == LPs(f)
           w == Commitment[f]
           share == Allocate(n, w)
<1>1. /\ D \in SUBSET Nat /\ IsFiniteSet(D)
      /\ w \in [D -> Nat] /\ \A lp \in D : w[lp] # 0
  BY FundChart
<1>2. D # {} /\ DOMAIN w = D
  BY <1>1
<1> HIDE DEF D
<1>3. Allocatable(w)
  <2>1. SumOf(D, w) = 0 => \A k \in D : w[k] = 0
    <3>1. /\ SignedSum(w) = SumOf(D, w)
          /\ (SignedSum(w) = 0 => \A k \in D : w[k] = 0)
      BY <1>1, SumOfGains
    <3> QED  BY <3>1
  <2>2. SumOf(D, w) # 0
    BY <1>1, <1>2, <2>1
  <2> QED  BY <1>2, <2>2 DEF Allocatable, WeightSum
<1>4. share \in [D -> Int] /\ SignedSum(share) = n
  BY <1>1, <1>3, SharesOfTotal
<1>5. \A lp \in D : Part(f, lp, n) = share[lp]
  BY DEF Part
<1>6. share = [lp \in D |-> Part(f, lp, n)]
  BY <1>4, <1>5
<1> QED  BY <1>4, <1>5, <1>6 DEF D

(* A fund's periods up to one are finitely many; and whoever precedes one of *)
(* them is one of them.                                                     *)
LEMMA PeriodsBefore ==
    ASSUME NEW p \in Period
    PROVE  /\ p[1] \in Fund /\ p[2] \in Nat /\ p = <<p[1], p[2]>>
           /\ p \in PeriodsThrough(p)
           /\ IsFiniteSet(PeriodsThrough(p))
           /\ \A q \in PeriodsThrough(p) :
                /\ q \in Period /\ q[1] = p[1] /\ q[2] \in Nat
                /\ q = <<p[1], q[2]>>
                /\ PeriodsThrough(q) \subseteq PeriodsThrough(p)
<1>1. \A q \in Period : q[1] \in Fund /\ q[2] \in Nat /\ q = <<q[1], q[2]>>
  BY BooksAssumption
<1>2. p \in PeriodsThrough(p)
  BY <1>1 DEF PeriodsThrough
<1>3. IsFiniteSet(PeriodsThrough(p))
  <2> DEFINE f == p[1]  n == p[2]
  <2>0. n \in Int /\ 0 \in Int
    BY <1>1
  <2> HIDE DEF f, n
  <2>1. IsFiniteSet({f}) /\ IsFiniteSet(0..n)
    BY <2>0, FS_Singleton, FS_Interval
  <2>2. IsFiniteSet({f} \X (0..n))
    BY <2>1, FS_Product
  <2>3. PeriodsThrough(p) \subseteq {f} \X (0..n)
    <3> SUFFICES ASSUME NEW q \in PeriodsThrough(p)
                 PROVE  q \in {f} \X (0..n)
      OBVIOUS
    <3>1. q[1] = f /\ q[2] \in 0..n /\ q = <<q[1], q[2]>>
      BY <1>1 DEF PeriodsThrough, f, n
    <3> QED  BY <3>1
  <2> QED  BY <2>2, <2>3, FS_Subset
<1>4. ASSUME NEW q \in PeriodsThrough(p)
      PROVE  /\ q \in Period /\ q[1] = p[1] /\ q[2] \in Nat
             /\ q = <<p[1], q[2]>>
             /\ PeriodsThrough(q) \subseteq PeriodsThrough(p)
  <2>1. q \in Period /\ q[1] = p[1] /\ q[2] \in Nat /\ q[2] <= p[2]
        /\ q = <<p[1], q[2]>>
    BY <1>1, <1>4 DEF PeriodsThrough
  <2>2. PeriodsThrough(q) \subseteq PeriodsThrough(p)
    BY <1>1, <2>1 DEF PeriodsThrough
  <2> QED  BY <2>1, <2>2
<1> QED  BY <1>1, <1>2, <1>3, <1>4

-----------------------------------------------------------------------------
(* The book that statements are read from. *)

GoodBook(b) ==
    /\ b \in Seq(TransferRow)
    /\ IsFiniteSet(Entries(b))
    /\ \A i \in DOMAIN b :
          /\ Touched(b[i].legs) \subseteq Charted(b[i].period[1])
          /\ b[i].reverses = 0 \/ b[i].reverses \in DOMAIN b
    /\ \A p \in Period : PeriodImbalance(b, p) = 0

(* A book stays good: what is appended balances and stays in its fund, and  *)
(* what it reverses is there.                                               *)
LEMMA GoodAppend ==
    ASSUME NEW b, GoodBook(b), NEW r \in TransferRow, Balanced(r.legs),
           Touched(r.legs) \subseteq Charted(r.period[1]),
           r.reverses = 0 \/ r.reverses \in DOMAIN b
    PROVE  GoodBook(Append(b, r))
<1> DEFINE c == Append(b, r)
           n == Len(b) + 1
           J == DOMAIN r.legs
           Of(d, p) == {e \in Entries(d) : d[e[1]].period = p}
<1>1. /\ b \in Seq(TransferRow) /\ IsFiniteSet(Entries(b))
      /\ \A p \in Period : Imbalance(b, Of(b, p)) = 0
  BY DEF GoodBook, PeriodImbalance
<1>2. c \in Seq(TransferRow)
  BY <1>1
<1>3. IsFiniteSet(Entries(c))
  BY <1>1, FiniteAppend
<1>4. /\ DOMAIN c = DOMAIN b \cup {n}
      /\ c[n] = r /\ \A i \in DOMAIN b : c[i] = b[i]
  BY <1>1
<1>5. \A i \in DOMAIN c :
          /\ Touched(c[i].legs) \subseteq Charted(c[i].period[1])
          /\ c[i].reverses = 0 \/ c[i].reverses \in DOMAIN c
  BY <1>4 DEF GoodBook
<1>6. /\ Entries(c) = Entries(b) \cup ({n} \X J)
      /\ \A e \in Entries(b) : e[1] \in DOMAIN b
  BY <1>1, EntriesOfAppend DEF Entries
<1>7. ASSUME NEW p \in Period PROVE PeriodImbalance(c, p) = 0
  <2> DEFINE E == Of(b, p)
  <2>1. E \in SUBSET Entries(b) /\ Imbalance(b, E) = 0
    BY <1>1
  <2>2. \/ Of(c, p) = E
        \/ Of(c, p) = E \cup ({n} \X J)
    <3>1. \A e \in Entries(b) : c[e[1]].period = b[e[1]].period
      BY <1>4, <1>6
    <3>2. \A e \in {n} \X J : c[e[1]].period = r.period
      BY <1>4
    <3> QED  BY <1>6, <3>1, <3>2
  <2> HIDE DEF E
  <2>3. Imbalance(c, E) = 0 /\ Imbalance(c, E \cup ({n} \X J)) = 0
    BY <1>1, <2>1, ImbalanceOfAppend
  <2>4. Imbalance(c, Of(c, p)) = 0
    BY <2>2, <2>3
  <2> QED  BY <2>4 DEF PeriodImbalance
<1> QED  BY <1>2, <1>3, <1>5, <1>7 DEF GoodBook

(* The entries of an account in a period are entries.                       *)
LEMMA PostedAreEntries ==
    ASSUME NEW b, NEW a, NEW p
    PROVE  Posted(b, a, p) \in SUBSET Entries(b)
BY DEF Posted

(* A transfer of one period is not seen in another.                         *)
LEMMA OtherPeriodsUnchanged ==
    ASSUME NEW b, GoodBook(b), NEW r \in TransferRow,
           NEW q, q # r.period
    PROVE  LET c == Append(b, r) IN
           /\ \A a : Posted(c, a, q) = Posted(b, a, q)
           /\ \A E \in SUBSET Entries(b) : Imbalance(c, E) = Imbalance(b, E)
           /\ \A f, lp : Line(c, f, lp, q) = Line(b, f, lp, q)
<1> DEFINE c == Append(b, r)
           n == Len(b) + 1
<1>1. b \in Seq(TransferRow) /\ IsFiniteSet(Entries(b))
  BY DEF GoodBook
<1>2. /\ Entries(c) = Entries(b) \cup ({n} \X DOMAIN r.legs)
      /\ \A e \in Entries(b) : EntryOf(c, e) = EntryOf(b, e)
      /\ \A e \in Entries(b) : e[1] \in DOMAIN b
  BY <1>1, EntriesOfAppend DEF Entries
<1>3. /\ c[n] = r /\ \A i \in DOMAIN b : c[i] = b[i]
  BY <1>1
<1>4. \A i \in DOMAIN b : b[i].reverses = 0 \/ b[i].reverses \in DOMAIN b
  BY DEF GoodBook
<1> HIDE DEF c, n
<1>5. \A a : Posted(c, a, q) = Posted(b, a, q)
  <2> TAKE a
  <2>1. \A e \in {n} \X DOMAIN r.legs : PeriodOf(c, e[1]) # q
    BY <1>3 DEF PeriodOf
  <2>2. \A e \in Entries(b) : PeriodOf(c, e[1]) = PeriodOf(b, e[1])
    BY <1>2, <1>3 DEF PeriodOf
  <2> QED  BY <1>2, <2>1, <2>2 DEF Posted
<1>6. \A E \in SUBSET Entries(b) : Imbalance(c, E) = Imbalance(b, E)
  <2> TAKE E \in SUBSET Entries(b)
  <2>1. {} \in SUBSET DOMAIN r.legs
    OBVIOUS
  <2> QED  BY <1>1, <2>1, ImbalanceGrows DEF c
<1>7. \A e \in Entries(b) : EffectiveType(c, e[1]) = EffectiveType(b, e[1])
  BY <1>2, <1>3, <1>4 DEF EffectiveType
<1>8. \A f, lp, types : Gained(c, f, lp, q, types) = Gained(b, f, lp, q, types)
  <2> TAKE f, lp, types
  <2> DEFINE P == Posted(b, Chart[f].lp[lp], q)
             E == {e \in P : EffectiveType(b, e[1]) \in types}
  <2>1. P \in SUBSET Entries(b) /\ Posted(c, Chart[f].lp[lp], q) = P
    BY <1>5, PostedAreEntries
  <2>2. {e \in P : EffectiveType(c, e[1]) \in types} = E
    <3> HIDE DEF P
    <3> QED  BY <1>7, <2>1
  <2>3. Imbalance(c, E) = Imbalance(b, E)
    <3> HIDE DEF P
    <3> QED  BY <1>6, <2>1
  <2> HIDE DEF E
  <2>4. Gained(c, f, lp, q, types) = -Imbalance(c, E)
    BY <2>1, <2>2 DEF Gained
  <2>5. Gained(b, f, lp, q, types) = -Imbalance(b, E)
    BY DEF Gained, E
  <2> QED  BY <2>3, <2>4, <2>5
<1>9. \A f : Gains(c, f, q) = Gains(b, f, q) /\ Fees(c, f, q) = Fees(b, f, q)
  BY <1>5, <1>6, PostedAreEntries DEF Gains, Fees
<1>10. \A f, lp : LpLedgerMovement(c, f, lp, q) = LpLedgerMovement(b, f, lp, q)
  BY <1>8 DEF LpLedgerMovement
<1>11. \A f, lp : Line(c, f, lp, q) = Line(b, f, lp, q)
  BY <1>9, <1>10 DEF Line
<1> QED  BY <1>5, <1>6, <1>11 DEF c

-----------------------------------------------------------------------------
(* One period: what its transfers did to the LPs is what they did to the    *)
(* assets. *)

(* An LP's line, put together, is what its account gained, whatever kind of *)
(* transfer did it, and its parts of the fund's gain and fee.               *)
LEMMA NetOfLine ==
    ASSUME NEW b, GoodBook(b), NEW f \in Fund, NEW lp \in LPs(f), NEW p
    PROVE  LET gained == -Imbalance(b, Posted(b, Chart[f].lp[lp], p))
               line == Line(b, f, lp, p)
           IN  /\ gained \in Int /\ line.g \in Int /\ line.h \in Int
               /\ line.g = Gains(b, f, p) /\ line.h = Fees(b, f, p)
               /\ line.m.contributions \in Int
               /\ Net(f, lp, line)
                    = gained + Part(f, lp, line.g) - Part(f, lp, line.h)
               /\ Net(f, lp, line) \in Int
<1> DEFINE a == Chart[f].lp[lp]
           P == Posted(b, a, p)
           Of(types) == {e \in P : EffectiveType(b, e[1]) \in types}
           C == Of({"CAPITAL_CALL"})
           D == Of({"DISTRIBUTION"})
           R == Of(Rest)
           line == Line(b, f, lp, p)
<1>1. b \in Seq(TransferRow) /\ IsFiniteSet(Entries(b))
  BY DEF GoodBook
<1>2. P \in SUBSET Entries(b)
  BY PostedAreEntries
<1>3. \A e \in P : EffectiveType(b, e[1]) \in TransferType
  <2> TAKE e \in P
  <2>1. e[1] \in DOMAIN b
    <3>1. e \in Entries(b)
      BY <1>2
    <3>2. PICK i \in DOMAIN b : e \in {i} \X DOMAIN b[i].legs
      BY <3>1 DEF Entries
    <3> QED  BY <3>2
  <2>2. \A i \in DOMAIN b : b[i].type \in TransferType
    <3> TAKE i \in DOMAIN b
    <3>1. b[i] \in TransferRow
      BY <1>1
    <3> QED  BY <3>1 DEF TransferRow
  <2>3. b[e[1]].reverses = 0 \/ b[e[1]].reverses \in DOMAIN b
    BY <2>1 DEF GoodBook
  <2> QED  BY <2>1, <2>2, <2>3 DEF EffectiveType
<1> HIDE DEF P
<1>4. /\ C \in SUBSET Entries(b) /\ D \in SUBSET Entries(b)
      /\ R \in SUBSET Entries(b) /\ C \cup D \in SUBSET Entries(b)
      /\ C \cap D = {} /\ (C \cup D) \cap R = {}
      /\ P = (C \cup D) \cup R
  BY <1>2, <1>3 DEF Rest
<1>5. line.m = [contributions |-> -Imbalance(b, C),
                distributions |-> -(-Imbalance(b, D)),
                other |-> -Imbalance(b, R)]
  BY DEF Line, LpLedgerMovement, Gained, P
<1>6. line.g = Gains(b, f, p) /\ line.h = Fees(b, f, p)
  BY DEF Line
<1>7. line.g \in Int /\ line.h \in Int
  <2>1. \A x : Imbalance(b, Posted(b, x, p)) \in Int
    BY <1>1, PostedAreEntries, ImbalanceOfSides
  <2> QED  BY <1>6, <2>1 DEF Gains, Fees
<1> HIDE DEF C, D, R, line
<1>8. /\ Imbalance(b, C) \in Int /\ Imbalance(b, D) \in Int
      /\ Imbalance(b, C \cup D) = Imbalance(b, C) + Imbalance(b, D)
  BY <1>1, <1>4, ImbalanceOfUnion
<1>9. /\ Imbalance(b, R) \in Int
      /\ Imbalance(b, P) = Imbalance(b, C \cup D) + Imbalance(b, R)
  BY <1>1, <1>4, ImbalanceOfUnion
<1>10. Imbalance(b, P) \in Int
  BY <1>1, <1>2, ImbalanceOfSides
<1>11. Part(f, lp, line.g) \in Int /\ Part(f, lp, line.h) \in Int
  BY <1>7, PartsAddUp
<1> DEFINE x == Part(f, lp, line.g)  y == Part(f, lp, line.h)
<1>12. Net(f, lp, line) = line.m.contributions - line.m.distributions
                            + line.m.other + x - y
  BY DEF Net
<1> HIDE DEF x, y
<1>13. x \in Int /\ y \in Int
  BY <1>11 DEF x, y
<1>14. /\ line.m.contributions \in Int
       /\ Net(f, lp, line) = -Imbalance(b, P) + x - y
  BY <1>5, <1>8, <1>9, <1>12, <1>13
<1>15. Net(f, lp, line) \in Int
  BY <1>10, <1>13, <1>14
<1> QED  BY <1>6, <1>7, <1>10, <1>14, <1>15 DEF P, line, x, y

(* The entries on the assets of a fund in a period.                         *)
AssetEntries(b, f, q) ==
    Posted(b, Chart[f].cash, q) \cup Posted(b, Chart[f].holding, q)

(* Every entry of a period is on one account of the fund's chart.           *)
LEMMA EntriesOfPeriod ==
    ASSUME NEW b, GoodBook(b), NEW p \in Period
    PROVE  LET f == p[1]
               OfLp == [lp \in LPs(f) |-> Posted(b, Chart[f].lp[lp], p)]
               Costs == Posted(b, Chart[f].fee, p)
                        \cup Posted(b, Chart[f].gain, p)
               OfFund == AssetEntries(b, f, p) \cup Costs
               OfLps == UnionOf(LPs(f), OfLp)
           IN  /\ {e \in Entries(b) : b[e[1]].period = p} = OfFund \cup OfLps
               /\ AssetEntries(b, f, p) \cap Costs = {}
               /\ Posted(b, Chart[f].fee, p)
                    \cap Posted(b, Chart[f].gain, p) = {}
               /\ OfFund \cap OfLps = {}
               /\ \A k, lp \in LPs(f) : k # lp => OfLp[k] \cap OfLp[lp] = {}
<1> DEFINE f == p[1]
           c == Chart[f]
           OfLp == [lp \in LPs(f) |-> Posted(b, c.lp[lp], p)]
           Costs == Posted(b, c.fee, p) \cup Posted(b, c.gain, p)
           OfFund == AssetEntries(b, f, p) \cup Costs
           OfLps == UnionOf(LPs(f), OfLp)
           All == {e \in Entries(b) : b[e[1]].period = p}
           On(e) == EntryOf(b, e).account
<1>1. f \in Fund
  BY PeriodsBefore
<1>2. /\ \A lp \in LPs(f) : c.lp[lp] \notin {c.cash, c.holding, c.fee, c.gain}
      /\ \A lp, k \in LPs(f) : c.lp[lp] = c.lp[k] => lp = k
      /\ Cardinality({c.cash, c.holding, c.fee, c.gain}) = 4
  BY <1>1, FundChart
<1>3. /\ c.cash # c.holding /\ c.cash # c.fee /\ c.cash # c.gain
      /\ c.holding # c.fee /\ c.holding # c.gain /\ c.fee # c.gain
  <2> DEFINE w == c.cash  x == c.holding  y == c.fee  z == c.gain
  <2>1. Cardinality({w, x, y, z}) = 4
    BY <1>2
  <2> HIDE DEF w, x, y, z
  <2>2. w # x /\ w # y /\ w # z /\ x # y /\ x # z /\ y # z
    BY <2>1, FourAccounts, Zenon
  <2> QED  BY <2>2 DEF w, x, y, z
<1>4. \A x : \A e : e \in Posted(b, x, p) <=> e \in All /\ On(e) = x
  BY DEF Posted, PeriodOf
<1>5. \A e \in All : On(e) \in Charted(f)
  <2> TAKE e \in All
  <2>1. PICK i \in DOMAIN b : e \in {i} \X DOMAIN b[i].legs
    BY DEF Entries
  <2>2. e[1] = i /\ e[2] \in DOMAIN b[i].legs /\ b[i].period = p
    BY <2>1
  <2>3. On(e) \in Touched(b[i].legs)
    BY <2>2 DEF Touched, EntryOf
  <2>4. Touched(b[i].legs) \subseteq Charted(f)
    BY <2>2 DEF GoodBook
  <2> QED  BY <2>3, <2>4
<1>6. \A x : x \in Charted(f) <=> \/ x \in {c.cash, c.holding, c.fee, c.gain}
                                  \/ \E lp \in LPs(f) : x = c.lp[lp]
  BY DEF Charted
<1>7. \A e : e \in OfLps <=> \E lp \in LPs(f) : e \in Posted(b, c.lp[lp], p)
  BY DEF UnionOf
<1>8. \A e : e \in OfFund <=>
        e \in All /\ On(e) \in {c.cash, c.holding, c.fee, c.gain}
  BY <1>4 DEF AssetEntries
<1>9. AssetEntries(b, f, p) \cap Costs = {}
  BY <1>3, <1>4 DEF AssetEntries
<1>10. Posted(b, c.fee, p) \cap Posted(b, c.gain, p) = {}
  BY <1>3, <1>4
<1>11. \A k, lp \in LPs(f) : k # lp => OfLp[k] \cap OfLp[lp] = {}
  BY <1>2, <1>4
<1> HIDE DEF OfLps, OfFund, All, On, c
<1>12. All = OfFund \cup OfLps
  BY <1>4, <1>5, <1>6, <1>7, <1>8
<1>13. OfFund \cap OfLps = {}
  BY <1>2, <1>4, <1>7, <1>8
<1> QED  BY <1>9, <1>10, <1>11, <1>12, <1>13 DEF OfLps, OfFund, All, c

(* What a period's transfers made the LPs own, they left on the assets: the  *)
(* accounting equation of one period.                                       *)
LEMMA PeriodIsOwned ==
    ASSUME NEW b, GoodBook(b), NEW p \in Period, LPs(p[1]) # {}
    PROVE  SignedSum([lp \in LPs(p[1]) |-> Net(p[1], lp, Line(b, p[1], lp, p))])
             = Imbalance(b, AssetEntries(b, p[1], p))
<1> DEFINE f == p[1]
           L == LPs(f)
           OfLp == [lp \in L |-> Posted(b, Chart[f].lp[lp], p)]
           Fee == Posted(b, Chart[f].fee, p)
           Gain == Posted(b, Chart[f].gain, p)
           Costs == Fee \cup Gain
           Assets == AssetEntries(b, f, p)
           OfFund == Assets \cup Costs
           OfLps == UnionOf(L, OfLp)
           net == [lp \in L |-> Net(f, lp, Line(b, f, lp, p))]
           owed == [lp \in L |-> Imbalance(b, OfLp[lp])]
           fees == [lp \in L |-> Part(f, lp, Fees(b, f, p))]
           gains == [lp \in L |-> Part(f, lp, Gains(b, f, p))]
           both == [lp \in L |-> net[lp] + owed[lp]]
<1>1. /\ b \in Seq(TransferRow) /\ IsFiniteSet(Entries(b))
      /\ PeriodImbalance(b, p) = 0
  BY DEF GoodBook
<1>2. f \in Fund /\ IsFiniteSet(L) /\ L # {}
  BY PeriodsBefore, FundChart
<1>3. /\ {e \in Entries(b) : b[e[1]].period = p} = OfFund \cup OfLps
      /\ Assets \cap Costs = {} /\ Fee \cap Gain = {} /\ OfFund \cap OfLps = {}
      /\ \A k, lp \in L : k # lp => OfLp[k] \cap OfLp[lp] = {}
  BY EntriesOfPeriod
<1>4. /\ Fee \in SUBSET Entries(b) /\ Gain \in SUBSET Entries(b)
      /\ Assets \in SUBSET Entries(b)
      /\ \A lp \in L : OfLp[lp] \in SUBSET Entries(b)
  BY PostedAreEntries DEF AssetEntries
<1>5. /\ Costs \in SUBSET Entries(b) /\ OfFund \in SUBSET Entries(b)
      /\ OfLps \in SUBSET Entries(b)
  BY <1>4 DEF UnionOf
<1>6. Fees(b, f, p) = Imbalance(b, Fee) /\ Gains(b, f, p) = -Imbalance(b, Gain)
  BY DEF Fees, Gains
<1>7. \A lp \in L : /\ OfLp[lp] = Posted(b, Chart[f].lp[lp], p)
                    /\ owed[lp] = Imbalance(b, OfLp[lp])
                    /\ net[lp] = Net(f, lp, Line(b, f, lp, p))
                    /\ fees[lp] = Part(f, lp, Fees(b, f, p))
                    /\ gains[lp] = Part(f, lp, Gains(b, f, p))
                    /\ both[lp] = net[lp] + owed[lp]
  OBVIOUS
<1>8. /\ PeriodImbalance(b, p) = Imbalance(b, OfFund \cup OfLps)
  BY <1>3 DEF PeriodImbalance
<1> HIDE DEF f, L, OfLp, Fee, Gain, Assets
<1>9. /\ Imbalance(b, Fee) \in Int /\ Imbalance(b, Gain) \in Int
      /\ Imbalance(b, Costs) = Imbalance(b, Fee) + Imbalance(b, Gain)
  BY <1>1, <1>3, <1>4, ImbalanceOfUnion
<1> HIDE DEF Costs
<1>10. /\ Imbalance(b, Assets) \in Int
       /\ Imbalance(b, OfFund) = Imbalance(b, Assets) + Imbalance(b, Costs)
  BY <1>1, <1>3, <1>4, <1>5, ImbalanceOfUnion
<1> HIDE DEF OfFund, OfLps
<1>11. /\ Imbalance(b, OfLps) \in Int
       /\ Imbalance(b, OfFund \cup OfLps)
            = Imbalance(b, OfFund) + Imbalance(b, OfLps)
  BY <1>1, <1>3, <1>5, ImbalanceOfUnion
<1>12. /\ \A lp \in L : owed[lp] \in Int
       /\ Imbalance(b, OfLps) = SignedSum(owed)
  <2>1. \A lp \in L : owed[lp] \in Int
    BY <1>1, <1>4, <1>7, ImbalanceOfSides
  <2>2. owed \in [L -> Int]
    <3>1. owed = [lp \in L |-> owed[lp]]
      OBVIOUS
    <3> HIDE DEF owed
    <3> QED  BY <2>1, <3>1
  <2>3. \A lp \in L : owed[lp] = Imbalance(b, OfLp[lp])
    BY <1>7
  <2> HIDE DEF owed
  <2> QED  BY <1>1, <1>2, <1>3, <1>4, <2>1, <2>2, <2>3, ImbalanceOfParts
           DEF OfLps
<1>13. /\ \A lp \in L : fees[lp] \in Int
       /\ \A lp \in L : gains[lp] \in Int
       /\ SignedSum(fees) = Imbalance(b, Fee)
       /\ SignedSum(gains) = -Imbalance(b, Gain)
  <2> DEFINE x == Fees(b, f, p)  y == Gains(b, f, p)
  <2>1. x \in Int /\ y \in Int
    BY <1>6, <1>9
  <2> HIDE DEF x, y
  <2>2. /\ \A lp \in L : Part(f, lp, x) \in Int
        /\ SignedSum([lp \in L |-> Part(f, lp, x)]) = x
    BY <1>2, <2>1, PartsAddUp DEF L
  <2>3. /\ \A lp \in L : Part(f, lp, y) \in Int
        /\ SignedSum([lp \in L |-> Part(f, lp, y)]) = y
    BY <1>2, <2>1, PartsAddUp DEF L
  <2> QED  BY <1>6, <1>7, <2>2, <2>3 DEF x, y
<1>14. \A lp \in L : /\ net[lp] \in Int
                     /\ both[lp] \in Int
                     /\ gains[lp] = both[lp] + fees[lp]
  <2> TAKE lp \in L
  <2> DEFINE line == Line(b, f, lp, p)
  <2>1. /\ line.g = Gains(b, f, p) /\ line.h = Fees(b, f, p)
        /\ Net(f, lp, line) = -Imbalance(b, Posted(b, Chart[f].lp[lp], p))
                                + Part(f, lp, line.g) - Part(f, lp, line.h)
        /\ Net(f, lp, line) \in Int
    BY <1>2, NetOfLine DEF L
  <2> HIDE DEF line
  <2>2. net[lp] = -owed[lp] + gains[lp] - fees[lp] /\ net[lp] \in Int
    BY <1>7, <2>1 DEF line
  <2>3. /\ owed[lp] \in Int /\ gains[lp] \in Int /\ fees[lp] \in Int
        /\ both[lp] = net[lp] + owed[lp]
    BY <1>7, <1>12, <1>13
  <2> HIDE DEF net, owed, gains, fees, both
  <2> QED  BY <2>2, <2>3
<1>15. /\ net \in [L -> Int] /\ owed \in [L -> Int] /\ both \in [L -> Int]
       /\ fees \in [L -> Int] /\ gains \in [L -> Int]
  <2>1. /\ net = [lp \in L |-> net[lp]] /\ owed = [lp \in L |-> owed[lp]]
        /\ both = [lp \in L |-> both[lp]] /\ fees = [lp \in L |-> fees[lp]]
        /\ gains = [lp \in L |-> gains[lp]]
    OBVIOUS
  <2> HIDE DEF net, owed, both, fees, gains
  <2> QED  BY <1>12, <1>13, <1>14, <2>1
<1>16. \A lp \in L : both[lp] = net[lp] + owed[lp]
  BY <1>7
<1> HIDE DEF net, owed, both, fees, gains
<1>17. SignedSum(both) = SignedSum(net) + SignedSum(owed)
  BY <1>2, <1>15, <1>16, SumAdded
<1>18. SignedSum(gains) = SignedSum(both) + SignedSum(fees)
  <2>1. \A lp \in L : gains[lp] = both[lp] + fees[lp]
    BY <1>14
  <2> QED  BY <1>2, <1>15, <2>1, SumAdded
<1>19. SignedSum(net) \in Int /\ SignedSum(owed) \in Int
  BY <1>2, <1>15, SumIsInt
<1>20. SignedSum(net) = Imbalance(b, Assets)
  BY <1>1, <1>8, <1>9, <1>10, <1>11, <1>12, <1>13, <1>17, <1>18, <1>19
<1> QED  BY <1>20 DEF net, Assets, L, f

-----------------------------------------------------------------------------
(* All periods. *)

(* The amounts of a statement's periods.                                    *)
Nets(f, lp, p, lines) == [q \in PeriodsThrough(p) |-> Net(f, lp, lines[q])]
Paid(p, lines) == [q \in PeriodsThrough(p) |-> lines[q].m.contributions]

(* The totals of a statement are sums over its periods, the last included.  *)
LEMMA TotalsOfStatement ==
    ASSUME NEW f, NEW lp, NEW p \in Period, NEW lines
    PROVE  LET given == StatementOf(f, lp, p, lines) IN
           /\ Nets(f, lp, p, lines) \in [PeriodsThrough(p) -> Int]
                => given.closing = SignedSum(Nets(f, lp, p, lines))
           /\ Paid(p, lines) \in [PeriodsThrough(p) -> Int]
                => given.contributed = SignedSum(Paid(p, lines))
<1> DEFINE T == PeriodsThrough(p)
           S == T \ {p}
           given == StatementOf(f, lp, p, lines)
           net == Nets(f, lp, p, lines)
           netBefore == [q \in S |-> Net(f, lp, lines[q])]
           paid == Paid(p, lines)
           paidBefore == [q \in S |-> lines[q].m.contributions]
<1>1. p \in T /\ IsFiniteSet(T)
  BY PeriodsBefore
<1>2. /\ given.closing = SignedSum(netBefore) + Net(f, lp, lines[p])
      /\ given.contributed = SignedSum(paidBefore) + lines[p].m.contributions
  BY DEF StatementOf
<1>3. IsFiniteSet(S) /\ p \notin S /\ S \cup {p} = T
  BY <1>1, FS_Subset
<1>4. /\ \A q \in T : net[q] = Net(f, lp, lines[q])
      /\ \A q \in T : paid[q] = lines[q].m.contributions
  BY DEF Nets, Paid
<1>5. /\ \A q \in S : netBefore[q] = net[q]
      /\ \A q \in S : paidBefore[q] = paid[q]
      /\ net[p] = Net(f, lp, lines[p]) /\ paid[p] = lines[p].m.contributions
  BY <1>1, <1>4
<1>6. ASSUME net \in [T -> Int] PROVE given.closing = SignedSum(net)
  <2>1. net \in [S \cup {p} -> Int]
    BY <1>3, <1>6
  <2>2. \A q \in S : net[q] \in Int
    BY <1>6
  <2> HIDE DEF net, S, T
  <2>3. netBefore \in [S -> Int]
    <3>1. netBefore = [q \in S |-> netBefore[q]]
      OBVIOUS
    <3> HIDE DEF netBefore
    <3> QED  BY <1>5, <2>2, <3>1
  <2>4. (\A q \in S : netBefore[q] = net[q]) /\ IsFiniteSet(S) /\ p \notin S
    BY <1>3, <1>5
  <2> HIDE DEF netBefore, given
  <2>5. SignedSum(net) = SignedSum(netBefore) + net[p]
    BY <2>1, <2>3, <2>4, SignedWithOneMore
  <2> QED  BY <1>2, <1>5, <2>5
<1>7. ASSUME paid \in [T -> Int] PROVE given.contributed = SignedSum(paid)
  <2>1. paid \in [S \cup {p} -> Int]
    BY <1>3, <1>7
  <2>2. \A q \in S : paid[q] \in Int
    BY <1>7
  <2> HIDE DEF paid, S, T
  <2>3. paidBefore \in [S -> Int]
    <3>1. paidBefore = [q \in S |-> paidBefore[q]]
      OBVIOUS
    <3> HIDE DEF paidBefore
    <3> QED  BY <1>5, <2>2, <3>1
  <2>4. (\A q \in S : paidBefore[q] = paid[q]) /\ IsFiniteSet(S) /\ p \notin S
    BY <1>3, <1>5
  <2> HIDE DEF paidBefore, given
  <2>5. SignedSum(paid) = SignedSum(paidBefore) + paid[p]
    BY <2>1, <2>3, <2>4, SignedWithOneMore
  <2> QED  BY <1>2, <1>5, <2>5
<1> QED  BY <1>6, <1>7

(* The net asset value is the sum, over the periods, of what each left on    *)
(* the assets (nav).                                                        *)
LEMMA NavOfPeriods ==
    ASSUME NEW b, GoodBook(b), NEW p \in Period
    PROVE  LET change == [q \in PeriodsThrough(p) |->
                            Imbalance(b, AssetEntries(b, p[1], q))]
           IN  /\ change \in [PeriodsThrough(p) -> Int]
               /\ Nav(b, p[1], p) = SignedSum(change)
<1> DEFINE f == p[1]
           T == PeriodsThrough(p)
           E == [q \in T |-> AssetEntries(b, f, q)]
           change == [q \in T |-> Imbalance(b, AssetEntries(b, f, q))]
<1>1. b \in Seq(TransferRow) /\ IsFiniteSet(Entries(b))
  BY DEF GoodBook
<1>2. IsFiniteSet(T)
  BY PeriodsBefore
<1>3. /\ \A q \in T : E[q] = AssetEntries(b, f, q)
      /\ \A q \in T : change[q] = Imbalance(b, E[q])
      /\ \A q \in T : E[q] \in SUBSET Entries(b)
  BY PostedAreEntries DEF AssetEntries
<1>4. \A q, r \in T : q # r => E[q] \cap E[r] = {}
  BY DEF AssetEntries, Posted
<1>5. UNION {Posted(b, a, q) : a \in {Chart[f].cash, Chart[f].holding}, q \in T}
        = UnionOf(T, E)
  BY DEF UnionOf, AssetEntries
<1>6. Nav(b, f, p) = Imbalance(b, UnionOf(T, E))
  BY <1>5 DEF Nav
<1> HIDE DEF T, E, f
<1>7. \A q \in T : change[q] \in Int
  BY <1>1, <1>3, ImbalanceOfSides
<1>8. change \in [T -> Int]
  <2>1. change = [q \in T |-> change[q]]
    OBVIOUS
  <2> HIDE DEF change
  <2> QED  BY <1>7, <2>1
<1>9. \A q \in T : change[q] = Imbalance(b, E[q])
  BY <1>3
<1> HIDE DEF change
<1>10. Imbalance(b, UnionOf(T, E)) = SignedSum(change)
  BY <1>1, <1>2, <1>3, <1>4, <1>8, <1>9, ImbalanceOfParts
<1> QED  BY <1>6, <1>8, <1>10 DEF change, T, f

(* The accounting equation: adding up the LPs' closing balances, over the    *)
(* periods and over the LPs, adds up the periods' changes of the assets.    *)
LEMMA ClosingsAreNav ==
    ASSUME NEW b, GoodBook(b), NEW p \in Period, LPs(p[1]) # {}
    PROVE  SignedSum([lp \in LPs(p[1]) |-> Statement(b, p[1], lp, p).closing])
             = Nav(b, p[1], p)
<1> DEFINE f == p[1]
           L == LPs(f)
           T == PeriodsThrough(p)
           net == [x \in L \X T |-> Net(f, x[1], Line(b, f, x[1], x[2]))]
           closing == [lp \in L |-> Statement(b, f, lp, p).closing]
           change == [q \in T |-> Imbalance(b, AssetEntries(b, f, q))]
<1>1. f \in Fund /\ IsFiniteSet(L) /\ IsFiniteSet(T)
  BY PeriodsBefore, FundChart
<1>2. \A lp \in L : \A q \in T :
         /\ net[<<lp, q>>] = Net(f, lp, Line(b, f, lp, q))
         /\ net[<<lp, q>>] \in Int
         /\ Line(b, f, lp, q).m.contributions \in Int
  <2> TAKE lp \in L
  <2> TAKE q \in T
  <2>1. /\ Net(f, lp, Line(b, f, lp, q)) \in Int
        /\ Line(b, f, lp, q).m.contributions \in Int
    BY <1>1, NetOfLine
  <2>2. net[<<lp, q>>] = Net(f, lp, Line(b, f, lp, q))
    OBVIOUS
  <2> QED  BY <2>1, <2>2
<1>3. change \in [T -> Int] /\ Nav(b, f, p) = SignedSum(change)
  BY NavOfPeriods
<1>4. \A lp \in L : closing[lp] = SignedSum(Across(net, T, lp))
  <2> TAKE lp \in L
  <2> DEFINE lines == [q \in T |-> Line(b, f, lp, q)]
  <2>1. \A q \in T : lines[q] = Line(b, f, lp, q)
    OBVIOUS
  <2>2. closing[lp] = StatementOf(f, lp, p, lines).closing
    BY DEF Statement
  <2> HIDE DEF lines
  <2>3. Nets(f, lp, p, lines) = Across(net, T, lp)
    BY <1>2, <2>1 DEF Across, Nets
  <2>4. Across(net, T, lp) \in [T -> Int]
    BY <1>2 DEF Across
  <2>5. StatementOf(f, lp, p, lines).closing = SignedSum(Nets(f, lp, p, lines))
    <3>1. Nets(f, lp, p, lines) \in [PeriodsThrough(p) -> Int]
      BY <2>3, <2>4
    <3> HIDE DEF f
    <3> QED  BY <3>1, TotalsOfStatement
  <2> QED  BY <2>2, <2>3, <2>5
<1>5. \A q \in T : change[q] = SignedSum(Down(net, L, q))
  <2> TAKE q \in T
  <2>1. q \in Period /\ q[1] = f
    BY PeriodsBefore
  <2>2. SignedSum([lp \in L |-> Net(f, lp, Line(b, f, lp, q))])
          = Imbalance(b, AssetEntries(b, f, q))
    BY <2>1, PeriodIsOwned
  <2>3. [lp \in L |-> Net(f, lp, Line(b, f, lp, q))] = Down(net, L, q)
    BY <1>2 DEF Down
  <2> QED  BY <2>2, <2>3
<1>6. \A lp \in L : \A q \in T : net[<<lp, q>>] \in Int
  BY <1>2
<1>7. closing \in [L -> Int]
  <2>1. \A lp \in L : closing[lp] \in Int
    <3> TAKE lp \in L
    <3>1. Across(net, T, lp) \in [T -> Int]
      BY <1>6 DEF Across
    <3>2. SignedSum(Across(net, T, lp)) \in Int
      BY <1>1, <3>1, SumIsInt
    <3> QED  BY <1>4, <3>2
  <2>2. closing = [lp \in L |-> closing[lp]]
    OBVIOUS
  <2> HIDE DEF closing
  <2> QED  BY <2>1, <2>2
<1> HIDE DEF f, L, T, net, closing, change
<1>8. SignedSum(closing) = SignedSum(change)
  <2>1. SignedTable(L, T, net, closing, change)
    BY <1>1, <1>3, <1>4, <1>5, <1>6, <1>7 DEF SignedTable
  <2> QED  BY <2>1, SignedRowsOrColumns
<1> QED  BY <1>3, <1>8 DEF closing, L, f

(* What an LP's statement for the fund's last period says it has paid in is  *)
(* what the next capital call finds on its account.                         *)
LEMMA PaidInIsFound ==
    ASSUME NEW b, GoodBook(b), NEW p \in Period, NEW lp \in LPs(p[1]),
           \A q \in Period : q[1] = p[1] => q[2] <= p[2]
    PROVE  Statement(b, p[1], lp, p).contributed = Contributed(b, p[1], lp)
<1> DEFINE f == p[1]
           T == PeriodsThrough(p)
           a == Chart[f].lp[lp]
           Calls(q) == {e \in Posted(b, a, q) :
                          EffectiveType(b, e[1]) \in {"CAPITAL_CALL"}}
           E == [q \in T |-> Calls(q)]
           taken == [q \in T |-> Imbalance(b, E[q])]
           paid == [q \in T |-> (-1) * taken[q]]
           lines == [q \in T |-> Line(b, f, lp, q)]
           All == {e \in Entries(b) : /\ EntryOf(b, e).account = a
                                      /\ EffectiveType(b, e[1]) = "CAPITAL_CALL"}
<1>1. /\ b \in Seq(TransferRow) /\ IsFiniteSet(Entries(b))
      /\ f \in Fund /\ IsFiniteSet(T)
  BY PeriodsBefore DEF GoodBook
<1>2. /\ \A q \in T : E[q] = Calls(q)
      /\ \A q \in T : E[q] \in SUBSET Entries(b)
      /\ \A q, r \in T : q # r => E[q] \cap E[r] = {}
  BY DEF Posted
<1>3. All \subseteq UnionOf(T, E)
  <2> SUFFICES ASSUME NEW e \in Entries(b), EntryOf(b, e).account = a,
                      EffectiveType(b, e[1]) = "CAPITAL_CALL"
               PROVE  \E q \in T : e \in Calls(q)
    BY <1>2 DEF UnionOf
  <2>1. PICK i \in DOMAIN b : e \in {i} \X DOMAIN b[i].legs
    BY DEF Entries
  <2>2. e[1] = i /\ e[2] \in DOMAIN b[i].legs
    BY <2>1
  <2> DEFINE q == b[i].period
  <2>3. q \in Period
    <3>1. b[i] \in TransferRow
      BY <1>1
    <3> QED  BY <3>1 DEF TransferRow
  <2>4. a \in Touched(b[i].legs)
    BY <2>2 DEF Touched, EntryOf
  <2>5. a \in Charted(q[1])
    BY <2>4 DEF GoodBook
  <2>6. a \in Charted(f)
    BY DEF Charted
  <2>7. q[1] = f
    <3>1. q[1] \in Fund
      BY <2>3, PeriodsBefore
    <3>2. AccountFund[a] = q[1]
      BY <2>5, <3>1, FundChart
    <3>3. AccountFund[a] = f
      BY <1>1, <2>6, FundChart
    <3> QED  BY <3>2, <3>3
  <2>8. q \in T
    BY <2>3, <2>7 DEF PeriodsThrough
  <2>9. e \in Calls(q)
    BY <2>2 DEF Posted, PeriodOf
  <2> QED  BY <2>8, <2>9
<1>4. UnionOf(T, E) \subseteq All
  BY <1>2 DEF UnionOf, Posted
<1>5. Contributed(b, f, lp) = -Imbalance(b, UnionOf(T, E))
  <2>1. Contributed(b, f, lp) = -Imbalance(b, All)
    BY DEF Contributed
  <2>2. All = UnionOf(T, E)
    <3> HIDE DEF All, E
    <3> QED  BY <1>3, <1>4
  <2> QED  BY <2>1, <2>2
<1>6. \A q \in T : /\ lines[q] = Line(b, f, lp, q)
                   /\ lines[q].m.contributions = -Imbalance(b, E[q])
  BY <1>2 DEF Line, LpLedgerMovement, Gained
<1>8. /\ Statement(b, f, lp, p).contributed
           = StatementOf(f, lp, p, lines).contributed
  BY DEF Statement
<1> HIDE DEF T, E, f, lines, Calls
<1>9. \A q \in T : taken[q] \in Int /\ taken[q] = Imbalance(b, E[q])
  BY <1>1, <1>2, ImbalanceOfSides
<1>10. taken \in [T -> Int]
  <2>1. taken = [q \in T |-> taken[q]]
    OBVIOUS
  <2> HIDE DEF taken
  <2> QED  BY <1>9, <2>1
<1> HIDE DEF taken
<1>11. Imbalance(b, UnionOf(T, E)) = SignedSum(taken)
  BY <1>1, <1>2, <1>9, <1>10, ImbalanceOfParts
<1>12. /\ SignedSum(taken) \in Int
       /\ SignedSum(paid) = (-1) * SignedSum(taken)
  <2>1. -1 \in Int
    OBVIOUS
  <2> QED  BY <1>1, <1>10, <2>1, SumScaled, Zenon
<1>13. Paid(p, lines) = paid /\ paid \in [T -> Int]
  <2>1. \A q \in T : /\ lines[q].m.contributions = (-1) * taken[q]
                     /\ (-1) * taken[q] \in Int
    BY <1>6, <1>9
  <2> QED  BY <2>1 DEF Paid, T
<1>14. StatementOf(f, lp, p, lines).contributed = SignedSum(Paid(p, lines))
  BY <1>13, TotalsOfStatement DEF T
<1>15. Statement(b, f, lp, p).contributed = (-1) * SignedSum(taken)
  BY <1>8, <1>12, <1>13, <1>14
<1>16. Contributed(b, f, lp) = -SignedSum(taken)
  BY <1>5, <1>11
<1> QED  BY <1>12, <1>15, <1>16 DEF f

-----------------------------------------------------------------------------
(* The ledger goes on. *)

(* What is said of the book and its periods, whoever reads.                 *)
BookInv ==
    /\ GoodBook(book)
    /\ status \in [Period -> {"OPEN", "CLOSED"}]
    /\ \A p, q \in Period :
          p[1] = q[1] /\ q[2] < p[2] /\ status[p] = "CLOSED"
            => status[q] = "CLOSED"

(* It is so of the empty book.                                              *)
LEMMA BookInit == Init => BookInv
<1> SUFFICES ASSUME Init PROVE BookInv
  OBVIOUS
<1>1. book = <<>> /\ status = [p \in Period |-> "OPEN"]
  BY DEF Init
<1>2. /\ Entries(<<>>) = {}
      /\ IsFiniteSet(Entries(<<>>))
      /\ <<>> \in Seq(TransferRow)
      /\ \A i \in DOMAIN <<>> : FALSE
  BY EmptyBook DEF Entries
<1>3. Imbalance(<<>>, {}) = 0
  <2>1. {} \in SUBSET Entries(<<>>)
    OBVIOUS
  <2>2. Imbalance(<<>>, {}) = SumOf(Sided(<<>>, {}, "DEBIT"), BasesIn(<<>>))
                                - SumOf(Sided(<<>>, {}, "CREDIT"), BasesIn(<<>>))
    BY <1>2, <2>1, ImbalanceOfSides
  <2>3. \A d : Sided(<<>>, {}, d) = {}
    BY DEF Sided
  <2> DEFINE B == BasesIn(<<>>)
  <2>4. SumOf({}, B) = 0
    BY EmptySum
  <2>5. Imbalance(<<>>, {}) = SumOf({}, B) - SumOf({}, B)
    BY <2>2, <2>3, Zenon
  <2> HIDE DEF B
  <2> QED  BY <2>4, <2>5
<1>4. \A p \in Period : PeriodImbalance(<<>>, p) = 0
  <2> TAKE p \in Period
  <2>1. {e \in Entries(<<>>) : <<>>[e[1]].period = p} = {}
    BY <1>2
  <2> QED  BY <1>3, <2>1 DEF PeriodImbalance
<1>5. GoodBook(book)
  BY <1>1, <1>2, <1>4, Zenon DEF GoodBook
<1>6. status \in [Period -> {"OPEN", "CLOSED"}]
  BY <1>1
<1>7. \A p \in Period : status[p] # "CLOSED"
  BY <1>1
<1> QED  BY <1>5, <1>6, <1>7 DEF BookInv

(* And it stays so: what reverse_transfer reverses is in the book, and a     *)
(* period closes after those before it.                                     *)
LEMMA BookStep == BookInv /\ [Next]_vars => BookInv'
<1> SUFFICES ASSUME BookInv, [Next]_vars PROVE BookInv'
  OBVIOUS
<1>1. ASSUME NEW r \in Row, Post(r) PROVE BookInv'
  <2>1. /\ Balanced(r.legs)
        /\ r.type = "REVERSAL" => r.reverses \in DOMAIN book
        /\ book' = Append(book, r) /\ status' = status
    BY <1>1 DEF Post, Acceptable, Cancels
  <2>2. /\ r \in TransferRow
        /\ r.type # "REVERSAL" => r.reverses = 0
        /\ Touched(r.legs) \subseteq Charted(r.period[1])
    BY StatementAssumption
  <2>3. GoodBook(Append(book, r))
    BY <2>1, <2>2, GoodAppend DEF BookInv
  <2> QED  BY <2>1, <2>3 DEF BookInv
<1>2. ASSUME NEW p \in Period, Close(p) PROVE BookInv'
  <2>1. /\ \A q \in Period : q[1] = p[1] /\ q[2] < p[2] => status[q] = "CLOSED"
        /\ status' = [status EXCEPT ![p] = "CLOSED"]
        /\ book' = book
    BY <1>2 DEF Close
  <2>2. status \in [Period -> {"OPEN", "CLOSED"}]
    BY DEF BookInv
  <2>3. /\ status' \in [Period -> {"OPEN", "CLOSED"}]
        /\ \A q \in Period :
              status'[q] = IF q = p THEN "CLOSED" ELSE status[q]
    BY <2>1, <2>2
  <2>4. ASSUME NEW o \in Period, NEW q \in Period,
               o[1] = q[1], q[2] < o[2], status'[o] = "CLOSED"
        PROVE  status'[q] = "CLOSED"
    <3>1. CASE o = p
      BY <2>1, <2>3, <2>4, <3>1
    <3>2. CASE o # p
      BY <2>3, <2>4, <3>2 DEF BookInv
    <3> QED  BY <3>1, <3>2
  <2>5. GoodBook(book')
    BY <2>1 DEF BookInv
  <2> QED  BY <2>3, <2>4, <2>5 DEF BookInv
<1>3. CASE UNCHANGED vars
  BY <1>3 DEF vars, BookInv
<1> QED  BY <1>1, <1>2, <1>3 DEF Next

(* Reading and valuing leave the ledger alone.                              *)
LEMMA LedgerGoesOn ==
    [Grow \/ Reads \/ Snapshots]_statementVars => [Next]_vars
BY DEF Grow, Reads, Snapshots, Begin, ReadMovement, ReadGains, ReadFees, Asks,
       Send, Compute, Store, statementVars, vars

(* A book is always fit to be read.                                         *)
LEMMA BookAlways == StatementSpec => []BookInv
<1>1. StatementInit => BookInv
  BY BookInit DEF StatementInit
<1>2. BookInv /\ [Grow \/ Reads \/ Snapshots]_statementVars => BookInv'
  BY BookStep, LedgerGoesOn
<1> QED  BY <1>1, <1>2, PTL DEF StatementSpec

(* A closed period stays closed, as do those before it, and nothing that is  *)
(* read of it changes.                                                      *)
LEMMA ClosedPeriodStays ==
    ASSUME BookInv, [Next]_vars, NEW p \in Period, status[p] = "CLOSED"
    PROVE  /\ \A q \in PeriodsThrough(p) : q \in Period /\ status[q] = "CLOSED"
           /\ status'[p] = "CLOSED"
           /\ \A f, lp : Line(book', f, lp, p) = Line(book, f, lp, p)
           /\ \A f : Imbalance(book', AssetEntries(book', f, p))
                       = Imbalance(book, AssetEntries(book, f, p))
<1>1. \A q \in PeriodsThrough(p) : q \in Period /\ status[q] = "CLOSED"
  <2> TAKE q \in PeriodsThrough(p)
  <2>1. q \in Period /\ q[1] = p[1] /\ q[2] <= p[2]
    BY DEF PeriodsThrough
  <2>2. /\ q[2] \in Nat /\ p[2] \in Nat
        /\ q = <<q[1], q[2]>> /\ p = <<p[1], p[2]>>
    BY <2>1, PeriodsBefore
  <2>3. CASE q[2] = p[2]
    BY <2>1, <2>2, <2>3
  <2>4. CASE q[2] < p[2]
    BY <2>1, <2>4 DEF BookInv
  <2> QED  BY <2>1, <2>2, <2>3, <2>4
<1>2. ASSUME NEW r \in Row, Post(r)
      PROVE  /\ status'[p] = "CLOSED"
             /\ \A f, lp : Line(book', f, lp, p) = Line(book, f, lp, p)
             /\ \A f : Imbalance(book', AssetEntries(book', f, p))
                         = Imbalance(book, AssetEntries(book, f, p))
  <2>1. /\ book' = Append(book, r) /\ status' = status
        /\ p # r.period /\ r \in TransferRow /\ GoodBook(book)
    BY <1>2, StatementAssumption DEF Post, Acceptable, BookInv
  <2>2. /\ \A a : Posted(book', a, p) = Posted(book, a, p)
        /\ \A E \in SUBSET Entries(book) :
              Imbalance(book', E) = Imbalance(book, E)
        /\ \A f, lp : Line(book', f, lp, p) = Line(book, f, lp, p)
    BY <2>1, OtherPeriodsUnchanged
  <2>3. \A f : /\ AssetEntries(book', f, p) = AssetEntries(book, f, p)
               /\ AssetEntries(book, f, p) \in SUBSET Entries(book)
    BY <2>2, PostedAreEntries DEF AssetEntries
  <2> QED  BY <2>1, <2>2, <2>3
<1>3. ASSUME NEW o \in Period, Close(o)
      PROVE  book' = book /\ status'[p] = "CLOSED"
  BY <1>3 DEF Close, BookInv
<1>4. CASE UNCHANGED vars
  BY <1>1, <1>4 DEF vars
<1> QED  BY <1>1, <1>2, <1>3, <1>4 DEF Next

(* So a closed period keeps its statements and its net asset value.         *)
LEMMA ClosedPeriodIsFinal ==
    ASSUME BookInv, BookInv', [Next]_vars,
           NEW p \in Period, status[p] = "CLOSED"
    PROVE  /\ \A lp : Statement(book', p[1], lp, p)
                         = Statement(book, p[1], lp, p)
           /\ Nav(book', p[1], p) = Nav(book, p[1], p)
<1> DEFINE f == p[1]
           T == PeriodsThrough(p)
<1>1. \A q \in T : q \in Period /\ status[q] = "CLOSED"
  BY ClosedPeriodStays
<1>2. \A q \in T : \A lp : Line(book', f, lp, q) = Line(book, f, lp, q)
  BY <1>1, ClosedPeriodStays
<1>3. \A q \in T : Imbalance(book', AssetEntries(book', f, q))
                     = Imbalance(book, AssetEntries(book, f, q))
  BY <1>1, ClosedPeriodStays
<1>4. \A lp : [q \in T |-> Line(book', f, lp, q)]
                = [q \in T |-> Line(book, f, lp, q)]
  BY <1>2
<1>5. \A lp : Statement(book', f, lp, p) = Statement(book, f, lp, p)
  BY <1>4 DEF Statement
<1>6. [q \in T |-> Imbalance(book', AssetEntries(book', f, q))]
        = [q \in T |-> Imbalance(book, AssetEntries(book, f, q))]
  BY <1>3
<1>7. GoodBook(book) /\ GoodBook(book')
  BY DEF BookInv
<1>8. Nav(book, f, p)
        = SignedSum([q \in T |-> Imbalance(book, AssetEntries(book, f, q))])
  BY <1>7, NavOfPeriods
<1>9. Nav(book', f, p)
        = SignedSum([q \in T |-> Imbalance(book', AssetEntries(book', f, q))])
  BY <1>7, NavOfPeriods
<1> QED  BY <1>5, <1>6, <1>8, <1>9

-----------------------------------------------------------------------------
(* What statements promise. *)

(* The accounting equation, "Sum of LP capital = NAV": for every fund, chart,*)
(* number of LPs and of periods, and after any transfers and reversals, the *)
(* LPs' closing balances add up to the cash and the holdings, to the last   *)
(* unit (lp_statement against nav).                                         *)
THEOREM PartnersOwnTheFund == StatementSpec => []PartnersCapitalIsNav
<1>1. BookInv => PartnersCapitalIsNav
  BY ClosingsAreNav DEF BookInv, PartnersCapitalIsNav
<1> QED  BY <1>1, BookAlways, PTL

(* The statement of the fund's last period says an LP has contributed what   *)
(* the next call takes to be contributed (lp_statement,                     *)
(* contributed_by_account).                                                 *)
THEOREM StatementsAgreeWithCalls == StatementSpec => []ToDateIsWhatCallsFind
<1>1. BookInv => ToDateIsWhatCallsFind
  BY PaidInIsFound DEF BookInv, ToDateIsWhatCallsFind
<1> QED  BY <1>1, BookAlways, PTL

(* Whatever is posted after a period has closed, its statements stay as they *)
(* are (close_period, lp_statement).                                        *)
THEOREM ClosedStatementsStay == StatementSpec => ClosedStatementIsFinal
<1>1. BookInv /\ BookInv' /\ [Grow \/ Reads \/ Snapshots]_statementVars
        => [book' # book /\ NoSnapshots =>
              \A p \in Period : \A lp \in LPs(p[1]) :
                 status[p] = "CLOSED" =>
                    Statement(book', p[1], lp, p)
                        = Statement(book, p[1], lp, p)]_vars
  BY ClosedPeriodIsFinal, LedgerGoesOn
<1> QED  BY <1>1, BookAlways, PTL DEF StatementSpec, ClosedStatementIsFinal

-----------------------------------------------------------------------------
(* Reading, query by query. *)

(* The first of some periods of one fund.                                   *)
LEMMA FirstOfPeriods ==
    ASSUME NEW p \in Period, NEW S \in SUBSET PeriodsThrough(p), S # {}
    PROVE  First(S) \in S /\ \A r \in S : First(S)[2] <= r[2]
<1> DEFINE N == {q[2] : q \in S}
<1>1. \A q \in S : q[2] \in Nat
  BY PeriodsBefore
<1>2. N \in SUBSET Nat /\ N # {}
  BY <1>1
<1>3. PICK n \in N : \A m \in N : n <= m
  BY <1>2, SmallestId
<1>4. \E q \in S : \A r \in S : q[2] <= r[2]
  <2>1. PICK q \in S : q[2] = n
    BY <1>3
  <2>2. \A r \in S : q[2] <= r[2]
    BY <1>3, <2>1
  <2> QED  BY <2>2
<1> QED  BY <1>4 DEF First

(* The periods that have been read.                                         *)
Passed(q) == reading.at = None \/ q[2] < reading.at[2]

(* A closed period was read as it is.                                       *)
AsItIs(q) ==
    LET now == Line(book, reading.fund, reading.lp, q)
        was == reading.lines[q]
    IN  /\ Passed(q) => was = now
        /\ q = reading.at =>
              /\ reading.query # "movement" => was.m = now.m
              /\ reading.query = "fees" => was.g = now.g

(* The statement being put together.                                        *)
Shape ==
    /\ reading = [fund |-> reading.fund, lp |-> reading.lp,
                  period |-> reading.period, closed |-> reading.closed,
                  at |-> reading.at, query |-> reading.query,
                  lines |-> reading.lines]
    /\ reading.period \in Period
    /\ reading.fund = reading.period[1]
    /\ reading.at = None \/ reading.at \in PeriodsThrough(reading.period)
    /\ reading.lines = [q \in PeriodsThrough(reading.period) |->
                          [m |-> reading.lines[q].m, g |-> reading.lines[q].g,
                           h |-> reading.lines[q].h]]

ReadingInv ==
    reading # None =>
        /\ Shape
        /\ \A q \in reading.closed :
              /\ q \in Period /\ status[q] = "CLOSED"
              /\ PeriodsThrough(q) \subseteq reading.closed
        /\ \A q \in reading.closed \cap PeriodsThrough(reading.period) :
              AsItIs(q)

(* Whatever is posted meanwhile is posted in other periods than those that   *)
(* were closed when the reading began.                                      *)
LEMMA ReadingGoesOn ==
    ASSUME BookInv, ReadingInv, [Next]_vars, UNCHANGED reading
    PROVE  ReadingInv'
<1> SUFFICES ASSUME reading # None PROVE ReadingInv'
  BY DEF ReadingInv
<1>1. Shape'
  BY DEF ReadingInv, Shape
<1>2. \A q \in reading.closed :
         /\ q \in Period /\ status[q] = "CLOSED" /\ status'[q] = "CLOSED"
         /\ PeriodsThrough(q) \subseteq reading.closed
         /\ \A f, lp : Line(book', f, lp, q) = Line(book, f, lp, q)
  BY ClosedPeriodStays DEF ReadingInv
<1>3. ASSUME NEW q \in reading.closed \cap PeriodsThrough(reading.period)
      PROVE  AsItIs(q)'
  <2>1. AsItIs(q)
    BY DEF ReadingInv
  <2>2. Line(book', reading.fund, reading.lp, q)
          = Line(book, reading.fund, reading.lp, q)
    BY <1>2
  <2> QED  BY <2>1, <2>2 DEF AsItIs, Passed
<1> QED  BY <1>1, <1>2, <1>3 DEF ReadingInv

(* A reading begins with nothing read, before the fund's first period.      *)
LEMMA ReadingBegins ==
    ASSUME BookInv, NEW p \in Period, NEW lp, Begin(p[1], lp, p)
    PROVE  ReadingInv'
<1> DEFINE T == PeriodsThrough(p)
           closed == {q \in Period : status[q] = "CLOSED"}
           lines == [q \in T |-> [m |-> None, g |-> None, h |-> None]]
<1>1. /\ reading' = [fund |-> p[1], lp |-> lp, period |-> p,
                     closed |-> closed, at |-> First(T),
                     query |-> "movement", lines |-> lines]
      /\ book' = book /\ status' = status
  BY DEF Begin, vars
<1>2. First(T) \in T /\ \A r \in T : First(T)[2] <= r[2]
  BY PeriodsBefore, FirstOfPeriods
<1>3. \A q \in T : q[2] \in Nat /\ q \in Period
  BY PeriodsBefore
<1>4. First(T) # None
  BY <1>2, <1>3, StatementAssumption
<1>5. lines = [q \in T |-> [m |-> lines[q].m, g |-> lines[q].g,
                           h |-> lines[q].h]]
  OBVIOUS
<1>6. \A q \in closed : PeriodsThrough(q) \subseteq closed
  <2> TAKE q \in closed
  <2>1. [Next]_vars =>
           \A r \in PeriodsThrough(q) : r \in Period /\ status[r] = "CLOSED"
    BY ClosedPeriodStays
  <2>2. [Next]_vars
    BY <1>1 DEF vars
  <2> QED  BY <2>1, <2>2
<1> HIDE DEF lines, closed
<1>7. Shape'
  BY <1>1, <1>2, <1>5 DEF Shape
<1>8. ASSUME NEW q \in T PROVE AsItIs(q)'
  <2>1. ~Passed(q)'
    BY <1>1, <1>2, <1>3, <1>4 DEF Passed
  <2> QED  BY <1>1, <2>1 DEF AsItIs
<1> QED  BY <1>1, <1>6, <1>7, <1>8 DEF ReadingInv, closed

(* The reading under way.                                                   *)
LEMMA UnderWay ==
    ASSUME ReadingInv, reading # None, reading.at # None
    PROVE  /\ Shape
           /\ reading.at \in PeriodsThrough(reading.period)
           /\ reading.at \in Period /\ reading.at[2] \in Nat
           /\ \A q \in PeriodsThrough(reading.period) :
                 q \in Period /\ q[2] \in Nat /\ q = <<reading.period[1], q[2]>>
<1>1. Shape /\ reading.at \in PeriodsThrough(reading.period)
  BY DEF ReadingInv, Shape
<1>2. reading.period \in Period
  BY <1>1 DEF Shape
<1>3. \A q \in PeriodsThrough(reading.period) :
         q \in Period /\ q[2] \in Nat /\ q = <<reading.period[1], q[2]>>
  BY <1>2, PeriodsBefore
<1> QED  BY <1>1, <1>3

(* A query after the first leaves what was read before.                     *)
LEMMA MovementIsRead ==
    ASSUME BookInv, ReadingInv, ReadMovement
    PROVE  ReadingInv'
<1> DEFINE at == reading.at
           X == LpLedgerMovement(book, reading.fund, reading.lp, at)
           T == PeriodsThrough(reading.period)
<1>1. reading # None /\ at # None /\ reading.query = "movement"
      /\ book' = book /\ status' = status
  BY DEF ReadMovement, Asks, vars
<1>2. Shape /\ at \in T /\ \A q \in T : q \in Period /\ q[2] \in Nat
  BY <1>1, UnderWay
<1>3. reading' = [reading EXCEPT !.lines[at].m = X, !.query = "gains"]
  BY DEF ReadMovement
<1> HIDE DEF X, at
<1>4. /\ reading' = [fund |-> reading.fund, lp |-> reading.lp,
                     period |-> reading.period, closed |-> reading.closed,
                     at |-> reading.at, query |-> "gains",
                     lines |-> [reading.lines EXCEPT ![at].m = X]]
  BY <1>2, <1>3 DEF Shape
<1>5. /\ reading'.fund = reading.fund /\ reading'.lp = reading.lp
      /\ reading'.period = reading.period /\ reading'.closed = reading.closed
      /\ reading'.at = reading.at /\ reading'.query = "gains"
      /\ reading'.lines = [reading.lines EXCEPT ![at].m = X]
  BY <1>4
<1>6. /\ reading'.lines =
            [q \in T |-> IF q = at THEN [m |-> X, g |-> reading.lines[at].g,
                                         h |-> reading.lines[at].h]
                         ELSE reading.lines[q]]
  BY <1>2, <1>5 DEF Shape
<1>7. reading'.lines =
        [q \in T |-> [m |-> reading'.lines[q].m, g |-> reading'.lines[q].g,
                      h |-> reading'.lines[q].h]]
  BY <1>2, <1>6 DEF Shape
<1>8. Shape'
  BY <1>2, <1>4, <1>5, <1>7 DEF Shape
<1>9. ASSUME NEW q \in reading.closed \cap T PROVE AsItIs(q)'
  <2>1. AsItIs(q)
    BY <1>1 DEF ReadingInv
  <2>2. CASE q = at
    <3>1. ~Passed(q)'
      BY <1>1, <1>2, <1>5, <2>2 DEF Passed, at
    <3>2. reading'.lines[q].m = X
      BY <1>6, <2>2
    <3>3. Line(book, reading.fund, reading.lp, q).m = X
      BY <2>2 DEF Line, X, at
    <3> QED  BY <1>1, <1>5, <3>1, <3>2, <3>3 DEF AsItIs
  <2>3. CASE q # at
    <3>1. reading'.lines[q] = reading.lines[q]
      BY <1>6, <2>3
    <3>2. Passed(q)' <=> Passed(q)
      BY <1>5 DEF Passed
    <3> QED  BY <1>1, <1>5, <2>1, <2>3, <3>1, <3>2 DEF AsItIs, at
  <2> QED  BY <2>2, <2>3
<1> QED  BY <1>1, <1>5, <1>8, <1>9 DEF ReadingInv

(* The period's gains.                                                      *)
LEMMA GainsAreRead ==
    ASSUME BookInv, ReadingInv, ReadGains
    PROVE  ReadingInv'
<1> DEFINE at == reading.at
           X == Gains(book, reading.fund, at)
           T == PeriodsThrough(reading.period)
<1>1. reading # None /\ at # None /\ reading.query = "gains"
      /\ book' = book /\ status' = status
  BY DEF ReadGains, Asks, vars
<1>2. Shape /\ at \in T /\ \A q \in T : q \in Period /\ q[2] \in Nat
  BY <1>1, UnderWay
<1>3. reading' = [reading EXCEPT !.lines[at].g = X, !.query = "fees"]
  BY DEF ReadGains
<1> HIDE DEF X, at
<1>4. reading' = [fund |-> reading.fund, lp |-> reading.lp,
                  period |-> reading.period, closed |-> reading.closed,
                  at |-> reading.at, query |-> "fees",
                  lines |-> [reading.lines EXCEPT ![at].g = X]]
  BY <1>2, <1>3 DEF Shape
<1>5. /\ reading'.fund = reading.fund /\ reading'.lp = reading.lp
      /\ reading'.period = reading.period /\ reading'.closed = reading.closed
      /\ reading'.at = reading.at /\ reading'.query = "fees"
      /\ reading'.lines = [reading.lines EXCEPT ![at].g = X]
  BY <1>4
<1>6. reading'.lines =
         [q \in T |-> IF q = at THEN [m |-> reading.lines[at].m, g |-> X,
                                      h |-> reading.lines[at].h]
                      ELSE reading.lines[q]]
  BY <1>2, <1>5 DEF Shape
<1>7. reading'.lines =
        [q \in T |-> [m |-> reading'.lines[q].m, g |-> reading'.lines[q].g,
                      h |-> reading'.lines[q].h]]
  BY <1>2, <1>6 DEF Shape
<1>8. Shape'
  BY <1>2, <1>4, <1>5, <1>7 DEF Shape
<1>9. ASSUME NEW q \in reading.closed \cap T PROVE AsItIs(q)'
  <2>1. AsItIs(q)
    BY <1>1 DEF ReadingInv
  <2>2. CASE q = at
    <3>1. ~Passed(q)'
      BY <1>1, <1>2, <1>5, <2>2 DEF Passed, at
    <3>2. reading'.lines[q].g = X /\ reading'.lines[q].m = reading.lines[q].m
      BY <1>6, <2>2
    <3>3. Line(book, reading.fund, reading.lp, q).g = X
      BY <2>2 DEF Line, X, at
    <3>4. reading.lines[q].m = Line(book, reading.fund, reading.lp, q).m
      BY <1>1, <2>1, <2>2 DEF AsItIs, at
    <3> QED  BY <1>1, <1>5, <3>1, <3>2, <3>3, <3>4 DEF AsItIs
  <2>3. CASE q # at
    <3>1. reading'.lines[q] = reading.lines[q]
      BY <1>6, <2>3
    <3>2. Passed(q)' <=> Passed(q)
      BY <1>5 DEF Passed
    <3> QED  BY <1>1, <1>5, <2>1, <2>3, <3>1, <3>2 DEF AsItIs, at
  <2> QED  BY <2>2, <2>3
<1> QED  BY <1>1, <1>5, <1>8, <1>9 DEF ReadingInv

(* The fees, after which the period is passed, and the period to read next   *)
(* is the first of the later ones.                                          *)
LEMMA FeesAreRead ==
    ASSUME BookInv, ReadingInv, ReadFees
    PROVE  ReadingInv'
<1> DEFINE at == reading.at
           X == Fees(book, reading.fund, at)
           T == PeriodsThrough(reading.period)
           L == Later(at)
           next == IF L = {} THEN None ELSE First(L)
<1>1. reading # None /\ at # None /\ reading.query = "fees"
      /\ book' = book /\ status' = status
  BY DEF ReadFees, Asks, vars
<1>2. /\ Shape /\ at \in T
      /\ \A q \in T : q \in Period /\ q[2] \in Nat
                      /\ q = <<reading.period[1], q[2]>>
  BY <1>1, UnderWay
<1>3. reading' = [reading EXCEPT !.lines[at].h = X, !.query = "movement",
                                 !.at = next]
  BY DEF ReadFees
<1>4. L = {} \/ (next \in L /\ \A r \in L : next[2] <= r[2])
  <2>1. L \in SUBSET T /\ reading.period \in Period
    BY <1>2 DEF Later, Shape
  <2> QED  BY <2>1, FirstOfPeriods
<1>5. next = None \/ next \in T
  BY <1>4 DEF Later
<1>6. \A q \in T : next = None \/ q[2] < next[2] => q[2] < at[2] \/ q = at
  <2> SUFFICES ASSUME NEW q \in T, next = None \/ q[2] < next[2]
               PROVE  q[2] < at[2] \/ q = at
    OBVIOUS
  <2>1. q \in L => q[2] <= at[2]
    <3>1. CASE L = {}
      BY <3>1
    <3>2. CASE L # {}
      <4>1. next \in T /\ next # None
        BY <1>2, <1>4, <3>2, StatementAssumption DEF Later
      <4> QED  BY <1>2, <1>4, <3>2, <4>1
    <3> QED  BY <3>1, <3>2
  <2>2. q[2] <= at[2]
    BY <1>2, <2>1 DEF Later
  <2> QED  BY <1>2, <2>2
<1> HIDE DEF X, at, next, L
<1>7. reading' = [fund |-> reading.fund, lp |-> reading.lp,
                  period |-> reading.period, closed |-> reading.closed,
                  at |-> next, query |-> "movement",
                  lines |-> [reading.lines EXCEPT ![at].h = X]]
  BY <1>2, <1>3 DEF Shape
<1>8. /\ reading'.fund = reading.fund /\ reading'.lp = reading.lp
      /\ reading'.period = reading.period /\ reading'.closed = reading.closed
      /\ reading'.at = next /\ reading'.query = "movement"
      /\ reading'.lines = [reading.lines EXCEPT ![at].h = X]
  BY <1>7
<1>9. reading'.lines =
         [q \in T |-> IF q = at THEN [m |-> reading.lines[at].m,
                                      g |-> reading.lines[at].g, h |-> X]
                      ELSE reading.lines[q]]
  BY <1>2, <1>8 DEF Shape
<1>10. reading'.lines =
        [q \in T |-> [m |-> reading'.lines[q].m, g |-> reading'.lines[q].g,
                      h |-> reading'.lines[q].h]]
  BY <1>2, <1>9 DEF Shape
<1>11. Shape'
  BY <1>2, <1>5, <1>7, <1>8, <1>10 DEF Shape
<1>12. ASSUME NEW q \in reading.closed \cap T PROVE AsItIs(q)'
  <2>1. AsItIs(q)
    BY <1>1 DEF ReadingInv
  <2>2. SUFFICES ASSUME Passed(q)'
                 PROVE  reading'.lines[q]
                          = Line(book, reading.fund, reading.lp, q)
    BY <1>1, <1>8 DEF AsItIs
  <2>3. q[2] < at[2] \/ q = at
    BY <1>6, <1>8, <2>2 DEF Passed
  <2>4. CASE q = at
    <3>1. reading'.lines[q] = [m |-> reading.lines[q].m,
                               g |-> reading.lines[q].g, h |-> X]
      BY <1>9, <2>4
    <3>2. /\ reading.lines[q].m = Line(book, reading.fund, reading.lp, q).m
          /\ reading.lines[q].g = Line(book, reading.fund, reading.lp, q).g
      BY <1>1, <2>1, <2>4 DEF AsItIs, at
    <3> QED  BY <2>4, <3>1, <3>2 DEF Line, X, at
  <2>5. CASE q # at
    <3>1. reading'.lines[q] = reading.lines[q]
      BY <1>9, <2>5
    <3>2. Passed(q)
      BY <2>3, <2>5 DEF Passed, at
    <3> QED  BY <2>1, <3>1, <3>2 DEF AsItIs
  <2> QED  BY <2>4, <2>5
<1> QED  BY <1>1, <1>8, <1>11, <1>12 DEF ReadingInv

(* A closed period is read as it is, whatever is posted between the queries.*)
LEMMA ReadingStep ==
    ASSUME BookInv, ReadingInv, [Grow \/ Reads \/ Snapshots]_statementVars
    PROVE  ReadingInv'
<1>1. CASE UNCHANGED reading
  <2>1. [Next]_vars
    BY LedgerGoesOn
  <2> QED  BY <1>1, <2>1, ReadingGoesOn
<1>2. CASE Reads /\ ~UNCHANGED reading
  <2>1. CASE \E p \in Period : \E lp \in LPs(p[1]) : Begin(p[1], lp, p)
    <3>1. PICK p \in Period : \E lp \in LPs(p[1]) : Begin(p[1], lp, p)
      BY <2>1
    <3>2. PICK lp \in LPs(p[1]) : Begin(p[1], lp, p)
      BY <3>1
    <3> QED  BY <3>2, ReadingBegins
  <2>2. CASE ReadMovement
    BY <2>2, MovementIsRead
  <2>3. CASE ReadGains
    BY <2>3, GainsAreRead
  <2>4. CASE ReadFees
    BY <2>4, FeesAreRead
  <2>5. CASE Send
    BY <2>5 DEF Send, ReadingInv
  <2> QED  BY <1>2, <2>1, <2>2, <2>3, <2>4, <2>5 DEF Reads
<1> QED  BY <1>1, <1>2 DEF Grow, Snapshots, statementVars

(* So it is in every reachable state.                                       *)
LEMMA ReadingAlways == StatementSpec => []ReadingInv
<1>1. StatementInit => ReadingInv
  BY DEF StatementInit, ReadingInv
<1>2. BookInv /\ ReadingInv /\ [Grow \/ Reads \/ Snapshots]_statementVars
        => ReadingInv'
  BY ReadingStep
<1> QED  BY <1>1, <1>2, BookAlways, PTL DEF StatementSpec

(* The statement a reader is given of a closed period is the statement of   *)
(* the period, though it is read query by query while others post and close;*)
(* of an open one whose earlier periods were closed, so is the opening       *)
(* balance (lp_statement in autocommit).                                    *)
THEOREM ReadersSeeClosedPeriods == StatementSpec => []ClosedIsNeverTorn
<1>1. ReadingInv => ClosedIsNeverTorn
  <2> DEFINE p == reading.period
             f == reading.fund
             lp == reading.lp
             T == PeriodsThrough(p)
             now == [q \in T |-> Line(book, f, lp, q)]
  <2> SUFFICES ASSUME ReadingInv, reading # None, reading.at = None
               PROVE  /\ p \in reading.closed =>
                            Given = Statement(book, f, lp, p)
                      /\ T \ {p} \subseteq reading.closed =>
                            Given.opening = Statement(book, f, lp, p).opening
    BY DEF ClosedIsNeverTorn
  <2>1. \A q \in reading.closed \cap T :
           reading.lines[q] = Line(book, f, lp, q)
    BY DEF ReadingInv, AsItIs, Passed
  <2>2. reading.lines = [q \in T |-> reading.lines[q]]
    BY DEF ReadingInv, Shape
  <2>3. ASSUME p \in reading.closed
        PROVE  Given = Statement(book, f, lp, p)
    <3>1. T \subseteq reading.closed
      BY <2>3 DEF ReadingInv
    <3>2. reading.lines = now
      BY <2>1, <2>2, <3>1
    <3> QED  BY <3>2 DEF Given, Statement
  <2>4. ASSUME T \ {p} \subseteq reading.closed
        PROVE  Given.opening = Statement(book, f, lp, p).opening
    <3> DEFINE E == T \ {p}
    <3>1. \A q \in E : reading.lines[q] = now[q]
      BY <2>1, <2>4
    <3>2. [q \in E |-> Net(f, lp, reading.lines[q])]
            = [q \in E |-> Net(f, lp, now[q])]
      BY <3>1
    <3>3. Given.opening = SignedSum([q \in E |-> Net(f, lp, reading.lines[q])])
      BY DEF Given, StatementOf
    <3>4. Statement(book, f, lp, p).opening
            = SignedSum([q \in E |-> Net(f, lp, now[q])])
      BY DEF Statement, StatementOf
    <3> QED  BY <3>2, <3>3, <3>4
  <2> QED  BY <2>3, <2>4
<1> QED  BY <1>1, ReadingAlways, PTL

-----------------------------------------------------------------------------
(* Snapshots.                                                               *)

(* What was computed of a closed period is its net asset value.             *)
Final(s, b, now) ==
    s.final => now[s.period] = "CLOSED"
               /\ s.nav = Nav(b, s.period[1], s.period)

SnapshotsInv ==
    /\ \A s \in computed : s.period \in Period /\ Final(s, book, status)
    /\ stored = [p \in Period |-> stored[p]]
    /\ \A p \in Period :
          stored[p] # None =>
             stored[p].period = p /\ Final(stored[p], book, status)

(* A closed period's net asset value does not change any more.              *)
LEMMA FinalGoesOn ==
    ASSUME BookInv, BookInv', [Next]_vars,
           NEW s, s.period \in Period, Final(s, book, status)
    PROVE  Final(s, book', status')
<1> SUFFICES ASSUME s.final
             PROVE  /\ status'[s.period] = "CLOSED"
                    /\ s.nav = Nav(book', s.period[1], s.period)
  BY DEF Final
<1>1. status[s.period] = "CLOSED" /\ s.nav = Nav(book, s.period[1], s.period)
  BY DEF Final
<1>2. status'[s.period] = "CLOSED"
  BY <1>1, ClosedPeriodStays
<1>3. Nav(book', s.period[1], s.period) = Nav(book, s.period[1], s.period)
  BY <1>1, ClosedPeriodIsFinal
<1> QED  BY <1>1, <1>2, <1>3

(* Computing a snapshot, writing it and everything else leave what is said  *)
(* of snapshots true.                                                       *)
LEMMA SnapshotsStep ==
    ASSUME BookInv, BookInv', SnapshotsInv,
           [Grow \/ Reads \/ Snapshots]_statementVars
    PROVE  SnapshotsInv'
<1>1. [Next]_vars
  BY LedgerGoesOn
<1>2. \A s : s.period \in Period /\ Final(s, book, status)
                => Final(s, book', status')
  <2> SUFFICES ASSUME NEW s, s.period \in Period, Final(s, book, status)
               PROVE  Final(s, book', status')
    OBVIOUS
  <2> QED  BY <1>1, FinalGoesOn
<1>3. CASE UNCHANGED snapshots
  BY <1>2, <1>3 DEF SnapshotsInv, snapshots
<1>4. ASSUME NEW p \in Valued, Compute(p)
      PROVE  SnapshotsInv'
  <2> DEFINE s == [period |-> p, nav |-> Nav(book, p[1], p),
                   final |-> status[p] = "CLOSED"]
  <2>1. computed' = computed \cup {s} /\ stored' = stored
    BY <1>4 DEF Compute
  <2>2. s.period \in Period
    BY StatementAssumption
  <2>3. Final(s, book, status)
    BY DEF Final
  <2> HIDE DEF s
  <2>4. Final(s, book', status')
    BY <1>2, <2>2, <2>3
  <2>5. \A t \in computed : t.period \in Period /\ Final(t, book', status')
    BY <1>2 DEF SnapshotsInv
  <2> QED  BY <1>2, <2>1, <2>2, <2>4, <2>5 DEF SnapshotsInv
<1>5. ASSUME NEW s \in computed, Store(s)
      PROVE  SnapshotsInv'
  <2>1. computed' = computed \ {s} /\ stored' = [stored EXCEPT ![s.period] = s]
    BY <1>5 DEF Store
  <2>2. s.period \in Period /\ Final(s, book', status')
    BY <1>2 DEF SnapshotsInv
  <2>3. \A t \in computed : t.period \in Period /\ Final(t, book', status')
    BY <1>2 DEF SnapshotsInv
  <2>4. stored' = [p \in Period |-> IF p = s.period THEN s ELSE stored[p]]
    BY <2>1, <2>2 DEF SnapshotsInv
  <2>5. ASSUME NEW p \in Period, stored'[p] # None
        PROVE  stored'[p].period = p /\ Final(stored'[p], book', status')
    <3>1. CASE p = s.period
      BY <2>2, <2>4, <3>1
    <3>2. CASE p # s.period
      <4>1. stored'[p] = stored[p]
        BY <2>4, <3>2
      <4> QED  BY <1>2, <2>5, <4>1 DEF SnapshotsInv
    <3> QED  BY <3>1, <3>2
  <2>6. stored' = [p \in Period |-> stored'[p]]
    BY <2>4
  <2> QED  BY <2>1, <2>3, <2>5, <2>6 DEF SnapshotsInv
<1> QED  BY <1>3, <1>4, <1>5 DEF Grow, Reads, Snapshots, statementVars

(* A snapshot computed once its period is closed is the net asset value for *)
(* ever, in whatever order snapshots are computed and written and whatever  *)
(* is posted between (snapshot_nav).                                        *)
THEOREM FinalSnapshotsStand == StatementSpec => []SnapshotIsNav
<1>1. StatementInit => SnapshotsInv
  BY DEF StatementInit, NoSnapshots, SnapshotsInv
<1>2. BookInv /\ BookInv' /\ SnapshotsInv
        /\ [Grow \/ Reads \/ Snapshots]_statementVars => SnapshotsInv'
  BY SnapshotsStep
<1>3. SnapshotsInv => SnapshotIsNav
  <2> SUFFICES ASSUME SnapshotsInv, NEW p \in Period,
                      stored[p] # None, stored[p].final
               PROVE  stored[p].nav = Nav(book, p[1], p)
    BY DEF SnapshotIsNav
  <2>1. stored[p].period = p /\ Final(stored[p], book, status)
    BY DEF SnapshotsInv
  <2> QED  BY <2>1 DEF Final
<1> QED  BY <1>1, <1>2, <1>3, BookAlways, PTL DEF StatementSpec

=============================================================================
