---------------------------- MODULE HistoryProofs ----------------------------
(***************************************************************************)
(* The past of the ledger, as reports read it: sound at any moment, and     *)
(* settled once nothing that was sent by then is still to commit.           *)
(***************************************************************************)
EXTENDS History, LedgerProofs, SequenceTheorems

-----------------------------------------------------------------------------
(* The ledger with its times is the ledger. *)

(* Every step of History is one of the ledger, or leaves the ledger alone.  *)
LEMMA HistoryStep == [HistoryNext]_historyVars => [Next]_vars
<1> SUFFICES ASSUME [HistoryNext]_historyVars
             PROVE  [Next]_vars
  OBVIOUS
<1>1. ASSUME NEW w \in Worker, Working(w)
      PROVE  Next
  BY <1>1 DEF Working, Next, Proceed, Post
<1>2. CASE Serve
  BY <1>1, <1>2 DEF Serve, Next
<1>3. ASSUME NEW w \in Worker, Record(w)
      PROVE  Next
  BY <1>3 DEF Record, Next, Proceed, Post
<1>4. CASE Pass \/ NextPage \/ LastPage \/ \E a \in Listed : FirstPage(a)
  BY <1>4 DEF Pass, NextPage, LastPage, FirstPage
<1>5. CASE UNCHANGED historyVars
  BY <1>5 DEF historyVars
<1> QED  BY <1>2, <1>3, <1>4, <1>5 DEF HistoryNext

(* So whatever holds of the ledger holds of it with its times.              *)
THEOREM HistoryIsLedger == HistorySpec => Spec
<1>1. HistoryInit => Init
  BY DEF HistoryInit
<1> QED  BY <1>1, HistoryStep, PTL DEF HistorySpec, Spec

-----------------------------------------------------------------------------
(* The inductive invariant. *)

(* What has been dated was dated in the past.                               *)
Times ==
    /\ now \in Nat \ {0}
    /\ stamp \in [Worker -> Nat]
    /\ created \in Seq(Nat)
    /\ Len(created) = Len(book)
    /\ \A i \in DOMAIN created : created[i] < now

(* A worker whose entries are sent has them dated, later than every entry   *)
(* on its accounts that is in the book: it has locked them.                 *)
Dated(w) ==
    pc[w] \in Inserted =>
        /\ stamp[w] \in 1..now
        /\ \A e \in Entries(book) :
              EntryOf(book, e).account \in Touched(row[w].legs) =>
                  CreatedAt(e) < stamp[w]

(* PastIsSound of all moments, those to come included: as of a moment that  *)
(* is yet to come, the books are as they are now.                           *)
Sound ==
    \A t \in Nat : /\ ImbalanceAsOf(t) = 0
                   /\ \A a \in Cash : BalanceAsOf(a, t) >= 0

HistoryInv == Times /\ (\A w \in Worker : Dated(w)) /\ Sound

(* What is known of the ledger. *)
LedgerInv == TypeOK /\ FundsInv

-----------------------------------------------------------------------------
(* Balances of some of the entries. *)

BalanceOf(b, a, E) ==
    LET amount == [e \in Entries(b) |-> EntryOf(b, e).amount]
    IN  SumOf(EntriesOn(b, a, "DEBIT") \cap E, amount)
          - SumOf(EntriesOn(b, a, "CREDIT") \cap E, amount)

(* A balance as of a moment is that of the entries there were.              *)
LEMMA BalanceAsOfEntries ==
    \A a, t : BalanceAsOf(a, t) = BalanceOf(book, a, EntriesAsOf(t))
  BY DEF BalanceAsOf, BalanceOf

(* All the entries on an account make its balance.                          *)
LEMMA WholeBalance ==
    ASSUME NEW b, NEW a, NEW E,
           \A d \in {"DEBIT", "CREDIT"} : EntriesOn(b, a, d) \subseteq E
    PROVE  BalanceOf(b, a, E) = NativeBalance(b, a)
<1>1. \A d \in {"DEBIT", "CREDIT"} : EntriesOn(b, a, d) \cap E = EntriesOn(b, a, d)
  OBVIOUS
<1> QED  BY <1>1 DEF BalanceOf, NativeBalance

(* A transfer that is appended leaves the balance of the entries before it  *)
(* as it was, and its own entries do nothing to an account it does not name.*)
LEMMA EarlierBalance ==
    ASSUME NEW b \in Seq(TransferRow), NEW t \in TransferRow, NEW a,
           NEW E, NEW F,
           E \subseteq Entries(b), E \subseteq F,
           \A e \in F : e \in E \/ e \in {Len(b) + 1} \X DOMAIN t.legs,
           F \subseteq E \/ a \notin Touched(t.legs)
    PROVE  BalanceOf(Append(b, t), a, F) = BalanceOf(b, a, E)
<1> DEFINE c == Append(b, t)
           amountB == [e \in Entries(b) |-> EntryOf(b, e).amount]
           amountC == [e \in Entries(c) |-> EntryOf(c, e).amount]
<1>1. /\ Entries(c) = Entries(b) \cup ({Len(b) + 1} \X DOMAIN t.legs)
      /\ \A e \in Entries(b) : EntryOf(c, e) = EntryOf(b, e)
      /\ \A j \in DOMAIN t.legs : EntryOf(c, <<Len(b) + 1, j>>) = t.legs[j]
  BY EntriesOfAppend
<1> HIDE DEF c
<1>2. \A e \in {Len(b) + 1} \X DOMAIN t.legs :
         EntryOf(c, e).account \in Touched(t.legs)
  BY <1>1 DEF Touched
<1>3. ASSUME NEW d
      PROVE  /\ EntriesOn(c, a, d) \cap F = EntriesOn(b, a, d) \cap E
             /\ SumOf(EntriesOn(b, a, d) \cap E, amountC)
                  = SumOf(EntriesOn(b, a, d) \cap E, amountB)
  <2>1. \A e \in F : e \in EntriesOn(c, a, d) => e \in E
    BY <1>2 DEF EntriesOn
  <2>2. EntriesOn(c, a, d) \cap E = EntriesOn(b, a, d) \cap E
    BY <1>1 DEF EntriesOn
  <2>3. \A e \in EntriesOn(b, a, d) \cap E : amountC[e] = amountB[e]
    BY <1>1
  <2> HIDE DEF amountB, amountC
  <2>4. SumOf(EntriesOn(b, a, d) \cap E, amountC)
          = SumOf(EntriesOn(b, a, d) \cap E, amountB)
    BY <2>3, SumOfSame
  <2> QED  BY <2>1, <2>2, <2>4
<1>4. BalanceOf(c, a, F) = BalanceOf(b, a, E)
  BY <1>3 DEF BalanceOf
<1> QED  BY <1>4 DEF c

-----------------------------------------------------------------------------
(* What a commit does to the past. *)

(* The entries a worker is to commit. *)
Own(w) == {Len(book) + 1} \X DOMAIN row[w].legs

(* The entries of a committed transfer have the moment they were sent; as   *)
(* of that moment they are there, and the others keep theirs.               *)
LEMMA RecordedEntries ==
    ASSUME LedgerInv, Times, NEW w \in Worker, Record(w), Dated(w)
    PROVE  /\ row[w] \in TransferRow
           /\ book \in Seq(TransferRow)
           /\ book' = Append(book, row[w])
           /\ Commit(w) /\ stamp[w] \in 1..now /\ stamp[w] < now
           /\ created' = Append(created, stamp[w]) /\ now' = now
           /\ \A e \in Entries(book) : CreatedAt(e)' = CreatedAt(e)
           /\ \A e \in Own(w) : CreatedAt(e)' = stamp[w]
           /\ \A t \in Nat : EntriesAsOf(t)'
                 = EntriesAsOf(t) \cup {e \in Own(w) : stamp[w] <= t}
<1>1. /\ Commit(w) /\ pc[w] = "commit" /\ stamp[w] < now
      /\ book' = Append(book, row[w]) /\ created' = Append(created, stamp[w])
      /\ now' = now
  BY DEF Record, Commit
<1>2. row[w] \in TransferRow /\ book \in Seq(TransferRow)
  BY <1>1, RowTyped DEF LedgerInv, Posting, TypeOK, Typed
<1>3. stamp[w] \in 1..now
  BY <1>1 DEF Dated, Inserted
<1>4. created \in Seq(Nat) /\ Len(created) = Len(book) /\ stamp[w] \in Nat
  BY <1>3 DEF Times
<1>5. /\ \A i \in 1..Len(book) : created'[i] = created[i]
      /\ created'[Len(book) + 1] = stamp[w]
      /\ DOMAIN book = 1..Len(book)
  BY <1>1, <1>2, <1>4
<1>6. \A e \in Entries(book) : e[1] \in 1..Len(book)
  BY <1>5 DEF Entries
<1>7. \A e \in Entries(book) : created'[e[1]] = created[e[1]]
  BY <1>5, <1>6
<1>8. \A e \in Own(w) : created'[e[1]] = stamp[w]
  BY <1>5 DEF Own
<1>9. Entries(book)' = Entries(book) \cup Own(w)
  BY <1>1, <1>2, EntriesOfAppend DEF Own
<1>10. \A t \in Nat : EntriesAsOf(t)'
          = EntriesAsOf(t) \cup {e \in Own(w) : stamp[w] <= t}
  <2> SUFFICES ASSUME NEW t \in Nat
               PROVE  EntriesAsOf(t)'
                        = EntriesAsOf(t) \cup {e \in Own(w) : stamp[w] <= t}
    OBVIOUS
  <2>1. EntriesAsOf(t)' = {e \in Entries(book)' : created'[e[1]] <= t}
    BY DEF EntriesAsOf, CreatedAt
  <2>2. EntriesAsOf(t) = {e \in Entries(book) : created[e[1]] <= t}
    BY DEF EntriesAsOf, CreatedAt
  <2> QED  BY <1>7, <1>8, <1>9, <2>1, <2>2
<1> QED  BY <1>1, <1>2, <1>3, <1>7, <1>8, <1>10 DEF CreatedAt

(* A balance as of a moment before the transfer was sent, or of an account  *)
(* it does not name, is what it was.                                        *)
LEMMA BalanceKept ==
    ASSUME LedgerInv, Times, NEW w \in Worker, Record(w), Dated(w),
           NEW t \in Nat, NEW a,
           ~(stamp[w] <= t /\ a \in Touched(row[w].legs))
    PROVE  BalanceAsOf(a, t)' = BalanceAsOf(a, t)
<1>1. /\ row[w] \in TransferRow /\ book \in Seq(TransferRow)
      /\ book' = Append(book, row[w])
      /\ EntriesAsOf(t)' = EntriesAsOf(t) \cup {e \in Own(w) : stamp[w] <= t}
  BY RecordedEntries
<1>2. EntriesAsOf(t) \in SUBSET Entries(book)
  BY DEF EntriesAsOf
<1>3. /\ EntriesAsOf(t) \subseteq EntriesAsOf(t)'
      /\ \A e \in EntriesAsOf(t)' :
            e \in EntriesAsOf(t) \/ e \in {Len(book) + 1} \X DOMAIN row[w].legs
  BY <1>1 DEF Own
<1>4. EntriesAsOf(t)' \subseteq EntriesAsOf(t) \/ a \notin Touched(row[w].legs)
  BY <1>1
<1>5. BalanceOf(Append(book, row[w]), a, EntriesAsOf(t)')
        = BalanceOf(book, a, EntriesAsOf(t))
  <2> DEFINE E == EntriesAsOf(t)
             F == EntriesAsOf(t)'
             r == row[w]
  <2>1. r \in TransferRow /\ book \in Seq(TransferRow)
    BY <1>1
  <2>2. /\ E \subseteq Entries(book) /\ E \subseteq F
        /\ \A e \in F : e \in E \/ e \in {Len(book) + 1} \X DOMAIN r.legs
        /\ F \subseteq E \/ a \notin Touched(r.legs)
    BY <1>2, <1>3, <1>4
  <2> HIDE DEF E, F, r
  <2>3. BalanceOf(Append(book, r), a, F) = BalanceOf(book, a, E)
    BY <2>1, <2>2, EarlierBalance
  <2> QED  BY <2>3 DEF E, F, r
<1>6. BalanceAsOf(a, t)' = BalanceOf(book', a, EntriesAsOf(t)')
  BY DEF BalanceAsOf, BalanceOf
<1> QED  BY <1>1, <1>5, <1>6, BalanceAsOfEntries

(* As of a moment since the transfer was sent, the balance of an account it *)
(* names is that of the whole book: every other entry on it is older.       *)
LEMMA BalanceOfAll ==
    ASSUME LedgerInv, Times, NEW w \in Worker, Record(w), Dated(w),
           NEW t \in Nat, NEW a \in Touched(row[w].legs), stamp[w] <= t
    PROVE  BalanceAsOf(a, t)' = NativeBalance(book, a)'
<1>1. /\ row[w] \in TransferRow /\ book \in Seq(TransferRow)
      /\ book' = Append(book, row[w]) /\ stamp[w] \in Nat
      /\ EntriesAsOf(t)' = EntriesAsOf(t) \cup {e \in Own(w) : stamp[w] <= t}
      /\ pc[w] = "commit"
  BY SMTT(30), RecordedEntries DEF Commit
<1>2. /\ Entries(book') = Entries(book) \cup Own(w)
      /\ \A e \in Entries(book) : EntryOf(book', e) = EntryOf(book, e)
  BY <1>1, EntriesOfAppend DEF Own
<1>3. ASSUME NEW e \in Entries(book), EntryOf(book, e).account = a
      PROVE  e \in EntriesAsOf(t)
  <2>1. CreatedAt(e) < stamp[w]
    BY <1>1, <1>3 DEF Dated, Inserted
  <2>2. CreatedAt(e) \in Nat
    <3>1. e[1] \in DOMAIN book
      BY DEF Entries
    <3>2. e[1] \in 1..Len(created) /\ created \in Seq(Nat)
      BY <1>1, <3>1 DEF Times
    <3> QED  BY <3>2 DEF CreatedAt
  <2> QED  BY <1>1, <2>1, <2>2 DEF EntriesAsOf
<1>4. \A d \in {"DEBIT", "CREDIT"} : EntriesOn(book', a, d) \subseteq EntriesAsOf(t)'
  BY <1>1, <1>2, <1>3 DEF EntriesOn
<1>5. BalanceAsOf(a, t)' = BalanceOf(book', a, EntriesAsOf(t)')
  BY DEF BalanceAsOf, BalanceOf
<1> QED  BY <1>4, <1>5, WholeBalance

(* So the past stays sound when a transfer commits.                         *)
LEMMA SoundStep ==
    ASSUME LedgerInv, LedgerInv', Times, Sound, NEW w \in Worker,
           Record(w), Dated(w)
    PROVE  Sound'
<1>1. /\ row[w] \in TransferRow /\ book \in Seq(TransferRow)
      /\ book' = Append(book, row[w]) /\ pc[w] = "commit"
      /\ \A t \in Nat : EntriesAsOf(t)'
            = EntriesAsOf(t) \cup {e \in Own(w) : stamp[w] <= t}
  BY RecordedEntries DEF Commit
<1>2. ASSUME NEW t \in Nat
      PROVE  ImbalanceAsOf(t)' = 0
  <2>1. EntriesAsOf(t) \in SUBSET Entries(book)
    BY DEF EntriesAsOf
  <2>2. Balanced(row[w].legs) /\ IsFiniteSet(Entries(book))
    BY <1>1 DEF LedgerInv, FundsInv, Covered, Checked
  <2>3. \/ EntriesAsOf(t)' = EntriesAsOf(t)
        \/ EntriesAsOf(t)' = EntriesAsOf(t)
                               \cup ({Len(book) + 1} \X DOMAIN row[w].legs)
    <3>1. CASE stamp[w] <= t
      BY <1>1, <3>1 DEF Own
    <3>2. CASE ~(stamp[w] <= t)
      BY <1>1, <3>2
    <3> QED  BY <3>1, <3>2
  <2>4. /\ Imbalance(Append(book, row[w]), EntriesAsOf(t))
             = Imbalance(book, EntriesAsOf(t))
        /\ Imbalance(Append(book, row[w]),
                     EntriesAsOf(t) \cup ({Len(book) + 1} \X DOMAIN row[w].legs))
             = Imbalance(book, EntriesAsOf(t))
    BY <1>1, <2>1, <2>2, ImbalanceOfAppend
  <2>5. Imbalance(book, EntriesAsOf(t)) = 0
    BY DEF Sound, ImbalanceAsOf
  <2>6. ImbalanceAsOf(t)' = Imbalance(book', EntriesAsOf(t)')
    BY DEF ImbalanceAsOf
  <2> QED  BY <1>1, <2>3, <2>4, <2>5, <2>6
<1>3. ASSUME NEW t \in Nat, NEW a \in Cash
      PROVE  BalanceAsOf(a, t)' >= 0
  <2>1. CASE stamp[w] <= t /\ a \in Touched(row[w].legs)
    <3>1. NativeBalance(book', a) >= 0
      BY DEF LedgerInv, FundsInv, NoOverdraft
    <3> QED  BY <2>1, <3>1, BalanceOfAll
  <2>2. CASE ~(stamp[w] <= t /\ a \in Touched(row[w].legs))
    <3>1. BalanceAsOf(a, t)' = BalanceAsOf(a, t)
      BY <2>2, BalanceKept
    <3>2. BalanceAsOf(a, t) >= 0
      BY DEF Sound
    <3> QED  BY <3>1, <3>2
  <2> QED  BY <2>1, <2>2
<1> QED  BY <1>2, <1>3 DEF Sound

-----------------------------------------------------------------------------
(* What the steps do to the times. *)

(* A worker at work leaves the book alone, and what it inserts it sends.    *)
LEMMA ServeSteps ==
    ASSUME TypeOK, Serve
    PROVE  \E w \in Worker : /\ WorkerStep(w) /\ book' = book
                             /\ pc[w] = "insert" /\ pc'[w] \in Inserted => Sent(w)
<1>1. ASSUME NEW w \in Worker, NEW r \in Request, Arrive(w, r)
      PROVE  /\ WorkerStep(w) /\ book' = book
             /\ pc[w] # "insert"
  BY <1>1 DEF WorkerStep, Arrive, ReceiveTransfer, ReceiveReversal, ReceiveClose,
              Receive
<1>2. ASSUME NEW w \in Worker, Working(w)
      PROVE  /\ WorkerStep(w) /\ book' = book
             /\ pc[w] = "insert" /\ pc'[w] \in Inserted => Sent(w)
  <2>1. WorkerStep(w)
    BY <1>2 DEF WorkerStep, Working, Proceed, Post
  <2>2. CASE Examine(w) \/ Lookup(w) \/ LockAccount(w) \/ Check(w) \/ Relookup(w)
             \/ Close(w)
    BY <2>1, <2>2 DEF Examine, Lookup, LockAccount, Check, Relookup, Close,
                      LockPeriod, DecideClose, CommitClose
  <2>3. CASE Insert(w) \/ InsertEntries(w)
    BY <2>1, <2>3 DEF Insert, InsertEntries, Goto, Finish, Sent, Inserted, TypeOK, Typed
  <2>4. CASE Crash(w) \/ Timeout(w)
    BY <2>1, <2>4 DEF Crash, Idle, Timeout, Goto, Finish, Inserted, TypeOK, Typed
  <2> QED  BY <1>2, <2>2, <2>3, <2>4 DEF Working
<1> QED  BY <1>1, <1>2 DEF Serve

(* A worker that serves a request keeps the dates in order: what it sends   *)
(* now is later than all that has been committed.                           *)
LEMMA ServeKeepsTimes ==
    ASSUME LedgerInv, Times, Serve, \A v \in Worker : Dated(v)
    PROVE  /\ Times' /\ \A v \in Worker : Dated(v)'
           /\ \A v \in Worker : pc'[v] \in Inserted =>
                 \/ stamp'[v] = now
                 \/ pc[v] \in Inserted /\ row'[v] = row[v] /\ stamp'[v] = stamp[v]
           /\ UNCHANGED <<book, now, created>>
<1>1. PICK w \in Worker :
         /\ WorkerStep(w) /\ book' = book
         /\ pc[w] = "insert" /\ pc'[w] \in Inserted => Sent(w)
  BY ServeSteps DEF LedgerInv
<1>2. /\ UNCHANGED <<now, created>>
      /\ stamp' = [v \in Worker |->
                      IF Sent(v) THEN now
                      ELSE IF pc'[v] \notin Posting THEN 0 ELSE stamp[v]]
  BY DEF Serve, Stamp
<1>3. Times'
  BY <1>1, <1>2 DEF Times
<1>4. ASSUME NEW v \in Worker, pc'[v] \in Inserted
      PROVE  \/ stamp'[v] = now
             \/ pc[v] \in Inserted /\ row'[v] = row[v] /\ stamp'[v] = stamp[v]
  <2>1. CASE v = w
    <3>1. \/ pc[w] \in Inserted /\ row'[w] = row[w]
          \/ pc[w] = "insert"
      BY <1>1, <1>4, <2>1, InsertedSteps DEF LedgerInv
    <3> QED  BY <1>1, <1>2, <1>4, <2>1, <3>1 DEF Sent, Inserted, Posting
  <2>2. CASE v # w
    <3>1. pc'[v] = pc[v] /\ row'[v] = row[v]
      BY <1>1, <2>2, OthersUntouched DEF LedgerInv, WorkerStep, SameWorker
    <3> QED  BY <1>2, <1>4, <3>1 DEF Sent, Inserted, Posting
  <2> QED  BY <2>1, <2>2
<1>5. ASSUME NEW v \in Worker
      PROVE  Dated(v)'
  <2> SUFFICES ASSUME pc'[v] \in Inserted
               PROVE  /\ stamp'[v] \in 1..now
                      /\ \A e \in Entries(book) :
                            EntryOf(book, e).account \in Touched(row'[v].legs) =>
                                created[e[1]] < stamp'[v]
    BY <1>1, <1>2 DEF Dated, CreatedAt
  <2>1. CASE stamp'[v] = now
    <3>1. ASSUME NEW e \in Entries(book)
          PROVE  created[e[1]] < now
      <4>1. e[1] \in DOMAIN book /\ book \in Seq(TransferRow)
        BY DEF Entries, LedgerInv, TypeOK, Typed
      <4>2. e[1] \in DOMAIN created
        BY <4>1 DEF Times
      <4> QED  BY <4>2 DEF Times
    <3> QED  BY <2>1, <3>1 DEF Times
  <2>2. CASE pc[v] \in Inserted /\ row'[v] = row[v] /\ stamp'[v] = stamp[v]
    BY <2>2 DEF Dated, CreatedAt
  <2> QED  BY <1>4, <2>1, <2>2
<1> QED  BY <1>1, <1>2, <1>3, <1>4, <1>5

(* A commit is dated, and nobody else whose entries are sent names an       *)
(* account of it: the locks are exclusive.                                  *)
LEMMA RecordKeepsTimes ==
    ASSUME LedgerInv, Times, NEW w \in Worker, Record(w),
           \A v \in Worker : Dated(v)
    PROVE  Times' /\ \A v \in Worker : Dated(v)'
<1>1. /\ row[w] \in TransferRow /\ book \in Seq(TransferRow)
      /\ book' = Append(book, row[w]) /\ Commit(w)
      /\ stamp[w] \in 1..now /\ stamp[w] < now
      /\ created' = Append(created, stamp[w]) /\ now' = now
      /\ \A e \in Entries(book) : CreatedAt(e)' = CreatedAt(e)
  BY RecordedEntries
<1>2. /\ stamp' = [v \in Worker |->
                      IF Sent(v) THEN now
                      ELSE IF pc'[v] \notin Posting THEN 0 ELSE stamp[v]]
      /\ pc[w] = "commit" /\ pc' = [pc EXCEPT ![w] = "reply"] /\ row' = row
  BY <1>1 DEF Record, Stamp, Commit, Finish, Goto, job
<1>3. stamp' \in [Worker -> Nat]
  BY <1>2 DEF Times
<1>4. Times'
  <2>1. /\ created \in Seq(Nat) /\ Len(created) = Len(book) /\ stamp[w] \in Nat
        /\ \A i \in DOMAIN created : created[i] < now
    BY <1>1 DEF Times
  <2>2. /\ created' \in Seq(Nat) /\ Len(created') = Len(book')
        /\ \A i \in DOMAIN created' : created'[i] < now
    BY <1>1, <2>1
  <2> QED  BY <1>1, <1>3, <2>2 DEF Times
<1>5. ASSUME NEW v \in Worker
      PROVE  Dated(v)'
  <2> SUFFICES ASSUME pc'[v] \in Inserted
               PROVE  /\ stamp'[v] \in 1..now
                      /\ \A e \in Entries(book') :
                            EntryOf(book', e).account \in Touched(row[v].legs) =>
                                CreatedAt(e)' < stamp'[v]
    BY <1>1, <1>2 DEF Dated
  <2>1. v # w /\ pc'[v] = pc[v] /\ pc[v] \in Inserted
    BY <1>2 DEF Inserted, LedgerInv, TypeOK, Typed
  <2>2. stamp'[v] = stamp[v]
    BY <1>2, <2>1 DEF Sent, Inserted, Posting
  <2>3. \A a \in Touched(row[v].legs) : a \notin Touched(row[w].legs)
    <3>1. Touched(row[v].legs) \subseteq locked[v]
      BY <2>1 DEF LedgerInv, FundsInv, Covered, Checked, Inserted
    <3>2. Touched(row[w].legs) \subseteq locked[w]
      BY <1>2 DEF LedgerInv, FundsInv, Covered, Checked
    <3>3. \A a \in locked[v] : a \notin locked[w]
      BY <2>1 DEF LedgerInv, FundsInv, LocksExclusive
    <3> QED  BY <3>1, <3>2, <3>3
  <2>4. ASSUME NEW e \in Entries(book'),
               EntryOf(book', e).account \in Touched(row[v].legs)
        PROVE  e \in Entries(book) /\ EntryOf(book, e) = EntryOf(book', e)
    <3>1. /\ Entries(book') = Entries(book)
                                \cup ({Len(book) + 1} \X DOMAIN row[w].legs)
          /\ \A d \in Entries(book) : EntryOf(book', d) = EntryOf(book, d)
          /\ \A j \in DOMAIN row[w].legs :
                EntryOf(book', <<Len(book) + 1, j>>) = row[w].legs[j]
      BY <1>1, EntriesOfAppend
    <3>2. \A d \in {Len(book) + 1} \X DOMAIN row[w].legs :
             EntryOf(book', d).account \in Touched(row[w].legs)
      BY <3>1 DEF Touched
    <3> QED  BY <2>3, <2>4, <3>1, <3>2
  <2> QED  BY <1>1, <2>1, <2>2, <2>4 DEF Dated
<1> QED  BY <1>4, <1>5

-----------------------------------------------------------------------------
(* The theorems. *)

(* An empty book has a sound past.                                         *)
LEMMA HistoryInvInit == LedgerInv /\ HistoryInit => HistoryInv
<1> SUFFICES ASSUME LedgerInv, HistoryInit
             PROVE  HistoryInv
  OBVIOUS
<1>1. /\ book = <<>> /\ now = 1 /\ created = <<>>
      /\ stamp = [w \in Worker |-> 0]
      /\ \A w \in Worker : pc[w] = "idle"
  BY DEF HistoryInit, Init
<1>2. Times
  BY <1>1 DEF Times
<1>3. \A w \in Worker : Dated(w)
  BY <1>1 DEF Dated, Inserted
<1>4. Entries(book) = {}
  BY <1>1 DEF Entries
<1>5. ASSUME NEW t \in Nat, NEW a
      PROVE  ImbalanceAsOf(t) = 0 /\ BalanceAsOf(a, t) = 0
  <2>1. EntriesAsOf(t) = {} /\ \A d : EntriesOn(book, a, d) = {}
    BY <1>4 DEF EntriesAsOf, EntriesOn
  <2> QED  BY <2>1, EmptySum DEF ImbalanceAsOf, Imbalance, BalanceAsOf
<1>6. Sound
  BY <1>5 DEF Sound
<1> QED  BY <1>2, <1>3, <1>6 DEF HistoryInv

(* As of any moment, nothing changes while the book and the dates in it do  *)
(* not.                                                                     *)
LEMMA SamePast ==
    ASSUME UNCHANGED <<book, created>>
    PROVE  \A t : /\ ImbalanceAsOf(t)' = ImbalanceAsOf(t)
                  /\ \A a : BalanceAsOf(a, t)' = BalanceAsOf(a, t)
<1>1. \A t : EntriesAsOf(t)' = EntriesAsOf(t)
  BY DEF EntriesAsOf, CreatedAt
<1> QED  BY <1>1 DEF ImbalanceAsOf, BalanceAsOf

(* A step other than these leaves the workers and the book alone.           *)
LEMMA QuietSteps ==
    ASSUME [HistoryNext]_historyVars
    PROVE  \/ Serve
           \/ \E w \in Worker : Record(w)
           \/ /\ UNCHANGED <<vars, stamp, created>>
              /\ now' = now \/ now' = now + 1
  BY DEF HistoryNext, Pass, FirstPage, NextPage, LastPage, historyVars, times

(* Every step keeps the times and the past.                                 *)
LEMMA HistoryInvStep ==
    ASSUME LedgerInv, LedgerInv', HistoryInv, [HistoryNext]_historyVars
    PROVE  HistoryInv'
<1>1. Times /\ (\A w \in Worker : Dated(w)) /\ Sound
  BY DEF HistoryInv
<1>2. ASSUME UNCHANGED <<book, created>>
      PROVE  Sound'
  BY <1>1, <1>2, SamePast DEF Sound
<1>3. CASE Serve
  <2>1. Times' /\ (\A v \in Worker : Dated(v)') /\ UNCHANGED <<book, created>>
    BY <1>1, <1>3, ServeKeepsTimes
  <2> QED  BY <1>2, <2>1 DEF HistoryInv
<1>4. ASSUME NEW w \in Worker, Record(w)
      PROVE  HistoryInv'
  BY <1>1, <1>4, RecordKeepsTimes, SoundStep DEF HistoryInv
<1>5. CASE UNCHANGED <<vars, stamp, created>> /\ (now' = now \/ now' = now + 1)
  <2>1. UNCHANGED <<book, pc, row, stamp, created>>
    BY <1>5 DEF vars, job
  <2>2. now \in Nat /\ now' \in Nat /\ now <= now'
    BY <1>1, <1>5 DEF Times
  <2>3. \A i \in DOMAIN created : created[i] \in Nat
    BY <1>1 DEF Times
  <2>4. Times'
    BY <1>1, <1>5, <2>1, <2>2, <2>3 DEF Times
  <2>5. \A w \in Worker : Dated(w)'
    <3> TAKE w \in Worker
    <3>1. stamp[w] \in 1..now => stamp[w] \in 1..now'
      BY <2>2
    <3> QED  BY <1>1, <2>1, <3>1 DEF Dated, CreatedAt
  <2> QED  BY <1>2, <2>1, <2>4, <2>5 DEF HistoryInv
<1> QED  BY <1>3, <1>4, <1>5, QuietSteps

(* What the ledger keeps, and the times in it, in every reachable state.    *)
LEMMA LedgerInvariant == HistorySpec => []LedgerInv
  BY HistoryIsLedger, TypeCorrect, FundsInvariant, PTL DEF LedgerInv

(* The inductive invariant holds in every reachable state.                  *)
LEMMA HistoryInvariant == HistorySpec => []HistoryInv
<1>1. LedgerInv /\ LedgerInv' /\ HistoryInv /\ [HistoryNext]_historyVars => HistoryInv'
  BY HistoryInvStep
<1> QED  BY <1>1, HistoryInvInit, LedgerInvariant, PTL DEF HistorySpec

(* As of any moment the books balance, and no cash account was overdrawn    *)
(* (total_imbalance and native_balance with as_of): although transfers are  *)
(* dated before they commit, and commit in another order than they are      *)
(* dated in, those on one account do not.                                   *)
THEOREM ThePastIsSound == HistorySpec => []PastIsSound
<1>1. HistoryInv => PastIsSound
  <2> SUFFICES ASSUME HistoryInv
               PROVE  PastIsSound
    OBVIOUS
  <2>1. \A t \in 1..now : t \in Nat
    BY DEF HistoryInv, Times
  <2> QED  BY <2>1 DEF HistoryInv, Sound, PastIsSound
<1> QED  BY <1>1, HistoryInvariant, PTL

(* The past of an account settles: at a moment that is over, once no        *)
(* transfer on the account sent by then is still to commit, its balance as  *)
(* of that moment never changes again (native_balance with as_of, with the  *)
(* row locks of _lock_accounts).                                            *)
THEOREM ThePastSettles == HistorySpec => PastSettles
<1> DEFINE Settled(a, t) ==
        ~UnderWay(a, t) => /\ ~UnderWay(a, t)'
                           /\ BalanceAsOf(a, t)' = BalanceAsOf(a, t)
<1>1. ASSUME LedgerInv, HistoryInv, [HistoryNext]_historyVars,
             NEW a \in Account, NEW t \in Past
      PROVE  Settled(a, t)
  <2>1. Times /\ (\A w \in Worker : Dated(w))
    BY <1>1 DEF HistoryInv
  <2>2. t \in Nat /\ 1 <= t /\ t < now /\ now \in Nat
    BY <1>1, <2>1 DEF Past, Times
  <2> SUFFICES ASSUME ~UnderWay(a, t)
               PROVE  /\ ~UnderWay(a, t)'
                      /\ BalanceAsOf(a, t)' = BalanceAsOf(a, t)
    OBVIOUS
  <2>3. \A w \in Worker : stamp[w] \in 1..t /\ pc[w] \in Inserted
                             => a \notin Touched(row[w].legs)
    BY DEF UnderWay, Inserted
  <2>4. CASE Serve
    <3>1. /\ \A v \in Worker : pc'[v] \in Inserted =>
                \/ stamp'[v] = now
                \/ pc[v] \in Inserted /\ row'[v] = row[v] /\ stamp'[v] = stamp[v]
          /\ UNCHANGED <<book, now, created>>
      BY <1>1, <2>1, <2>4, ServeKeepsTimes
    <3>2. ~(now \in 1..t)
      BY <2>2
    <3>3. ~UnderWay(a, t)'
      BY <2>3, <3>1, <3>2 DEF UnderWay, Inserted
    <3> QED  BY <3>1, <3>3, SamePast
  <2>5. ASSUME NEW w \in Worker, Record(w)
        PROVE  /\ ~UnderWay(a, t)'
               /\ BalanceAsOf(a, t)' = BalanceAsOf(a, t)
    <3>1. /\ pc[w] = "commit" /\ pc' = [pc EXCEPT ![w] = "reply"] /\ row' = row
          /\ stamp' = [v \in Worker |->
                          IF Sent(v) THEN now
                          ELSE IF pc'[v] \notin Posting THEN 0 ELSE stamp[v]]
      BY <2>5 DEF Record, Stamp, Commit, Finish, Goto, job
    <3>2. pc \in [Worker -> Step]
      BY <1>1 DEF LedgerInv, TypeOK, Typed
    <3>3. ASSUME NEW v \in Worker, pc'[v] \in Inserted
          PROVE  pc[v] \in Inserted /\ stamp'[v] = stamp[v]
      BY <3>1, <3>2, <3>3 DEF Sent, Inserted, Posting
    <3>4. ~UnderWay(a, t)'
      BY <2>3, <3>1, <3>3 DEF UnderWay, Inserted
    <3>5. stamp[w] \in 1..now
      BY <2>1, <3>1 DEF Dated, Inserted
    <3>6. stamp[w] <= t => stamp[w] \in 1..t
      BY <2>2, <3>5
    <3>7. ~(stamp[w] <= t /\ a \in Touched(row[w].legs))
      BY <2>3, <3>1, <3>6 DEF Inserted
    <3>8. BalanceAsOf(a, t)' = BalanceAsOf(a, t)
      BY <1>1, <2>1, <2>2, <2>5, <3>7, BalanceKept
    <3> QED  BY <3>4, <3>8
  <2>6. CASE UNCHANGED <<vars, stamp, created>> /\ (now' = now \/ now' = now + 1)
    <3>1. UNCHANGED <<book, pc, row, stamp, created>>
      BY <2>6 DEF vars, job
    <3>2. ~UnderWay(a, t)'
      BY <3>1 DEF UnderWay
    <3> QED  BY <3>1, <3>2, SamePast
  <2> QED  BY <1>1, <2>4, <2>5, <2>6, QuietSteps
<1>2. LedgerInv /\ HistoryInv /\ [HistoryNext]_historyVars =>
          [\A a \in Account, t \in Past : Settled(a, t)]_historyVars
  BY <1>1
<1> HIDE DEF Settled
<1>3. HistorySpec => [][\A a \in Account, t \in Past : Settled(a, t)]_historyVars
  BY <1>2, LedgerInvariant, HistoryInvariant, PTL DEF HistorySpec
<1> QED  BY <1>3 DEF PastSettles, Settled

-----------------------------------------------------------------------------
(* Entries, newest first. *)

(* Entries that can be put in order: no two of one moment are one leg.      *)
Orderly(S) ==
    /\ IsFiniteSet(S)
    /\ \A d \in S : CreatedAt(d) \in Nat /\ d[2] \in Nat
    /\ \A d, e \in S : CreatedAt(d) = CreatedAt(e) /\ d[2] = e[2] => d = e

(* The entries newer than e, and the place they leave it.                   *)
Before(S, e) == {d \in S : Newer(d, e)}
Place(S, e) == Cardinality(Before(S, e))

(* An entry's place is after those of the newer ones.                       *)
LEMMA PlacesInOrder ==
    ASSUME NEW S, Orderly(S), NEW d \in S, NEW e \in S
    PROVE  /\ Place(S, e) \in Nat /\ Place(S, e) < Cardinality(S)
           /\ d # e => Newer(d, e) \/ Newer(e, d)
           /\ Newer(d, e) => Place(S, d) < Place(S, e)
<1>1. /\ IsFiniteSet(S)
      /\ \A x \in S : CreatedAt(x) \in Nat /\ x[2] \in Nat
      /\ \A x, y \in S : CreatedAt(x) = CreatedAt(y) /\ x[2] = y[2] => x = y
  BY DEF Orderly
<1>2. \A x \in S : ~Newer(x, x)
  BY <1>1 DEF Newer
<1>3. Before(S, e) \in SUBSET (S \ {e}) /\ Before(S, d) \in SUBSET S
  BY <1>2 DEF Before
<1>4. IsFiniteSet(S \ {e}) /\ Cardinality(S \ {e}) = Cardinality(S) - 1
  BY <1>1, FS_RemoveElement
<1>5. IsFiniteSet(Before(S, e)) /\ IsFiniteSet(Before(S, d))
  BY <1>1, <1>3, <1>4, FS_Subset
<1>6. /\ Place(S, e) \in Nat /\ Place(S, d) \in Nat
      /\ Cardinality(S) \in Nat
  BY <1>1, <1>5, FS_CardinalityType DEF Place
<1>7. Place(S, e) <= Cardinality(S \ {e})
  BY <1>3, <1>4, FS_Subset DEF Place
<1>8. d # e => Newer(d, e) \/ Newer(e, d)
  BY <1>1 DEF Newer
<1>9. ASSUME Newer(d, e) PROVE Place(S, d) < Place(S, e)
  <2>1. Before(S, d) \in SUBSET Before(S, e)
    <3> SUFFICES ASSUME NEW x \in S, Newer(x, d) PROVE Newer(x, e)
      BY DEF Before
    <3> QED  BY <1>1, <1>9 DEF Newer
  <2>2. d \in Before(S, e) /\ d \notin Before(S, d)
    BY <1>2, <1>9 DEF Before
  <2>3. /\ Cardinality(Before(S, d)) <= Cardinality(Before(S, e))
        /\ Cardinality(Before(S, d)) # Cardinality(Before(S, e))
    BY <1>5, <2>1, <2>2, FS_Subset
  <2> QED  BY <1>6, <2>3 DEF Place
<1> QED  BY <1>4, <1>6, <1>7, <1>8, <1>9

(* Every place is taken, by one entry.                                      *)
LEMMA PlacesAreTaken ==
    ASSUME NEW S, Orderly(S)
    PROVE  /\ Cardinality(S) \in Nat
           /\ \A j \in 1..Cardinality(S) : \E e \in S : Place(S, e) = j - 1
           /\ \A d, e \in S : Place(S, d) = Place(S, e) => d = e
<1> DEFINE n == Cardinality(S)
           T == 1..n
           f == [e \in S |-> Place(S, e) + 1]
<1>1. IsFiniteSet(S) /\ n \in Nat
  BY FS_CardinalityType DEF Orderly
<1>2. \A e \in S : Place(S, e) \in Nat /\ Place(S, e) < n
  BY PlacesInOrder
<1>3. \A d, e \in S : Place(S, d) = Place(S, e) => d = e
  <2> SUFFICES ASSUME NEW d \in S, NEW e \in S, Place(S, d) = Place(S, e), d # e
               PROVE  FALSE
    OBVIOUS
  <2>1. Newer(d, e) \/ Newer(e, d)
    BY PlacesInOrder
  <2>2. Place(S, d) < Place(S, e) \/ Place(S, e) < Place(S, d)
    BY <2>1, PlacesInOrder
  <2> QED  BY <1>2, <2>2
<1> HIDE DEF n
<1>4. \A e \in S : Place(S, e) + 1 \in T
  BY <1>1, <1>2
<1>5. f \in [S -> T]
  BY <1>4
<1>6. \A d, e \in S : f[d] = f[e] => d = e
  BY <1>2, <1>3
<1>7. f \in Injection(S, T)
  BY <1>5, <1>6 DEF Injection, IsInjective
<1>8. IsFiniteSet(T) /\ Cardinality(T) = n
  BY <1>1, FS_Interval
<1>9. f \in Surjection(S, T)
  BY <1>1, <1>7, <1>8, FS_Injection DEF n
<1>10. \A j \in T : \E e \in S : f[e] = j
  BY <1>9 DEF Surjection
<1>11. \A j \in T : \E e \in S : Place(S, e) = j - 1
  <2> TAKE j \in T
  <2>1. PICK e \in S : f[e] = j
    BY <1>10
  <2> QED  BY <1>2, <2>1
<1> QED  BY <1>1, <1>3, <1>11 DEF n

(* So the list has every entry in its place.                                *)
LEMMA NewestFirstLists ==
    ASSUME NEW S, Orderly(S)
    PROVE  LET L == NewestFirst(S) IN
           /\ L \in [1..Cardinality(S) -> S]
           /\ L \in Seq(S) /\ Len(L) = Cardinality(S)
           /\ \A j \in 1..Cardinality(S) : Place(S, L[j]) = j - 1
           /\ \A e \in S : /\ Place(S, e) + 1 \in 1..Cardinality(S)
                           /\ L[Place(S, e) + 1] = e
           /\ \A j, k \in 1..Cardinality(S) : j < k <=> Newer(L[j], L[k])
           /\ L \in Bijection(1..Cardinality(S), S)
<1> DEFINE n == Cardinality(S)
           L == NewestFirst(S)
<1>1. /\ n \in Nat
      /\ \A j \in 1..n : \E e \in S : Place(S, e) = j - 1
      /\ \A d, e \in S : Place(S, d) = Place(S, e) => d = e
  BY PlacesAreTaken
<1>2. L = [j \in 1..n |-> CHOOSE e \in S : Place(S, e) = j - 1]
  BY DEF NewestFirst, Place, Before
<1> HIDE DEF L, n
<1>3. \A j \in 1..n : L[j] \in S /\ Place(S, L[j]) = j - 1
  <2> TAKE j \in 1..n
  <2>1. \E e \in S : Place(S, e) = j - 1
    BY <1>1
  <2>2. L[j] = CHOOSE e \in S : Place(S, e) = j - 1
    BY <1>2
  <2> QED  BY <2>1, <2>2
<1>4. L = [j \in 1..n |-> L[j]]
  BY <1>2
<1>5. L \in [1..n -> S]
  BY <1>3, <1>4
<1>6. L \in Seq(S) /\ Len(L) = n
  BY <1>1, <1>5
<1>7. \A e \in S : Place(S, e) \in Nat /\ Place(S, e) < n
  BY PlacesInOrder DEF n
<1>8. \A e \in S : Place(S, e) + 1 \in 1..n /\ L[Place(S, e) + 1] = e
  <2> TAKE e \in S
  <2>1. Place(S, e) + 1 \in 1..n
    BY <1>1, <1>7
  <2>2. Place(S, L[Place(S, e) + 1]) = Place(S, e)
    BY <1>3, <1>7, <2>1
  <2> QED  BY <1>1, <1>3, <2>1, <2>2
<1>9. ASSUME NEW j \in 1..n, NEW k \in 1..n
      PROVE  j < k <=> Newer(L[j], L[k])
  <2>1. L[j] \in S /\ L[k] \in S /\ Place(S, L[j]) = j - 1 /\ Place(S, L[k]) = k - 1
    BY <1>3
  <2>2. Newer(L[j], L[k]) => j - 1 < k - 1
    BY <2>1, PlacesInOrder
  <2>3. L[j] # L[k] => Newer(L[j], L[k]) \/ Newer(L[k], L[j])
    BY <2>1, PlacesInOrder
  <2>4. Newer(L[k], L[j]) => k - 1 < j - 1
    BY <2>1, PlacesInOrder
  <2> QED  BY <1>1, <2>1, <2>2, <2>3, <2>4
<1>10. \A j, k \in 1..n : L[j] = L[k] => j = k
  BY <1>1, <1>3
<1>11. L \in Bijection(1..n, S)
  <2>1. \A e \in S : \E j \in 1..n : L[j] = e
    BY <1>8
  <2> QED  BY <1>5, <1>10, <2>1 DEF Bijection, Injection, Surjection, IsInjective
<1> QED  BY <1>3, <1>5, <1>6, <1>8, <1>9, <1>11 DEF L, n

(* The entries of a set from a moment on, and those before.                 *)
Since(S, t) == {e \in S : t <= CreatedAt(e)}
Older(S, t) == {e \in S : CreatedAt(e) < t}

(* Sets with nothing in common.                                             *)
LEMMA DisjointCount ==
    ASSUME NEW A, NEW B, IsFiniteSet(A), IsFiniteSet(B), A \cap B = {}
    PROVE  Cardinality(A \cup B) = Cardinality(A) + Cardinality(B)
<1>1. Cardinality(A) \in Nat /\ Cardinality(B) \in Nat
  BY FS_CardinalityType
<1>2. Cardinality(A \cap B) = 0
  BY FS_EmptySet
<1>3. Cardinality(A \cup B)
        = Cardinality(A) + Cardinality(B) - Cardinality(A \cap B)
  BY FS_Union
<1> QED  BY <1>1, <1>2, <1>3

(* The older entries of a list, listed by themselves, come as they come at  *)
(* its end.                                                                 *)
LEMMA EndOfList ==
    ASSUME NEW S, Orderly(S), NEW t \in Nat
    PROVE  /\ Orderly(Older(S, t))
           /\ Cardinality(Older(S, t)) \in Nat
           /\ Cardinality(Since(S, t)) \in Nat
           /\ Cardinality(S) = Cardinality(Since(S, t)) + Cardinality(Older(S, t))
           /\ \A j \in 1..Cardinality(Older(S, t)) :
                 NewestFirst(Older(S, t))[j]
                   = NewestFirst(S)[Cardinality(Since(S, t)) + j]
<1> DEFINE R == Older(S, t)
           A == Since(S, t)
           c == Cardinality(A)
<1>1. IsFiniteSet(S) /\ \A e \in S : CreatedAt(e) \in Nat
  BY DEF Orderly
<1>2. /\ R \in SUBSET S /\ A \in SUBSET S /\ S = A \cup R /\ A \cap R = {}
      /\ \A d \in A : \A e \in R : Newer(d, e)
  BY <1>1 DEF Older, Since, Newer
<1> HIDE DEF R, A
<1>3. IsFiniteSet(R) /\ IsFiniteSet(A)
  BY <1>1, <1>2, FS_Subset
<1>4. Orderly(R)
  BY <1>2, <1>3 DEF Orderly
<1>5. Cardinality(R) \in Nat /\ c \in Nat
  BY <1>3, FS_CardinalityType
<1>6. Cardinality(A \cup R) = Cardinality(A) + Cardinality(R)
  <2>1. A \cap R = {}
    BY <1>2
  <2> QED  BY <1>3, <2>1, DisjointCount
<1>7. Cardinality(S) = c + Cardinality(R)
  BY <1>2, <1>6
<1>8. ASSUME NEW e \in R PROVE Place(S, e) = c + Place(R, e)
  <2> DEFINE B == Before(R, e)
  <2>1. Before(S, e) = A \cup B /\ A \cap B = {}
    BY <1>2 DEF Before
  <2>2. B \in SUBSET R
    BY DEF Before
  <2> HIDE DEF B
  <2>3. IsFiniteSet(B)
    BY <1>3, <2>2, FS_Subset
  <2>4. Cardinality(A \cup B) = Cardinality(A) + Cardinality(B)
    BY <1>3, <2>1, <2>3, DisjointCount
  <2> QED  BY <2>1, <2>4 DEF Place, B
<1> HIDE DEF c
<1>9. ASSUME NEW j \in 1..Cardinality(R)
      PROVE  NewestFirst(R)[j] = NewestFirst(S)[c + j]
  <2>1. NewestFirst(R)[j] \in R /\ Place(R, NewestFirst(R)[j]) = j - 1
    BY <1>4, NewestFirstLists
  <2>2. Place(S, NewestFirst(R)[j]) = c + (j - 1)
    BY <1>8, <2>1
  <2>3. NewestFirst(S)[Place(S, NewestFirst(R)[j]) + 1] = NewestFirst(R)[j]
    BY <1>2, <2>1, NewestFirstLists
  <2>4. c + (j - 1) + 1 = c + j
    BY <1>5
  <2> QED  BY <2>2, <2>3, <2>4
<1> QED  BY <1>4, <1>5, <1>7, <1>9 DEF c, A, R

(* The list depends on when its entries were created, and on nothing else.  *)
LEMMA ListStays ==
    ASSUME NEW S, \A e \in S : CreatedAt(e)' = CreatedAt(e)
    PROVE  /\ NewestFirst(S)' = NewestFirst(S)
           /\ Orderly(S) => Orderly(S)'
<1>1. \A d, e \in S : Newer(d, e)' <=> Newer(d, e)
  BY DEF Newer
<1>2. \A e \in S : Place(S, e)' = Place(S, e)
  <2> TAKE e \in S
  <2>1. Before(S, e)' = Before(S, e)
    BY <1>1 DEF Before
  <2> QED  BY <2>1 DEF Place
<1>3. NewestFirst(S) =
        [j \in 1..Cardinality(S) |-> CHOOSE e \in S : Place(S, e) = j - 1]
  BY DEF NewestFirst, Place, Before
<1>4. NewestFirst(S)' =
        [j \in 1..Cardinality(S) |-> CHOOSE e \in S : Place(S, e)' = j - 1]
  BY DEF NewestFirst, Place, Before
<1>5. \A j : (CHOOSE e \in S : Place(S, e)' = j - 1)
               = CHOOSE e \in S : Place(S, e) = j - 1
  BY <1>2
<1>6. NewestFirst(S)' = NewestFirst(S)
  BY <1>3, <1>4, <1>5
<1>7. Orderly(S) => Orderly(S)'
  BY DEF Orderly
<1> QED  BY <1>6, <1>7

-----------------------------------------------------------------------------
(* Walks through the pages of an account. *)

(* The entries of account a in the first n transfers.                       *)
KeptIn(b, a, n) ==
    {e \in Entries(b) : EntryOf(b, e).account = a /\ e[1] <= n}

(* Of two transfers on one account the one that commits later is dated      *)
(* later.                                                                   *)
Spaced ==
    \A d, e \in Entries(book) :
        EntryOf(book, d).account = EntryOf(book, e).account /\ d[1] < e[1] =>
            CreatedAt(d) < CreatedAt(e)

(* A walk has shown the newest of the entries S, in order, and its cursor   *)
(* tells how many: those since its position, one of theirs, and offset more.*)
Shown(w, S) ==
    LET n == Len(w.pages)
    IN  /\ w.pages \in Seq(S)
        /\ n <= Cardinality(S)
        /\ \A j \in 1..n : w.pages[j] = NewestFirst(S)[j]
        /\ w.cursor = None => n = Cardinality(S)
        /\ w.cursor # None =>
              /\ w.cursor \in [position : Nat, offset : Nat]
              /\ n = Cardinality(Since(S, w.cursor.position)) + w.cursor.offset
              /\ \E e \in S : CreatedAt(e) = w.cursor.position

WalkInv ==
    \A w, S :
        w = walk /\ w # None /\ S = KeptIn(book, w.account, w.known) =>
            /\ w.account \in Listed /\ w.known \in 0..Len(book)
            /\ Shown(w, S)

(* Every transfer in the book was asked for.                                *)
BookAskedFor == \A i \in DOMAIN book : book[i] \in Row

PagesInv == Spaced /\ WalkInv

(* No transfer has more entries on a listed account than a page has rows    *)
(* (page_size is 50, and a capital call has a leg on the cash account for   *)
(* each partner).  With more, a first page of one moment has no position to *)
(* go on from, and a commit moves what its offset counts.                   *)
FitsPage ==
    \A r \in Row, a \in Listed :
        Cardinality({j \in DOMAIN r.legs : r.legs[j].account = a}) <= PageSize

(* What is on an account can be put in order.                               *)
LEMMA KeptInOrder ==
    ASSUME LedgerInv, Times, Spaced, NEW a, NEW n
    PROVE  /\ Orderly(KeptIn(book, a, n))
           /\ \A d, e \in KeptIn(book, a, n) :
                 /\ d[1] \in DOMAIN book /\ d[1] \in Nat
                 /\ d[2] \in DOMAIN book[d[1]].legs /\ d[2] \in Nat
                 /\ d = <<d[1], d[2]>>
                 /\ d[1] < e[1] => CreatedAt(d) < CreatedAt(e)
<1> DEFINE S == KeptIn(book, a, n)
<1>1. book \in Seq(TransferRow) /\ IsFiniteSet(Entries(book))
  BY DEF LedgerInv, TypeOK, FundsInv
<1>2. ASSUME NEW d \in S
      PROVE  /\ d[1] \in DOMAIN book /\ d[1] \in Nat
             /\ d[2] \in DOMAIN book[d[1]].legs /\ d[2] \in Nat
             /\ d = <<d[1], d[2]>>
             /\ CreatedAt(d) \in Nat
  <2>1. PICK i \in DOMAIN book : d \in {i} \X DOMAIN book[i].legs
    BY DEF KeptIn, Entries
  <2>2. book[i] \in TransferRow /\ i \in Nat
    BY <1>1
  <2>3. book[i].legs \in Seq(Leg)
    BY <2>2 DEF TransferRow
  <2>4. created[i] \in Nat
    BY <1>1 DEF Times
  <2>5. d[1] = i /\ d[2] \in DOMAIN book[i].legs /\ d = <<d[1], d[2]>>
    BY <2>1
  <2>6. d[2] \in Nat
    BY <2>3, <2>5
  <2> QED  BY <2>2, <2>4, <2>5, <2>6 DEF CreatedAt
<1>3. \A d, e \in S : d[1] < e[1] => CreatedAt(d) < CreatedAt(e)
  BY DEF KeptIn, Spaced
<1>4. IsFiniteSet(S)
  BY <1>1, FS_Subset DEF KeptIn
<1>5. ASSUME NEW d \in S, NEW e \in S, CreatedAt(d) = CreatedAt(e), d[2] = e[2]
      PROVE  d = e
  <2>1. ~(d[1] < e[1]) /\ ~(e[1] < d[1])
    BY <1>2, <1>3, <1>5
  <2>2. d[1] = e[1]
    BY <1>2, <2>1
  <2> QED  BY <1>2, <1>5, <2>2
<1>6. Orderly(S)
  BY <1>2, <1>4, <1>5 DEF Orderly
<1> QED  BY <1>2, <1>3, <1>6

(* What a walk has shown stays what it was, whatever commits meanwhile.     *)
LEMMA ShownStays ==
    ASSUME NEW S, \A e \in S : CreatedAt(e)' = CreatedAt(e),
           NEW w, Shown(w, S)
    PROVE  Shown(w, S)'
<1>1. NewestFirst(S)' = NewestFirst(S)
  BY ListStays
<1>2. \A t : Since(S, t)' = Since(S, t)
  BY DEF Since
<1> QED  BY <1>1, <1>2 DEF Shown

(* The entries on an account are those of all transfers.                    *)
LEMMA OnIsKept ==
    ASSUME LedgerInv, NEW a
    PROVE  On(a) = KeptIn(book, a, Len(book))
<1>1. book \in Seq(TransferRow)
  BY DEF LedgerInv, TypeOK
<1>2. \A e \in Entries(book) : /\ EntryOf(book, e) \in Leg
                               /\ e[1] \in DOMAIN book
  BY <1>1, EntriesAreLegs DEF Entries
<1>3. \A e \in Entries(book) :
         /\ EntryOf(book, e).direction \in {"DEBIT", "CREDIT"}
         /\ e[1] <= Len(book)
  BY <1>1, <1>2 DEF Leg
<1> QED  BY <1>3 DEF On, EntriesOn, KeptIn

(* The rest of a sequence after the first ones.                             *)
LEMMA RestOfSequence ==
    ASSUME NEW T, NEW s \in Seq(T), NEW o \in Nat, o <= Len(s)
    PROVE  LET u == SubSeq(s, o + 1, Len(s)) IN
           /\ u \in Seq(T) /\ Len(u) = Len(s) - o
           /\ \A j \in 1..(Len(s) - o) : u[j] = s[o + j]
  OBVIOUS

(* A page is the first of them.                                             *)
LEMMA PageOfSequence ==
    ASSUME NEW T, NEW s \in Seq(T)
    PROVE  LET u == PageOf(s)
               k == IF PageSize < Len(s) THEN PageSize ELSE Len(s)
           IN  /\ u \in Seq(T) /\ Len(u) = k
               /\ \A j \in 1..k : u[j] = s[j]
<1> DEFINE k == IF PageSize < Len(s) THEN PageSize ELSE Len(s)
<1>1. PageSize \in Nat /\ Len(s) \in Nat
  BY HistoryAssumption
<1>2. k \in {PageSize, Len(s)} /\ \A y \in {PageSize, Len(s)} : k <= y
  BY <1>1
<1>3. Min({PageSize, Len(s)}) = k
  BY <1>1, <1>2 DEF Min
<1>4. k \in Nat /\ k <= Len(s)
  BY <1>1
<1> HIDE DEF k
<1>5. SubSeq(s, 1, k) \in Seq(T) /\ Len(SubSeq(s, 1, k)) = k
      /\ \A j \in 1..k : SubSeq(s, 1, k)[j] = s[j]
  BY <1>4
<1> QED  BY <1>3, <1>5 DEF PageOf, k

(* A cursor points to the place up to which the list has been shown.        *)
LEMMA CursorPoints ==
    ASSUME NEW S, Orderly(S), NEW w, Shown(w, S), w.cursor # None
    PROVE  LET t == w.cursor.position
               o == w.cursor.offset
               n == Len(w.pages)
               R == Older(S, t)
               M == SubSeq(NewestFirst(R), o + 1, Cardinality(R))
           IN  /\ t \in Nat /\ t # None
               /\ \E e \in S : CreatedAt(e) = t
               /\ M \in Seq(S) /\ Len(M) = Cardinality(S) - n
               /\ \A j \in 1..(Cardinality(S) - n) :
                     M[j] = NewestFirst(S)[n + j]
<1> DEFINE t == w.cursor.position
           o == w.cursor.offset
           n == Len(w.pages)
           R == Older(S, t)
           c == Cardinality(Since(S, t))
           M == SubSeq(NewestFirst(R), o + 1, Cardinality(R))
<1>1. /\ t \in Nat /\ o \in Nat /\ n \in Nat /\ n <= Cardinality(S)
      /\ n = c + o
      /\ \E e \in S : CreatedAt(e) = t
  BY DEF Shown
<1>2. t # None
  BY <1>1, HistoryAssumption
<1> HIDE DEF t, o, n
<1>3. Orderly(R) /\ Cardinality(R) \in Nat /\ c \in Nat
  BY <1>1, EndOfList
<1>4. Cardinality(S) = c + Cardinality(R)
  BY <1>1, EndOfList
<1>5. \A j \in 1..Cardinality(R) : NewestFirst(R)[j] = NewestFirst(S)[c + j]
  BY <1>1, EndOfList
<1>6. R \in SUBSET S
  BY DEF Older
<1> HIDE DEF R, c
<1>7. NewestFirst(R) \in Seq(R) /\ Len(NewestFirst(R)) = Cardinality(R)
  BY <1>3, NewestFirstLists
<1>8. NewestFirst(R) \in Seq(S)
  BY <1>6, <1>7
<1>9. o <= Cardinality(R) /\ Cardinality(R) - o = Cardinality(S) - n
  BY <1>1, <1>3, <1>4
<1>10. /\ M \in Seq(S) /\ Len(M) = Cardinality(R) - o
       /\ \A j \in 1..(Cardinality(R) - o) : M[j] = NewestFirst(R)[o + j]
  BY <1>1, <1>7, <1>8, <1>9, RestOfSequence
<1>11. ASSUME NEW j \in 1..(Cardinality(S) - n)
       PROVE  M[j] = NewestFirst(S)[n + j]
  <2>1. j \in 1..(Cardinality(R) - o)
    BY <1>9
  <2>2. o + j \in 1..Cardinality(R) /\ c + (o + j) = n + j
    BY <1>1, <1>3, <2>1
  <2> HIDE DEF M
  <2>3. M[j] = NewestFirst(R)[o + j]
    BY <1>10, <2>1
  <2>4. NewestFirst(R)[o + j] = NewestFirst(S)[c + (o + j)]
    BY <1>5, <2>2
  <2> QED  BY <2>2, <2>3, <2>4
<1> QED  BY <1>1, <1>2, <1>9, <1>10, <1>11 DEF M, R, t, o, n

(* What a cursor reads is what has not been shown yet: nothing that came    *)
(* since is as old as its position.                                         *)
LEMMA CursorReadsOn ==
    ASSUME LedgerInv, Times, Spaced, NEW w, w.known \in 0..Len(book),
           NEW S, S = KeptIn(book, w.account, w.known),
           Shown(w, S), w.cursor # None
    PROVE  LET M == From(w.account, w.cursor)
               n == Len(w.pages)
           IN  /\ M \in Seq(S) /\ Len(M) = Cardinality(S) - n
               /\ \A j \in 1..(Cardinality(S) - n) :
                     M[j] = NewestFirst(S)[n + j]
<1> DEFINE t == w.cursor.position
           a == w.account
<1>1. Orderly(S) /\ \A e \in S : CreatedAt(e) \in Nat
  BY KeptInOrder DEF Orderly
<1>2. t \in Nat /\ t # None /\ \E e \in S : CreatedAt(e) = t
  BY <1>1, CursorPoints
<1>3. On(a) = KeptIn(book, a, Len(book))
  BY OnIsKept
<1>4. \A d, e \in On(a) : /\ d[1] \in Nat /\ CreatedAt(d) \in Nat
                          /\ d[1] < e[1] => CreatedAt(d) < CreatedAt(e)
  BY <1>3, KeptInOrder DEF Orderly
<1>5. S \subseteq On(a) /\ \A e \in On(a) : e \in S <=> e[1] <= w.known
  <2>1. \A e \in S : e[1] \in Nat
    BY KeptInOrder
  <2>2. Len(book) \in Nat /\ w.known \in Nat /\ w.known <= Len(book)
    BY DEF LedgerInv, TypeOK
  <2> QED  BY <1>3, <2>1, <2>2 DEF KeptIn
<1>6. {e \in On(a) : OlderThan(e, t)} = Older(S, t)
  <2>1. ASSUME NEW e \in On(a), CreatedAt(e) < t PROVE e \in S
    <3>1. PICK d \in S : CreatedAt(d) = t
      BY <1>2
    <3>2. d \in On(a) /\ d[1] <= w.known
      BY <1>5, <3>1
    <3>3. ~(d[1] < e[1])
      BY <1>4, <2>1, <3>1, <3>2
    <3>4. d[1] \in Nat /\ e[1] \in Nat /\ w.known \in Nat
      BY <1>4, <3>2 DEF LedgerInv, TypeOK
    <3>5. e[1] <= w.known
      BY <3>2, <3>3, <3>4
    <3> QED  BY <1>5, <3>5
  <2> QED  BY <1>2, <1>5, <2>1 DEF OlderThan, Older
<1>7. From(a, w.cursor) =
        SubSeq(NewestFirst(Older(S, t)), w.cursor.offset + 1,
               Cardinality(Older(S, t)))
  BY <1>6 DEF From
<1> QED  BY <1>1, <1>7, CursorPoints

(* A transfer that commits is later than those on its accounts.             *)
LEMMA SpacedStep ==
    ASSUME LedgerInv, Times, Spaced, NEW w \in Worker, Record(w), Dated(w)
    PROVE  Spaced'
<1>1. /\ row[w] \in TransferRow /\ book \in Seq(TransferRow)
      /\ book' = Append(book, row[w])
      /\ \A e \in Entries(book) : CreatedAt(e)' = CreatedAt(e)
      /\ \A e \in Own(w) : CreatedAt(e)' = stamp[w]
  BY RecordedEntries
<1>2. /\ Entries(book') = Entries(book) \cup Own(w)
      /\ \A e \in Entries(book) : EntryOf(book', e) = EntryOf(book, e)
      /\ \A j \in DOMAIN row[w].legs :
            EntryOf(book', <<Len(book) + 1, j>>) = row[w].legs[j]
  BY <1>1, EntriesOfAppend DEF Own
<1>3. \A e \in Own(w) : /\ EntryOf(book', e).account \in Touched(row[w].legs)
                        /\ e[1] = Len(book) + 1
  BY <1>2 DEF Own, Touched
<1>4. \A e \in Entries(book) : e[1] \in 1..Len(book)
  BY <1>1 DEF Entries
<1>5. Len(book) \in Nat /\ pc[w] \in Inserted
  BY <1>1 DEF Record, Commit, Inserted
<1>6. ASSUME NEW d \in Entries(book'), NEW e \in Entries(book'),
             EntryOf(book', d).account = EntryOf(book', e).account, d[1] < e[1]
      PROVE  CreatedAt(d)' < CreatedAt(e)'
  <2>1. d \in Entries(book)
    <3>1. CASE e \in Own(w)
      BY <1>2, <1>3, <1>5, <1>6, <3>1
    <3>2. CASE e \in Entries(book)
      BY <1>2, <1>3, <1>4, <1>5, <1>6, <3>2
    <3> QED  BY <1>2, <3>1, <3>2
  <2>2. CASE e \in Entries(book)
    BY <1>1, <1>2, <1>6, <2>1, <2>2 DEF Spaced
  <2>3. CASE e \in Own(w)
    <3>1. EntryOf(book, d).account \in Touched(row[w].legs)
      BY <1>2, <1>3, <1>6, <2>1, <2>3
    <3>2. CreatedAt(d) < stamp[w]
      BY <1>5, <2>1, <3>1 DEF Dated
    <3> QED  BY <1>1, <2>1, <2>3, <3>2
  <2> QED  BY <1>2, <2>2, <2>3
<1>7. Spaced' <=>
        \A d, e \in Entries(book') :
            EntryOf(book', d).account = EntryOf(book', e).account
              /\ d[1] < e[1] => CreatedAt(d)' < CreatedAt(e)'
  BY DEF Spaced
<1> QED  BY <1>6, <1>7

(* What is kept in the first transfers does not change with one more.       *)
LEMMA KeptLater ==
    ASSUME NEW b \in Seq(TransferRow), NEW t \in TransferRow, NEW a,
           NEW n \in 0..Len(b)
    PROVE  KeptIn(Append(b, t), a, n) = KeptIn(b, a, n)
<1>1. /\ Entries(Append(b, t)) = Entries(b) \cup ({Len(b) + 1} \X DOMAIN t.legs)
      /\ \A e \in Entries(b) : EntryOf(Append(b, t), e) = EntryOf(b, e)
  BY EntriesOfAppend
<1>2. \A e \in {Len(b) + 1} \X DOMAIN t.legs : ~(e[1] <= n)
  OBVIOUS
<1> QED  BY <1>1, <1>2 DEF KeptIn

(* A walk that does not go on is not disturbed.                             *)
LEMMA WalkStays ==
    ASSUME LedgerInv, Times, WalkInv, walk' = walk,
           \/ UNCHANGED <<book, created>>
           \/ \E v \in Worker : Record(v) /\ Dated(v)
    PROVE  WalkInv'
<1> SUFFICES ASSUME NEW w, NEW S, w = walk, w # None,
                    S = KeptIn(book', w.account, w.known)
             PROVE  /\ w.account \in Listed /\ w.known \in 0..Len(book')
                    /\ Shown(w, S)'
  BY DEF WalkInv
<1>1. \A T : T = KeptIn(book, w.account, w.known) =>
          /\ w.account \in Listed /\ w.known \in 0..Len(book)
          /\ Shown(w, T)
  BY DEF WalkInv
<1>2. CASE UNCHANGED <<book, created>>
  <2>1. \A e \in S : CreatedAt(e)' = CreatedAt(e)
    BY <1>2 DEF CreatedAt
  <2>2. Shown(w, S)
    BY <1>1, <1>2
  <2>3. Shown(w, S)'
    BY <2>1, <2>2, ShownStays
  <2> QED  BY <1>1, <1>2, <2>3
<1>3. ASSUME NEW v \in Worker, Record(v), Dated(v)
      PROVE  /\ w.account \in Listed /\ w.known \in 0..Len(book')
             /\ Shown(w, S)'
  <2>1. /\ row[v] \in TransferRow /\ book \in Seq(TransferRow)
        /\ book' = Append(book, row[v])
        /\ \A e \in Entries(book) : CreatedAt(e)' = CreatedAt(e)
    BY <1>3, RecordedEntries
  <2>2. w.account \in Listed /\ w.known \in 0..Len(book)
    BY <1>1
  <2>3. S = KeptIn(book, w.account, w.known)
    BY <2>1, <2>2, KeptLater
  <2>4. \A e \in S : CreatedAt(e)' = CreatedAt(e)
    BY <2>1, <2>3 DEF KeptIn
  <2>5. Shown(w, S)
    BY <1>1, <2>3
  <2>6. Shown(w, S)'
    BY <2>4, <2>5, ShownStays
  <2>7. w.known \in 0..Len(book')
    BY <2>1, <2>2
  <2> QED  BY <2>2, <2>6, <2>7
<1> QED  BY <1>2, <1>3

(* A page more of the list.                                                 *)
LEMMA PageShows ==
    ASSUME NEW S, NEW L, NEW pages \in Seq(S), NEW M, NEW P \in Seq(S),
           \A j \in 1..Len(pages) : pages[j] = L[j],
           \A j \in 1..Len(P) : P[j] = M[j],
           \A j \in 1..Len(P) : M[j] = L[Len(pages) + j]
    PROVE  \A j \in 1..(Len(pages) + Len(P)) : (pages \o P)[j] = L[j]
<1> SUFFICES ASSUME NEW j \in 1..(Len(pages) + Len(P))
             PROVE  (pages \o P)[j] = L[j]
  OBVIOUS
<1>1. (pages \o P)[j] = IF j <= Len(pages) THEN pages[j] ELSE P[j - Len(pages)]
  BY ConcatProperties
<1>2. Len(pages) \in Nat /\ Len(P) \in Nat
  OBVIOUS
<1>3. CASE j <= Len(pages)
  <2>1. j \in 1..Len(pages)
    BY <1>2, <1>3
  <2> QED  BY <1>1, <1>3, <2>1
<1>4. CASE ~(j <= Len(pages))
  <2>1. j - Len(pages) \in 1..Len(P) /\ Len(pages) + (j - Len(pages)) = j
    BY <1>2, <1>4
  <2>2. P[j - Len(pages)] = L[Len(pages) + (j - Len(pages))]
    BY <2>1
  <2> QED  BY <1>1, <1>4, <2>1, <2>2
<1> QED  BY <1>3, <1>4

(* The moment of the last entry before a gap counts the entries up to it.   *)
LEMMA PositionCounts ==
    ASSUME NEW S, Orderly(S), NEW p \in Nat, p \in 1..Cardinality(S),
           p + 1 \in 1..Cardinality(S),
           CreatedAt(NewestFirst(S)[p]) # CreatedAt(NewestFirst(S)[p + 1])
    PROVE  /\ NewestFirst(S)[p] \in S
           /\ CreatedAt(NewestFirst(S)[p]) \in Nat
           /\ Cardinality(Since(S, CreatedAt(NewestFirst(S)[p]))) = p
<1> DEFINE d == NewestFirst(S)[p]
           e == NewestFirst(S)[p + 1]
<1>1. /\ d \in S /\ e \in S /\ Place(S, d) = p - 1 /\ Place(S, e) = (p + 1) - 1
      /\ Newer(d, e)
  <2>1. p < p + 1
    OBVIOUS
  <2> QED  BY <2>1, NewestFirstLists
<1>2. CreatedAt(d) # CreatedAt(e)
  OBVIOUS
<1> HIDE DEF d, e
<1>3. \A x \in S : CreatedAt(x) \in Nat
  BY DEF Orderly
<1>4. CreatedAt(d) > CreatedAt(e)
  BY <1>1, <1>2 DEF Newer
<1>5. Since(S, CreatedAt(d)) = Before(S, e)
  <2>1. ASSUME NEW x \in S, CreatedAt(d) <= CreatedAt(x)
        PROVE  Newer(x, e)
    <3>1. CreatedAt(x) > CreatedAt(e)
      BY <1>1, <1>3, <1>4, <2>1
    <3> QED  BY <3>1 DEF Newer
  <2>2. ASSUME NEW x \in S, Newer(x, e)
        PROVE  CreatedAt(d) <= CreatedAt(x)
    <3>1. Place(S, x) < p + 1 - 1 /\ Place(S, x) \in Nat
      BY <1>1, <2>2, PlacesInOrder
    <3>2. ~(p - 1 < Place(S, x))
      BY <3>1
    <3>3. ~Newer(d, x)
      BY <1>1, <3>2, PlacesInOrder
    <3> QED  BY <1>1, <1>3, <3>3 DEF Newer
  <2> QED  BY <2>1, <2>2 DEF Since, Before
<1>6. Cardinality(Since(S, CreatedAt(d))) = p
  BY <1>1, <1>5 DEF Place
<1> QED  BY <1>1, <1>3, <1>6 DEF d

(* The last entries of a page at a moment before that of the next.          *)
Marks(rows) ==
    {j \in 1..PageSize : CreatedAt(rows[j]) # CreatedAt(rows[j + 1])}

(* After a page with more to come the cursor tells what has been shown.     *)
LEMMA CursorMoves ==
    ASSUME NEW S, Orderly(S), NEW n \in Nat, n <= Cardinality(S),
           NEW M, Cardinality(S) - n > PageSize,
           \A j \in 1..(Cardinality(S) - n) : M[j] = NewestFirst(S)[n + j],
           NEW cursor,
           \/ Marks(M) # {}
           \/ /\ cursor \in [position : Nat, offset : Nat]
              /\ n = Cardinality(Since(S, cursor.position)) + cursor.offset
              /\ \E e \in S : CreatedAt(e) = cursor.position
    PROVE  LET c == NextCursor(cursor, M) IN
           /\ c \in [position : Nat, offset : Nat]
           /\ n + PageSize = Cardinality(Since(S, c.position)) + c.offset
           /\ \E e \in S : CreatedAt(e) = c.position
<1> DEFINE L == NewestFirst(S)
           N == Cardinality(S)
           c == NextCursor(cursor, M)
<1>1. N \in Nat /\ PageSize \in Nat
  BY FS_CardinalityType, HistoryAssumption DEF Orderly
<1>2. c = IF Marks(M) = {} THEN [cursor EXCEPT !.offset = @ + PageSize]
          ELSE [position |-> CreatedAt(M[Max(Marks(M))]),
                offset |-> PageSize - Max(Marks(M))]
  BY DEF NextCursor, Marks
<1> HIDE DEF c, N, L
<1>3. CASE Marks(M) = {}
  <2>1. /\ cursor \in [position : Nat, offset : Nat]
        /\ n = Cardinality(Since(S, cursor.position)) + cursor.offset
        /\ \E e \in S : CreatedAt(e) = cursor.position
    BY <1>3
  <2>2. c = [cursor EXCEPT !.offset = @ + PageSize]
    BY <1>2, <1>3
  <2>3. /\ c \in [position : Nat, offset : Nat] /\ c.position = cursor.position
        /\ c.offset = cursor.offset + PageSize
    BY <1>1, <2>1, <2>2
  <2>4. Cardinality(Since(S, cursor.position)) \in Nat
    BY <2>1, EndOfList
  <2>5. n + PageSize = Cardinality(Since(S, cursor.position))
                         + (cursor.offset + PageSize)
    BY <1>1, <2>1, <2>4
  <2> QED  BY <2>1, <2>3, <2>5 DEF c
<1>4. CASE Marks(M) # {}
  <2> DEFINE m == Max(Marks(M))
  <2>1. m \in Marks(M)
    <3>1. Marks(M) \in SUBSET (1..PageSize) /\ Marks(M) \in SUBSET Nat
      BY <1>1 DEF Marks
    <3>2. IsFiniteSet(1..PageSize)
      BY <1>1, FS_Interval
    <3>3. IsFiniteSet(Marks(M))
      BY <3>1, <3>2, FS_Subset
    <3>4. \E x \in Marks(M) : \A y \in Marks(M) : y <= x
      BY <1>4, <3>1, <3>3, LargestId
    <3>5. \E x \in Marks(M) : \A y \in Marks(M) : x >= y
      BY <3>1, <3>4
    <3> QED  BY <3>5 DEF Max
  <2> HIDE DEF m
  <2>2. m \in 1..PageSize /\ CreatedAt(M[m]) # CreatedAt(M[m + 1])
    BY <2>1 DEF Marks
  <2>3. /\ m \in 1..(N - n) /\ m + 1 \in 1..(N - n)
        /\ n + m \in Nat /\ n + m \in 1..N /\ n + m + 1 \in 1..N
        /\ n + (m + 1) = n + m + 1
    BY <1>1, <2>2 DEF N
  <2>4. M[m] = L[n + m] /\ M[m + 1] = L[n + (m + 1)]
    BY <2>3 DEF N, L
  <2>5. CreatedAt(L[n + m]) # CreatedAt(L[n + m + 1])
    BY <2>2, <2>3, <2>4
  <2>6. /\ L[n + m] \in S /\ CreatedAt(L[n + m]) \in Nat
        /\ Cardinality(Since(S, CreatedAt(L[n + m]))) = n + m
    BY <2>3, <2>5, PositionCounts DEF L, N
  <2>7. c = [position |-> CreatedAt(L[n + m]), offset |-> PageSize - m]
    BY <1>2, <1>4, <2>4 DEF m
  <2>8. PageSize - m \in Nat /\ n + PageSize = (n + m) + (PageSize - m)
    BY <1>1, <2>2
  <2> QED  BY <2>6, <2>7, <2>8 DEF c
<1> QED  BY <1>3, <1>4

(* A page more, and the cursor after it, of a list shown so far.            *)
LEMMA TurnShows ==
    ASSUME NEW S, Orderly(S), NEW pages \in Seq(S), NEW M \in Seq(S),
           Len(pages) <= Cardinality(S), Len(M) = Cardinality(S) - Len(pages),
           \A j \in 1..Len(pages) : pages[j] = NewestFirst(S)[j],
           \A j \in 1..Len(M) : M[j] = NewestFirst(S)[Len(pages) + j],
           NEW cursor,
           Len(M) > PageSize =>
              \/ Marks(M) # {}
              \/ /\ cursor \in [position : Nat, offset : Nat]
                 /\ Len(pages) = Cardinality(Since(S, cursor.position))
                                    + cursor.offset
                 /\ \E e \in S : CreatedAt(e) = cursor.position,
           NEW w, w.pages = pages \o PageOf(M),
           w.cursor = IF Len(M) > PageSize THEN NextCursor(cursor, M) ELSE None
    PROVE  Shown(w, S)
<1> DEFINE L == NewestFirst(S)
           k == IF PageSize < Len(M) THEN PageSize ELSE Len(M)
           P == PageOf(M)
           u == pages \o P
<1>1. L \in Seq(S) /\ Len(L) = Cardinality(S)
  BY NewestFirstLists
<1>2. /\ Len(M) = Len(L) - Len(pages) /\ Len(pages) <= Len(L)
      /\ \A j \in 1..Len(pages) : pages[j] = L[j]
      /\ \A j \in 1..Len(M) : M[j] = L[Len(pages) + j]
  BY <1>1
<1>3. /\ Len(pages) \in Nat /\ Len(M) \in Nat /\ Len(L) \in Nat
      /\ PageSize \in Nat /\ k \in Nat /\ k <= Len(M)
  BY <1>1, HistoryAssumption
<1> HIDE DEF L
<1>4. /\ u \in Seq(S) /\ Len(u) = Len(pages) + k /\ Len(u) <= Len(L)
      /\ \A j \in 1..Len(u) : u[j] = L[j]
  <2>1. P \in Seq(S) /\ Len(P) = k /\ \A j \in 1..k : P[j] = M[j]
    BY PageOfSequence
  <2> HIDE DEF P, k
  <2>2. u \in Seq(S) /\ Len(u) = Len(pages) + Len(P)
    BY <2>1, ConcatProperties
  <2>3. \A j \in 1..Len(P) : P[j] = M[j] /\ M[j] = L[Len(pages) + j]
    BY <1>2, <1>3, <2>1
  <2>4. \A j \in 1..(Len(pages) + Len(P)) : u[j] = L[j]
    BY <1>2, <2>1, <2>3, PageShows
  <2> HIDE DEF u
  <2>5. Len(pages) + k <= Len(L)
    BY <1>2, <1>3
  <2> QED  BY <2>1, <2>2, <2>4, <2>5
<1> HIDE DEF u
<1>5. w.pages = u
  BY DEF u
<1>6. CASE Len(M) > PageSize
  <2>1. w.cursor = NextCursor(cursor, M) /\ k = PageSize
    BY <1>3, <1>6
  <2>2. /\ Cardinality(S) - Len(pages) > PageSize
        /\ \A j \in 1..(Cardinality(S) - Len(pages)) : M[j] = L[Len(pages) + j]
    BY <1>2, <1>6
  <2>3. LET c == NextCursor(cursor, M) IN
        /\ c \in [position : Nat, offset : Nat]
        /\ Len(pages) + PageSize = Cardinality(Since(S, c.position)) + c.offset
        /\ \E e \in S : CreatedAt(e) = c.position
    BY <1>3, <1>6, <2>2, CursorMoves DEF L
  <2>4. w.cursor # None
    BY <2>1, <2>3, HistoryAssumption
  <2>5. /\ w.cursor \in [position : Nat, offset : Nat]
        /\ Len(u) = Cardinality(Since(S, w.cursor.position)) + w.cursor.offset
        /\ \E e \in S : CreatedAt(e) = w.cursor.position
    BY <1>4, <2>1, <2>3
  <2> QED  BY <1>1, <1>4, <1>5, <2>4, <2>5 DEF Shown, L
<1>7. CASE ~(Len(M) > PageSize)
  <2>1. w.cursor = None /\ k = Len(M)
    BY <1>3, <1>7
  <2>2. Len(u) = Cardinality(S)
    BY <1>1, <1>2, <1>3, <1>4, <2>1
  <2> QED  BY <1>1, <1>4, <1>5, <2>1, <2>2 DEF Shown, L
<1> QED  BY <1>6, <1>7

(* Entries of one moment are of one transfer, and fit on a page: a first    *)
(* page with more to come goes over from one moment to another.             *)
LEMMA FirstPageHasAGap ==
    ASSUME FitsPage, LedgerInv, Times, Spaced, BookAskedFor, NEW a \in Listed,
           NEW S, S = KeptIn(book, a, Len(book)), Cardinality(S) > PageSize
    PROVE  \E j \in 1..PageSize :
              CreatedAt(NewestFirst(S)[j]) # CreatedAt(NewestFirst(S)[j + 1])
<1> DEFINE L == NewestFirst(S)
           N == Cardinality(S)
           T == {j \in 1..(PageSize + 1) : CreatedAt(L[j]) # CreatedAt(L[1])}
<1>1. /\ Orderly(S)
      /\ \A d, e \in S :
            /\ d[1] \in DOMAIN book /\ d[1] \in Nat
            /\ d[2] \in DOMAIN book[d[1]].legs /\ d[2] \in Nat
            /\ d = <<d[1], d[2]>>
            /\ d[1] < e[1] => CreatedAt(d) < CreatedAt(e)
      /\ \A d \in S : CreatedAt(d) \in Nat
  BY KeptInOrder DEF Orderly
<1>2. N \in Nat /\ PageSize \in Nat \ {0} /\ PageSize + 1 <= N
  BY <1>1, FS_CardinalityType, HistoryAssumption DEF Orderly
<1>3. \A j \in 1..N : L[j] \in S
  BY <1>1, NewestFirstLists
<1>4. \A j, k \in 1..N : L[j] = L[k] => j = k
  <2>1. L \in Bijection(1..N, S)
    BY <1>1, NewestFirstLists
  <2> QED  BY <2>1 DEF Bijection, Injection, IsInjective
<1>5. \A j \in 1..(PageSize + 1) : j \in 1..N
  BY <1>2
<1> HIDE DEF L, N
<1>6. CASE T = {}
  <2> DEFINE i == L[1][1]
             Had == {j \in DOMAIN book[i].legs : book[i].legs[j].account = a}
             f == [j \in 1..(PageSize + 1) |-> L[j][2]]
  <2>1. 1 \in 1..(PageSize + 1) /\ L[1] \in S
    BY <1>2, <1>3, <1>5
  <2>2. i \in DOMAIN book /\ book[i] \in TransferRow /\ book[i] \in Row
    BY <1>1, <2>1 DEF BookAskedFor, LedgerInv, TypeOK
  <2>3. \A j \in 1..(PageSize + 1) : L[j] \in S /\ L[j][1] = i
    <3> TAKE j \in 1..(PageSize + 1)
    <3>1. L[j] \in S /\ CreatedAt(L[j]) = CreatedAt(L[1])
      BY <1>3, <1>5, <1>6
    <3>2. ~(L[j][1] < L[1][1]) /\ ~(L[1][1] < L[j][1])
      BY <1>1, <2>1, <3>1
    <3>3. L[j][1] \in Nat /\ L[1][1] \in Nat
      BY <1>1, <2>1, <3>1
    <3> QED  BY <3>1, <3>2, <3>3
  <2> HIDE DEF i
  <2>4. \A j \in 1..(PageSize + 1) : L[j][2] \in Had
    <3> TAKE j \in 1..(PageSize + 1)
    <3>1. L[j] \in S /\ L[j][1] = i
      BY <2>3
    <3>2. L[j][2] \in DOMAIN book[i].legs
      BY <1>1, <3>1
    <3>3. book[i].legs[L[j][2]].account = a
      BY <3>1 DEF KeptIn, EntryOf
    <3> QED  BY <3>2, <3>3
  <2>5. IsFiniteSet(Had)
    <3>1. book[i].legs \in Seq(Leg)
      BY <2>2 DEF TransferRow
    <3>2. DOMAIN book[i].legs = 1..Len(book[i].legs) /\ Len(book[i].legs) \in Nat
      BY <3>1
    <3>3. IsFiniteSet(DOMAIN book[i].legs)
      BY <3>2, FS_Interval
    <3>4. Had \in SUBSET (DOMAIN book[i].legs)
      OBVIOUS
    <3> HIDE DEF Had
    <3> QED  BY <3>3, <3>4, FS_Subset
  <2>6. Cardinality(Had) <= PageSize
    BY <2>2 DEF FitsPage
  <2> HIDE DEF Had
  <2>7. f \in [1..(PageSize + 1) -> Had]
    BY <2>4
  <2>8. \A j, k \in 1..(PageSize + 1) : f[j] = f[k] => j = k
    <3> TAKE j, k \in 1..(PageSize + 1)
    <3>1. L[j] = <<L[j][1], L[j][2]>> /\ L[k] = <<L[k][1], L[k][2]>>
      BY <1>1, <2>3
    <3>2. L[j][1] = L[k][1]
      BY <2>3
    <3>3. L[j][2] = L[k][2] => L[j] = L[k]
      BY <3>1, <3>2
    <3> QED  BY <1>4, <1>5, <3>3
  <2>9. f \in Injection(1..(PageSize + 1), Had)
    BY <2>7, <2>8 DEF Injection, IsInjective
  <2>10. Cardinality(1..(PageSize + 1)) <= Cardinality(Had)
    BY <2>5, <2>9, FS_Injection
  <2>11. Cardinality(1..(PageSize + 1)) = PageSize + 1
    BY <1>2, FS_Interval
  <2>12. Cardinality(Had) \in Nat
    BY <2>5, FS_CardinalityType
  <2> QED  BY <1>2, <2>6, <2>10, <2>11, <2>12
<1>7. CASE T # {}
  <2>1. T \in SUBSET Nat
    OBVIOUS
  <2>2. PICK x \in T : \A y \in T : x <= y
    BY <1>7, <2>1, SmallestId
  <2>3. x \in 1..(PageSize + 1) /\ CreatedAt(L[x]) # CreatedAt(L[1])
    OBVIOUS
  <2>4. x # 1
    BY <2>3
  <2>5. x - 1 \in 1..PageSize /\ x - 1 \in 1..(PageSize + 1) /\ x - 1 + 1 = x
    BY <1>2, <2>3, <2>4
  <2>6. x - 1 \notin T
    BY <2>2, <2>3
  <2>7. CreatedAt(L[x - 1]) = CreatedAt(L[1])
    BY <2>5, <2>6
  <2>8. CreatedAt(L[x - 1]) # CreatedAt(L[x - 1 + 1])
    BY <2>3, <2>5, <2>7
  <2> QED  BY <2>5, <2>8 DEF L
<1> QED  BY <1>6, <1>7

(* The first page is of all entries on the account, as they are.            *)
LEMMA FirstPageShows ==
    ASSUME FitsPage, LedgerInv, Times, Spaced, BookAskedFor,
           NEW a \in Listed, FirstPage(a), NEW w, w = walk',
           NEW S, S = KeptIn(book, a, Len(book))
    PROVE  w.account = a /\ w.known = Len(book) /\ Shown(w, S)
<1> DEFINE L == NewestFirst(S)
           M == From(a, Newest)
           none == <<>>
<1>1. Orderly(S)
  BY KeptInOrder
<1>2. On(a) = S
  BY OnIsKept
<1>3. {e \in On(a) : OlderThan(e, Newest.position)} = S
  BY <1>2 DEF OlderThan, Newest
<1>4. M = SubSeq(L, 0 + 1, Cardinality(S))
  BY <1>3 DEF From, Newest
<1>5. L \in Seq(S) /\ Len(L) = Cardinality(S) /\ Cardinality(S) \in Nat
  BY <1>1, NewestFirstLists, PlacesAreTaken
<1>6. w = [account |-> a, known |-> Len(book), pages |-> none \o PageOf(M),
           cursor |-> IF Len(M) > PageSize THEN NextCursor(Newest, M) ELSE None]
  BY DEF FirstPage, Turn
<1> HIDE DEF L, M
<1>7. /\ M \in Seq(S) /\ Len(M) = Len(L) - 0
      /\ \A j \in 1..(Len(L) - 0) : M[j] = L[0 + j]
  BY <1>4, <1>5, RestOfSequence
<1>8. none \in Seq(S) /\ Len(none) = 0 /\ \A j \in 1..Len(none) : none[j] = L[j]
  OBVIOUS
<1> HIDE DEF none
<1>9. /\ w.account = a /\ w.known = Len(book)
      /\ w.pages = none \o PageOf(M)
      /\ w.cursor = IF Len(M) > PageSize THEN NextCursor(Newest, M) ELSE None
  BY <1>6
<1>10. ASSUME Len(M) > PageSize PROVE Marks(M) # {}
  <2>1. PageSize \in Nat /\ Len(M) = Cardinality(S)
    BY <1>5, <1>7, HistoryAssumption
  <2>2. PICK j \in 1..PageSize : CreatedAt(L[j]) # CreatedAt(L[j + 1])
    BY <1>10, <2>1, FirstPageHasAGap DEF L
  <2>3. M[j] = L[0 + j] /\ M[j + 1] = L[0 + (j + 1)]
    BY <1>5, <1>7, <1>10, <2>1
  <2>4. CreatedAt(M[j]) # CreatedAt(M[j + 1])
    BY <2>2, <2>3
  <2> QED  BY <2>4 DEF Marks
<1>11. /\ Len(none) <= Cardinality(S) /\ Len(M) = Cardinality(S) - Len(none)
       /\ \A j \in 1..Len(none) : none[j] = NewestFirst(S)[j]
       /\ \A j \in 1..Len(M) : M[j] = NewestFirst(S)[Len(none) + j]
  BY <1>5, <1>7, <1>8 DEF L
<1>12. w.pages = none \o PageOf(M)
  BY <1>9
<1>13. w.cursor = IF Len(M) > PageSize THEN NextCursor(Newest, M) ELSE None
  BY <1>9
<1>14. M \in Seq(S) /\ none \in Seq(S)
  BY <1>7, <1>8
<1>15. Shown(w, S)
  BY <1>1, <1>10, <1>11, <1>12, <1>13, <1>14, TurnShows
<1> QED  BY <1>9, <1>15

(* A next page goes on with the entries there were at the first.            *)
LEMMA NextPageShows ==
    ASSUME LedgerInv, Times, Spaced, NEW v, v.known \in 0..Len(book),
           NEW S, S = KeptIn(book, v.account, v.known),
           Shown(v, S), v.cursor # None,
           NEW M, M = From(v.account, v.cursor),
           NEW w, w.pages = v.pages \o PageOf(M),
           w.cursor = IF Len(M) > PageSize THEN NextCursor(v.cursor, M) ELSE None
    PROVE  Shown(w, S)
<1> DEFINE n == Len(v.pages)
<1>1. Orderly(S)
  BY KeptInOrder
<1>2. /\ M \in Seq(S) /\ Len(M) = Cardinality(S) - n
      /\ \A j \in 1..(Cardinality(S) - n) : M[j] = NewestFirst(S)[n + j]
  <2>1. LET N == From(v.account, v.cursor)
            m == Len(v.pages)
        IN  /\ N \in Seq(S) /\ Len(N) = Cardinality(S) - m
            /\ \A j \in 1..(Cardinality(S) - m) :
                  N[j] = NewestFirst(S)[m + j]
    BY Zenon, CursorReadsOn
  <2> QED  BY Zenon, <2>1
<1>3. /\ v.pages \in Seq(S) /\ n <= Cardinality(S)
      /\ \A j \in 1..n : v.pages[j] = NewestFirst(S)[j]
      /\ v.cursor \in [position : Nat, offset : Nat]
      /\ n = Cardinality(Since(S, v.cursor.position)) + v.cursor.offset
      /\ \E e \in S : CreatedAt(e) = v.cursor.position
  BY DEF Shown
<1>4. \A j \in 1..Len(M) : M[j] = NewestFirst(S)[n + j]
  BY <1>2
<1> QED  BY <1>1, <1>2, <1>3, <1>4, TurnShows

(* Every step keeps the entries spaced and the walk right.                  *)
LEMMA PagesStep ==
    ASSUME FitsPage, LedgerInv, HistoryInv, BookAskedFor, PagesInv,
           [HistoryNext]_historyVars
    PROVE  PagesInv'
<1>1. Times /\ (\A w \in Worker : Dated(w)) /\ Spaced /\ WalkInv
  BY DEF HistoryInv, PagesInv
<1>2. ASSUME UNCHANGED <<book, created>>
      PROVE  Spaced'
  BY <1>1, <1>2 DEF Spaced, CreatedAt
<1>3. ASSUME UNCHANGED <<book, created, walk>>
      PROVE  PagesInv'
  BY <1>1, <1>2, <1>3, WalkStays DEF PagesInv
<1>4. CASE Serve
  <2>1. UNCHANGED <<book, created, walk>>
    BY <1>1, <1>4, ServeKeepsTimes DEF Serve
  <2> QED  BY <1>3, <2>1
<1>5. ASSUME NEW w \in Worker, Record(w)
      PROVE  PagesInv'
  <2>1. walk' = walk /\ Dated(w)
    BY <1>1, <1>5 DEF Record
  <2>2. WalkInv'
    BY <1>1, <1>5, <2>1, WalkStays
  <2>3. Spaced'
    BY <1>1, <1>5, <2>1, SpacedStep
  <2> QED  BY <2>2, <2>3 DEF PagesInv
<1>6. CASE Pass
  BY <1>3, <1>6 DEF Pass, vars
<1>7. ASSUME UNCHANGED <<book, created>>,
             \A w, S : w = walk' /\ w # None /\ S = KeptIn(book, w.account, w.known)
                => /\ w.account \in Listed /\ w.known \in 0..Len(book)
                   /\ Shown(w, S)
      PROVE  PagesInv'
  <2> SUFFICES ASSUME NEW w, NEW S, w = walk', w # None,
                      S = KeptIn(book', w.account, w.known)
               PROVE  /\ w.account \in Listed /\ w.known \in 0..Len(book')
                      /\ Shown(w, S)'
    BY <1>2, <1>7 DEF PagesInv, WalkInv
  <2>1. /\ w.account \in Listed /\ w.known \in 0..Len(book)
        /\ Shown(w, S)
    BY <1>7
  <2>2. \A e \in S : CreatedAt(e)' = CreatedAt(e)
    BY <1>7 DEF CreatedAt
  <2>3. Shown(w, S)'
    BY <2>1, <2>2, ShownStays
  <2> QED  BY <1>7, <2>1, <2>3
<1>8. ASSUME NEW a \in Listed, FirstPage(a)
      PROVE  PagesInv'
  <2>1. UNCHANGED <<book, created>>
    BY <1>8 DEF FirstPage, vars, times
  <2>2. ASSUME NEW w, NEW S, w = walk', S = KeptIn(book, w.account, w.known)
        PROVE  /\ w.account \in Listed /\ w.known \in 0..Len(book)
               /\ Shown(w, S)
    <3>1. w.account = a /\ w.known = Len(book)
      BY <1>1, <1>8, <2>2, FirstPageShows
    <3>2. S = KeptIn(book, a, Len(book))
      BY <2>2, <3>1
    <3>3. Shown(w, S)
      BY <1>1, <1>8, <2>2, <3>2, FirstPageShows
    <3>4. Len(book) \in Nat
      BY DEF LedgerInv, TypeOK
    <3> QED  BY <3>1, <3>3, <3>4
  <2> QED  BY <1>7, <2>1, <2>2
<1>9. CASE NextPage
  <2>1. UNCHANGED <<book, created>>
    BY <1>9 DEF NextPage, vars, times
  <2>2. ASSUME NEW w, NEW S, w = walk', S = KeptIn(book, w.account, w.known)
        PROVE  /\ w.account \in Listed /\ w.known \in 0..Len(book)
               /\ Shown(w, S)
    <3>1. PICK v : v = walk
      OBVIOUS
    <3>2. PICK T : T = KeptIn(book, v.account, v.known)
      OBVIOUS
    <3>3. v # None
      BY <1>9, <3>1 DEF NextPage
    <3>4. v.account \in Listed /\ v.known \in 0..Len(book) /\ Shown(v, T)
      BY <1>1, <3>1, <3>2, <3>3 DEF WalkInv
    <3>5. PICK M : M = From(v.account, v.cursor)
      OBVIOUS
    <3>6. w = [account |-> v.account, known |-> v.known,
               pages |-> v.pages \o PageOf(M),
               cursor |-> IF Len(M) > PageSize THEN NextCursor(v.cursor, M)
                          ELSE None]
      BY <1>9, <2>2, <3>1, <3>5 DEF NextPage, Turn
    <3>7. v.cursor # None
      BY <1>9, <3>1 DEF NextPage
    <3>8. /\ w.account = v.account /\ w.known = v.known
          /\ w.pages = v.pages \o PageOf(M)
          /\ w.cursor = IF Len(M) > PageSize THEN NextCursor(v.cursor, M)
                        ELSE None
      BY <3>6
    <3>9. Shown(w, T)
      BY <1>1, <3>2, <3>4, <3>5, <3>7, <3>8, NextPageShows
    <3>10. S = T
      BY <2>2, <3>2, <3>8
    <3> QED  BY <3>4, <3>8, <3>9, <3>10
  <2> QED  BY <1>7, <2>1, <2>2
<1>10. CASE LastPage
  <2>1. UNCHANGED <<book, created>> /\ walk' = None
    BY <1>10 DEF LastPage, vars, times
  <2> QED  BY <1>7, <2>1
<1>11. CASE UNCHANGED historyVars
  BY <1>3, <1>11 DEF historyVars, vars, times
<1> QED  BY <1>4, <1>5, <1>6, <1>8, <1>9, <1>10, <1>11 DEF HistoryNext

(* So it is in every reachable state.                                       *)
LEMMA PagesInvariant ==
    ASSUME FitsPage
    PROVE  HistorySpec => []PagesInv
<1>1. HistoryInit => PagesInv
  <2> SUFFICES ASSUME HistoryInit
               PROVE  PagesInv
    OBVIOUS
  <2>1. Entries(book) = {} /\ walk = None
    BY DEF HistoryInit, Init, Entries
  <2> QED  BY <2>1 DEF PagesInv, Spaced, WalkInv
<1>2. LedgerInv /\ HistoryInv /\ BookAskedFor /\ PagesInv
        /\ [HistoryNext]_historyVars => PagesInv'
  BY PagesStep
<1>3. HistorySpec => []BookAskedFor
  <2>1. RowInv => BookAskedFor
    BY DEF RowInv, BookAskedFor
  <2> QED  BY <2>1, HistoryIsLedger, RowInvariant, PTL
<1> QED  BY <1>1, <1>2, <1>3, LedgerInvariant, HistoryInvariant, PTL
         DEF HistorySpec

(* The places of a transfer's entries in a list, and its legs on an account.*)
PlacesOf(S, i) == {j \in 1..Cardinality(S) : NewestFirst(S)[j][1] = i}
LegsOn(a, i) == {j \in DOMAIN book[i].legs : book[i].legs[j].account = a}

(* What a walk has shown of one transfer are the legs that it has on the    *)
(* account.                                                                 *)
LEMMA LegsShown ==
    ASSUME LedgerInv, Times, Spaced, NEW a, NEW n \in 0..Len(book),
           NEW S, S = KeptIn(book, a, n), NEW i \in DOMAIN book
    PROVE  Cardinality(PlacesOf(S, i)) = IF i <= n THEN Cardinality(LegsOn(a, i))
                                                   ELSE 0
<1> DEFINE L == NewestFirst(S)
           N == Cardinality(S)
           Of == {j \in 1..N : L[j][1] = i}
           Had == {j \in DOMAIN book[i].legs : book[i].legs[j].account = a}
           f == [j \in Of |-> L[j]]
           E == {i} \X Had
<1>1. /\ Orderly(S)
      /\ \A d \in S : d = <<d[1], d[2]>> /\ d[2] \in DOMAIN book[d[1]].legs
  BY KeptInOrder
<1>2. L \in Bijection(1..N, S) /\ N \in Nat
  BY <1>1, NewestFirstLists, PlacesAreTaken
<1>3. i \in Nat /\ book[i] \in TransferRow
  BY DEF LedgerInv, TypeOK
<1>4. \A d \in S : d[1] <= n /\ d \in Entries(book) /\ EntryOf(book, d).account = a
  BY DEF KeptIn
<1>5. /\ \A j \in 1..N : L[j] \in S
      /\ \A j, k \in 1..N : L[j] = L[k] => j = k
      /\ \A d \in S : \E j \in 1..N : L[j] = d
  BY <1>2 DEF Bijection, Injection, Surjection, IsInjective
<1> HIDE DEF L, N
<1>6. IsFiniteSet(Of)
  <2>1. IsFiniteSet(1..N)
    BY <1>2, FS_Interval
  <2>2. Of \in SUBSET (1..N)
    OBVIOUS
  <2> HIDE DEF Of
  <2> QED  BY <2>1, <2>2, FS_Subset
<1>7. CASE i <= n
  <2>1. \A d \in S : d[1] = i => d \in E
    <3> SUFFICES ASSUME NEW d \in S, d[1] = i
                 PROVE  d \in E
      OBVIOUS
    <3>1. d[2] \in DOMAIN book[i].legs
      BY <1>1
    <3>2. book[i].legs[d[2]].account = a
      BY <1>4 DEF EntryOf
    <3>3. d[2] \in Had /\ d = <<i, d[2]>>
      BY <1>1, <3>1, <3>2
    <3> HIDE DEF Had
    <3> QED  BY <3>3
  <2>2. ASSUME NEW d \in E
        PROVE  d \in S /\ d[1] = i
    <3>1. d \in {i} \X DOMAIN book[i].legs /\ book[i].legs[d[2]].account = a
          /\ d[1] = i
      OBVIOUS
    <3>2. d \in Entries(book)
      BY <3>1 DEF Entries
    <3> QED  BY <1>7, <3>1, <3>2 DEF KeptIn, EntryOf
  <2> HIDE DEF E
  <2>3. f \in [Of -> E]
    <3>1. \A j \in Of : L[j] \in E
      BY <1>5, <2>1
    <3> HIDE DEF Of
    <3> QED  BY <3>1
  <2>4. \A j, k \in Of : f[j] = f[k] => j = k
    BY <1>5
  <2>5. \A d \in E : \E j \in Of : f[j] = d
    <3> TAKE d \in E
    <3>1. PICK j \in 1..N : L[j] = d
      BY <1>5, <2>2
    <3>2. j \in Of
      BY <2>2, <3>1
    <3> HIDE DEF Of
    <3> QED  BY <3>1, <3>2
  <2> HIDE DEF f, Of, Had
  <2>6. f \in Bijection(Of, E)
    BY <2>3, <2>4, <2>5 DEF Bijection, Injection, Surjection, IsInjective
  <2>7. IsFiniteSet(E) /\ Cardinality(E) = Cardinality(Of)
    BY <1>6, <2>6, FS_Bijection DEF ExistsBijection
  <2>8. [j \in Had |-> <<i, j>>] \in Bijection(Had, E)
    BY Pairing DEF E
  <2>9. IsFiniteSet(Had)
    <3>1. book[i].legs \in Seq(Leg)
      BY <1>3 DEF TransferRow
    <3>2. DOMAIN book[i].legs = 1..Len(book[i].legs) /\ Len(book[i].legs) \in Nat
      BY <3>1
    <3>3. IsFiniteSet(DOMAIN book[i].legs)
      BY <3>2, FS_Interval
    <3>4. Had \in SUBSET (DOMAIN book[i].legs)
      BY DEF Had
    <3> QED  BY <3>3, <3>4, FS_Subset
  <2>10. Cardinality(E) = Cardinality(Had)
    BY <2>8, <2>9, FS_Bijection DEF ExistsBijection
  <2>11. Cardinality(Of) = Cardinality(Had)
    BY <2>7, <2>10
  <2> QED  BY <1>7, <2>11 DEF Of, Had, L, N, PlacesOf, LegsOn
<1>8. CASE ~(i <= n)
  <2>1. Of = {}
    BY <1>4, <1>5, <1>8
  <2>2. Cardinality(Of) = 0
    BY <2>1, FS_EmptySet
  <2> QED  BY <1>8, <2>2 DEF L, N, PlacesOf
<1> QED  BY <1>7, <1>8

(* Whoever follows the links to the last page has seen every entry that was *)
(* there when the first page was read, once, and newest first, and nothing  *)
(* that has come since, however many transfers commit meanwhile             *)
(* (AccountEntriesView, EntryCursorPagination): entries are dated under the *)
(* row locks, so what commits later on an account is newer than all a       *)
(* cursor points to.                                                        *)
THEOREM WalksAreExact ==
    ASSUME FitsPage
    PROVE  HistorySpec => []WalkIsExact
<1>1. ASSUME LedgerInv, HistoryInv, PagesInv
      PROVE  WalkIsExact
  <2> SUFFICES ASSUME walk # None, walk.cursor = None
               PROVE  WalkIsExact
    BY DEF WalkIsExact
  <2>1. PICK w : w = walk
    OBVIOUS
  <2>2. PICK S : S = KeptIn(book, w.account, w.known)
    OBVIOUS
  <2>3. Times /\ Spaced /\ w.known \in 0..Len(book) /\ Shown(w, S)
    BY <1>1, <2>1, <2>2 DEF HistoryInv, PagesInv, WalkInv
  <2> DEFINE L == NewestFirst(S)
             N == Cardinality(S)
  <2>4. /\ w.pages \in Seq(S) /\ Len(w.pages) = N
        /\ \A j \in 1..N : w.pages[j] = L[j]
    BY <2>1, <2>3 DEF Shown
  <2>5. /\ Orderly(S)
        /\ \A d, e \in S : /\ d[1] \in Nat
                           /\ d[1] < e[1] => CreatedAt(d) < CreatedAt(e)
        /\ \A d \in S : CreatedAt(d) \in Nat
    BY <1>1, <2>2, <2>3, KeptInOrder DEF Orderly
  <2>6. DOMAIN w.pages = 1..N
    BY <2>4
  <2>7. ASSUME NEW i \in DOMAIN book
        PROVE  Cardinality({j \in DOMAIN w.pages : w.pages[j][1] = i})
                 = IF i <= w.known
                   THEN Cardinality({j \in DOMAIN book[i].legs :
                                        book[i].legs[j].account = w.account})
                   ELSE 0
    <3>1. {j \in DOMAIN w.pages : w.pages[j][1] = i} = PlacesOf(S, i)
      BY <2>4, <2>6 DEF PlacesOf
    <3>2. LedgerInv /\ Times /\ Spaced /\ w.known \in 0..Len(book)
      BY <1>1, <2>3
    <3>3. Cardinality(PlacesOf(S, i))
            = IF i <= w.known THEN Cardinality(LegsOn(w.account, i)) ELSE 0
      BY <2>2, <3>2, LegsShown
    <3> QED  BY <3>1, <3>3 DEF LegsOn
  <2>8. ASSUME NEW j \in DOMAIN w.pages, NEW k \in DOMAIN w.pages, j < k
        PROVE  w.pages[j][1] >= w.pages[k][1]
    <3>1. /\ Newer(L[j], L[k]) /\ L[j] \in S /\ L[k] \in S
          /\ w.pages[j] = L[j] /\ w.pages[k] = L[k]
      BY <2>4, <2>5, <2>6, <2>8, NewestFirstLists
    <3>2. ~(L[j][1] < L[k][1])
      BY <2>5, <3>1 DEF Newer
    <3>3. L[j][1] \in Nat /\ L[k][1] \in Nat
      BY <2>5, <3>1
    <3> QED  BY <3>1, <3>2, <3>3
  <2> QED  BY <2>1, <2>7, <2>8 DEF WalkIsExact
<1> QED  BY <1>1, LedgerInvariant, HistoryInvariant, PagesInvariant, PTL

=============================================================================
