---------------------------- MODULE LedgerProofs ----------------------------
(***************************************************************************)
(* What the ledger engine guarantees for any number of workers, accounts,   *)
(* keys, periods and requests, proved from the specification of Ledger.tla: *)
(* no account is overdrawn, the books balance, nobody waits in a circle; a  *)
(* key makes one transfer, a transfer is reversed once, periods close in    *)
(* order and for good.  So the engine implements AbstractLedger: a commit   *)
(* posts one acceptable transfer, a closing closes the next period, and     *)
(* nothing else changes either.  Last, what clients are told is so and      *)
(* stays so, and a request that was done is never refused.                  *)
(***************************************************************************)
EXTENDS Ledger, BooksProofs

-----------------------------------------------------------------------------
(* The state is well formed. *)

(* A request is one of the three kinds, with the fields of its kind.        *)
LEMMA RequestFields ==
    ASSUME NEW r \in Request
    PROVE  /\ r # None
           /\ r.kind = "transfer" => r \in TransferRequest
           /\ r.kind = "reversal" => r \in ReversalRequest
           /\ r.kind = "close" => r \in CloseRequest
<1>1. r \in TransferRequest \cup ReversalRequest \cup CloseRequest
  BY LedgerAssumption
<1>2. r # None
  BY NoneAssumption
<1>3. CASE r \in TransferRequest
  BY <1>2, <1>3 DEF TransferRequest
<1>4. CASE r \in ReversalRequest
  BY <1>2, <1>4 DEF ReversalRequest
<1>5. CASE r \in CloseRequest
  BY <1>2, <1>5 DEF CloseRequest
<1> QED  BY <1>1, <1>3, <1>4, <1>5

(* The row a request asks for is a transfer row.                            *)
LEMMA RowOfRequest ==
    /\ \A r \in TransferRequest : RowOfTransfer(r) \in TransferRow
    /\ \A r \in ReversalRequest, p \in Period, legs \in Seq(Leg) :
          RowOfReversal(r, p, legs) \in TransferRow
    /\ None \notin TransferRow
<1>1. \A legs \in Seq(Leg) : Flip(legs) \in Seq(Leg)
  BY FlipCancels
<1>2. \A r \in TransferRequest : RowOfTransfer(r) \in TransferRow
  BY DEF RowOfTransfer, TransferRequest, TransferRow
<1>3. \A r \in ReversalRequest, p \in Period, legs \in Seq(Leg) :
         RowOfReversal(r, p, legs) \in TransferRow
  BY <1>1 DEF RowOfReversal, ReversalRequest, TransferRow, TransferType
<1> QED  BY <1>2, <1>3, NoneAssumption

(* The account a worker locks next is one it still has to lock.             *)
LEMMA NextAccountIsUnlocked ==
    ASSUME NEW w \in Worker, Unlocked(w) # {}
    PROVE  NextAccount(w) \in Unlocked(w) /\ NextAccount(w) \in Account
<1>1. Unlocked(w) \subseteq Account
  BY DEF Unlocked
<1>2. \E a \in Unlocked(w) : \A b \in Unlocked(w) : a <= b
  BY <1>1, BooksAssumption, SmallestId
<1> QED  BY <1>1, <1>2 DEF NextAccount

(* A step of w, as Next has it. *)
WorkerStep(w) == \/ \E r \in Request : Arrive(w, r)
                 \/ Proceed(w) \/ Crash(w) \/ Timeout(w)

(* The parts of the state that have a type of their own.                    *)
Typed ==
    /\ book \in Seq(TransferRow)
    /\ status \in [Period -> {"OPEN", "CLOSED"}]
    /\ today \in Day
    /\ pc \in [Worker -> Step]
    /\ req \in [Worker -> Request \cup {None}]
    /\ row \in [Worker -> TransferRow \cup {None}]
    /\ seen \in [Worker -> {"OPEN", "CLOSED"}]
    /\ locked \in [Worker -> SUBSET Account]
    /\ outcome \in [Worker -> Outcome]
    /\ answers \subseteq Request \X (Outcome \ {"none"})
    /\ attempts \in 0..MaxAttempts

(* What the step of w leaves alone of another worker v.                     *)
SameWorker(v) ==
    /\ pc'[v] = pc[v]
    /\ req'[v] = req[v]
    /\ row'[v] = row[v]
    /\ seen'[v] = seen[v]
    /\ locked'[v] = locked[v]
    /\ outcome'[v] = outcome[v]

(* Nobody's state but the worker's own is changed by its step, and the book  *)
(* is only appended to.                                                     *)
LEMMA OthersUntouched ==
    ASSUME TypeOK, NEW w \in Worker,
           \/ \E r \in Request : Arrive(w, r)
           \/ Proceed(w) \/ Crash(w) \/ Timeout(w)
    PROVE  /\ \A v \in Worker \ {w} : SameWorker(v)
           /\ book' = book \/ (pc[w] = "commit" /\ book' = Append(book, row[w]))
<1> USE DEF TypeOK, SameWorker, Goto, Finish, Release, job
<1>1. ASSUME NEW r \in Request, Arrive(w, r)
      PROVE  /\ \A v \in Worker \ {w} : SameWorker(v)
             /\ book' = book
  <2>1. CASE ReceiveTransfer(w, r)
    BY <2>1 DEF ReceiveTransfer, Receive, Prepare
  <2>2. CASE ReceiveReversal(w, r)
    BY <2>2 DEF ReceiveReversal, Receive, Prepare
  <2>3. CASE ReceiveClose(w, r)
    BY <2>3 DEF ReceiveClose, Receive
  <2> QED  BY <1>1, <2>1, <2>2, <2>3 DEF Arrive
<1>2. CASE Post(w)
  <2>1. CASE Examine(w)
    BY <2>1 DEF Examine
  <2>2. CASE Lookup(w) \/ Relookup(w)
    BY <2>2 DEF Lookup, Relookup
  <2>3. CASE LockAccount(w) \/ Check(w)
    BY <2>3 DEF LockAccount, Check
  <2>4. CASE Insert(w)
    BY <2>4 DEF Insert
  <2>5. CASE InsertEntries(w)
    BY <2>5 DEF InsertEntries
  <2>6. CASE Commit(w)
    BY <2>6 DEF Commit
  <2> QED  BY <1>2, <2>1, <2>2, <2>3, <2>4, <2>5, <2>6 DEF Post
<1>3. CASE Close(w)
  BY <1>3 DEF Close, LockPeriod, DecideClose, CommitClose
<1>4. CASE Reply(w) \/ Crash(w)
  BY <1>4 DEF Reply, Crash, Idle
<1>5. CASE Timeout(w)
  BY <1>5 DEF Timeout
<1> QED  BY <1>1, <1>2, <1>3, <1>4, <1>5 DEF Proceed

(* A key that is taken stays taken.                                         *)
LEMMA KeyStaysTaken ==
    ASSUME NEW b \in Seq(TransferRow), NEW t, NEW k, KeyTaken(b, k)
    PROVE  KeyTaken(Append(b, t), k)
<1>1. PICK i \in DOMAIN b : b[i].key = k
  BY DEF KeyTaken
<1>2. i \in DOMAIN Append(b, t) /\ Append(b, t)[i] = b[i]
  OBVIOUS
<1> QED  BY <1>1, <1>2 DEF KeyTaken

(* Going to another step, perhaps with an answer, perhaps releasing its      *)
(* locks, a worker leaves every variable in its type.                       *)
LEMMA Moves ==
    ASSUME Typed, NEW w \in Worker,
           UNCHANGED <<book, status, today, req, row, seen, answers, attempts>>,
           NEW s \in Step, pc' = [pc EXCEPT ![w] = s],
           \/ outcome' = outcome
           \/ \E o \in Outcome : outcome' = [outcome EXCEPT ![w] = o],
           locked' = locked \/ locked' = [locked EXCEPT ![w] = {}]
    PROVE  Typed'
<1>1. pc' \in [Worker -> Step] /\ outcome' \in [Worker -> Outcome]
  BY DEF Typed
<1>2. locked' \in [Worker -> SUBSET Account]
  BY DEF Typed
<1> QED  BY <1>1, <1>2 DEF Typed

(* The first state is well formed.                                          *)
LEMMA TypeOKInit == Init => TypeOK
BY LedgerAssumption
DEF Init, TypeOK, WorkerOK, Step, Posting, Closing, Outcome, Refusal

(* Every step leaves the state well formed.                                 *)
LEMMA TypeOKStep == TypeOK /\ [Next]_vars => TypeOK'
<1> SUFFICES ASSUME TypeOK, [Next]_vars
             PROVE  TypeOK'
  OBVIOUS
<1> USE DEF Goto, Finish, Release, job
<1>0. Typed /\ \A w \in Worker : WorkerOK(w)
  BY DEF TypeOK, Typed
<1>1. ASSUME NEW w \in Worker,
             \/ \E r \in Request : Arrive(w, r)
             \/ Proceed(w) \/ Crash(w) \/ Timeout(w),
             Typed', WorkerOK(w)'
      PROVE  TypeOK'
  <2>1. /\ \A v \in Worker \ {w} : SameWorker(v)
        /\ book' = book \/ book' = Append(book, row[w])
    BY <1>1, OthersUntouched
  <2>2. \A v \in Worker \ {w} : WorkerOK(v)'
    <3> TAKE v \in Worker \ {w}
    <3>1. SameWorker(v) /\ WorkerOK(v) /\ book \in Seq(TransferRow)
      BY <1>0, <2>1 DEF Typed
    <3>2. KeyTaken(book, row[v].key) => KeyTaken(book', row[v].key)
      BY <2>1, <3>1, KeyStaysTaken
    <3> QED  BY <3>1, <3>2 DEF SameWorker, WorkerOK
  <2> QED  BY <1>1, <2>2 DEF Typed, TypeOK
<1> USE DEF Typed, WorkerOK
<1>2. ASSUME NEW w \in Worker, NEW r \in Request, ReceiveTransfer(w, r)
      PROVE  Typed' /\ WorkerOK(w)'
  <2>1. r \in TransferRequest /\ r # None /\ RowOfTransfer(r) \in TransferRow
        /\ r.period \in Period /\ RowOfTransfer(r).period = r.period
    BY <1>2, RequestFields, RowOfRequest
       DEF ReceiveTransfer, TransferRequest, RowOfTransfer
  <2> HIDE DEF WorkerOK
  <2>2. Typed'
    BY <1>0, <1>2, <2>1, LedgerAssumption
       DEF ReceiveTransfer, Receive, Prepare, Step, Posting, Outcome, Refusal
  <2>3. WorkerOK(w)'
    BY <1>0, <1>2, <2>1, RowOfRequest
       DEF WorkerOK, ReceiveTransfer, Receive, Prepare, Posting, Closing
  <2> QED  BY <2>2, <2>3
<1>3. ASSUME NEW w \in Worker, NEW r \in Request, ReceiveReversal(w, r)
      PROVE  Typed' /\ WorkerOK(w)'
  <2> DEFINE original == book[r.target]
             p == <<original.period[1], BookedOn(r)>>
             t == RowOfReversal(r, p, original.legs)
  <2>1. r \in ReversalRequest /\ r # None
    BY <1>3, RequestFields DEF ReceiveReversal
  <2>2. ASSUME r.target \in DOMAIN book, p \in Period
        PROVE  t \in TransferRow /\ t.period = p
    <3>1. original \in TransferRow
      BY <1>0, <2>2
    <3>2. original.legs \in Seq(Leg)
      BY <3>1 DEF TransferRow
    <3> QED  BY <2>1, <2>2, <3>2, RowOfRequest DEF RowOfReversal
  <2>3. \/ /\ r.target \in DOMAIN book /\ p \in Period
           /\ Prepare(w, t, "examine")
        \/ /\ Finish(w, "not_found") \/ Finish(w, "no_period")
           /\ UNCHANGED <<row, seen>>
    BY <1>3 DEF ReceiveReversal
  <2>4. Receive(w, r)
    BY <1>3 DEF ReceiveReversal
  <2> HIDE DEF WorkerOK, p, t, original
  <2>5. Typed'
    <3>1. /\ UNCHANGED <<book, status, today, locked, answers>>
          /\ attempts' \in 0..MaxAttempts
          /\ req' \in [Worker -> Request \cup {None}]
      BY <1>0, <2>4, LedgerAssumption DEF Receive
    <3>2. CASE r.target \in DOMAIN book /\ p \in Period /\ Prepare(w, t, "examine")
      <4>1. status[p] \in {"OPEN", "CLOSED"} /\ t.period = p /\ t \in TransferRow
        BY <1>0, <2>2, <3>2
      <4>2. /\ row' \in [Worker -> TransferRow \cup {None}]
            /\ seen' \in [Worker -> {"OPEN", "CLOSED"}]
            /\ pc' \in [Worker -> Step]
            /\ outcome' = outcome
        BY <1>0, <3>2, <4>1 DEF Prepare, Step, Posting
      <4> QED  BY <1>0, <3>1, <4>2
    <3>3. CASE /\ Finish(w, "not_found") \/ Finish(w, "no_period")
               /\ UNCHANGED <<row, seen>>
      BY <1>0, <3>1, <3>3 DEF Step, Outcome
    <3> QED  BY <2>3, <3>2, <3>3
  <2>6. WorkerOK(w)'
    BY <1>0, <2>1, <2>2, <2>3, <2>4, RowOfRequest
       DEF WorkerOK, Receive, Prepare, Posting, Closing
  <2> QED  BY <2>5, <2>6
<1>4. ASSUME NEW w \in Worker, NEW r \in Request, ReceiveClose(w, r)
      PROVE  Typed' /\ WorkerOK(w)'
  BY <1>0, <1>4, RequestFields, LedgerAssumption
     DEF ReceiveClose, Receive, Step, Posting, Closing
<1>5. ASSUME NEW w \in Worker, Examine(w)
      PROVE  Typed' /\ WorkerOK(w)'
  BY <1>0, <1>5
     DEF Examine, Step, Posting, Closing, Outcome, Refusal
<1>6. ASSUME NEW w \in Worker, Lookup(w)
      PROVE  Typed' /\ WorkerOK(w)'
  <2>1. Verdict(w) \in {"replayed", "idempotency_conflict"}
    BY DEF Verdict
  <2>2. /\ pc[w] = "lookup"
        /\ UNCHANGED <<book, status, today, job, locked, answers, attempts>>
        /\ \/ Finish(w, Verdict(w))
           \/ Goto(w, "lock") /\ UNCHANGED outcome
    <3> HIDE DEF Goto, Finish
    <3> QED  BY <1>6, Zenon DEF Lookup
  <2>3. Typed'
    <3> HIDE DEF Typed, WorkerOK
    <3>1. /\ "reply" \in Step /\ "lock" \in Step
          /\ Verdict(w) \in Outcome
      BY <2>1 DEF Step, Posting, Outcome
    <3>2. CASE Finish(w, Verdict(w))
      BY <1>0, <2>2, <3>1, <3>2, Moves
    <3>3. CASE Goto(w, "lock") /\ UNCHANGED outcome
      BY <1>0, <2>2, <3>1, <3>3, Moves
    <3> QED  BY <2>2, <3>2, <3>3
  <2>4. WorkerOK(w)'
    BY <1>0, <2>1, <2>2 DEF Posting, Closing
  <2> QED  BY <2>3, <2>4
<1>7. ASSUME NEW w \in Worker, LockAccount(w)
      PROVE  Typed' /\ WorkerOK(w)'
  BY <1>0, <1>7, NextAccountIsUnlocked
     DEF LockAccount
<1>8. ASSUME NEW w \in Worker, Check(w)
      PROVE  Typed' /\ WorkerOK(w)'
  <2>1. Objection(w) \in Refusal \cup {"none"}
    BY DEF Objection, Refusal
  <2> QED
    BY <1>0, <1>8, <2>1 DEF Check, Step, Posting, Closing, Outcome
<1>9. ASSUME NEW w \in Worker, Insert(w)
      PROVE  Typed' /\ WorkerOK(w)'
  <2>1. UniqueViolation(w) = "idempotency_key" => KeyTaken(book, row[w].key)
    BY DEF UniqueViolation
  <2>2. pc[w] = "insert" /\ UNCHANGED <<book, status, today, req, row, seen,
                                        answers, attempts>>
    BY <1>9 DEF Insert
  <2>3. \/ /\ Goto(w, "relookup") /\ Release(w) /\ UNCHANGED outcome
           /\ KeyTaken(book, row[w].key)
        \/ Finish(w, "already_reversed") /\ Release(w)
        \/ Goto(w, "entries") /\ UNCHANGED <<locked, outcome>>
    BY <1>9, <2>1 DEF Insert
  <2> QED
    BY <1>0, <2>2, <2>3 DEF Step, Posting, Closing, Outcome, Refusal
<1>10. ASSUME NEW w \in Worker, InsertEntries(w)
      PROVE  Typed' /\ WorkerOK(w)'
  <2>1. Refused(w) \in {"period_closed", "internal_error", "none"}
    BY DEF Refused
  <2>2. /\ pc[w] = "entries"
        /\ UNCHANGED <<book, status, today, job, answers, attempts>>
        /\ \/ Goto(w, "commit") /\ UNCHANGED <<locked, outcome>>
           \/ Refused(w) # "none" /\ Finish(w, Refused(w)) /\ Release(w)
    <3> HIDE DEF Goto, Finish, Release
    <3> QED  BY <1>10 DEF InsertEntries
  <2>3. Typed'
    <3> HIDE DEF Typed, WorkerOK
    <3>1. "reply" \in Step /\ "commit" \in Step
      BY DEF Step, Posting
    <3>2. CASE Goto(w, "commit") /\ UNCHANGED <<locked, outcome>>
      BY <1>0, <2>2, <3>1, <3>2, Moves
    <3>3. CASE Refused(w) # "none" /\ Finish(w, Refused(w)) /\ Release(w)
      <4>1. Refused(w) \in Outcome
        BY <2>1, <3>3 DEF Outcome, Refusal
      <4> QED  BY <1>0, <2>2, <3>1, <3>3, <4>1, Moves
    <3> QED  BY <2>2, <3>2, <3>3
  <2>4. WorkerOK(w)'
    BY <1>0, <2>1, <2>2 DEF Posting, Closing
  <2> QED  BY <2>3, <2>4
<1>11. ASSUME NEW w \in Worker, Commit(w)
      PROVE  Typed' /\ WorkerOK(w)'
  BY <1>0, <1>11
     DEF Commit, Step, Posting, Closing, Outcome
<1>12. ASSUME NEW w \in Worker, Relookup(w)
      PROVE  Typed' /\ WorkerOK(w)'
  BY <1>0, <1>12
     DEF Relookup, AfterRollback, Verdict, Step, Posting, Closing, Outcome
<1>13. ASSUME NEW w \in Worker, LockPeriod(w)
      PROVE  Typed' /\ WorkerOK(w)'
  BY <1>0, <1>13
     DEF LockPeriod, Step, Posting, Closing
<1>14. ASSUME NEW w \in Worker, DecideClose(w)
      PROVE  Typed' /\ WorkerOK(w)'
  BY <1>0, <1>14
     DEF DecideClose, Step, Posting, Closing, Outcome
<1>15. ASSUME NEW w \in Worker, CommitClose(w)
      PROVE  Typed' /\ WorkerOK(w)'
  BY <1>0, <1>15, RequestFields
     DEF CommitClose, CloseRequest, Step, Posting, Closing, Outcome
<1>16. ASSUME NEW w \in Worker, Reply(w)
      PROVE  Typed' /\ WorkerOK(w)'
  BY <1>0, <1>16
     DEF Reply, Idle, Step, Posting, Closing, Outcome
<1>17. ASSUME NEW w \in Worker, Crash(w)
      PROVE  Typed' /\ WorkerOK(w)'
  BY <1>0, <1>17
     DEF Crash, Idle, Step, Posting, Closing, Outcome
<1>18. ASSUME NEW w \in Worker, Timeout(w)
      PROVE  Typed' /\ WorkerOK(w)'
  BY <1>0, <1>18
     DEF Timeout, WaitsFor, Step, Posting, Closing, Outcome
<1>19. CASE Tick
  BY <1>0, <1>19 DEF Tick, TypeOK
<1>20. CASE Quiet \/ UNCHANGED vars
  BY <1>0, <1>20 DEF Quiet, vars, TypeOK
<1> HIDE DEF Typed, WorkerOK
<1>21. ASSUME NEW w \in Worker, \E r \in Request : Arrive(w, r)
      PROVE  TypeOK'
  BY <1>1, <1>2, <1>3, <1>4, <1>21 DEF Arrive
<1>22. ASSUME NEW w \in Worker, Post(w)
      PROVE  TypeOK'
  BY <1>1, <1>5, <1>6, <1>7, <1>8, <1>9, <1>10, <1>11, <1>12, <1>22 DEF Post, Proceed
<1>23. ASSUME NEW w \in Worker, Close(w) \/ Reply(w) \/ Crash(w) \/ Timeout(w)
      PROVE  TypeOK'
  BY <1>1, <1>13, <1>14, <1>15, <1>16, <1>17, <1>18, <1>23 DEF Close, Proceed
<1> QED
  BY <1>19, <1>20, <1>21, <1>22, <1>23 DEF Next, Proceed

(* In every state of every behaviour the workers, the book and the answers  *)
(* are well formed: no row lock outlives its transaction, nobody replies    *)
(* without an answer, and a duplicate key always leads to the transfer that *)
(* took it.                                                                 *)
THEOREM TypeCorrect == Spec => []TypeOK
<1>1. Init => TypeOK
  BY TypeOKInit
<1>2. TypeOK /\ [Next]_vars => TypeOK'
  BY TypeOKStep
<1> QED  BY <1>1, <1>2, PTL DEF Spec
-----------------------------------------------------------------------------
(* No overdraft, books that balance, no deadlock.                           *)

(* Steps after which the checks of post_transfer are behind the worker, and *)
(* steps at which its transfer row is inserted and not committed.           *)
Checked == {"insert", "entries", "commit"}
Inserted == {"entries", "commit"}

(* Every step is a worker's, or leaves the workers and the book alone.      *)
LEMMA StepKinds ==
    ASSUME [Next]_vars
    PROVE  \/ \E w \in Worker : WorkerStep(w)
           \/ UNCHANGED <<book, status, pc, req, row, seen, locked, outcome>>
BY DEF Next, WorkerStep, Tick, Quiet, vars, job

-----------------------------------------------------------------------------
(* No overdraft. *)

(* An account row is locked by one worker at a time.                        *)
LocksExclusive ==
    \A v, w \in Worker : v # w => locked[v] \cap locked[w] = {}

(* What a worker that has checked its transfer can still rely on: it holds   *)
(* every account, the transfer balances within its fund, and no cash account *)
(* would be overdrawn if it committed now.                                  *)
Covered(w) ==
    pc[w] \in Checked =>
        /\ Touched(row[w].legs) \subseteq locked[w]
        /\ OwnFund(row[w].legs, row[w].period)
        /\ Balanced(row[w].legs)
        /\ \A a \in Touched(row[w].legs) \cap Cash :
              NativeBalance(book, a) + Delta(row[w].legs, a) >= 0

FundsInv ==
    /\ IsFiniteSet(Entries(book))
    /\ LocksExclusive
    /\ \A w \in Worker : Covered(w)
    /\ NoOverdraft

(* Legs do nothing to an account they do not name.                          *)
LEMMA UntouchedDelta ==
    ASSUME NEW legs \in Seq(Leg), NEW a, a \notin Touched(legs)
    PROVE  Delta(legs, a) = 0
<1>1. /\ {j \in Side(legs, "DEBIT") : legs[j].account = a} = {}
      /\ {j \in Side(legs, "CREDIT") : legs[j].account = a} = {}
  BY DEF Touched, Side
<1>2. SumOf({}, Amounts(legs)) = 0
  BY EmptySum
<1>3. Delta(legs, a) = SumOf({}, Amounts(legs)) - SumOf({}, Amounts(legs))
  BY <1>1, Zenon DEF Delta
<1> QED  BY <1>2, <1>3

(* The worker that acts: it leaves the checked part of its transaction,     *)
(* goes on with what it had, or has just made the checks.                   *)
LEMMA CheckedSteps ==
    ASSUME TypeOK, NEW w \in Worker, WorkerStep(w)
    PROVE  \/ pc'[w] \notin Checked
           \/ /\ pc[w] \in Checked
              /\ row'[w] = row[w] /\ locked'[w] = locked[w] /\ book' = book
           \/ /\ Check(w) /\ Objection(w) = "none"
              /\ row'[w] = row[w] /\ locked'[w] = locked[w] /\ book' = book
<1> USE DEF TypeOK, Goto, Finish, Release, job, Checked
<1>1. CASE \E r \in Request : Arrive(w, r)
  BY <1>1 DEF Arrive, ReceiveTransfer, ReceiveReversal, ReceiveClose, Receive,
              Prepare
<1>2. CASE Examine(w) \/ Lookup(w) \/ Relookup(w) \/ LockAccount(w)
  BY <1>2 DEF Examine, Lookup, Relookup, LockAccount
<1>3. CASE Check(w)
  BY <1>3 DEF Check
<1>4. CASE Insert(w)
  BY <1>4 DEF Insert
<1>5. CASE InsertEntries(w) \/ Commit(w)
  BY <1>5 DEF InsertEntries, Commit
<1>6. CASE Close(w)
  BY <1>6 DEF Close, LockPeriod, DecideClose, CommitClose
<1>7. CASE Reply(w) \/ Crash(w) \/ Timeout(w)
  BY <1>7 DEF Reply, Crash, Idle, Timeout
<1> QED  BY <1>1, <1>2, <1>3, <1>4, <1>5, <1>6, <1>7
         DEF WorkerStep, Proceed, Post

(* Only Commit changes the book.                                            *)
LEMMA CommitSteps ==
    ASSUME NEW w \in Worker, WorkerStep(w)
    PROVE  book' = book \/ Commit(w)
<1>1. CASE \E r \in Request : Arrive(w, r)
  BY <1>1 DEF Arrive, ReceiveTransfer, ReceiveReversal, ReceiveClose, Receive
<1>2. CASE Post(w)
  BY <1>2 DEF Post, Examine, Lookup, LockAccount, Check, Insert,
              InsertEntries, Relookup
<1>3. CASE Close(w)
  BY <1>3 DEF Close, LockPeriod, DecideClose, CommitClose
<1>4. CASE Reply(w) \/ Crash(w) \/ Timeout(w)
  BY <1>4 DEF Reply, Crash, Idle, Timeout
<1> QED  BY <1>1, <1>2, <1>3, <1>4 DEF WorkerStep, Proceed

(* Only LockAccount takes a row lock, and only one nobody holds.            *)
LEMMA LockSteps ==
    ASSUME TypeOK, NEW w \in Worker, WorkerStep(w)
    PROVE  \A a \in locked'[w] : a \in locked[w] \/ HoldersOf(a) = {}
<1> USE DEF TypeOK, Goto, Finish, Release, job
<1>1. CASE \E r \in Request : Arrive(w, r)
  BY <1>1 DEF Arrive, ReceiveTransfer, ReceiveReversal, ReceiveClose, Receive,
              Prepare
<1>2. CASE Examine(w) \/ Lookup(w) \/ Relookup(w) \/ Check(w)
  BY <1>2 DEF Examine, Lookup, Relookup, Check
<1>3. CASE LockAccount(w)
  <2>1. HoldersOf(NextAccount(w)) = {}
    BY <1>3 DEF LockAccount, WaitsFor
  <2>2. locked'[w] = locked[w] \cup {NextAccount(w)}
    BY <1>3 DEF LockAccount
  <2> QED  BY <2>1, <2>2
<1>4. CASE Insert(w) \/ InsertEntries(w) \/ Commit(w)
  BY <1>4 DEF Insert, InsertEntries, Commit
<1>5. CASE Close(w)
  BY <1>5 DEF Close, LockPeriod, DecideClose, CommitClose
<1>6. CASE Reply(w) \/ Crash(w) \/ Timeout(w)
  BY <1>6 DEF Reply, Crash, Idle, Timeout
<1> QED  BY <1>1, <1>2, <1>3, <1>4, <1>5, <1>6
         DEF WorkerStep, Proceed, Post

(* Locks stay exclusive.                                                    *)
LEMMA LocksExclusiveStep ==
    ASSUME TypeOK, LocksExclusive, [Next]_vars
    PROVE  LocksExclusive'
<1>1. ASSUME NEW w \in Worker, WorkerStep(w)
      PROVE  LocksExclusive'
  <2>1. \A v \in Worker \ {w} : locked'[v] = locked[v]
    BY <1>1, OthersUntouched DEF WorkerStep, SameWorker
  <2>2. \A a \in locked'[w] : a \in locked[w] \/ HoldersOf(a) = {}
    BY <1>1, LockSteps
  <2>3. \A v \in Worker \ {w} : locked'[v] \cap locked'[w] = {}
    BY <2>1, <2>2 DEF LocksExclusive, HoldersOf
  <2> QED  BY <2>1, <2>3 DEF LocksExclusive
<1>2. CASE UNCHANGED <<book, status, pc, req, row, seen, locked, outcome>>
  BY <1>2 DEF LocksExclusive
<1> QED  BY <1>1, <1>2, StepKinds

(* While the book stays as it is, whoever has checked a transfer can go on. *)
LEMMA CoveredStep ==
    ASSUME TypeOK, FundsInv, NEW w \in Worker, WorkerStep(w), book' = book
    PROVE  \A v \in Worker : Covered(v)'
<1> USE DEF FundsInv
<1>1. ASSUME NEW v \in Worker, v # w
      PROVE  Covered(v)'
  <2>1. SameWorker(v)
    BY <1>1, OthersUntouched DEF WorkerStep
  <2> QED  BY <2>1 DEF SameWorker, Covered
<1>2. Covered(w)'
  <2>1. CASE pc'[w] \notin Checked
    BY <2>1 DEF Covered
  <2>2. CASE pc[w] \in Checked /\ row'[w] = row[w] /\ locked'[w] = locked[w]
    BY <2>2 DEF Covered
  <2>3. CASE /\ Check(w) /\ Objection(w) = "none"
             /\ row'[w] = row[w] /\ locked'[w] = locked[w]
    <3> DEFINE t == row[w]
    <3>1. Unlocked(w) = {}
      BY <2>3 DEF Check
    <3>2. /\ Touched(t.legs) \subseteq Account
          /\ OwnFund(t.legs, t.period)
          /\ Balanced(t.legs)
          /\ Overdrawn(t.legs) = {}
      BY <2>3 DEF Objection
    <3>3. Touched(t.legs) \subseteq locked[w]
      BY <3>1, <3>2 DEF Unlocked
    <3>4. ASSUME NEW a \in Touched(t.legs) \cap Cash
          PROVE  NativeBalance(book, a) + Delta(t.legs, a) >= 0
      <4>1. book \in Seq(TransferRow) /\ t \in TransferRow
        <5>1. pc[w] \in Posting /\ WorkerOK(w)
          BY <2>3 DEF Check, Posting, TypeOK
        <5> QED  BY <5>1 DEF TypeOK, WorkerOK
      <4>2. NativeBalance(book, a) \in Int /\ Delta(t.legs, a) \in Int
        BY <4>1, BalanceOfAppend
      <4>3. ~(Delta(t.legs, a) < 0 /\ NativeBalance(book, a) + Delta(t.legs, a) < 0)
        BY <3>2, <3>4 DEF Overdrawn
      <4>4. NativeBalance(book, a) >= 0
        BY DEF NoOverdraft
      <4> QED  BY <4>2, <4>3, <4>4
    <3> QED  BY <2>3, <3>2, <3>3, <3>4 DEF Covered
  <2> QED  BY <2>1, <2>2, <2>3, CheckedSteps
<1> QED  BY <1>1, <1>2

(* A transfer that commits overdraws nothing and takes nothing from a       *)
(* transfer that was checked before: their accounts are apart.              *)
LEMMA CommitKeepsFunds ==
    ASSUME TypeOK, FundsInv, NEW w \in Worker, Commit(w), LocksExclusive'
    PROVE  FundsInv'
<1> DEFINE t == row[w]
<1>1. /\ book \in Seq(TransferRow) /\ t \in TransferRow
      /\ t.legs \in Seq(Leg)
      /\ book' = Append(book, t)
      /\ pc[w] \in Checked /\ pc'[w] \notin Checked
  <2>1. pc[w] = "commit" /\ book' = Append(book, t)
    BY DEF Commit
  <2>2. pc[w] \in Posting /\ WorkerOK(w) /\ t \in TransferRow \cup {None}
    BY <2>1 DEF TypeOK, Posting
  <2>3. t \in TransferRow
    BY <2>2 DEF WorkerOK
  <2>4. pc'[w] = "reply"
    BY DEF Commit, Finish, Goto, TypeOK
  <2> QED  BY <2>1, <2>3, <2>4 DEF TypeOK, TransferRow, Checked
<1>2. /\ Touched(t.legs) \subseteq locked[w]
      /\ \A a \in Touched(t.legs) \cap Cash :
            NativeBalance(book, a) + Delta(t.legs, a) >= 0
  BY <1>1 DEF FundsInv, Covered
<1>3. IsFiniteSet(Entries(book))
  BY DEF FundsInv
<1>4. \A a : /\ NativeBalance(book, a) \in Int
             /\ NativeBalance(book', a) = NativeBalance(book, a) + Delta(t.legs, a)
  BY <1>1, <1>3, BalanceOfAppend
<1>5. \A a : a \notin Touched(t.legs)
                => NativeBalance(book', a) = NativeBalance(book, a)
  <2> TAKE a
  <2> HAVE a \notin Touched(t.legs)
  <2>1. Delta(t.legs, a) = 0
    BY <1>1, UntouchedDelta
  <2> QED  BY <1>4, <2>1
<1>6. NoOverdraft'
  <2> SUFFICES ASSUME NEW a \in Cash
               PROVE  NativeBalance(book', a) >= 0
    BY DEF NoOverdraft
  <2>1. CASE a \in Touched(t.legs)
    BY <1>2, <1>4, <2>1
  <2>2. CASE a \notin Touched(t.legs)
    BY <1>5, <2>2 DEF FundsInv, NoOverdraft
  <2> QED  BY <2>1, <2>2
<1>7. ASSUME NEW v \in Worker
      PROVE  Covered(v)'
  <2>1. CASE v = w
    BY <1>1, <2>1 DEF Covered
  <2>2. CASE v # w
    <3>1. SameWorker(v)
      BY <2>2, OthersUntouched DEF Proceed, Post
    <3>2. Covered(v) /\ locked[v] \cap locked[w] = {}
      BY <2>2 DEF FundsInv, LocksExclusive
    <3>3. pc[v] \in Checked => Touched(row[v].legs) \cap Touched(t.legs) = {}
      BY <1>2, <3>2 DEF Covered
    <3> QED  BY <1>5, <3>1, <3>2, <3>3 DEF SameWorker, Covered
  <2> QED  BY <2>1, <2>2
<1>8. IsFiniteSet(Entries(book'))
  BY <1>1, <1>3, FiniteAppend
<1> QED  BY <1>6, <1>7, <1>8 DEF FundsInv

(* Every step keeps the funds.                                              *)
LEMMA FundsStep == TypeOK /\ FundsInv /\ [Next]_vars => FundsInv'
<1> SUFFICES ASSUME TypeOK, FundsInv, [Next]_vars
             PROVE  FundsInv'
  OBVIOUS
<1>1. LocksExclusive'
  BY LocksExclusiveStep DEF FundsInv
<1>2. ASSUME NEW w \in Worker, WorkerStep(w)
      PROVE  FundsInv'
  <2>1. book' = book \/ Commit(w)
    BY <1>2, CommitSteps
  <2>2. CASE book' = book
    BY <1>1, <1>2, <2>2, CoveredStep DEF FundsInv, NoOverdraft
  <2>3. CASE Commit(w)
    BY <1>1, <2>3, CommitKeepsFunds
  <2> QED  BY <2>1, <2>2, <2>3
<1>3. CASE UNCHANGED <<book, status, pc, req, row, seen, locked, outcome>>
  BY <1>1, <1>3 DEF FundsInv, Covered, NoOverdraft
<1> QED  BY <1>2, <1>3, StepKinds

(* So it always holds.                                                      *)
LEMMA FundsInvariant == Spec => []FundsInv
<1>1. Init => FundsInv
  BY EmptyBook DEF Init, FundsInv, LocksExclusive, Covered, Checked,
                   NoOverdraft
<1> QED  BY <1>1, FundsStep, TypeCorrect, PTL DEF Spec

(* However many transfers run at once, on whatever accounts, no cash account *)
(* ever goes below zero: the locks of _lock_accounts keep the balance that   *)
(* _check_sufficient_funds read until the entries are committed.            *)
THEOREM NeverOverdrawn == Spec => []NoOverdraft
<1>1. FundsInv => NoOverdraft
  BY DEF FundsInv
<1> QED  BY <1>1, FundsInvariant, PTL

-----------------------------------------------------------------------------
(* The books balance. *)

(* No entries, no imbalance.                                                *)
LEMMA EmptyImbalance == \A b : Imbalance(b, {}) = 0
<1> TAKE b
<1> DEFINE none == [e \in {} |-> EntryOf(b, e).base]
<1>1. SumOf({}, none) = 0
  BY EmptySum
<1>2. Imbalance(b, {}) = SumOf({}, none) - SumOf({}, none)
  BY Zenon DEF Imbalance
<1> QED  BY <1>1, <1>2

(* A balanced transfer within one fund keeps the books balanced: its entries *)
(* count together or not at all, in total, in a period, in a fund, and in   *)
(* the part of one transfer that is on the accounts of a fund.              *)
LEMMA PostingReconciles ==
    ASSUME book \in Seq(TransferRow), IsFiniteSet(Entries(book)), Reconciles,
           NEW t \in TransferRow, Balanced(t.legs), OwnFund(t.legs, t.period),
           book' = Append(book, t)
    PROVE  Reconciles'
<1> DEFINE c == Append(book, t)
           N == {Len(book) + 1} \X DOMAIN t.legs
           InPeriod(p) == {e \in Entries(book) : book[e[1]].period = p}
           InFund(f) == {e \in Entries(book) :
                            AccountFund[EntryOf(book, e).account] = f}
<1>1. /\ Entries(c) = Entries(book) \cup N
      /\ \A e \in Entries(book) : EntryOf(c, e) = EntryOf(book, e)
      /\ \A j \in DOMAIN t.legs :
            EntryOf(c, <<Len(book) + 1, j>>) = t.legs[j]
  BY EntriesOfAppend
<1>2. \A E \in SUBSET Entries(book) :
         /\ Imbalance(c, E) = Imbalance(book, E)
         /\ Imbalance(c, E \cup N) = Imbalance(book, E)
  BY ImbalanceOfAppend
<1>3. \A e \in Entries(book) : c[e[1]] = book[e[1]]
  BY DEF Entries
<1>4. \A e \in N : c[e[1]] = t
  OBVIOUS
<1>5. \A e \in N : AccountFund[EntryOf(c, e).account] = t.period[1]
  <2> TAKE e \in N
  <2>1. PICK j \in DOMAIN t.legs : e = <<Len(book) + 1, j>>
    OBVIOUS
  <2>2. t.legs[j].account \in Touched(t.legs)
    BY DEF Touched
  <2> QED  BY <1>1, <2>1, <2>2 DEF OwnFund
<1> HIDE DEF N, c
<1>6. Imbalance(c, Entries(c)) = 0
  BY <1>1, <1>2 DEF Reconciles
<1>7. ASSUME NEW p \in Period
      PROVE  PeriodImbalance(c, p) = 0
  <2>1. /\ InPeriod(p) \in SUBSET Entries(book)
        /\ Imbalance(book, InPeriod(p)) = 0
    BY DEF Reconciles, PeriodImbalance
  <2>2. \/ {e \in Entries(c) : c[e[1]].period = p} = InPeriod(p)
        \/ {e \in Entries(c) : c[e[1]].period = p} = InPeriod(p) \cup N
    BY <1>1, <1>3, <1>4
  <2> HIDE DEF InPeriod
  <2>3. PeriodImbalance(c, p)
          = Imbalance(c, {e \in Entries(c) : c[e[1]].period = p})
    BY DEF PeriodImbalance
  <2> QED  BY <1>2, <2>1, <2>2, <2>3
<1>8. ASSUME NEW f \in Fund
      PROVE  FundImbalance(c, f) = 0
  <2> DEFINE Counted == {e \in Entries(c) : AccountFund[EntryOf(c, e).account] = f}
  <2>1. /\ InFund(f) \in SUBSET Entries(book)
        /\ Imbalance(book, InFund(f)) = 0
    BY DEF Reconciles, FundImbalance
  <2>2. Counted = InFund(f) \/ Counted = InFund(f) \cup N
    BY <1>1, <1>5
  <2>3. FundImbalance(c, f) = Imbalance(c, Counted)
    BY DEF FundImbalance
  <2> HIDE DEF InFund, Counted
  <2> QED  BY <1>2, <2>1, <2>2, <2>3
<1>9. ASSUME NEW f \in Fund
      PROVE  UnbalancedTransfers(c, f) = {}
  <2> DEFINE Part(b, i) ==
          {e \in Entries(b) : e[1] = i /\ AccountFund[EntryOf(b, e).account] = f}
  <2> SUFFICES ASSUME NEW i \in DOMAIN c
               PROVE  Imbalance(c, Part(c, i)) = 0
    BY DEF UnbalancedTransfers
  <2>1. \A e \in Entries(book) : e[1] \in DOMAIN book
    BY DEF Entries
  <2>2. \A e \in N : e[1] = Len(book) + 1
    BY DEF N
  <2>3. CASE i \in DOMAIN book
    <3>1. Part(c, i) = Part(book, i)
      BY <1>1, <2>2, <2>3
    <3>2. /\ Part(book, i) \in SUBSET Entries(book)
          /\ Imbalance(book, Part(book, i)) = 0
      BY <2>3 DEF Reconciles, UnbalancedTransfers
    <3> HIDE DEF Part
    <3> QED  BY <1>2, <3>1, <3>2
  <2>4. CASE i = Len(book) + 1
    <3>1. Part(c, i) = {} \/ Part(c, i) = {} \cup N
      BY <1>1, <1>5, <2>1, <2>2, <2>4
    <3> HIDE DEF Part
    <3>2. Imbalance(book, {}) = 0
      BY EmptyImbalance
    <3> QED  BY <1>2, <3>1, <3>2
  <2> QED  BY <2>3, <2>4 DEF c
<1>10. book' = c
  BY DEF c
<1> QED  BY <1>6, <1>7, <1>8, <1>9, <1>10 DEF Reconciles

(* The reconciliation comes out at zero at every moment, in total, for each *)
(* period and for each fund: post_transfer lets only balanced transfers of  *)
(* one fund's accounts through, and appends them whole.                     *)
THEOREM AlwaysReconciles == Spec => []Reconciles
<1>1. Init => Reconciles
  <2> SUFFICES ASSUME Init PROVE Reconciles
    OBVIOUS
  <2>1. book = <<>>
    BY DEF Init
  <2>2. Entries(book) = {}
    BY <2>1 DEF Entries
  <2>3. Imbalance(book, {}) = 0
    BY EmptyImbalance
  <2>4. \A p : {e \in Entries(book) : book[e[1]].period = p} = {}
    BY <2>2
  <2>5. \A f : {e \in Entries(book) :
                  AccountFund[EntryOf(book, e).account] = f} = {}
    BY <2>2
  <2>6. \A p : PeriodImbalance(book, p) = 0
    BY <2>3, <2>4, Zenon DEF PeriodImbalance
  <2>7. \A f : FundImbalance(book, f) = 0
    BY <2>3, <2>5, Zenon DEF FundImbalance
  <2>8. \A f : UnbalancedTransfers(book, f) = {}
    BY <2>1 DEF UnbalancedTransfers
  <2> QED  BY <2>2, <2>3, <2>6, <2>7, <2>8 DEF Reconciles
<1>2. TypeOK /\ FundsInv /\ Reconciles /\ [Next]_vars => Reconciles'
  <2> SUFFICES ASSUME TypeOK, FundsInv, Reconciles, [Next]_vars
               PROVE  Reconciles'
    OBVIOUS
  <2>1. CASE book' = book
    BY <2>1 DEF Reconciles
  <2>2. ASSUME NEW w \in Worker, Commit(w)
        PROVE  Reconciles'
    <3>1. pc[w] = "commit" /\ book' = Append(book, row[w])
      BY <2>2 DEF Commit
    <3>2. pc[w] \in Posting /\ WorkerOK(w)
      BY <3>1 DEF TypeOK, Posting
    <3>3. row[w] \in TransferRow /\ book \in Seq(TransferRow)
      BY <3>2 DEF TypeOK, WorkerOK
    <3>4. /\ Balanced(row[w].legs) /\ OwnFund(row[w].legs, row[w].period)
          /\ IsFiniteSet(Entries(book))
      BY <3>1 DEF FundsInv, Covered, Checked
    <3> QED  BY <3>1, <3>3, <3>4, PostingReconciles
  <2>3. book' = book \/ \E w \in Worker : Commit(w)
    BY StepKinds, CommitSteps
  <2> QED  BY <2>1, <2>2, <2>3
<1> QED  BY <1>1, <1>2, FundsInvariant, TypeCorrect, PTL DEF Spec

-----------------------------------------------------------------------------
(* No deadlock. *)

(* A worker that locks rows has locked those that come before the rest.     *)
Ascending(w) ==
    pc[w] = "lock" => \A a \in locked[w], b \in Unlocked(w) : a < b

(* The worker that acts: it locks no rows after the step, starts to with    *)
(* none locked, or locks the next one.                                      *)
LEMMA LockingSteps ==
    ASSUME TypeOK, NEW w \in Worker, WorkerStep(w)
    PROVE  \/ pc'[w] # "lock"
           \/ locked'[w] = {}
           \/ /\ pc[w] = "lock" /\ row' = row /\ Unlocked(w) # {}
              /\ locked' = [locked EXCEPT ![w] = @ \cup {NextAccount(w)}]
<1> USE DEF Goto, Finish, Release, job
<1>0. /\ pc \in [Worker -> Step] /\ locked \in [Worker -> SUBSET Account]
      /\ locked[w] # {} => pc[w] \in {"lock", "insert", "entries", "commit"}
  BY DEF TypeOK, WorkerOK
<1>1. CASE \E r \in Request : Arrive(w, r)
  BY <1>0, <1>1 DEF Arrive, ReceiveTransfer, ReceiveReversal, ReceiveClose,
                    Receive, Prepare
<1>2. CASE Examine(w) \/ Lookup(w) \/ Relookup(w)
  BY <1>0, <1>2 DEF Examine, Lookup, Relookup
<1>3. CASE LockAccount(w)
  BY <1>3 DEF LockAccount
<1>4. CASE Check(w) \/ InsertEntries(w) \/ Commit(w)
  BY <1>0, <1>4 DEF Check, InsertEntries, Commit
<1>5. CASE Insert(w)
  BY <1>0, <1>5 DEF Insert
<1>6. CASE Close(w)
  BY <1>0, <1>6 DEF Close, LockPeriod, DecideClose, CommitClose
<1>7. CASE Reply(w) \/ Crash(w) \/ Timeout(w)
  BY <1>0, <1>7 DEF Reply, Crash, Idle, Timeout
<1> QED  BY <1>1, <1>2, <1>3, <1>4, <1>5, <1>6, <1>7
         DEF WorkerStep, Proceed, Post

LockOrder == \A w \in Worker : Ascending(w)

(* Rows go on being locked in their order.                                  *)
LEMMA LockOrderStep == TypeOK /\ LockOrder /\ [Next]_vars => LockOrder'
<1> SUFFICES ASSUME TypeOK, \A w \in Worker : Ascending(w), [Next]_vars,
                    NEW v \in Worker
             PROVE  Ascending(v)'
  BY DEF LockOrder
<1>1. ASSUME NEW w \in Worker, WorkerStep(w)
      PROVE  Ascending(v)'
  <2>1. CASE v # w
    <3>1. SameWorker(v) /\ Ascending(v)
      BY <1>1, <2>1, OthersUntouched DEF WorkerStep
    <3> QED  BY <3>1 DEF SameWorker, Ascending, Unlocked
  <2>2. CASE v = w
    <3>1. CASE pc'[w] # "lock" \/ locked'[w] = {}
      BY <2>2, <3>1 DEF Ascending
    <3>2. CASE /\ pc[w] = "lock" /\ row' = row /\ Unlocked(w) # {}
               /\ locked' = [locked EXCEPT ![w] = @ \cup {NextAccount(w)}]
      <4> DEFINE n == NextAccount(w)
      <4>1. n \in Unlocked(w) /\ \A b \in Unlocked(w) : n <= b
        <5>1. Unlocked(w) \in SUBSET Nat
          BY BooksAssumption DEF Unlocked
        <5> QED  BY <3>2, <5>1, SmallestId DEF NextAccount
      <4> HIDE DEF n
      <4>2. locked'[w] = locked[w] \cup {n} /\ locked[w] \subseteq Nat
        BY <3>2, BooksAssumption DEF TypeOK, n
      <4>3. Unlocked(w)' = Unlocked(w) \ {n} /\ Unlocked(w) \subseteq Nat
        BY <3>2, <4>2, BooksAssumption DEF Unlocked
      <4>4. \A a \in locked[w], b \in Unlocked(w) : a < b
        BY <3>2 DEF Ascending
      <4>5. \A a \in locked'[w], b \in Unlocked(w)' : a < b
        BY <4>1, <4>2, <4>3, <4>4
      <4> QED  BY <2>2, <4>5 DEF Ascending
    <3> QED  BY <1>1, <3>1, <3>2, LockingSteps
  <2> QED  BY <2>1, <2>2
<1>2. CASE UNCHANGED <<book, status, pc, req, row, seen, locked, outcome>>
  BY <1>2 DEF Ascending, Unlocked
<1> QED  BY <1>1, <1>2, StepKinds

(* Within a set of workers that all wait for one another each would be      *)
(* locking rows, and the one that waits for the last row waits for a worker *)
(* that needs a row further on.                                             *)
LEMMA NobodyWaitsInACycle ==
    ASSUME TypeOK, LockOrder
    PROVE  NoWaitCycle
<1> SUFFICES ASSUME NEW S \in SUBSET Worker, S # {},
                    \A w \in S : WaitsFor(w) \cap S # {}
             PROVE  FALSE
  BY DEF NoWaitCycle
<1>1. \A w \in S : pc[w] \notin {"commit", "decide", "closing"}
  BY DEF WaitsFor
<1>2. \A w \in S : pc[w] \notin {"entries", "period"}
  <2> SUFFICES ASSUME NEW w \in S, pc[w] \in {"entries", "period"}
               PROVE  FALSE
    OBVIOUS
  <2>1. PICK v \in S : v \in WaitsFor(w)
    OBVIOUS
  <2>2. pc[v] \in {"commit", "decide", "closing"}
    BY <2>1 DEF WaitsFor, Closers, Sharers
  <2> QED  BY <1>1, <2>2
<1>3. \A w \in S : pc[w] # "insert"
  <2> SUFFICES ASSUME NEW w \in S, pc[w] = "insert"
               PROVE  FALSE
    OBVIOUS
  <2>1. PICK v \in S : v \in WaitsFor(w)
    OBVIOUS
  <2>2. pc[v] \in {"entries", "commit"}
    BY <2>1 DEF WaitsFor, Clashing
  <2> QED  BY <1>1, <1>2, <2>2
<1>4. \A w \in S : /\ pc[w] = "lock" /\ Unlocked(w) # {}
                   /\ WaitsFor(w) = HoldersOf(NextAccount(w))
  BY <1>1, <1>2, <1>3 DEF WaitsFor
<1>5. \A w \in S : NextAccount(w) \in Unlocked(w) /\ NextAccount(w) \in Nat
  BY <1>4, NextAccountIsUnlocked, BooksAssumption
<1>6. \A w \in S : \E v \in S : NextAccount(w) < NextAccount(v)
  <2> TAKE w \in S
  <2>1. PICK v \in S : NextAccount(w) \in locked[v]
    BY <1>4 DEF HoldersOf
  <2>2. \A b \in Unlocked(v) : NextAccount(w) < b
    BY <1>4, <2>1 DEF LockOrder, Ascending
  <2> QED  BY <1>5, <2>2
<1> DEFINE next == [w \in S |-> NextAccount(w)]
           T == {NextAccount(w) : w \in S}
<1>7. IsFiniteSet(T)
  <2>1. IsFiniteSet(S)
    BY WorkerAssumption, FS_Subset
  <2>2. next \in Surjection(S, T)
    BY DEF Surjection
  <2> QED  BY <2>1, <2>2, FS_Surjection
<1>8. T \in SUBSET Nat /\ T # {}
  BY <1>5
<1>9. PICK x \in T : \A y \in T : y <= x
  BY <1>7, <1>8, LargestId
<1>10. PICK w \in S : x = NextAccount(w)
  OBVIOUS
<1>11. PICK v \in S : NextAccount(w) < NextAccount(v)
  BY <1>6
<1>12. NextAccount(v) <= x
  BY <1>9
<1> HIDE DEF T, next
<1> QED  BY <1>5, <1>10, <1>11, <1>12

(* Requests never wait in a circle, however many there are and whatever     *)
(* accounts, keys and periods they share: account rows are locked in the    *)
(* order of their ids (_lock_accounts), before the unique indexes and the   *)
(* period, and closings take nothing but their period.                      *)
THEOREM NoDeadlock == Spec => []NoWaitCycle
<1>1. Init => LockOrder
  BY DEF Init, LockOrder, Ascending
<1>2. TypeOK /\ LockOrder => NoWaitCycle
  BY NobodyWaitsInACycle
<1> QED  BY <1>1, <1>2, LockOrderStep, TypeCorrect, PTL DEF Spec

-----------------------------------------------------------------------------
(* Exactly once: the unique indexes. *)

(* Two rows the unique indexes keep apart. *)
Apart(r, s) ==
    /\ r.key # s.key
    /\ r.reverses # 0 => r.reverses # s.reverses

(* A row that is inserted is apart from every committed row, *)
Fresh(w) == pc[w] \in Inserted => \A i \in DOMAIN book : Apart(row[w], book[i])

(* and from those inserted by others. *)
Distinct ==
    \A v, w \in Worker :
        v # w /\ pc[v] \in Inserted /\ pc[w] \in Inserted => Apart(row[v], row[w])

BookApart == \A i, j \in DOMAIN book : i # j => Apart(book[i], book[j])

KeyInv ==
    /\ BookApart
    /\ Distinct
    /\ \A w \in Worker : Fresh(w)

(* The worker that acts: its row is not inserted after the step, it goes on *)
(* with it, or it has just passed the unique indexes.                       *)
LEMMA InsertedSteps ==
    ASSUME TypeOK, NEW w \in Worker, WorkerStep(w)
    PROVE  \/ pc'[w] \notin Inserted
           \/ /\ pc[w] \in Inserted
              /\ row'[w] = row[w] /\ book' = book
           \/ /\ pc[w] = "insert" /\ WaitsFor(w) = {}
              /\ UniqueViolation(w) = "none"
              /\ row'[w] = row[w] /\ book' = book
<1> USE DEF TypeOK, Goto, Finish, Release, job, Inserted
<1>1. CASE \E r \in Request : Arrive(w, r)
  BY <1>1 DEF Arrive, ReceiveTransfer, ReceiveReversal, ReceiveClose, Receive,
              Prepare
<1>2. CASE Examine(w) \/ Lookup(w) \/ Relookup(w) \/ LockAccount(w) \/ Check(w)
  BY <1>2 DEF Examine, Lookup, Relookup, LockAccount, Check
<1>3. CASE Insert(w)
  <2>1. UniqueViolation(w) \in {"idempotency_key", "reverses", "none"}
    BY DEF UniqueViolation
  <2> QED  BY <1>3, <2>1 DEF Insert
<1>4. CASE InsertEntries(w) \/ Commit(w)
  BY <1>4 DEF InsertEntries, Commit
<1>5. CASE Close(w)
  BY <1>5 DEF Close, LockPeriod, DecideClose, CommitClose
<1>6. CASE Reply(w) \/ Crash(w) \/ Timeout(w)
  BY <1>6 DEF Reply, Crash, Idle, Timeout
<1> QED  BY <1>1, <1>2, <1>3, <1>4, <1>5, <1>6
         DEF WorkerStep, Proceed, Post

(* A worker between its checks and its commit has a transfer to write.      *)
LEMMA RowTyped ==
    ASSUME TypeOK, NEW w \in Worker, pc[w] \in Posting
    PROVE  row[w] \in TransferRow
BY DEF TypeOK, WorkerOK

(* What the unique indexes have let in is apart from all there is.          *)
LEMMA IndexesKeepApart ==
    ASSUME TypeOK, NEW w \in Worker,
           pc[w] = "insert", WaitsFor(w) = {}, UniqueViolation(w) = "none"
    PROVE  /\ \A i \in DOMAIN book : Apart(row[w], book[i])
           /\ \A v \in Worker \ {w} :
                 pc[v] \in Inserted => Apart(row[w], row[v]) /\ Apart(row[v], row[w])
<1>1. ~KeyTaken(book, row[w].key)
      /\ (row[w].reverses # 0 => ReversalsOf(book, row[w].reverses) = {})
  BY DEF UniqueViolation
<1>2. \A i \in DOMAIN book : Apart(row[w], book[i])
  BY <1>1 DEF KeyTaken, ReversalsOf, Apart
<1>3. Clashing(w) = {}
  BY DEF WaitsFor
<1>4. ASSUME NEW v \in Worker \ {w}, pc[v] \in Inserted
      PROVE  Apart(row[w], row[v]) /\ Apart(row[v], row[w])
  BY <1>3, <1>4 DEF Clashing, Inserted, Apart
<1> QED  BY <1>2, <1>4

(* Keys stay used once, and targets reversed once.                          *)
LEMMA KeyStep == TypeOK /\ KeyInv /\ [Next]_vars => KeyInv'
<1> SUFFICES ASSUME TypeOK, KeyInv, [Next]_vars
             PROVE  KeyInv'
  OBVIOUS
<1> USE DEF KeyInv
<1>1. ASSUME NEW w \in Worker, WorkerStep(w)
      PROVE  KeyInv'
  <2>1. \A v \in Worker \ {w} : SameWorker(v)
    BY <1>1, OthersUntouched DEF WorkerStep
  <2>2. CASE book' = book
    <3>1. CASE pc'[w] \notin Inserted
      BY <2>1, <2>2, <3>1 DEF SameWorker, Fresh, Distinct, BookApart
    <3>2. CASE pc[w] \in Inserted /\ row'[w] = row[w]
      BY <2>1, <2>2, <3>2 DEF SameWorker, Fresh, Distinct, BookApart
    <3>3. CASE /\ pc[w] = "insert" /\ WaitsFor(w) = {}
               /\ UniqueViolation(w) = "none" /\ row'[w] = row[w]
      <4>1. /\ \A i \in DOMAIN book : Apart(row[w], book[i])
            /\ \A v \in Worker \ {w} :
                  pc[v] \in Inserted
                    => Apart(row[w], row[v]) /\ Apart(row[v], row[w])
        BY <3>3, IndexesKeepApart
      <4> QED  BY <2>1, <2>2, <3>3, <4>1 DEF SameWorker, Fresh, Distinct, BookApart
    <3> QED  BY <1>1, <3>1, <3>2, <3>3, InsertedSteps
  <2>3. CASE Commit(w)
    <3> DEFINE t == row[w]
               n == Len(book) + 1
    <3>1. /\ pc[w] \in Inserted /\ pc'[w] \notin Inserted
          /\ book' = Append(book, t)
      BY <2>3 DEF Commit, Finish, Goto, TypeOK, Inserted
    <3>2. t \in TransferRow /\ book \in Seq(TransferRow)
      BY <3>1, RowTyped DEF TypeOK, Inserted, Posting
    <3>3. /\ DOMAIN book' = DOMAIN book \cup {n} /\ n \notin DOMAIN book
          /\ book'[n] = t
          /\ \A i \in DOMAIN book : book'[i] = book[i]
      BY <3>1, <3>2
    <3>4. \A i \in DOMAIN book : Apart(t, book[i]) /\ Apart(book[i], t)
      BY <3>1 DEF Fresh, Apart
    <3>5. BookApart'
      BY <3>3, <3>4 DEF BookApart
    <3>6. \A v \in Worker : Fresh(v)'
      BY <2>1, <3>1, <3>3 DEF SameWorker, Fresh, Distinct
    <3>7. Distinct'
      BY <2>1, <3>1 DEF SameWorker, Distinct
    <3> QED  BY <3>5, <3>6, <3>7
  <2> QED  BY <1>1, <2>2, <2>3, CommitSteps
<1>2. CASE UNCHANGED <<book, status, pc, req, row, seen, locked, outcome>>
  BY <1>2 DEF BookApart, Distinct, Fresh
<1> QED  BY <1>1, <1>2, StepKinds

(* So it always holds.                                                      *)
LEMMA KeyInvariant == Spec => []KeyInv
<1>1. Init => KeyInv
  BY DEF Init, KeyInv, BookApart, Distinct, Fresh, Inserted
<1> QED  BY <1>1, KeyStep, TypeCorrect, PTL DEF Spec

(* However often a request is sent, by however many clients at once, its    *)
(* key makes at most one transfer: run_idempotent looks it up outside any   *)
(* lock, and the unique index on the key decides the races.                 *)
THEOREM KeysWorkOnce == Spec => []AtMostOnce
<1>1. KeyInv => AtMostOnce
  BY DEF KeyInv, BookApart, Apart, AtMostOnce
<1> QED  BY <1>1, KeyInvariant, PTL

-----------------------------------------------------------------------------
(* Reversals. *)

(* r is a reversal exactly if it names a transfer, and then it takes back   *)
(* what that one did.                                                       *)
Mirrors(b, r) ==
    /\ r.type = "REVERSAL" <=> r.reverses # 0
    /\ r.reverses # 0 => /\ r.reverses \in DOMAIN b
                         /\ r.legs = Flip(b[r.reverses].legs)

(* A worker on its way with a reversal has its target's legs, and has found *)
(* the target to be no reversal.                                            *)
Bound(w) ==
    pc[w] \in Posting =>
        /\ Mirrors(book, row[w])
        /\ row[w].reverses # 0 /\ pc[w] # "examine"
               => book[row[w].reverses].type # "REVERSAL"

BookMirrors ==
    \A j \in DOMAIN book :
        /\ Mirrors(book, book[j])
        /\ book[j].reverses # 0 => /\ book[j].reverses < j
                                   /\ book[book[j].reverses].type # "REVERSAL"

ReversalInv ==
    /\ BookMirrors
    /\ \A w \in Worker : Bound(w)

(* The worker that acts: it has nothing to post after the step, it goes on   *)
(* with what it had, or it starts on a request.                             *)
LEMMA PostingSteps ==
    ASSUME TypeOK, NEW w \in Worker, WorkerStep(w)
    PROVE  \/ pc'[w] \notin Posting
           \/ /\ pc[w] \in Posting
              /\ row'[w] = row[w] /\ book' = book
              /\ pc[w] # "examine" => pc'[w] # "examine"
              /\ pc[w] = "examine" /\ pc'[w] # "examine"
                    => book[row[w].reverses].type # "REVERSAL"
           \/ /\ book' = book
              /\ \E r \in Request \cap TransferRequest :
                    row'[w] = RowOfTransfer(r)
           \/ /\ book' = book /\ pc'[w] = "examine"
              /\ \E r \in Request \cap ReversalRequest, p \in Period :
                    /\ r.target \in DOMAIN book
                    /\ row'[w] = RowOfReversal(r, p, book[r.target].legs)
<1> USE DEF TypeOK, Goto, Finish, Release, job, Posting
<1>1. ASSUME NEW r \in Request, ReceiveTransfer(w, r)
      PROVE  \/ pc'[w] \notin Posting
             \/ /\ book' = book
                /\ \E q \in Request \cap TransferRequest :
                      row'[w] = RowOfTransfer(q)
  <2>1. r \in TransferRequest
    BY <1>1, RequestFields DEF ReceiveTransfer
  <2> QED  BY <1>1, <2>1 DEF ReceiveTransfer, Receive, Prepare
<1>2. ASSUME NEW r \in Request, ReceiveReversal(w, r)
      PROVE  \/ pc'[w] \notin Posting
             \/ /\ book' = book /\ pc'[w] = "examine"
                /\ \E q \in Request \cap ReversalRequest, p \in Period :
                      /\ q.target \in DOMAIN book
                      /\ row'[w] = RowOfReversal(q, p, book[q.target].legs)
  <2> DEFINE p == <<book[r.target].period[1], BookedOn(r)>>
             t == RowOfReversal(r, p, book[r.target].legs)
  <2>1. r \in ReversalRequest
    BY <1>2, RequestFields DEF ReceiveReversal
  <2>2. \/ r.target \in DOMAIN book /\ p \in Period /\ Prepare(w, t, "examine")
        \/ Finish(w, "not_found") \/ Finish(w, "no_period")
    BY <1>2 DEF ReceiveReversal
  <2>3. book' = book
    BY <1>2 DEF ReceiveReversal, Receive
  <2>4. CASE r.target \in DOMAIN book /\ p \in Period /\ Prepare(w, t, "examine")
    <3> HIDE DEF p
    <3> QED  BY <2>1, <2>3, <2>4 DEF Prepare
  <2>5. CASE Finish(w, "not_found") \/ Finish(w, "no_period")
    BY <2>5
  <2> QED  BY <2>2, <2>4, <2>5
<1>3. CASE \E r \in Request : ReceiveClose(w, r)
  BY <1>3 DEF ReceiveClose
<1>4. CASE Examine(w)
  BY <1>4 DEF Examine
<1>5. CASE Lookup(w) \/ Relookup(w) \/ LockAccount(w) \/ Check(w)
  BY <1>5 DEF Lookup, Relookup, LockAccount, Check
<1>6. CASE Insert(w)
  <2>1. UniqueViolation(w) \in {"idempotency_key", "reverses", "none"}
    BY DEF UniqueViolation
  <2> QED  BY <1>6, <2>1 DEF Insert
<1>7. CASE InsertEntries(w) \/ Commit(w)
  BY <1>7 DEF InsertEntries, Commit
<1>8. CASE Close(w)
  BY <1>8 DEF Close, LockPeriod, DecideClose, CommitClose
<1>9. CASE Reply(w) \/ Crash(w) \/ Timeout(w)
  BY <1>9 DEF Reply, Crash, Idle, Timeout
<1> QED  BY <1>1, <1>2, <1>3, <1>4, <1>5, <1>6, <1>7, <1>8, <1>9
         DEF WorkerStep, Arrive, Proceed, Post

(* Committing takes no target away.                                         *)
LEMMA MirrorsOfAppend ==
    ASSUME NEW b \in Seq(TransferRow), NEW t, NEW r, Mirrors(b, r)
    PROVE  Mirrors(Append(b, t), r)
<1>1. \A i \in DOMAIN b : i \in DOMAIN Append(b, t) /\ Append(b, t)[i] = b[i]
  OBVIOUS
<1> QED  BY <1>1 DEF Mirrors

(* Reversals keep to their targets.                                         *)
LEMMA ReversalStep == TypeOK /\ ReversalInv /\ [Next]_vars => ReversalInv'
<1> SUFFICES ASSUME TypeOK, ReversalInv, [Next]_vars
             PROVE  ReversalInv'
  OBVIOUS
<1> USE DEF ReversalInv
<1>1. ASSUME NEW w \in Worker, WorkerStep(w)
      PROVE  ReversalInv'
  <2>1. \A v \in Worker \ {w} : SameWorker(v)
    BY <1>1, OthersUntouched DEF WorkerStep
  <2>2. CASE book' = book
    <3>1. \A v \in Worker \ {w} : Bound(v)'
      BY <2>1, <2>2 DEF SameWorker, Bound
    <3>2. Bound(w)'
      <4>1. CASE pc'[w] \notin Posting
        BY <4>1 DEF Bound
      <4>2. CASE /\ pc[w] \in Posting /\ row'[w] = row[w]
                 /\ pc[w] # "examine" => pc'[w] # "examine"
                 /\ pc[w] = "examine" /\ pc'[w] # "examine"
                       => book[row[w].reverses].type # "REVERSAL"
        BY <2>2, <4>2 DEF Bound
      <4>3. CASE \E r \in Request \cap TransferRequest :
                    row'[w] = RowOfTransfer(r)
        <5>1. row'[w].type # "REVERSAL" /\ row'[w].reverses = 0
          BY <4>3 DEF RowOfTransfer, TransferRequest
        <5> QED  BY <5>1 DEF Bound, Mirrors
      <4>4. CASE /\ pc'[w] = "examine"
                 /\ \E r \in Request \cap ReversalRequest, p \in Period :
                       /\ r.target \in DOMAIN book
                       /\ row'[w] = RowOfReversal(r, p, book[r.target].legs)
        <5>1. /\ row'[w].type = "REVERSAL" /\ row'[w].reverses # 0
              /\ row'[w].reverses \in DOMAIN book
              /\ row'[w].legs = Flip(book[row'[w].reverses].legs)
          BY <4>4 DEF RowOfReversal, ReversalRequest
        <5> QED  BY <2>2, <4>4, <5>1 DEF Bound, Mirrors
      <4> QED  BY <1>1, <4>1, <4>2, <4>3, <4>4, PostingSteps
    <3> QED  BY <2>2, <3>1, <3>2 DEF BookMirrors
  <2>3. CASE Commit(w)
    <3> DEFINE t == row[w]
               n == Len(book) + 1
    <3>1. /\ pc[w] = "commit" /\ pc'[w] = "reply"
          /\ book' = Append(book, t)
      BY <2>3 DEF Commit, Finish, Goto, TypeOK
    <3>2. t \in TransferRow /\ book \in Seq(TransferRow)
      BY <3>1, RowTyped DEF TypeOK, Posting
    <3>3. /\ DOMAIN book' = DOMAIN book \cup {n}
          /\ book'[n] = t /\ DOMAIN book = 1..Len(book) /\ Len(book) \in Nat
          /\ \A i \in DOMAIN book : book'[i] = book[i]
      BY <3>1, <3>2
    <3>4. /\ Mirrors(book, t)
          /\ t.reverses # 0 => book[t.reverses].type # "REVERSAL"
      BY <3>1 DEF Bound, Posting
    <3>5. \A r : Mirrors(book, r) => Mirrors(book', r)
      BY <3>1, <3>2, MirrorsOfAppend
    <3>6. BookMirrors'
      <4>1. ASSUME NEW j \in DOMAIN book
            PROVE  /\ Mirrors(book', book'[j])
                   /\ book'[j].reverses # 0 =>
                         /\ book'[j].reverses < j
                         /\ book'[book'[j].reverses].type # "REVERSAL"
        BY <3>3, <3>5, <4>1 DEF BookMirrors, Mirrors
      <4>2. /\ Mirrors(book', t)
            /\ t.reverses # 0 => /\ t.reverses < n
                                 /\ book'[t.reverses].type # "REVERSAL"
        BY <3>3, <3>4, <3>5 DEF Mirrors
      <4> QED  BY <3>3, <4>1, <4>2 DEF BookMirrors
    <3>7. ASSUME NEW v \in Worker
          PROVE  Bound(v)'
      <4>1. CASE v = w
        BY <3>1, <4>1 DEF Bound, Posting
      <4>2. CASE v # w
        BY <2>1, <3>3, <3>5, <4>2 DEF SameWorker, Bound, Mirrors
      <4> QED  BY <4>1, <4>2
    <3> QED  BY <3>6, <3>7
  <2> QED  BY <1>1, <2>2, <2>3, CommitSteps
<1>2. CASE UNCHANGED <<book, status, pc, req, row, seen, locked, outcome>>
  BY <1>2 DEF BookMirrors, Bound
<1> QED  BY <1>1, <1>2, StepKinds

(* So it always holds.                                                      *)
LEMMA ReversalInvariant == Spec => []ReversalInv
<1>1. Init => ReversalInv
  BY DEF Init, ReversalInv, BookMirrors, Bound, Posting
<1> QED  BY <1>1, ReversalStep, TypeCorrect, PTL DEF Spec

(* A reversal cancels one earlier transfer, leg by leg on every account, and *)
(* no transfer is cancelled twice, whatever reversals race: reverse_transfer *)
(* copies the original's legs and the unique index on reverses decides.     *)
THEOREM ReversalsCancelOnce == Spec => []ReversalsCancel
<1>1. TypeOK /\ KeyInv /\ ReversalInv => ReversalsCancel
  <2> SUFFICES ASSUME TypeOK, KeyInv, ReversalInv,
                      NEW j \in DOMAIN book, book[j].type = "REVERSAL"
               PROVE  LET i == book[j].reverses IN
                      /\ i \in 1..(j - 1)
                      /\ book[i].type # "REVERSAL"
                      /\ ReversalsOf(book, i) = {j}
                      /\ \A a \in Account :
                            Delta(book[i].legs, a) + Delta(book[j].legs, a) = 0
    BY DEF ReversalsCancel
  <2> DEFINE i == book[j].reverses
  <2>1. /\ i \in DOMAIN book /\ i # 0 /\ i < j
        /\ book[i].type # "REVERSAL"
        /\ book[j].legs = Flip(book[i].legs)
    BY DEF ReversalInv, BookMirrors, Mirrors
  <2>2. book \in Seq(TransferRow)
    BY DEF TypeOK
  <2>3. i \in 1..(j - 1)
    BY <2>1, <2>2
  <2>4. \A k \in DOMAIN book : book[k].reverses = i => k = j
    BY <2>1 DEF KeyInv, BookApart, Apart
  <2>5. ReversalsOf(book, i) = {j}
    BY <2>4 DEF ReversalsOf
  <2>6. book[i].legs \in Seq(Leg)
    <3> HIDE DEF i
    <3>1. book[i] \in TransferRow
      BY <2>1, <2>2
    <3> QED  BY <3>1 DEF TransferRow
  <2>7. \A a : Delta(book[i].legs, a) + Delta(book[j].legs, a) = 0
    BY <2>1, <2>6, FlipCancels
  <2> QED  BY <2>1, <2>3, <2>5, <2>7
<1> QED  BY <1>1, ReversalInvariant, KeyInvariant, TypeCorrect, PTL

-----------------------------------------------------------------------------
(* Periods: their row locks. *)

(* What a worker knows of the period it holds, shared or for itself. *)
Held(w) ==
    /\ pc[w] = "commit" =>
          /\ status[row[w].period] = "OPEN"
          /\ Closers(row[w].period) = {}
    /\ pc[w] \in {"decide", "closing"} => Closers(req[w].period) = {w}
    /\ pc[w] = "closing" => EarlierOpen(req[w].period) = {}

PeriodInv ==
    /\ ClosedInOrder
    /\ \A w \in Worker : Held(w)

(* A closing works on a period there is.                                    *)
LEMMA ClosingPeriod ==
    ASSUME TypeOK, NEW w \in Worker, pc[w] \in Closing
    PROVE  req[w].period \in Period
<1>1. req[w] \in Request /\ req[w].kind = "close"
  BY DEF TypeOK, WorkerOK
<1> QED  BY <1>1, RequestFields DEF CloseRequest

(* The worker that acts: it holds no period after the step, or how it came  *)
(* to hold it.                                                              *)
LEMMA HoldingSteps ==
    ASSUME TypeOK, NEW w \in Worker, WorkerStep(w)
    PROVE  \/ /\ pc'[w] \notin {"commit", "decide", "closing"}
              /\ status' = status \/ CommitClose(w)
           \/ /\ pc[w] = "entries" /\ pc'[w] = "commit"
              /\ WaitsFor(w) = {} /\ StatusNow(w) = "OPEN"
              /\ UNCHANGED <<row, req, status>>
           \/ /\ pc[w] = "period" /\ pc'[w] = "decide" /\ WaitsFor(w) = {}
              /\ UNCHANGED <<row, req, status>>
           \/ /\ pc[w] = "decide" /\ pc'[w] = "closing"
              /\ EarlierOpen(req[w].period) = {}
              /\ UNCHANGED <<row, req, status>>
<1> USE DEF TypeOK, Goto, Finish, Release, job
<1>1. CASE \E r \in Request : Arrive(w, r)
  BY <1>1 DEF Arrive, ReceiveTransfer, ReceiveReversal, ReceiveClose, Receive,
              Prepare
<1>2. CASE Examine(w) \/ Lookup(w) \/ Relookup(w) \/ LockAccount(w) \/ Check(w)
  BY <1>2 DEF Examine, Lookup, Relookup, LockAccount, Check
<1>3. CASE Insert(w) \/ Commit(w)
  BY <1>3 DEF Insert, Commit
<1>4. CASE InsertEntries(w)
  <2>1. Refused(w) = "none" => StatusNow(w) = "OPEN"
    BY DEF Refused
  <2> QED  BY <1>4, <2>1 DEF InsertEntries
<1>5. CASE LockPeriod(w)
  BY <1>5 DEF LockPeriod
<1>6. CASE DecideClose(w)
  BY <1>6 DEF DecideClose
<1>7. CASE CommitClose(w)
  BY <1>7 DEF CommitClose
<1>8. CASE Reply(w) \/ Crash(w) \/ Timeout(w)
  BY <1>8 DEF Reply, Crash, Idle, Timeout
<1> QED  BY <1>1, <1>2, <1>3, <1>4, <1>5, <1>6, <1>7, <1>8
         DEF WorkerStep, Proceed, Post, Close

(* Every step keeps the periods in order.                                   *)
LEMMA PeriodStep == TypeOK /\ PeriodInv /\ [Next]_vars => PeriodInv'
<1> SUFFICES ASSUME TypeOK, PeriodInv, [Next]_vars
             PROVE  PeriodInv'
  OBVIOUS
<1>0. ClosedInOrder /\ \A v \in Worker : Held(v)
  BY DEF PeriodInv
<1>1. ASSUME NEW w \in Worker, WorkerStep(w)
      PROVE  PeriodInv'
  <2>1. \A v \in Worker \ {w} : SameWorker(v)
    BY <1>1, OthersUntouched DEF WorkerStep
  <2>2. CASE /\ pc'[w] \notin {"commit", "decide", "closing"}
             /\ status' = status
    <3>1. \A p : Closers(p)' = Closers(p) \ {w}
      BY <2>1, <2>2 DEF Closers, SameWorker
    <3>2. \A p : EarlierOpen(p)' = EarlierOpen(p)
      BY <2>2 DEF EarlierOpen
    <3>3. Held(w)'
      BY <2>2 DEF Held
    <3>4. ASSUME NEW v \in Worker \ {w}
          PROVE  Held(v)'
      <4>1. Held(v) /\ SameWorker(v)
        BY <1>0, <2>1
      <4> QED  BY <2>2, <3>1, <3>2, <4>1 DEF Held, SameWorker
    <3> QED  BY <1>0, <2>2, <3>3, <3>4 DEF PeriodInv, ClosedInOrder
  <2>3. CASE /\ pc'[w] \notin {"commit", "decide", "closing"}
             /\ CommitClose(w)
    <3> DEFINE c == req[w].period
    <3>1. /\ pc[w] = "closing" /\ status' = [status EXCEPT ![c] = "CLOSED"]
      BY <2>3 DEF CommitClose
    <3>2. c \in Period
      BY <3>1, ClosingPeriod DEF Closing
    <3>3. Closers(c) = {w} /\ EarlierOpen(c) = {}
      BY <1>0, <3>1 DEF Held
    <3> HIDE DEF c
    <3>4. /\ status'[c] = "CLOSED"
          /\ \A p \in Period : p # c => status'[p] = status[p]
          /\ \A p \in Period : status[p] \in {"OPEN", "CLOSED"}
      BY <3>1, <3>2 DEF TypeOK
    <3>5. ClosedInOrder'
      BY <1>0, <3>2, <3>3, <3>4 DEF ClosedInOrder, EarlierOpen
    <3>6. \A p : Closers(p)' = Closers(p) \ {w}
      BY <2>1, <2>3 DEF Closers, SameWorker
    <3>7. \A p : EarlierOpen(p)' \subseteq EarlierOpen(p)
      BY <3>4 DEF EarlierOpen
    <3>8. Held(w)'
      BY <2>3 DEF Held
    <3>9. ASSUME NEW v \in Worker \ {w}
          PROVE  Held(v)'
      <4>1. Held(v) /\ SameWorker(v)
        BY <1>0, <2>1
      <4>2. ASSUME pc[v] = "commit"
            PROVE  status'[row[v].period] = "OPEN"
        <5>1. Closers(row[v].period) = {} /\ status[row[v].period] = "OPEN"
          BY <4>1, <4>2 DEF Held
        <5>2. row[v].period # c
          BY <3>3, <5>1
        <5>3. row[v].period \in Period
          BY <4>2 DEF TypeOK, WorkerOK, Posting, TransferRow
        <5> QED  BY <3>4, <5>1, <5>2, <5>3
      <4>3. pc[v] \in {"decide", "closing"} => Closers(req[v].period)' = {v}
        BY <3>6, <4>1 DEF Held, SameWorker
      <4>4. pc[v] = "commit" => Closers(row[v].period)' = {}
        BY <3>6, <4>1 DEF Held, SameWorker
      <4>5. pc[v] = "closing" => EarlierOpen(req[v].period)' = {}
        BY <3>7, <4>1 DEF Held, SameWorker
      <4> QED  BY <4>1, <4>2, <4>3, <4>4, <4>5 DEF Held, SameWorker
    <3> QED  BY <3>5, <3>8, <3>9 DEF PeriodInv
  <2>4. CASE /\ pc[w] = "entries" /\ pc'[w] = "commit"
             /\ WaitsFor(w) = {} /\ StatusNow(w) = "OPEN"
             /\ UNCHANGED <<row, req, status>>
    <3>1. \A p : Closers(p)' = Closers(p)
      BY <2>1, <2>4 DEF Closers, SameWorker
    <3>2. Closers(row[w].period) = {}
      BY <2>4 DEF WaitsFor
    <3>3. Held(w)'
      BY <2>4, <3>1, <3>2 DEF Held, StatusNow
    <3>4. ASSUME NEW v \in Worker \ {w}
          PROVE  Held(v)'
      <4>1. Held(v) /\ SameWorker(v)
        BY <1>0, <2>1
      <4> QED  BY <2>4, <3>1, <4>1 DEF Held, SameWorker, EarlierOpen
    <3> QED  BY <1>0, <2>4, <3>3, <3>4 DEF PeriodInv, ClosedInOrder
  <2>5. CASE /\ pc[w] = "period" /\ pc'[w] = "decide" /\ WaitsFor(w) = {}
             /\ UNCHANGED <<row, req, status>>
    <3> DEFINE c == req[w].period
    <3>1. Sharers(c) = {} /\ Closers(c) = {}
      BY <2>5 DEF WaitsFor
    <3>2. /\ \A p : p # c => Closers(p)' = Closers(p)
          /\ \A p : p = c => Closers(p)' = {w}
      <4>1. \A p : Closers(p)' =
                 {v \in Worker \ {w} : v \in Closers(p)}
                   \cup (IF p = c THEN {w} ELSE {})
        BY <2>1, <2>5 DEF Closers, SameWorker
      <4>2. \A p : w \notin Closers(p) /\ Closers(p) \subseteq Worker
        BY <2>5 DEF Closers
      <4>3. \A p : p # c => {v \in Worker \ {w} : v \in Closers(p)} = Closers(p)
        BY <4>2
      <4>4. {v \in Worker \ {w} : v \in Closers(c)} = {}
        BY <3>1
      <4> HIDE DEF c
      <4>5. ASSUME NEW p, p # c
            PROVE  Closers(p)' = Closers(p)
        BY <4>1, <4>3, <4>5
      <4>6. ASSUME NEW p, p = c
            PROVE  Closers(p)' = {w}
        BY <4>1, <4>4, <4>6
      <4> QED  BY <4>5, <4>6
    <3>3. Held(w)'
      BY <2>5, <3>2 DEF Held
    <3>4. ASSUME NEW v \in Worker \ {w}
          PROVE  Held(v)'
      <4>1. Held(v) /\ SameWorker(v)
        BY <1>0, <2>1
      <4>2. pc[v] = "commit" => row[v].period # c
        BY <3>1 DEF Sharers
      <4>3. pc[v] \in {"decide", "closing"} => req[v].period # c
        BY <3>1 DEF Closers
      <4> HIDE DEF c
      <4> QED  BY <2>5, <3>2, <4>1, <4>2, <4>3 DEF Held, SameWorker, EarlierOpen
    <3> QED  BY <1>0, <2>5, <3>3, <3>4 DEF PeriodInv, ClosedInOrder
  <2>6. CASE /\ pc[w] = "decide" /\ pc'[w] = "closing"
             /\ EarlierOpen(req[w].period) = {}
             /\ UNCHANGED <<row, req, status>>
    <3>1. \A p : Closers(p)' = Closers(p)
      BY <2>1, <2>6 DEF Closers, SameWorker
    <3>2. \A v \in Worker : Held(v)'
      BY <1>0, <2>1, <2>6, <3>1 DEF Held, SameWorker, EarlierOpen
    <3> QED  BY <1>0, <2>6, <3>2 DEF PeriodInv, ClosedInOrder
  <2> QED  BY <1>1, <2>2, <2>3, <2>4, <2>5, <2>6, HoldingSteps
<1>2. CASE UNCHANGED <<book, status, pc, req, row>>
  BY <1>0, <1>2 DEF PeriodInv, Held, Closers, EarlierOpen, ClosedInOrder
<1> QED  BY <1>1, <1>2 DEF Next, WorkerStep, Tick, Quiet, vars, job

(* So it always holds.                                                      *)
LEMMA PeriodInvariant == Spec => []PeriodInv
<1>1. Init => PeriodInv
  BY DEF Init, PeriodInv, ClosedInOrder, Held
<1> QED  BY <1>1, PeriodStep, TypeCorrect, PTL DEF Spec

(* The closed periods of a fund are always its first ones, even when two    *)
(* closings run at once: close_period decides under the lock of its period, *)
(* and a period once closed stays closed.                                   *)
THEOREM PeriodsCloseInOrder == Spec => []ClosedInOrder
<1>1. PeriodInv => ClosedInOrder
  BY DEF PeriodInv
<1> QED  BY <1>1, PeriodInvariant, PTL

(* Nothing is posted into a closed period, not even by a transfer that was  *)
(* checked while the period was open, and no period opens again: the        *)
(* trigger's FOR SHARE and the closing's FOR UPDATE exclude each other.     *)
THEOREM ClosedPeriodsAreFinal == Spec => ClosedIsFinal
<1> DEFINE Final ==
      \A p \in Period : status[p] = "CLOSED" =>
        /\ status'[p] = "CLOSED"
        /\ \A i \in DOMAIN book' : book'[i].period = p => i \in DOMAIN book
<1>1. ASSUME TypeOK, PeriodInv, [Next]_vars, NEW p \in Period,
             status[p] = "CLOSED"
      PROVE  /\ status'[p] = "CLOSED"
             /\ \A i \in DOMAIN book' : book'[i].period = p => i \in DOMAIN book
  <2>1. ASSUME NEW w \in Worker, WorkerStep(w)
        PROVE  /\ status'[p] = "CLOSED"
               /\ \A i \in DOMAIN book' : book'[i].period = p => i \in DOMAIN book
    <3>1. status'[p] = "CLOSED"
      BY <1>1, <2>1, HoldingSteps DEF CommitClose, TypeOK
    <3>2. CASE book' = book
      BY <3>1, <3>2
    <3>3. CASE pc[w] = "commit" /\ book' = Append(book, row[w])
      <4>1. row[w].period # p
        BY <1>1, <3>3 DEF PeriodInv, Held
      <4>2. book \in Seq(TransferRow)
        BY <1>1 DEF TypeOK
      <4>3. \A i \in DOMAIN book' : i \in DOMAIN book \/ book'[i] = row[w]
        BY <3>3, <4>2
      <4> QED  BY <3>1, <4>1, <4>3
    <3> QED  BY <1>1, <2>1, <3>2, <3>3, OthersUntouched DEF WorkerStep
  <2>2. CASE UNCHANGED <<book, status>>
    BY <1>1, <2>2
  <2> QED  BY <1>1, <2>1, <2>2 DEF Next, WorkerStep, Tick, Quiet, vars
<1>2. TypeOK /\ PeriodInv /\ [Next]_vars => [Final]_vars
  BY <1>1
<1> QED  BY <1>2, PeriodInvariant, TypeCorrect, PTL DEF Spec, ClosedIsFinal
-----------------------------------------------------------------------------
(* The promise of the abstract ledger.                                      *)

(* AbstractLedger has the data of Books.tla for its own: its operators are  *)
(* the same.                                                                *)
LEMMA SameBooks ==
    /\ \A legs, a : Abstract!Delta(legs, a) = Delta(legs, a)
    /\ \A legs : Abstract!Touched(legs) = Touched(legs)
    /\ \A legs : Abstract!Balanced(legs) = Balanced(legs)
    /\ \A legs, p : Abstract!OwnFund(legs, p) = OwnFund(legs, p)
    /\ \A legs : Abstract!Flip(legs) = Flip(legs)
    /\ \A b, a : Abstract!NativeBalance(b, a) = NativeBalance(b, a)
    /\ \A b, k : Abstract!KeyTaken(b, k) = KeyTaken(b, k)
    /\ \A b, i : Abstract!ReversalsOf(b, i) = ReversalsOf(b, i)
<1>0. \A S, f : Abstract!SumOf(S, f) = SumOf(S, f)
  <2>1. \A S : Abstract!Cardinality(S) = Cardinality(S)
    BY DEF Abstract!Cardinality, Cardinality
  <2> QED  BY <2>1 DEF Abstract!SumOf, SumOf
<1>1. \A legs, a : Abstract!Delta(legs, a) = Delta(legs, a)
  BY <1>0 DEF Abstract!Delta, Delta, Abstract!Side, Side,
              Abstract!Amounts, Amounts
<1>2. \A legs : Abstract!Touched(legs) = Touched(legs)
  BY DEF Abstract!Touched, Touched
<1>3. \A legs : Abstract!Balanced(legs) = Balanced(legs)
  BY <1>0 DEF Abstract!Balanced, Balanced, Abstract!Side, Side,
              Abstract!Bases, Bases
<1>4. \A legs, p : Abstract!OwnFund(legs, p) = OwnFund(legs, p)
  BY <1>2 DEF Abstract!OwnFund, OwnFund
<1>5. \A legs : Abstract!Flip(legs) = Flip(legs)
  BY DEF Abstract!Flip, Flip, Abstract!Opposite, Opposite
<1>6. \A b, a : Abstract!NativeBalance(b, a) = NativeBalance(b, a)
  BY <1>0 DEF Abstract!NativeBalance, NativeBalance, Abstract!EntriesOn,
              EntriesOn, Abstract!EntryOf, EntryOf, Abstract!Entries, Entries
<1>7. \A b, k : Abstract!KeyTaken(b, k) = KeyTaken(b, k)
  BY DEF Abstract!KeyTaken, KeyTaken
<1>8. \A b, i : Abstract!ReversalsOf(b, i) = ReversalsOf(b, i)
  BY DEF Abstract!ReversalsOf, ReversalsOf
<1> QED  BY <1>1, <1>2, <1>3, <1>4, <1>5, <1>6, <1>7, <1>8

-----------------------------------------------------------------------------
(* Every transfer is one that was asked for. *)

(* A worker with a transfer to post has it from a request of its own kind:  *)
(* as the client gave it, or as the reversal of a transfer in the book.     *)
AskedFor(w) ==
    pc[w] \in Posting =>
        \/ row[w] \in TransferRows
        \/ \E r \in Request \cap ReversalRequest, p \in Period :
              /\ r.target \in DOMAIN book
              /\ row[w] = RowOfReversal(r, p, book[r.target].legs)

RowInv ==
    /\ \A i \in DOMAIN book : book[i] \in Row
    /\ \A w \in Worker : AskedFor(w)

(* What a worker has is still what was asked for when the book has grown.   *)
LEMMA AskedForLater ==
    ASSUME NEW w \in Worker, AskedFor(w), book \in Seq(TransferRow),
           pc'[w] \in Posting => pc[w] \in Posting /\ row'[w] = row[w],
           book' = book \/ \E t : book' = Append(book, t)
    PROVE  AskedFor(w)'
<1>1. \A i \in DOMAIN book : i \in DOMAIN book' /\ book'[i] = book[i]
  OBVIOUS
<1> QED  BY <1>1 DEF AskedFor

(* A transfer that commits is one that could be asked for: a reversal is of *)
(* a committed transfer, which is no reversal itself.                       *)
LEMMA CommitsARow ==
    ASSUME TypeOK, ReversalInv, RowInv, NEW w \in Worker, pc[w] = "commit"
    PROVE  row[w] \in Row
<1>1. AskedFor(w) /\ Bound(w) /\ pc[w] \in Posting
  BY DEF RowInv, ReversalInv, Posting
<1>2. CASE row[w] \in TransferRows
  BY <1>2 DEF Row
<1>3. ASSUME NEW r \in Request \cap ReversalRequest, NEW p \in Period,
             r.target \in DOMAIN book,
             row[w] = RowOfReversal(r, p, book[r.target].legs)
      PROVE  row[w] \in Row
  <2>1. row[w].reverses = r.target /\ r.target # 0 /\ r.kind = "reversal"
    BY <1>3 DEF RowOfReversal, ReversalRequest
  <2>2. book[r.target].type # "REVERSAL"
    BY <1>1, <2>1 DEF Bound
  <2>3. book[r.target] \in Row
    BY <1>3 DEF RowInv
  <2>4. \A q, d, legs : RowOfReversal(q, d, legs).type = "REVERSAL"
    BY DEF RowOfReversal
  <2>5. book[r.target] \in TransferRows
    BY <2>2, <2>3, <2>4 DEF Row
  <2> QED  BY <1>3, <2>1, <2>5 DEF Row
<1> QED  BY <1>1, <1>2, <1>3 DEF AskedFor

(* Every step posts what was asked for.                                     *)
LEMMA RowStep == TypeOK /\ ReversalInv /\ RowInv /\ [Next]_vars => RowInv'
<1> SUFFICES ASSUME TypeOK, ReversalInv, RowInv, [Next]_vars
             PROVE  RowInv'
  OBVIOUS
<1>0. /\ \A i \in DOMAIN book : book[i] \in Row
      /\ \A w \in Worker : AskedFor(w)
      /\ book \in Seq(TransferRow)
  BY DEF RowInv, TypeOK
<1>1. ASSUME NEW w \in Worker, WorkerStep(w)
      PROVE  RowInv'
  <2>1. /\ \A v \in Worker \ {w} : SameWorker(v)
        /\ book' = book \/ (pc[w] = "commit" /\ book' = Append(book, row[w]))
    BY <1>1, OthersUntouched DEF WorkerStep
  <2>2. \A v \in Worker \ {w} : AskedFor(v)'
    BY <1>0, <2>1, AskedForLater DEF SameWorker
  <2>3. AskedFor(w)'
    <3>1. CASE pc'[w] \notin Posting
      BY <3>1 DEF AskedFor
    <3>2. CASE pc[w] \in Posting /\ row'[w] = row[w]
      BY <1>0, <2>1, <3>2, AskedForLater
    <3>3. CASE \E r \in Request \cap TransferRequest : row'[w] = RowOfTransfer(r)
      BY <3>3 DEF AskedFor, TransferRows, TransferRequest
    <3>4. CASE /\ book' = book
               /\ \E r \in Request \cap ReversalRequest, p \in Period :
                     /\ r.target \in DOMAIN book
                     /\ row'[w] = RowOfReversal(r, p, book[r.target].legs)
      BY <3>4 DEF AskedFor
    <3> QED  BY <1>1, <3>1, <3>2, <3>3, <3>4, PostingSteps
  <2>4. \A i \in DOMAIN book' : book'[i] \in Row
    <3>1. CASE book' = book
      BY <1>0, <3>1
    <3>2. CASE pc[w] = "commit" /\ book' = Append(book, row[w])
      <4>1. row[w] \in Row
        BY <3>2, CommitsARow
      <4> QED  BY <1>0, <3>2, <4>1
    <3> QED  BY <2>1, <3>1, <3>2
  <2> QED  BY <2>2, <2>3, <2>4 DEF RowInv
<1>2. CASE UNCHANGED <<book, status, pc, req, row, seen, locked, outcome>>
  BY <1>0, <1>2 DEF RowInv, AskedFor
<1> QED  BY <1>1, <1>2, StepKinds

(* So it always holds.                                                      *)
LEMMA RowInvariant == Spec => []RowInv
<1>1. Init => RowInv
  BY DEF Init, RowInv, AskedFor, Posting
<1> QED  BY <1>1, RowStep, ReversalInvariant, TypeCorrect, PTL DEF Spec

-----------------------------------------------------------------------------
(* The steps of the engine are steps of the ledger it promises. *)

EngineInv == TypeOK /\ FundsInv /\ KeyInv /\ PeriodInv /\ ReversalInv /\ RowInv

(* What commits is acceptable to the promise at that moment, though it was  *)
(* checked earlier: the locks and the unique indexes have kept it so.       *)
LEMMA CommitIsAcceptable ==
    ASSUME EngineInv, NEW w \in Worker, Commit(w), FundsInv'
    PROVE  Abstract!Acceptable(row[w])
<1> DEFINE t == row[w]
<1> USE DEF EngineInv
<1>1. /\ pc[w] = "commit" /\ pc[w] \in Posting
      /\ book' = Append(book, t)
      /\ t \in TransferRow /\ book \in Seq(TransferRow)
  BY RowTyped DEF Commit, Posting, TypeOK
<1>2. \A i \in DOMAIN book : Apart(t, book[i])
  BY <1>1 DEF KeyInv, Fresh, Inserted
<1>3. ~Abstract!KeyTaken(book, t.key)
  BY <1>2, SameBooks DEF KeyTaken, Apart
<1>4. status[t.period] = "OPEN"
  BY <1>1 DEF PeriodInv, Held
<1>5. /\ Balanced(t.legs)
      /\ OwnFund(t.legs, t.period)
      /\ Touched(t.legs) \subseteq Account
  BY <1>1 DEF FundsInv, Covered, Checked, TypeOK
<1>6. \A a \in Cash : NativeBalance(book, a) + Delta(t.legs, a) >= 0
  <2> TAKE a \in Cash
  <2>1. NativeBalance(book', a) >= 0
    BY DEF FundsInv, NoOverdraft
  <2>2. NativeBalance(book', a) = NativeBalance(book, a) + Delta(t.legs, a)
    BY <1>1, BalanceOfAppend DEF FundsInv
  <2> QED  BY <2>1, <2>2
<1>7. t.type = "REVERSAL" => Abstract!Cancels(t)
  <2> SUFFICES ASSUME t.type = "REVERSAL"
               PROVE  Abstract!Cancels(t)
    OBVIOUS
  <2>1. /\ t.reverses # 0
        /\ t.reverses \in DOMAIN book
        /\ book[t.reverses].type # "REVERSAL"
        /\ t.legs = Flip(book[t.reverses].legs)
    BY <1>1 DEF ReversalInv, Bound, Mirrors
  <2>2. ReversalsOf(book, t.reverses) = {}
    BY <1>2, <2>1 DEF ReversalsOf, Apart
  <2> QED  BY <2>1, <2>2, SameBooks DEF Abstract!Cancels
<1> HIDE DEF t
<1>8. Abstract!Acceptable(t)
  BY <1>3, <1>4, <1>5, <1>6, <1>7, SameBooks DEF Abstract!Acceptable
<1> QED  BY <1>8 DEF t

(* A closing closes the next open period of its fund, or changes nothing.   *)
LEMMA ClosingIsInOrder ==
    ASSUME EngineInv, NEW w \in Worker, CommitClose(w)
    PROVE  \/ \E p \in Period : Abstract!Close(p)
           \/ UNCHANGED <<book, status>>
<1> DEFINE p == req[w].period
<1>1. /\ pc[w] = "closing" /\ pc[w] \in Closing
      /\ status' = [status EXCEPT ![p] = "CLOSED"] /\ book' = book
  BY DEF CommitClose, Closing
<1>2. p \in Period /\ status \in [Period -> {"OPEN", "CLOSED"}]
  BY <1>1, ClosingPeriod DEF EngineInv, TypeOK
<1>3. EarlierOpen(p) = {}
  BY <1>1 DEF EngineInv, PeriodInv, Held
<1> HIDE DEF p
<1>4. \A q \in Period : q[1] = p[1] /\ q[2] < p[2] => status[q] = "CLOSED"
  BY <1>2, <1>3 DEF EarlierOpen
<1>5. CASE status[p] = "OPEN"
  BY <1>1, <1>2, <1>4, <1>5 DEF Abstract!Close
<1>6. CASE status[p] = "CLOSED"
  BY <1>1, <1>2, <1>6
<1> QED  BY <1>2, <1>5, <1>6

(* Every step of the engine is a step of the promise or a stutter.          *)
LEMMA StepsKeepThePromise ==
    ASSUME EngineInv, FundsInv', [Next]_vars
    PROVE  [Abstract!Next]_(Abstract!vars)
<1>1. ASSUME NEW w \in Worker, Commit(w)
      PROVE  \E r \in Row : Abstract!Post(r)
  <2>1. row[w] \in Row
    BY <1>1, CommitsARow DEF EngineInv, Commit
  <2>2. Abstract!Post(row[w])
    BY <1>1, CommitIsAcceptable DEF Commit, Abstract!Post
  <2> QED  BY <2>1, <2>2
<1>2. ASSUME NEW w \in Worker, WorkerStep(w)
      PROVE  \/ \E r \in Row : Abstract!Post(r)
             \/ \E p \in Period : Abstract!Close(p)
             \/ UNCHANGED <<book, status>>
  <2>1. book' = book \/ Commit(w)
    BY <1>2, CommitSteps
  <2>2. status' = status \/ CommitClose(w)
    BY <1>2, HoldingSteps DEF EngineInv
  <2> QED  BY <1>1, <2>1, <2>2, ClosingIsInOrder
<1>3. \/ \E r \in Row : Abstract!Post(r)
      \/ \E p \in Period : Abstract!Close(p)
      \/ UNCHANGED <<book, status>>
  BY <1>2, StepKinds
<1> QED  BY <1>3 DEF Abstract!Next, Abstract!vars

(* Whatever workers do at once, and however they crash, wait or repeat      *)
(* themselves, the committed book and the periods behave as if transfers    *)
(* were posted one at a time, each acceptable when it commits: in funds, in  *)
(* an open period, under a new key, and, if it reverses, of a transfer that  *)
(* nothing has reversed (post_transfer, reverse_transfer, close_period).    *)
THEOREM KeepsItsPromise == Spec => AbstractSpec
<1>1. Init => Abstract!Init
  BY DEF Init, Abstract!Init
<1>2. EngineInv /\ FundsInv' /\ [Next]_vars => [Abstract!Next]_(Abstract!vars)
  BY StepsKeepThePromise
<1>3. Spec => []EngineInv
  BY TypeCorrect, FundsInvariant, KeyInvariant, PeriodInvariant,
     ReversalInvariant, RowInvariant, PTL DEF EngineInv
<1>4. EngineInv => FundsInv
  BY DEF EngineInv
<1> QED  BY <1>1, <1>2, <1>3, <1>4, PTL
         DEF Spec, AbstractSpec, Abstract!Spec

-----------------------------------------------------------------------------
(* The engine in the service of others. *)

(* An operation that looks its key up itself and works out its legs later    *)
(* enters the engine where the rows are locked.                             *)
Enter(w, r) ==
    /\ pc[w] = "idle"
    /\ r \in Request /\ r.kind = "transfer"
    /\ Goto(w, "lock")
    /\ req' = [req EXCEPT ![w] = r]
    /\ row' = [row EXCEPT ![w] = RowOfTransfer(r)]
    /\ seen' = [seen EXCEPT ![w] = status[r.period]]
    /\ UNCHANGED <<book, status, today, locked, outcome, answers, attempts>>

(* Until then the engine knows of it as a request that was received.        *)
Aside ==
    /\ attempts' \in 0..MaxAttempts
    /\ UNCHANGED <<book, status, today, pc, req, row, seen, locked, outcome,
                   answers>>

Safe == EngineInv /\ LockOrder

(* The engine's invariants hold at first,                                   *)
LEMMA SafeInit == Init => Safe
<1> SUFFICES ASSUME Init
             PROVE  Safe
  OBVIOUS
<1>1. TypeOK
  BY TypeOKInit
<1>2. FundsInv
  BY EmptyBook DEF Init, FundsInv, LocksExclusive, Covered, Checked, NoOverdraft
<1>3. KeyInv /\ ReversalInv
  BY DEF Init, KeyInv, BookApart, Distinct, Fresh, Inserted,
         ReversalInv, BookMirrors, Bound, Posting
<1>4. PeriodInv /\ RowInv /\ LockOrder
  BY DEF Init, PeriodInv, ClosedInOrder, Held, RowInv, AskedFor, Posting,
         LockOrder, Ascending
<1> QED  BY <1>1, <1>2, <1>3, <1>4 DEF Safe, EngineInv

(* its steps keep them,                                                     *)
LEMMA SafeStep == Safe /\ [Next]_vars => Safe'
  BY TypeOKStep, FundsStep, KeyStep, PeriodStep, ReversalStep, RowStep,
     LockOrderStep DEF Safe, EngineInv

(* and so does a request that is received elsewhere,                        *)
LEMMA SafeAside == Safe /\ Aside => Safe'
<1> SUFFICES ASSUME Safe, Aside
             PROVE  Safe'
  OBVIOUS
<1> USE DEF Safe, EngineInv, Aside
<1>1. TypeOK'
  BY DEF TypeOK, WorkerOK
<1>2. FundsInv'
  BY DEF FundsInv, LocksExclusive, Covered, NoOverdraft
<1>3. KeyInv' /\ ReversalInv'
  BY DEF KeyInv, BookApart, Distinct, Fresh, ReversalInv, BookMirrors, Bound
<1>4. PeriodInv'
  BY DEF PeriodInv, ClosedInOrder, Held, Closers, EarlierOpen
<1>5. RowInv' /\ LockOrder'
  BY DEF RowInv, AskedFor, LockOrder, Ascending, Unlocked
<1> QED  BY <1>1, <1>2, <1>3, <1>4, <1>5

(* or enters: it holds no rows yet, has inserted nothing, and its row is    *)
(* that of a transfer.                                                      *)
LEMMA SafeEntry ==
    ASSUME Safe, NEW w \in Worker, NEW r, Enter(w, r)
    PROVE  Safe'
<1>0. TypeOK /\ FundsInv /\ KeyInv /\ PeriodInv /\ ReversalInv /\ RowInv
      /\ LockOrder
  BY DEF Safe, EngineInv
<1>1. /\ r \in Request /\ r \in TransferRequest /\ r # None
      /\ RowOfTransfer(r) \in TransferRow /\ RowOfTransfer(r) # None
      /\ r.period \in Period
      /\ RowOfTransfer(r).reverses = 0 /\ RowOfTransfer(r).type # "REVERSAL"
  BY RequestFields, RowOfRequest DEF Enter, TransferRequest, RowOfTransfer
<1>2. /\ pc'[w] = "lock" /\ row'[w] = RowOfTransfer(r)
      /\ locked'[w] = {} /\ req'[w] # None
      /\ UNCHANGED <<book, status, today, locked, outcome, answers, attempts>>
  BY <1>0, <1>1 DEF Enter, Goto, TypeOK, WorkerOK
<1>3. \A v \in Worker \ {w} : SameWorker(v)
  BY <1>0 DEF Enter, Goto, TypeOK, SameWorker
<1>4. TypeOK'
  <2>1. \A v \in Worker \ {w} : WorkerOK(v)'
    BY <1>0, <1>2, <1>3 DEF TypeOK, SameWorker, WorkerOK
  <2>2. WorkerOK(w)'
    BY <1>1, <1>2 DEF WorkerOK, Posting, Closing
  <2>3. /\ pc' \in [Worker -> Step]
        /\ req' \in [Worker -> Request \cup {None}]
        /\ row' \in [Worker -> TransferRow \cup {None}]
        /\ seen' \in [Worker -> {"OPEN", "CLOSED"}]
    BY <1>0, <1>1 DEF Enter, Goto, TypeOK, Step, Posting
  <2> QED  BY <1>0, <1>2, <2>1, <2>2, <2>3 DEF TypeOK
<1>5. FundsInv'
  BY <1>0, <1>2, <1>3
     DEF FundsInv, LocksExclusive, Covered, Checked, NoOverdraft, SameWorker
<1>6. KeyInv'
  BY <1>0, <1>2, <1>3
     DEF KeyInv, BookApart, Distinct, Fresh, Inserted, SameWorker
<1>7. ReversalInv'
  <2>1. Bound(w)'
    BY <1>1, <1>2 DEF Bound, Mirrors
  <2> QED  BY <1>0, <1>2, <1>3, <2>1
              DEF ReversalInv, BookMirrors, Bound, SameWorker
<1>8. PeriodInv'
  <2>1. \A p : Closers(p)' = Closers(p)
    BY <1>2, <1>3 DEF Closers, SameWorker, Enter
  <2>2. \A v \in Worker : Held(v)'
    BY <1>0, <1>2, <1>3, <2>1 DEF PeriodInv, Held, EarlierOpen, SameWorker
  <2> QED  BY <1>0, <1>2, <2>2 DEF PeriodInv, ClosedInOrder
<1>9. RowInv'
  <2>1. AskedFor(w)'
    BY <1>1, <1>2 DEF AskedFor, TransferRows, TransferRequest
  <2> QED  BY <1>0, <1>2, <1>3, <2>1 DEF RowInv, AskedFor, SameWorker
<1>10. LockOrder'
  BY <1>0, <1>2, <1>3 DEF LockOrder, Ascending, Unlocked, SameWorker
<1> QED  BY <1>4, <1>5, <1>6, <1>7, <1>8, <1>9, <1>10 DEF Safe, EngineInv

-----------------------------------------------------------------------------
(* What clients are told. *)

(* The row t is made from the request r, with the book as it is.            *)
Serves(t, r) ==
    /\ r.kind \in {"transfer", "reversal"}
    /\ t.key = r.key
    /\ r.kind = "transfer" => t = RowOfTransfer(r) /\ ValidLegs(r.legs)
    /\ r.kind = "reversal" =>
          /\ t.type = "REVERSAL" /\ t.reverses = r.target
          /\ r.target \in DOMAIN book
          /\ t.period[1] = book[r.target].period[1]
          /\ IF r.on = Undated THEN t.period[2] \in Day
                               ELSE t.period[2] = r.on

(* A worker posts what its request asks for, examines only reversals, and a *)
(* period it has seen closed is closed.                                     *)
Serving(w) ==
    pc[w] \in Posting =>
        /\ Serves(row[w], req[w])
        /\ pc[w] = "examine" => req[w].kind = "reversal"
        /\ seen[w] = "CLOSED" => status[row[w].period] = "CLOSED"

(* The answer o to r is true, and only a closing is told a period is closed. *)
Said(r, o) ==
    /\ Truthful(r, o)
    /\ o \in {"closed", "unchanged"} => r.kind = "close"

(* A transfer is posted with legs that are valid, a reversal in the fund of *)
(* its target.                                                              *)
BookValid ==
    \A j \in DOMAIN book :
        IF book[j].type = "REVERSAL"
        THEN book[j].period[1] = book[book[j].reverses].period[1]
        ELSE ValidLegs(book[j].legs)

AnswerInv ==
    /\ BookValid
    /\ \A w \in Worker : /\ Serving(w)
                         /\ Said(req[w], outcome[w])
                         /\ pc[w] = "idle" => outcome[w] = "none"
    /\ \A a \in answers : Said(a[1], a[2])

-----------------------------------------------------------------------------
(* What is so stays so. *)

(* The book is only appended to, and a closed period stays closed.          *)
Grown ==
    /\ book' = book \/ \E t : book' = Append(book, t)
    /\ \A p \in Period : status[p] = "CLOSED" => status'[p] = "CLOSED"

(* No step does anything else to the book, nor opens a closed period.       *)
LEMMA StepsGrow ==
    ASSUME TypeOK, [Next]_vars
    PROVE  Grown
<1>1. ASSUME NEW w \in Worker, WorkerStep(w)
      PROVE  Grown
  <2>1. book' = book \/ book' = Append(book, row[w])
    BY <1>1, OthersUntouched DEF WorkerStep
  <2>2. status' = status \/ CommitClose(w)
    BY <1>1, HoldingSteps
  <2>3. \A p \in Period : status[p] = "CLOSED" => status'[p] = "CLOSED"
    BY <2>2 DEF CommitClose, TypeOK
  <2> QED  BY <2>1, <2>3 DEF Grown
<1>2. CASE UNCHANGED <<book, status, pc, req, row, seen, locked, outcome>>
  BY <1>2 DEF Grown
<1> QED  BY <1>1, <1>2, StepKinds

(* In a grown book every transfer is where it was.                          *)
LEMMA InGrownBook ==
    ASSUME book \in Seq(TransferRow), Grown
    PROVE  \A i \in DOMAIN book : i \in DOMAIN book' /\ book'[i] = book[i]
BY DEF Grown

(* A true answer stays true.                                                *)
LEMMA SaidLater ==
    ASSUME book \in Seq(TransferRow), Grown,
           NEW r, NEW o, r \in Request \/ o = "none", Said(r, o)
    PROVE  Said(r, o)'
<1>1. \A i \in DOMAIN book : i \in DOMAIN book' /\ book'[i] = book[i]
  BY InGrownBook
<1>2. \A p \in Period : status[p] = "CLOSED" => status'[p] = "CLOSED"
  BY DEF Grown
<1>3. CASE o = "none"
  BY <1>3 DEF Said, Truthful
<1>4. CASE r \in Request
  <2>1. r.kind \in {"transfer", "close"} => r.period \in Period
    BY <1>4, RequestFields DEF TransferRequest, CloseRequest
  <2>2. o \in {"created", "replayed"} => \E i \in DOMAIN book' : Answers(book'[i], r)
    BY <1>1 DEF Said, Truthful
  <2>3. o = "idempotency_conflict" => KeyTaken(book', r.key)
    BY <1>1 DEF Said, Truthful, KeyTaken
  <2>4. o = "already_reversed" =>
           \E j \in ReversalsOf(book', r.target) : book'[j].key # r.key
    BY <1>1 DEF Said, Truthful, ReversalsOf
  <2>5. \A d : Closed(d) => Closed(d)'
    BY <1>2 DEF Closed
  <2>6. o = "period_closed" =>
           IF r.kind = "transfer" THEN status'[r.period] = "CLOSED"
           ELSE IF r.on = Undated THEN \E d \in Day : Closed(d)'
           ELSE Closed(r.on)'
    BY <1>2, <2>1, <2>5 DEF Said, Truthful
  <2>7. o \in {"closed", "unchanged"} =>
           r.kind = "close" /\ status'[r.period] = "CLOSED"
    BY <1>2, <2>1 DEF Said, Truthful
  <2>8. \A t : Answers(t, r) <=> Answers(t, r)'
    BY DEF Answers
  <2> QED  BY <2>2, <2>3, <2>4, <2>6, <2>7, <2>8 DEF Said, Truthful
<1> QED  BY <1>3, <1>4

(* A row still serves its request when the book has grown.                  *)
LEMMA ServesLater ==
    ASSUME book \in Seq(TransferRow), Grown, NEW t, NEW r, Serves(t, r)
    PROVE  Serves(t, r)'
<1>1. \A i \in DOMAIN book : i \in DOMAIN book' /\ book'[i] = book[i]
  BY InGrownBook
<1> QED  BY <1>1 DEF Serves

-----------------------------------------------------------------------------
(* A worker posts what it was asked for. *)

(* The worker that acts: it has nothing to post after the step, it goes on   *)
(* with what it had, or it starts on a request.                             *)
LEMMA ServingSteps ==
    ASSUME TypeOK, NEW w \in Worker, WorkerStep(w)
    PROVE  \/ pc'[w] \notin Posting
           \/ /\ pc[w] \in Posting
              /\ row'[w] = row[w] /\ req'[w] = req[w] /\ seen'[w] = seen[w]
              /\ pc'[w] = "examine" => pc[w] = "examine"
           \/ /\ UNCHANGED <<book, status>>
              /\ \E r \in Request : /\ Serves(row'[w], r) /\ req'[w] = r
                                    /\ pc'[w] = "examine" => r.kind = "reversal"
              /\ seen'[w] = status[row'[w].period]
<1> USE DEF TypeOK, Goto, Finish, Release, job, Posting
<1>1. ASSUME NEW r \in Request, ReceiveTransfer(w, r)
      PROVE  \/ pc'[w] \notin Posting
             \/ /\ UNCHANGED <<book, status>>
                /\ Serves(row'[w], r) /\ req'[w] = r
                /\ pc'[w] = "examine" => r.kind = "reversal"
                /\ seen'[w] = status[row'[w].period]
  <2>1. r.kind = "transfer" /\ RowOfTransfer(r).key = r.key
    BY <1>1 DEF ReceiveTransfer, RowOfTransfer
  <2>2. CASE ValidLegs(r.legs)
    BY <1>1, <2>1, <2>2 DEF ReceiveTransfer, Receive, Prepare, Serves
  <2>3. CASE ~ValidLegs(r.legs)
    BY <1>1, <2>3 DEF ReceiveTransfer
  <2> QED  BY <2>2, <2>3
<1>2. ASSUME NEW r \in Request, ReceiveReversal(w, r)
      PROVE  \/ pc'[w] \notin Posting
             \/ /\ UNCHANGED <<book, status>>
                /\ Serves(row'[w], r) /\ req'[w] = r
                /\ pc'[w] = "examine" => r.kind = "reversal"
                /\ seen'[w] = status[row'[w].period]
  <2> DEFINE p == <<book[r.target].period[1], BookedOn(r)>>
             t == RowOfReversal(r, p, book[r.target].legs)
  <2>1. /\ r.kind = "reversal"
        /\ UNCHANGED <<book, status>> /\ req'[w] = r
    BY <1>2 DEF ReceiveReversal, Receive
  <2>2. \/ r.target \in DOMAIN book /\ p \in Period /\ Prepare(w, t, "examine")
        \/ Finish(w, "not_found") \/ Finish(w, "no_period")
    BY <1>2 DEF ReceiveReversal
  <2>3. CASE r.target \in DOMAIN book /\ p \in Period /\ Prepare(w, t, "examine")
    <3>1. IF r.on = Undated THEN p[2] \in Day ELSE p[2] = r.on
      BY DEF BookedOn
    <3>2. /\ t.type = "REVERSAL" /\ t.reverses = r.target /\ t.key = r.key
          /\ t.period = p /\ p[1] = book[r.target].period[1]
      BY DEF RowOfReversal
    <3> HIDE DEF p, t
    <3>3. Serves(t, r)
      BY <2>1, <2>3, <3>1, <3>2 DEF Serves
    <3> QED  BY <2>1, <2>3, <3>3 DEF Prepare
  <2>4. CASE Finish(w, "not_found") \/ Finish(w, "no_period")
    BY <2>4
  <2> QED  BY <2>2, <2>3, <2>4
<1>3. CASE \E r \in Request : ReceiveClose(w, r)
  BY <1>3 DEF ReceiveClose
<1>4. CASE Examine(w) \/ Lookup(w) \/ Relookup(w) \/ LockAccount(w) \/ Check(w)
  BY <1>4 DEF Examine, Lookup, Relookup, LockAccount, Check
<1>5. CASE Insert(w)
  BY <1>5 DEF Insert
<1>6. CASE InsertEntries(w) \/ Commit(w)
  BY <1>6 DEF InsertEntries, Commit
<1>7. CASE Close(w)
  BY <1>7 DEF Close, LockPeriod, DecideClose, CommitClose
<1>8. CASE Reply(w) \/ Crash(w) \/ Timeout(w)
  BY <1>8 DEF Reply, Crash, Idle, Timeout
<1> QED  BY <1>1, <1>2, <1>3, <1>4, <1>5, <1>6, <1>7, <1>8
         DEF WorkerStep, Arrive, Proceed, Post

-----------------------------------------------------------------------------
(* A worker tells the truth. *)

(* Answers that say nothing of the book or the periods.                     *)
Silent == Outcome \ {"created", "replayed", "idempotency_conflict",
                     "already_reversed", "period_closed", "closed", "unchanged"}

(* Nothing is claimed by an answer that says nothing.                       *)
LEMMA SilenceIsTrue == \A r, o : o \in Silent => Said(r, o) /\ Said(r, o)'
BY DEF Silent, Said, Truthful

(* A committed transfer with the row's key is the request's own, or the key *)
(* is in use for another.                                                   *)
LEMMA VerdictIsTrue ==
    ASSUME NEW w \in Worker, Serves(row[w], req[w]), KeyTaken(book, row[w].key)
    PROVE  Said(req[w], Verdict(w))
<1> DEFINE i == Existing(book, row[w].key)
           r == req[w]
           t == row[w]
<1>1. i \in DOMAIN book /\ book[i].key = t.key
  BY DEF KeyTaken, Existing
<1> HIDE DEF i
<1>2. ASSUME SameRequest(book[i], t)
      PROVE  Answers(book[i], r)
  <2>1. r.kind = "transfer" => SameRequest(book[i], RowOfTransfer(r))
    BY <1>2 DEF Serves
  <2>2. r.kind = "reversal" => /\ book[i].reverses = r.target
                               /\ r.on # Undated => book[i].period[2] = r.on
    BY <1>2 DEF Serves, SameRequest
  <2> QED  BY <1>1, <2>1, <2>2 DEF Answers, Serves
<1>3. KeyTaken(book, r.key)
  BY DEF Serves
<1>4. Verdict(w) = IF SameRequest(book[i], t) THEN "replayed"
                                              ELSE "idempotency_conflict"
  BY DEF Verdict, i
<1> QED  BY <1>1, <1>2, <1>3, <1>4 DEF Said, Truthful

(* A period the row is refused for is closed to its request.                *)
LEMMA ClosedIsTrue ==
    ASSUME TypeOK, NEW w \in Worker, pc[w] \in Posting,
           Serves(row[w], req[w]), status[row[w].period] = "CLOSED"
    PROVE  Said(req[w], "period_closed")
<1> DEFINE r == req[w]
           p == row[w].period
<1>1. p \in Period
  BY RowTyped DEF TransferRow
<1>2. Closed(p[2])
  BY <1>1 DEF Closed
<1>3. r.kind = "transfer" => r.period = p
  BY DEF Serves, RowOfTransfer
<1>4. r.kind # "transfer" => IF r.on = Undated THEN p[2] \in Day
                                               ELSE p[2] = r.on
  BY DEF Serves
<1> HIDE DEF p
<1>5. IF r.kind = "transfer" THEN status[r.period] = "CLOSED"
      ELSE IF r.on = Undated THEN \E d \in Day : Closed(d)
      ELSE Closed(r.on)
  <2>1. status[p] = "CLOSED"
    BY DEF p
  <2> QED  BY <1>2, <1>3, <1>4, <2>1
<1> QED  BY <1>5 DEF Said, Truthful

(* A transfer that commits is what its request asks for.                    *)
LEMMA CreatedIsTrue ==
    ASSUME TypeOK, NEW w \in Worker, Commit(w), Serves(row[w], req[w])
    PROVE  Said(req[w], "created")'
<1> DEFINE n == Len(book) + 1
<1>1. book \in Seq(TransferRow) /\ book' = Append(book, row[w]) /\ req' = req
  BY DEF TypeOK, Commit, job
<1>2. n \in DOMAIN book' /\ book'[n] = row[w]
  BY <1>1
<1>3. Answers(row[w], req[w])
  BY DEF Serves, Answers, SameRequest
<1> HIDE DEF n
<1>4. (\E i \in DOMAIN book : Answers(book[i], req[w]))'
  BY <1>1, <1>2, <1>3 DEF Answers
<1> QED  BY <1>4 DEF Said, Truthful

(* What the worker that acts has to say: nothing, the same as before,       *)
(* something that is so already, or that it is done with this step.         *)
LEMMA OutcomeSteps ==
    ASSUME TypeOK, AnswerInv, NEW w \in Worker, WorkerStep(w)
    PROVE  /\ pc'[w] = "idle" => outcome'[w] = "none"
           /\ \/ outcome'[w] \in Silent
              \/ /\ pc[w] # "idle" /\ req'[w] = req[w]
                 /\ Said(req[w], outcome'[w])
              \/ Commit(w) /\ outcome'[w] = "created"
              \/ CommitClose(w) /\ outcome'[w] = "closed"
<1> USE DEF Goto, Finish, Release, job
<1>0. /\ Serving(w) /\ Said(req[w], outcome[w])
      /\ pc[w] = "idle" => outcome[w] = "none"
  BY DEF AnswerInv
<1>1. /\ pc \in [Worker -> Step] /\ outcome \in [Worker -> Outcome]
      /\ req \in [Worker -> Request \cup {None}]
      /\ status \in [Period -> {"OPEN", "CLOSED"}]
      /\ seen \in [Worker -> {"OPEN", "CLOSED"}]
  BY DEF TypeOK
<1>2. CASE \E r \in Request : Arrive(w, r)
  <2>1. outcome'[w] = outcome[w] \/ outcome'[w] \in Silent
    BY <1>1, <1>2 DEF Arrive, ReceiveTransfer, ReceiveReversal, ReceiveClose,
                      Receive, Prepare, Silent, Outcome, Refusal
  <2>2. pc[w] = "idle" /\ pc'[w] # "idle"
    BY <1>1, <1>2 DEF Arrive, ReceiveTransfer, ReceiveReversal, ReceiveClose,
                      Receive, Prepare
  <2> QED  BY <1>0, <2>1, <2>2 DEF Silent, Outcome
<1>3. CASE Examine(w)
  <2>1. /\ pc[w] = "examine" /\ pc'[w] # "idle" /\ req' = req
        /\ \/ outcome'[w] = outcome[w] \/ outcome'[w] = "invalid_transfer"
           \/ /\ outcome'[w] = "already_reversed"
              /\ \E j \in ReversalsOf(book, row[w].reverses) :
                    book[j].key # row[w].key
    BY <1>1, <1>3 DEF Examine
  <2>2. /\ row[w].key = req[w].key /\ row[w].reverses = req[w].target
    BY <1>0, <2>1 DEF Serving, Serves, Posting
  <2>3. outcome'[w] = "already_reversed" =>
           outcome'[w] = outcome[w] \/ Said(req[w], outcome'[w])
    BY <2>1, <2>2 DEF Said, Truthful
  <2> QED  BY <1>0, <2>1, <2>3 DEF Silent, Outcome, Refusal
<1>4. CASE Lookup(w)
  <2>1. /\ pc[w] = "lookup" /\ pc'[w] # "idle" /\ req' = req
        /\ \/ outcome'[w] = outcome[w]
           \/ outcome'[w] = Verdict(w) /\ KeyTaken(book, row[w].key)
    BY <1>1, <1>4 DEF Lookup
  <2> QED  BY <1>0, <2>1, VerdictIsTrue DEF Serving, Posting
<1>5. CASE LockAccount(w) \/ LockPeriod(w)
  BY <1>0, <1>1, <1>5 DEF LockAccount, LockPeriod
<1>6. CASE Check(w)
  <2>1. /\ pc[w] = "lock" /\ pc'[w] # "idle" /\ req' = req
        /\ outcome'[w] = outcome[w] \/ outcome'[w] = Objection(w)
    BY <1>1, <1>6 DEF Check
  <2>2. /\ Objection(w) \in Silent \cup {"period_closed"}
        /\ Objection(w) = "period_closed" => seen[w] # "OPEN"
    BY DEF Objection, Silent, Outcome, Refusal
  <2>3. Objection(w) = "period_closed" => Said(req[w], "period_closed")
    BY <1>0, <1>1, <2>1, <2>2, ClosedIsTrue DEF Serving, Posting
  <2> QED  BY <1>0, <2>1, <2>2, <2>3
<1>7. CASE Insert(w)
  <2>1. /\ pc[w] = "insert" /\ pc'[w] # "idle" /\ req' = req
        /\ \/ outcome'[w] = outcome[w]
           \/ /\ outcome'[w] = "already_reversed"
              /\ UniqueViolation(w) = "reverses"
    BY <1>1, <1>7 DEF Insert
  <2>2. CASE UniqueViolation(w) = "reverses"
    <3>1. /\ ~KeyTaken(book, row[w].key)
          /\ row[w].reverses # 0 /\ ReversalsOf(book, row[w].reverses) # {}
      BY <2>2 DEF UniqueViolation
    <3>2. row[w].key = req[w].key /\ row[w].reverses = req[w].target
      BY <1>0, <2>1, <3>1 DEF Serving, Serves, Posting, RowOfTransfer
    <3>3. \E j \in ReversalsOf(book, req[w].target) : book[j].key # req[w].key
      BY <3>1, <3>2 DEF KeyTaken, ReversalsOf
    <3>4. Said(req[w], "already_reversed")
      BY <3>3 DEF Said, Truthful
    <3> QED  BY <1>0, <2>1, <3>4
  <2> QED  BY <1>0, <2>1, <2>2
<1>8. CASE InsertEntries(w)
  <2>1. /\ pc[w] = "entries" /\ pc'[w] # "idle" /\ req' = req
        /\ outcome'[w] = outcome[w] \/ outcome'[w] = Refused(w)
    BY <1>1, <1>8 DEF InsertEntries
  <2>2. /\ Refused(w) \in Silent \cup {"period_closed"}
        /\ Refused(w) = "period_closed" => status[row[w].period] # "OPEN"
    BY DEF Refused, StatusNow, Silent, Outcome, Refusal
  <2>3. row[w].period \in Period
    BY <2>1, RowTyped DEF Posting, TransferRow
  <2>4. Refused(w) = "period_closed" => Said(req[w], "period_closed")
    BY <1>0, <1>1, <2>1, <2>2, <2>3, ClosedIsTrue DEF Serving, Posting
  <2> QED  BY <1>0, <2>1, <2>2, <2>4
<1>9. CASE Commit(w)
  BY <1>1, <1>9 DEF Commit
<1>10. CASE Relookup(w)
  <2>1. /\ pc[w] = "relookup" /\ pc'[w] # "idle" /\ req' = req
        /\ \/ outcome'[w] = outcome[w]
           \/ outcome'[w] = Verdict(w) /\ KeyTaken(book, row[w].key)
    BY <1>1, <1>10 DEF Relookup, AfterRollback
  <2> QED  BY <1>0, <2>1, VerdictIsTrue DEF Serving, Posting
<1>11. CASE DecideClose(w)
  <2>1. /\ pc[w] = "decide" /\ pc'[w] # "idle" /\ req' = req
        /\ \/ outcome'[w] \in {outcome[w], "period_not_closable"}
           \/ outcome'[w] = "unchanged" /\ status[req[w].period] = "CLOSED"
    BY <1>1, <1>11 DEF DecideClose
  <2>2. req[w].kind = "close"
    BY <2>1 DEF TypeOK, WorkerOK, Closing
  <2>3. outcome'[w] = "unchanged" /\ status[req[w].period] = "CLOSED"
           => Said(req[w], outcome'[w])
    BY <2>2 DEF Said, Truthful
  <2> QED  BY <1>0, <2>1, <2>3 DEF Silent, Outcome
<1>12. CASE CommitClose(w)
  BY <1>1, <1>12 DEF CommitClose
<1>13. CASE Reply(w) \/ Crash(w) \/ Timeout(w)
  <2>1. /\ pc'[w] = "idle" => outcome'[w] = "none"
        /\ outcome'[w] \in {"none", "busy"}
    BY <1>1, <1>13 DEF Reply, Crash, Idle, Timeout
  <2> QED  BY <2>1 DEF Silent, Outcome
<1> QED  BY <1>2, <1>3, <1>4, <1>5, <1>6, <1>7, <1>8, <1>9, <1>10, <1>11, <1>12,
            <1>13
         DEF WorkerStep, Proceed, Post, Close

(* Clients learn only what a worker had to say.                             *)
LEMMA AnswerSteps ==
    ASSUME [Next]_vars
    PROVE  \/ answers' = answers
           \/ \E w \in Worker :
                 pc[w] = "reply" /\ answers' = answers \cup {<<req[w], outcome[w]>>}
<1>1. ASSUME NEW w \in Worker, WorkerStep(w)
      PROVE  \/ answers' = answers
             \/ pc[w] = "reply" /\ answers' = answers \cup {<<req[w], outcome[w]>>}
  <2>1. CASE \E r \in Request : Arrive(w, r)
    BY <2>1 DEF Arrive, ReceiveTransfer, ReceiveReversal, ReceiveClose, Receive
  <2>2. CASE Post(w)
    BY <2>2 DEF Post, Examine, Lookup, LockAccount, Check, Insert,
                InsertEntries, Commit, Relookup
  <2>3. CASE Close(w)
    BY <2>3 DEF Close, LockPeriod, DecideClose, CommitClose
  <2>4. CASE Reply(w) \/ Crash(w) \/ Timeout(w)
    BY <2>4 DEF Reply, Crash, Timeout
  <2> QED  BY <1>1, <2>1, <2>2, <2>3, <2>4 DEF WorkerStep, Proceed
<1>2. CASE Tick \/ Quiet \/ UNCHANGED vars
  BY <1>2 DEF Tick, Quiet, vars
<1> QED  BY <1>1, <1>2 DEF Next, WorkerStep

(* Every step leaves the answers true.                                      *)
LEMMA AnswerStep ==
    TypeOK /\ ReversalInv /\ AnswerInv /\ [Next]_vars => AnswerInv'
<1> SUFFICES ASSUME TypeOK, ReversalInv, AnswerInv, [Next]_vars
             PROVE  AnswerInv'
  OBVIOUS
<1> DEFINE Talks(w) == /\ Serving(w)
                       /\ Said(req[w], outcome[w])
                       /\ pc[w] = "idle" => outcome[w] = "none"
<1>0. /\ Grown /\ book \in Seq(TransferRow)
      /\ \A w \in Worker : req[w] \in Request \/ outcome[w] = "none"
      /\ \A a \in answers : a[1] \in Request
  BY StepsGrow DEF TypeOK, WorkerOK, AnswerInv
<1>1. \A p \in Period : status[p] = "CLOSED" => status'[p] = "CLOSED"
  BY <1>0 DEF Grown
<1>2. \A w \in Worker : Said(req[w], outcome[w])
  BY DEF AnswerInv
<1>3. \A a \in answers' : Said(a[1], a[2])'
  <2> TAKE a \in answers'
  <2>1. \/ a \in answers
        \/ \E w \in Worker : a = <<req[w], outcome[w]>>
    BY AnswerSteps
  <2>2. Said(a[1], a[2]) /\ (a[1] \in Request \/ a[2] = "none")
    BY <1>0, <1>2, <2>1 DEF AnswerInv
  <2> QED  BY <1>0, <2>2, SaidLater
<1>4. ASSUME NEW w \in Worker, WorkerStep(w)
      PROVE  \A v \in Worker : Talks(v)'
  <2>1. ASSUME NEW v \in Worker \ {w}
        PROVE  Talks(v)'
    <3>1. SameWorker(v) /\ Talks(v)
      BY <1>4, OthersUntouched DEF WorkerStep, AnswerInv
    <3>2. pc[v] \in Posting => row[v].period \in Period
      BY RowTyped DEF TransferRow
    <3>3. Serves(row[v], req[v]) => Serves(row[v], req[v])'
      BY <1>0, <3>1, ServesLater DEF SameWorker
    <3>4. Serving(v)'
      BY <1>1, <3>1, <3>2, <3>3 DEF SameWorker, Serving
    <3>5. Said(req[v], outcome[v])'
      BY <1>0, <3>1, SaidLater DEF SameWorker
    <3> QED  BY <3>1, <3>4, <3>5 DEF SameWorker
  <2>2. Serving(w)'
    <3>1. CASE pc'[w] \notin Posting
      BY <3>1 DEF Serving
    <3>2. CASE /\ pc[w] \in Posting
               /\ row'[w] = row[w] /\ req'[w] = req[w] /\ seen'[w] = seen[w]
               /\ pc'[w] = "examine" => pc[w] = "examine"
      <4>1. row[w].period \in Period
        BY <3>2, RowTyped DEF TransferRow
      <4>2. Serves(row[w], req[w])'
        BY <1>0, <3>2, ServesLater DEF AnswerInv, Serving
      <4> QED  BY <1>1, <3>2, <4>1, <4>2 DEF AnswerInv, Serving
    <3>3. CASE /\ UNCHANGED <<book, status>>
               /\ \E r \in Request : /\ Serves(row'[w], r) /\ req'[w] = r
                                     /\ pc'[w] = "examine" => r.kind = "reversal"
               /\ seen'[w] = status[row'[w].period]
      BY <3>3 DEF Serving, Serves
    <3> QED  BY <1>4, <3>1, <3>2, <3>3, ServingSteps
  <2>3. (pc[w] = "idle" => outcome[w] = "none")'
    BY <1>4, OutcomeSteps
  <2>4. Said(req[w], outcome[w])'
    <3>1. CASE outcome'[w] \in Silent
      BY <3>1, SilenceIsTrue
    <3>2. CASE /\ pc[w] # "idle" /\ req'[w] = req[w]
               /\ Said(req[w], outcome'[w])
      <4>1. req[w] \in Request
        BY <3>2 DEF TypeOK, WorkerOK
      <4> QED  BY <1>0, <3>2, <4>1, SaidLater
    <3>3. CASE Commit(w) /\ outcome'[w] = "created"
      BY <3>3, CreatedIsTrue DEF AnswerInv, Serving, Commit, Posting, job
    <3>4. CASE CommitClose(w) /\ outcome'[w] = "closed"
      <4>1. /\ pc[w] \in Closing /\ req' = req
            /\ status' = [status EXCEPT ![req[w].period] = "CLOSED"]
        BY <3>4 DEF CommitClose, job, Closing
      <4>2. req[w].kind = "close" /\ req[w].period \in Period
        BY <4>1, ClosingPeriod DEF TypeOK, WorkerOK
      <4>3. status'[req[w].period] = "CLOSED"
        BY <4>1, <4>2 DEF TypeOK
      <4> QED  BY <3>4, <4>1, <4>2, <4>3 DEF Said, Truthful
    <3> QED  BY <1>4, <3>1, <3>2, <3>3, <3>4, OutcomeSteps
  <2> QED  BY <2>1, <2>2, <2>3, <2>4
<1>5. BookValid'
  <2>1. CASE book' = book
    BY <2>1 DEF AnswerInv, BookValid
  <2>2. ASSUME NEW w \in Worker, Commit(w)
        PROVE  BookValid'
    <3>1. /\ pc[w] = "commit" /\ pc[w] \in Posting
          /\ book' = Append(book, row[w])
      BY <2>2 DEF Commit, Posting
    <3>2. IF row[w].type = "REVERSAL"
          THEN row[w].period[1] = book[row[w].reverses].period[1]
          ELSE ValidLegs(row[w].legs)
      <4>1. Serves(row[w], req[w]) /\ Mirrors(book, row[w])
        BY <3>1 DEF AnswerInv, Serving, ReversalInv, Bound
      <4>2. CASE req[w].kind = "transfer"
        <5>1. row[w] = RowOfTransfer(req[w]) /\ ValidLegs(req[w].legs)
          BY <4>1, <4>2 DEF Serves
        <5>2. row[w].reverses = 0 /\ row[w].legs = req[w].legs
          BY <5>1 DEF RowOfTransfer
        <5> QED  BY <4>1, <5>1, <5>2 DEF Mirrors
      <4>3. CASE req[w].kind = "reversal"
        BY <4>1, <4>3 DEF Serves
      <4> QED  BY <4>1, <4>2, <4>3 DEF Serves
    <3>3. /\ DOMAIN book' = DOMAIN book \cup {Len(book) + 1}
          /\ book'[Len(book) + 1] = row[w]
          /\ \A i \in DOMAIN book : book'[i] = book[i]
      BY <1>0, <3>1
    <3>4. /\ \A j \in DOMAIN book : book[j].type = "REVERSAL"
                                        => book[j].reverses \in DOMAIN book
          /\ row[w].type = "REVERSAL" => row[w].reverses \in DOMAIN book
      BY <3>1 DEF ReversalInv, BookMirrors, Bound, Mirrors
    <3> QED  BY <3>2, <3>3, <3>4 DEF AnswerInv, BookValid
  <2> QED  BY <2>1, <2>2, StepKinds, CommitSteps
<1>6. CASE UNCHANGED <<book, status, pc, req, row, seen, locked, outcome>>
  <2>1. \A w \in Worker : Talks(w)'
    BY <1>6 DEF AnswerInv, Serving, Serves, Said, Truthful, Answers, Closed
  <2> QED  BY <1>3, <1>5, <2>1 DEF AnswerInv
<1> QED  BY <1>3, <1>4, <1>5, <1>6, StepKinds DEF AnswerInv

(* So it always holds.                                                      *)
LEMMA AnswerInvariant == Spec => []AnswerInv
<1>1. Init => AnswerInv
  BY DEF Init, AnswerInv, BookValid, Serving, Posting, Said, Truthful
<1> QED  BY <1>1, AnswerStep, ReversalInvariant, TypeCorrect, PTL DEF Spec

(* Whatever a client was told stays true: its transfer is in the book, its  *)
(* key is in use, its target was reversed by another, its period is closed; *)
(* also when the answer was decided before a rollback or by the unique      *)
(* indexes (run_idempotent, _run_once, reverse_transfer, close_period).     *)
THEOREM AnswersStayTrue == Spec => []TruthfulAnswers
<1>1. AnswerInv => TruthfulAnswers
  BY DEF AnswerInv, Said, TruthfulAnswers
<1> QED  BY <1>1, AnswerInvariant, PTL

-----------------------------------------------------------------------------
(* What was done is never refused. *)

(* Legs with the same fingerprint are valid together.                       *)
LEMMA ValidByFingerprint ==
    ASSUME NEW legs \in Seq(Leg), NEW others \in Seq(Leg),
           LegBag(legs) = LegBag(others), ValidLegs(legs)
    PROVE  ValidLegs(others)
<1> DEFINE Shape(l, j) == <<l[j].account, l[j].direction, l[j].amount>>
           Shapes(l) == {Shape(l, j) : j \in DOMAIN l}
<1>1. \A l : Shapes(l) = DOMAIN LegBag(l)
  BY DEF LegBag
<1>2. Shapes(legs) = Shapes(others)
  BY <1>1
<1>3. \A j \in DOMAIN others : \E k \in DOMAIN legs :
         legs[k].direction = others[j].direction /\ legs[k].amount = others[j].amount
  <2> TAKE j \in DOMAIN others
  <2>1. PICK k \in DOMAIN legs : Shape(legs, k) = Shape(others, j)
    BY <1>2
  <2> QED  BY <2>1
<1>4. \A k \in DOMAIN legs : \E j \in DOMAIN others :
         legs[k].direction = others[j].direction /\ legs[k].amount = others[j].amount
  <2> TAKE k \in DOMAIN legs
  <2>1. PICK j \in DOMAIN others : Shape(legs, k) = Shape(others, j)
    BY <1>2
  <2> QED  BY <2>1
<1> HIDE DEF Shapes, Shape
<1>5. PICK d \in DOMAIN legs, c \in DOMAIN legs :
         legs[d].direction = "DEBIT" /\ legs[c].direction = "CREDIT"
  BY DEF ValidLegs, Side
<1>6. PICK d1 \in DOMAIN others, c1 \in DOMAIN others :
         others[d1].direction = "DEBIT" /\ others[c1].direction = "CREDIT"
  BY <1>4, <1>5
<1>7. Len(others) >= 2
  BY <1>6
<1>8. \A j \in DOMAIN others : others[j].amount > 0
  BY <1>3 DEF ValidLegs
<1> QED  BY <1>6, <1>7, <1>8 DEF ValidLegs, Side

(* A refusal comes before the transfer is made, and another with its key     *)
(* would have been found first.                                             *)
LEMMA RefusalSteps ==
    ASSUME TypeOK, KeyInv, ReversalInv, AnswerInv, NEW w \in Worker,
           WorkerStep(w), pc[w] # "reply", pc'[w] = "reply",
           outcome'[w] \in Refusal, NEW i \in DOMAIN book
    PROVE  ~Answers(book[i], req'[w])
<1> SUFFICES ASSUME Answers(book[i], req'[w])
             PROVE  FALSE
  OBVIOUS
<1> USE DEF Goto, Finish, Release, job
<1>0. /\ pc \in [Worker -> Step] /\ outcome \in [Worker -> Outcome]
      /\ req \in [Worker -> Request \cup {None}]
      /\ book \in Seq(TransferRow) /\ book[i] \in TransferRow
  BY DEF TypeOK
<1>1. ASSUME req' = req, pc[w] \in Posting
      PROVE  /\ Serves(row[w], req[w]) /\ book[i].key = row[w].key
             /\ KeyTaken(book, row[w].key)
  BY <1>1 DEF AnswerInv, Serving, Serves, Answers, KeyTaken
<1>2. ASSUME NEW r \in Request, ReceiveTransfer(w, r)
      PROVE  FALSE
  <2>1. r \in TransferRequest /\ r.kind = "transfer" /\ req'[w] = r
    BY <1>0, <1>2, RequestFields DEF ReceiveTransfer, Receive
  <2>2. ~ValidLegs(r.legs)
    BY <1>0, <1>2 DEF ReceiveTransfer, Prepare
  <2>3. SameRequest(book[i], RowOfTransfer(r))
    BY <2>1 DEF Answers
  <2>4. book[i].type # "REVERSAL" /\ LegBag(book[i].legs) = LegBag(r.legs)
    BY <2>1, <2>3 DEF SameRequest, RowOfTransfer, TransferRequest
  <2>5. ValidLegs(book[i].legs)
    BY <2>4 DEF AnswerInv, BookValid
  <2>6. book[i].legs \in Seq(Leg) /\ r.legs \in Seq(Leg)
    BY <1>0, <2>1 DEF TransferRow, TransferRequest
  <2> QED  BY <2>2, <2>4, <2>5, <2>6, ValidByFingerprint
<1>3. CASE \E r \in Request : ReceiveReversal(w, r) \/ ReceiveClose(w, r)
  BY <1>0, <1>3 DEF ReceiveReversal, ReceiveClose, Prepare, Refusal
<1>4. CASE Examine(w)
  <2> DEFINE r == req[w]
  <2>1. /\ pc[w] = "examine" /\ pc[w] \in Posting /\ req' = req
        /\ \/ book[row[w].reverses].type = "REVERSAL"
           \/ \E j \in ReversalsOf(book, row[w].reverses) :
                 book[j].key # row[w].key
    BY <1>0, <1>4 DEF Examine, Posting
  <2>2. r \in Request /\ r.kind = "reversal"
    BY <2>1 DEF TypeOK, WorkerOK, AnswerInv, Serving
  <2>3. /\ row[w].reverses = r.target /\ book[i].reverses = r.target
        /\ book[i].key = row[w].key
    BY <1>1, <2>1, <2>2 DEF Serves, Answers
  <2>4. r.target # 0
    BY <2>2, RequestFields DEF ReversalRequest
  <2>5. CASE book[row[w].reverses].type = "REVERSAL"
    BY <2>3, <2>4, <2>5 DEF ReversalInv, BookMirrors
  <2>6. ASSUME NEW j \in ReversalsOf(book, row[w].reverses),
               book[j].key # row[w].key
        PROVE  FALSE
    BY <2>3, <2>4, <2>6 DEF KeyInv, BookApart, Apart, ReversalsOf
  <2> QED  BY <2>1, <2>5, <2>6
<1>5. CASE Lookup(w)
  BY <1>0, <1>5 DEF Lookup, Verdict, Refusal
<1>6. CASE LockAccount(w) \/ Check(w)
  BY <1>0, <1>6 DEF LockAccount, Check
<1>7. CASE Insert(w)
  <2>1. pc[w] = "insert" /\ req' = req /\ UniqueViolation(w) = "reverses"
    BY <1>0, <1>7 DEF Insert
  <2> QED  BY <1>1, <2>1 DEF UniqueViolation, Posting
<1>8. CASE InsertEntries(w)
  <2>1. pc[w] = "entries" /\ req' = req
    BY <1>8 DEF InsertEntries
  <2> QED  BY <1>1, <2>1 DEF KeyInv, Fresh, Inserted, Apart, Posting
<1>9. CASE Commit(w)
  BY <1>0, <1>9 DEF Commit, Refusal
<1>10. CASE Relookup(w)
  <2>1. /\ pc[w] = "relookup" /\ req' = req
        /\ outcome'[w] = AfterRollback(w)
    BY <1>0, <1>10 DEF Relookup
  <2> QED  BY <1>1, <2>1 DEF AfterRollback, Verdict, Refusal, Posting
<1>11. CASE Close(w)
  BY <1>0, <1>11 DEF Close, LockPeriod, DecideClose, CommitClose, Refusal
<1>12. CASE Reply(w) \/ Crash(w) \/ Timeout(w)
  BY <1>0, <1>12 DEF Reply, Crash, Idle, Timeout, Refusal
<1> QED  BY <1>2, <1>3, <1>4, <1>5, <1>6, <1>7, <1>8, <1>9, <1>10, <1>11, <1>12
         DEF WorkerStep, Arrive, Proceed, Post

(* No request is refused while its own transfer is in the book, whichever   *)
(* duplicate made it and whatever has changed since: the key is looked up   *)
(* again after every rollback (_run_once), and a reversal is told from the  *)
(* one that came before it by its key (reverse_transfer).                   *)
THEOREM DoneIsNeverRefused == Spec => NeverRefusedWhenDone
<1> DEFINE Keeps ==
      \A w \in Worker :
        pc[w] # "reply" /\ pc'[w] = "reply" /\ outcome'[w] \in Refusal
            => ~\E i \in DOMAIN book : Answers(book[i], req'[w])
<1>1. ASSUME TypeOK, KeyInv, ReversalInv, AnswerInv, [Next]_vars
      PROVE  Keeps
  <2> SUFFICES ASSUME NEW w \in Worker, pc[w] # "reply", pc'[w] = "reply",
                      outcome'[w] \in Refusal, NEW i \in DOMAIN book
               PROVE  ~Answers(book[i], req'[w])
    OBVIOUS
  <2>1. PICK v \in Worker : WorkerStep(v)
    BY <1>1, StepKinds
  <2>2. v = w
    BY <1>1, <2>1, OthersUntouched DEF WorkerStep, SameWorker
  <2> QED  BY <1>1, <2>1, <2>2, RefusalSteps
<1>2. TypeOK /\ KeyInv /\ ReversalInv /\ AnswerInv /\ [Next]_vars
         => [Keeps]_vars
  BY <1>1
<1> QED  BY <1>2, TypeCorrect, KeyInvariant, ReversalInvariant,
            AnswerInvariant, PTL DEF Spec, NeverRefusedWhenDone

-----------------------------------------------------------------------------
(* A retry is recognised. *)

(* Every reversal names the day it is booked on.                            *)
AllDated == \A r \in Request : r.kind = "reversal" => r.on # Undated

(* The key of r was used, and not for r.                                    *)
Foreign(r) == KeyTaken(book, r.key) /\ ~\E i \in DOMAIN book : Answers(book[i], r)

ConflictInv ==
    /\ \A w \in Worker : outcome[w] = "idempotency_conflict" => Foreign(req[w])
    /\ \A a \in answers : a[2] = "idempotency_conflict" => Foreign(a[1])

(* A key that is used for another request is never used again.              *)
LEMMA ForeignLater ==
    ASSUME book \in Seq(TransferRow), Grown, KeyInv', NEW r, Foreign(r)
    PROVE  Foreign(r)'
<1>1. \A i \in DOMAIN book : i \in DOMAIN book' /\ book'[i] = book[i]
  BY InGrownBook
<1>2. PICK k \in DOMAIN book : book[k].key = r.key
  BY DEF Foreign, KeyTaken
<1>3. ASSUME NEW i \in DOMAIN book', Answers(book'[i], r)
      PROVE  FALSE
  <2>1. book'[i].key = book'[k].key
    BY <1>1, <1>2, <1>3 DEF Answers
  <2>2. i = k
    BY <1>1, <2>1 DEF KeyInv, BookApart, Apart
  <2> QED  BY <1>1, <1>3, <2>2 DEF Foreign
<1>4. \A t : Answers(t, r) <=> Answers(t, r)'
  BY DEF Answers
<1> QED  BY <1>1, <1>2, <1>3, <1>4 DEF Foreign, KeyTaken

(* A request whose fingerprint differs is another request: a reversal that  *)
(* names its day has one period only, in the fund of its target.            *)
LEMMA ConflictIsForeign ==
    ASSUME AllDated, TypeOK, KeyInv, ReversalInv, AnswerInv, NEW w \in Worker,
           pc[w] \in Posting, KeyTaken(book, row[w].key),
           Verdict(w) = "idempotency_conflict"
    PROVE  Foreign(req[w])
<1> DEFINE r == req[w]
           t == row[w]
           e == Existing(book, t.key)
<1>1. /\ Serves(t, r) /\ r \in Request /\ t \in TransferRow
      /\ book \in Seq(TransferRow)
  BY RowTyped DEF AnswerInv, Serving, TypeOK, WorkerOK, Posting
<1>2. e \in DOMAIN book /\ book[e].key = t.key
  BY DEF KeyTaken, Existing
<1>3. ~SameRequest(book[e], t)
  BY DEF Verdict
<1> HIDE DEF e
<1>4. ASSUME NEW i \in DOMAIN book, Answers(book[i], r)
      PROVE  FALSE
  <2>1. book[i].key = t.key
    BY <1>1, <1>4 DEF Answers, Serves
  <2>2. i = e
    BY <1>2, <2>1 DEF KeyInv, BookApart, Apart
  <2>3. CASE r.kind = "transfer"
    BY <1>1, <1>3, <1>4, <2>2, <2>3 DEF Answers, Serves
  <2>4. CASE r.kind = "reversal"
    <3>1. r.target # 0 /\ r.on # Undated
      BY <1>1, <2>4, RequestFields DEF ReversalRequest, AllDated
    <3>2. /\ t.type = "REVERSAL" /\ t.reverses = r.target
          /\ t.period[1] = book[r.target].period[1] /\ t.period[2] = r.on
      BY <1>1, <2>4, <3>1 DEF Serves
    <3>3. book[i].reverses = r.target /\ book[i].period[2] = r.on
      BY <1>4, <2>4, <3>1 DEF Answers
    <3>4. book[i].type = "REVERSAL"
      BY <3>1, <3>3 DEF ReversalInv, BookMirrors, Mirrors
    <3>5. book[i].period[1] = book[r.target].period[1]
      BY <3>3, <3>4 DEF AnswerInv, BookValid
    <3>6. t.period \in Fund \X Nat /\ book[i].period \in Fund \X Nat
      <4>1. book[i] \in TransferRow
        BY <1>1
      <4>2. t.period \in Period /\ book[i].period \in Period
        BY <1>1, <4>1 DEF TransferRow
      <4> QED  BY <4>2, BooksAssumption
    <3>7. t.period = book[i].period
      BY <3>2, <3>3, <3>5, <3>6
    <3> QED  BY <1>3, <2>2, <3>2, <3>3, <3>4, <3>7 DEF SameRequest
  <2> QED  BY <1>1, <2>3, <2>4 DEF Serves
<1>5. KeyTaken(book, r.key)
  BY <1>1 DEF Serves
<1> QED  BY <1>4, <1>5 DEF Foreign

(* A worker that speaks of a conflict did so before, or has just compared   *)
(* the fingerprints.                                                        *)
LEMMA ConflictSteps ==
    ASSUME TypeOK, AnswerInv, NEW w \in Worker, WorkerStep(w),
           outcome'[w] = "idempotency_conflict"
    PROVE  /\ req'[w] = req[w]
           /\ \/ outcome[w] = "idempotency_conflict"
              \/ /\ pc[w] \in Posting /\ KeyTaken(book, row[w].key)
                 /\ Verdict(w) = "idempotency_conflict"
<1> USE DEF Goto, Finish, Release, job
<1>0. /\ pc \in [Worker -> Step] /\ outcome \in [Worker -> Outcome]
      /\ req \in [Worker -> Request \cup {None}]
      /\ pc[w] = "idle" => outcome[w] = "none"
  BY DEF TypeOK, AnswerInv
<1>1. CASE \E r \in Request : Arrive(w, r)
  BY <1>0, <1>1 DEF Arrive, ReceiveTransfer, ReceiveReversal, ReceiveClose,
                    Receive, Prepare
<1>2. CASE Examine(w) \/ LockAccount(w) \/ Commit(w) \/ Insert(w)
  BY <1>0, <1>2 DEF Examine, LockAccount, Commit, Insert
<1>3. CASE Lookup(w) \/ Relookup(w)
  BY <1>0, <1>3 DEF Lookup, Relookup, AfterRollback, Posting
<1>4. CASE Check(w)
  <2>1. Objection(w) # "idempotency_conflict"
    BY DEF Objection
  <2> QED  BY <1>0, <1>4, <2>1 DEF Check
<1>5. CASE InsertEntries(w)
  <2>1. Refused(w) # "idempotency_conflict"
    BY DEF Refused
  <2> QED  BY <1>0, <1>5, <2>1 DEF InsertEntries
<1>6. CASE Close(w)
  BY <1>0, <1>6 DEF Close, LockPeriod, DecideClose, CommitClose
<1>7. CASE Reply(w) \/ Crash(w) \/ Timeout(w)
  BY <1>0, <1>7 DEF Reply, Crash, Idle, Timeout
<1> QED  BY <1>1, <1>2, <1>3, <1>4, <1>5, <1>6, <1>7
         DEF WorkerStep, Proceed, Post

(* Each step keeps ConflictInv, in service where every payload is dated.    *)
LEMMA ConflictStep ==
    ASSUME AllDated
    PROVE  TypeOK /\ KeyInv /\ KeyInv' /\ ReversalInv /\ AnswerInv
             /\ ConflictInv /\ [Next]_vars => ConflictInv'
<1> SUFFICES ASSUME TypeOK, KeyInv, KeyInv', ReversalInv, AnswerInv,
                    ConflictInv, [Next]_vars
             PROVE  ConflictInv'
  OBVIOUS
<1>0. Grown /\ book \in Seq(TransferRow)
  BY StepsGrow DEF TypeOK
<1>1. \A a \in answers' : a[2] = "idempotency_conflict" => Foreign(a[1])'
  <2> TAKE a \in answers'
  <2> HAVE a[2] = "idempotency_conflict"
  <2>1. a \in answers \/ \E w \in Worker : a = <<req[w], outcome[w]>>
    BY AnswerSteps
  <2>2. Foreign(a[1])
    BY <2>1 DEF ConflictInv
  <2> QED  BY <1>0, <2>2, ForeignLater
<1>2. ASSUME NEW w \in Worker, WorkerStep(w), NEW v \in Worker,
             outcome'[v] = "idempotency_conflict"
      PROVE  Foreign(req[v])'
  <2>1. req'[v] = req[v] /\ Foreign(req[v])
    <3>1. CASE v # w
      BY <1>2, <3>1, OthersUntouched DEF WorkerStep, SameWorker, ConflictInv
    <3>2. CASE v = w
      BY <1>2, <3>2, ConflictSteps, ConflictIsForeign DEF ConflictInv
    <3> QED  BY <3>1, <3>2
  <2> QED  BY <1>0, <2>1, ForeignLater
<1>3. CASE UNCHANGED <<book, status, pc, req, row, seen, locked, outcome>>
  BY <1>0, <1>1, <1>3, ForeignLater DEF ConflictInv
<1> QED  BY <1>1, <1>2, <1>3, StepKinds DEF ConflictInv

(* When reversals name their day, a client that repeats its own request is  *)
(* never told that the key belongs to another: the fingerprint tells by the *)
(* legs, the period and the target, not by what was computed on the way     *)
(* (api/views.py; the request hash of run_idempotent).                      *)
THEOREM RetriesAreRecognised ==
    ASSUME AllDated
    PROVE  Spec => []RetryNeverConflicts
<1>1. Init => ConflictInv
  BY DEF Init, ConflictInv
<1>2. TypeOK /\ KeyInv /\ KeyInv' /\ ReversalInv /\ AnswerInv
         /\ ConflictInv /\ [Next]_vars => ConflictInv'
  BY ConflictStep
<1>3. ConflictInv => RetryNeverConflicts
  BY DEF ConflictInv, Foreign, RetryNeverConflicts
<1> QED  BY <1>1, <1>2, <1>3, TypeCorrect, KeyInvariant, ReversalInvariant,
            AnswerInvariant, PTL DEF Spec
=============================================================================
