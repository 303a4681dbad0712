------------------------------- MODULE Ledger -------------------------------
(***************************************************************************)
(* The ledger engine: workers that serve requests concurrently, each in one *)
(* database transaction at READ COMMITTED, against one book.                *)
(*                                                                          *)
(*   transfer   post_transfer_idempotent    ledger/services.py              *)
(*   reversal   ReverseTransferView.post, reverse_transfer                  *)
(*   close      close_period                operations/periods.py           *)
(*                                                                          *)
(* A step is one statement a worker sends to the database, or the part of a *)
(* handler between two of them.  What a transaction has written before it   *)
(* commits, and the row locks it holds, are told by its worker's pc:        *)
(*                                                                          *)
(*   entries, commit   its ledger_transfer row is inserted, so its key and  *)
(*                     its target are in the unique indexes;                *)
(*   commit            its entries are inserted: it holds its period FOR    *)
(*                     SHARE (assert_period_open);                          *)
(*   decide, closing   it holds the period it closes FOR UPDATE.            *)
(*                                                                          *)
(* Account rows are locked FOR UPDATE one by one and are kept in locked.    *)
(***************************************************************************)
EXTENDS Books

CONSTANTS
    Worker,         \* concurrent requests: one per gunicorn worker process
    Request,        \* the requests clients send, and may send again
    Day,            \* the days the clock may reach
    MaxAttempts,    \* bound: requests received in one behaviour
    None            \* no request, no transfer

(* The on_date of a reversal that leaves it out. *)
Undated == 0

(* A transfer names its period, a reversal the day it is booked on. *)
TransferRequest ==
    [kind: {"transfer"}, key: Key, type: TransferType \ {"REVERSAL"},
     period: Period, legs: Seq(Leg)]
ReversalRequest ==
    [kind: {"reversal"}, key: Key, target: Nat \ {0}, on: Day \cup {Undated}]
CloseRequest == [kind: {"close"}, period: Period]

ASSUME LedgerAssumption ==
    /\ Request \subseteq TransferRequest \cup ReversalRequest \cup CloseRequest
    /\ Day \subseteq Nat \ {Undated}
    /\ Day # {}
    /\ MaxAttempts \in Nat

ASSUME WorkerAssumption == IsFiniteSet(Worker)

ASSUME NoneAssumption == None \notin Request \cup TransferRow

(* The ledger_transfer row, with its entries, that a request asks for. *)
RowOfTransfer(r) ==
    [key |-> r.key, type |-> r.type, period |-> r.period, reverses |-> 0,
     legs |-> r.legs]

RowOfReversal(r, p, legs) ==
    [key |-> r.key, type |-> "REVERSAL", period |-> p, reverses |-> r.target,
     legs |-> Flip(legs)]

(* Every row the requests can lead to. *)
TransferRows == {RowOfTransfer(r) : r \in {q \in Request : q.kind = "transfer"}}
Row ==
    TransferRows \cup
    {RowOfReversal(r, p, t.legs) : r \in {q \in Request : q.kind = "reversal"},
                                   p \in Period, t \in TransferRows}

VARIABLES
    book,           \* committed transfers (ledger_transfer and ledger_entry)
    status,         \* committed status of each period
    today,          \* the server's date
    pc,             \* where each worker is
    req,            \* the request each worker serves
    row,            \* the transfer it is to write
    seen,           \* the status its Period instance was loaded with
    locked,         \* the account rows it holds FOR UPDATE
    outcome,        \* the answer it has so far
    answers,        \* <<request, outcome>>: what clients were told
    attempts        \* requests received so far

job  == <<req, row, seen>>
vars == <<book, status, today, pc, req, row, seen, locked, outcome, answers,
          attempts>>

Init ==
    /\ book = <<>>
    /\ status = [p \in Period |-> "OPEN"]
    /\ today \in Day /\ \A d \in Day : today <= d
    /\ pc = [w \in Worker |-> "idle"]
    /\ req = [w \in Worker |-> None]
    /\ row = [w \in Worker |-> None]
    /\ seen = [w \in Worker |-> "OPEN"]
    /\ locked = [w \in Worker |-> {}]
    /\ outcome = [w \in Worker |-> "none"]
    /\ answers = {}
    /\ attempts = 0

Goto(w, step) == pc' = [pc EXCEPT ![w] = step]

(* The handler of w returns, or raises, o. *)
Finish(w, o) == Goto(w, "reply") /\ outcome' = [outcome EXCEPT ![w] = o]

(* The transaction of w ends: its row locks are gone. *)
BugRelease(w) == UNCHANGED locked       \* left open by the worker
Release(w) == locked' = [locked EXCEPT ![w] = {}]

-----------------------------------------------------------------------------
(* Who waits for whom. *)

(* The accounts w still has to lock: ids without a row are skipped. *)
Unlocked(w) == (Touched(row[w].legs) \cap Account) \ locked[w]

(* SELECT ... FOR UPDATE ORDER BY id. *)
BugNextAccount(w) ==                    \* no ORDER BY: as the legs come
    LET t == row[w].legs
        open == {j \in DOMAIN t : t[j].account \in Unlocked(w)}
    IN  t[CHOOSE j \in open : \A k \in open : j <= k].account
NextAccount(w) == CHOOSE a \in Unlocked(w) : \A b \in Unlocked(w) : a <= b

BugHoldersOf(a) == {}                   \* no FOR UPDATE
HoldersOf(a) == {v \in Worker : a \in locked[v]}

(* A unique index makes an insert wait for an uncommitted equal entry. *)
Clashing(w) ==
    {v \in Worker \ {w} :
        /\ pc[v] \in {"entries", "commit"}
        /\ \/ row[v].key = row[w].key
           \/ row[v].reverses # 0 /\ row[v].reverses = row[w].reverses}

Closers(p) == {v \in Worker : pc[v] \in {"decide", "closing"}
                              /\ req[v].period = p}
BugSharers(p) == {}                     \* the trigger reads without FOR SHARE
Sharers(p) == {v \in Worker : pc[v] = "commit" /\ row[v].period = p}

WaitsFor(w) ==
    CASE pc[w] = "lock" /\ Unlocked(w) # {} -> HoldersOf(NextAccount(w))
      [] pc[w] = "insert"  -> Clashing(w)
      [] pc[w] = "entries" -> Closers(row[w].period)
      [] pc[w] = "period"  -> Sharers(req[w].period) \cup Closers(req[w].period)
      [] OTHER -> {}

-----------------------------------------------------------------------------
(* Requests arrive. *)

Receive(w, r) ==
    /\ pc[w] = "idle"
    /\ attempts < MaxAttempts
    /\ attempts' = attempts + 1
    /\ req' = [req EXCEPT ![w] = r]
    /\ UNCHANGED <<book, status, today, locked, answers>>

(* Start on a transfer, with the period as it is read now. *)
Prepare(w, t, step) ==
    /\ row' = [row EXCEPT ![w] = t]
    /\ seen' = [seen EXCEPT ![w] = status[t.period]]
    /\ Goto(w, step)
    /\ UNCHANGED outcome

ReceiveTransfer(w, r) ==
    /\ r.kind = "transfer"
    /\ Receive(w, r)
    /\ IF ValidLegs(r.legs)
       THEN Prepare(w, RowOfTransfer(r), "lookup")
       ELSE Finish(w, "invalid_transfer") /\ UNCHANGED <<row, seen>>

BugBookedOn(r) == today                 \* on_date ignored
BookedOn(r) == IF r.on = Undated THEN today ELSE r.on

(* The view finds the transfer and, before anything else, the period of its *)
(* fund that covers the day.                                                *)
ReceiveReversal(w, r) ==
    /\ r.kind = "reversal"
    /\ Receive(w, r)
    /\ IF r.target \notin DOMAIN book
       THEN Finish(w, "not_found") /\ UNCHANGED <<row, seen>>
       ELSE LET original == book[r.target]
                p == <<original.period[1], BookedOn(r)>>
            IN  IF p \in Period
                THEN Prepare(w, RowOfReversal(r, p, original.legs), "examine")
                ELSE Finish(w, "no_period") /\ UNCHANGED <<row, seen>>

ReceiveClose(w, r) ==
    /\ r.kind = "close"
    /\ Receive(w, r)
    /\ Goto(w, "period")
    /\ UNCHANGED <<row, seen, outcome>>

(* reverse_transfer before run_idempotent. *)
Examine(w) ==
    /\ pc[w] = "examine"
    /\ IF book[row[w].reverses].type = "REVERSAL"
       THEN Finish(w, "invalid_transfer")
       ELSE IF \E j \in ReversalsOf(book, row[w].reverses) :
                   book[j].key # row[w].key
       THEN Finish(w, "already_reversed")
       ELSE Goto(w, "lookup") /\ UNCHANGED outcome
    /\ UNCHANGED <<book, status, today, job, locked, answers, attempts>>

-----------------------------------------------------------------------------
(* run_idempotent and post_transfer. *)

(* What a known key means for the request of w. *)
BugVerdict(w) == "replayed"             \* the request hash is not compared
BugVerdictExact(w) ==                   \* legs hashed as sent, with their base
    IF book[Existing(book, row[w].key)] = row[w]
    THEN "replayed" ELSE "idempotency_conflict"
Verdict(w) ==
    IF SameRequest(book[Existing(book, row[w].key)], row[w])
    THEN "replayed" ELSE "idempotency_conflict"

Lookup(w) ==
    /\ pc[w] = "lookup"
    /\ IF KeyTaken(book, row[w].key)
       THEN Finish(w, Verdict(w))
       ELSE Goto(w, "lock") /\ UNCHANGED outcome
    /\ UNCHANGED <<book, status, today, job, locked, answers, attempts>>

LockAccount(w) ==
    /\ pc[w] = "lock"
    /\ Unlocked(w) # {}
    /\ WaitsFor(w) = {}
    /\ locked' = [locked EXCEPT ![w] = @ \cup {NextAccount(w)}]
    /\ UNCHANGED <<book, status, today, pc, job, outcome, answers, attempts>>

(* Cash accounts the legs would overdraw: only a falling balance is read. *)
Overdrawn(legs) ==
    {a \in Touched(legs) \cap Cash :
        Delta(legs, a) < 0 /\ NativeBalance(book, a) + Delta(legs, a) < 0}

(* The first reason, in the order of the code, to refuse the transfer. *)
Objection(w) ==
    LET t == row[w] IN
    IF ~(Touched(t.legs) \subseteq Account) THEN "unknown_account"
    ELSE IF seen[w] # "OPEN"                THEN "period_closed"
    ELSE IF ~OwnFund(t.legs, t.period)      THEN "invalid_transfer"
    ELSE IF ~Balanced(t.legs)               THEN "unbalanced_transfer"
    ELSE IF Overdrawn(t.legs) # {}          THEN "insufficient_funds"
    ELSE "none"

(* All accounts are locked: check the transfer.  A LedgerError rolls the    *)
(* transaction back, and the key is looked up once more.                    *)
Check(w) ==
    /\ pc[w] = "lock"
    /\ Unlocked(w) = {}
    /\ IF Objection(w) = "none"
       THEN Goto(w, "insert") /\ UNCHANGED <<locked, outcome>>
       ELSE /\ Goto(w, "relookup")
            /\ outcome' = [outcome EXCEPT ![w] = Objection(w)]
            /\ Release(w)
    /\ UNCHANGED <<book, status, today, job, answers, attempts>>

(* The unique indexes of ledger_transfer, in the order they are checked. *)
BugNoUniqueKey(w) ==
    IF row[w].reverses # 0 /\ ReversalsOf(book, row[w].reverses) # {}
    THEN "reverses" ELSE "none"
BugNoUniqueReverses(w) ==
    IF KeyTaken(book, row[w].key) THEN "idempotency_key" ELSE "none"
UniqueViolation(w) ==
    IF KeyTaken(book, row[w].key) THEN "idempotency_key"
    ELSE IF row[w].reverses # 0 /\ ReversalsOf(book, row[w].reverses) # {}
    THEN "reverses"
    ELSE "none"

(* INSERT INTO ledger_transfer.  A duplicate key is looked up after the      *)
(* rollback; a second reversal of one transfer is refused.                  *)
Insert(w) ==
    /\ pc[w] = "insert"
    /\ WaitsFor(w) = {}
    /\ CASE UniqueViolation(w) = "idempotency_key" ->
              Goto(w, "relookup") /\ Release(w) /\ UNCHANGED outcome
         [] UniqueViolation(w) = "reverses" ->
              Finish(w, "already_reversed") /\ Release(w)
         [] OTHER ->
              Goto(w, "entries") /\ UNCHANGED <<locked, outcome>>
    /\ UNCHANGED <<book, status, today, job, answers, attempts>>

(* What assert_period_open reads. *)
BugStatusNow(w) == seen[w]              \* the Period instance loaded earlier
StatusNow(w) == status[row[w].period]

(* What the triggers and constraints of ledger_entry refuse: the period     *)
(* first, then a base amount rounded to nothing, then the balance.          *)
Refused(w) ==
    LET t == row[w] IN
    IF StatusNow(w) # "OPEN" THEN "period_closed"
    ELSE IF (\E j \in DOMAIN t.legs : t.legs[j].base = 0) \/ ~Balanced(t.legs)
    THEN "internal_error"
    ELSE "none"

(* INSERT INTO ledger_entry, with the balance check made at once.  The      *)
(* error is no LedgerError: it leaves run_idempotent as it is.              *)
InsertEntries(w) ==
    /\ pc[w] = "entries"
    /\ WaitsFor(w) = {}
    /\ IF Refused(w) = "none"
       THEN Goto(w, "commit") /\ UNCHANGED <<locked, outcome>>
       ELSE Finish(w, Refused(w)) /\ Release(w)
    /\ UNCHANGED <<book, status, today, job, answers, attempts>>

Commit(w) ==
    /\ pc[w] = "commit"
    /\ book' = Append(book, row[w])
    /\ Finish(w, "created")
    /\ Release(w)
    /\ UNCHANGED <<status, today, job, answers, attempts>>

(* The key once more: a duplicate may have won while w was at work. *)
BugAfterRollback(w) == outcome[w]
AfterRollback(w) ==
    IF KeyTaken(book, row[w].key) THEN Verdict(w) ELSE outcome[w]

Relookup(w) ==
    /\ pc[w] = "relookup"
    /\ Finish(w, AfterRollback(w))
    /\ UNCHANGED <<book, status, today, job, locked, answers, attempts>>

-----------------------------------------------------------------------------
(* close_period. *)

LockPeriod(w) ==
    /\ pc[w] = "period"
    /\ WaitsFor(w) = {}
    /\ Goto(w, "decide")
    /\ UNCHANGED <<book, status, today, job, locked, outcome, answers,
                   attempts>>

BugEarlierOpen(p) == {q \in Period : q[1] = p[1] /\ q[2] > p[2]
                                     /\ status[q] = "OPEN"}
EarlierOpen(p) == {q \in Period : q[1] = p[1] /\ q[2] < p[2]
                                  /\ status[q] = "OPEN"}

DecideClose(w) ==
    LET p == req[w].period IN
    /\ pc[w] = "decide"
    /\ IF status[p] = "CLOSED" THEN Finish(w, "unchanged")
       ELSE IF EarlierOpen(p) # {} \/ PeriodImbalance(book, p) # 0
       THEN Finish(w, "period_not_closable")
       ELSE Goto(w, "closing") /\ UNCHANGED outcome
    /\ UNCHANGED <<book, status, today, job, locked, answers, attempts>>

CommitClose(w) ==
    /\ pc[w] = "closing"
    /\ status' = [status EXCEPT ![req[w].period] = "CLOSED"]
    /\ Finish(w, "closed")
    /\ UNCHANGED <<book, today, job, locked, answers, attempts>>

-----------------------------------------------------------------------------
(* The client is answered, or not. *)

Idle(w) ==
    /\ Goto(w, "idle")
    /\ req' = [req EXCEPT ![w] = None]
    /\ row' = [row EXCEPT ![w] = None]
    /\ seen' = [seen EXCEPT ![w] = "OPEN"]
    /\ outcome' = [outcome EXCEPT ![w] = "none"]
    /\ Release(w)
    /\ UNCHANGED <<book, status, today, attempts>>

Reply(w) ==
    /\ pc[w] = "reply"
    /\ answers' = answers \cup {<<req[w], outcome[w]>>}
    /\ Idle(w)

(* The worker or its connection dies: the database rolls back what is not   *)
(* committed, and the client learns nothing, even of a committed transfer.  *)
Crash(w) ==
    /\ pc[w] # "idle"
    /\ Idle(w)
    /\ UNCHANGED answers

(* lock_timeout strikes a statement that waits; the answer is 503. *)
Timeout(w) ==
    /\ WaitsFor(w) # {}
    /\ Finish(w, "busy")
    /\ Release(w)
    /\ UNCHANGED <<book, status, today, job, answers, attempts>>

Tick ==
    /\ today + 1 \in Day
    /\ today' = today + 1
    /\ UNCHANGED <<book, status, pc, job, locked, outcome, answers, attempts>>

(* No client has anything more to ask. *)
Quiet ==
    /\ attempts = MaxAttempts
    /\ \A w \in Worker : pc[w] = "idle"
    /\ UNCHANGED vars

-----------------------------------------------------------------------------

Post(w) == \/ Examine(w) \/ Lookup(w) \/ LockAccount(w) \/ Check(w)
           \/ Insert(w) \/ InsertEntries(w) \/ Commit(w) \/ Relookup(w)

Close(w) == LockPeriod(w) \/ DecideClose(w) \/ CommitClose(w)

(* What w does by itself once it has a request. *)
Proceed(w) == Post(w) \/ Close(w) \/ Reply(w)

Arrive(w, r) == ReceiveTransfer(w, r) \/ ReceiveReversal(w, r)
                \/ ReceiveClose(w, r)

Next ==
    \/ \E w \in Worker, r \in Request : Arrive(w, r)
    \/ \E w \in Worker : Proceed(w) \/ Crash(w) \/ Timeout(w)
    \/ Tick
    \/ Quiet

Spec == Init /\ [][Next]_vars

-----------------------------------------------------------------------------
(* Types. *)

Posting == {"examine", "lookup", "lock", "insert", "entries", "commit",
            "relookup"}
Closing == {"period", "decide", "closing"}
Step == {"idle", "reply"} \cup Posting \cup Closing

(* Answers that refuse a transfer which was never made. *)
Refusal == {"unknown_account", "period_closed", "invalid_transfer",
            "unbalanced_transfer", "insufficient_funds", "already_reversed",
            "internal_error"}
Outcome == Refusal \cup
           {"none", "not_found", "no_period", "created", "replayed",
            "idempotency_conflict", "busy", "closed", "unchanged",
            "period_not_closable"}

(* A worker has a request exactly when it is not idle, a transfer or a      *)
(* period to work on when its step needs one, row locks only inside its     *)
(* transaction, an answer when it replies, and a key that is in use when it *)
(* looks one up for no other reason.                                        *)
WorkerOK(w) ==
    /\ pc[w] = "idle" <=> req[w] = None
    /\ pc[w] \in Posting => row[w] # None
    /\ pc[w] \in Closing => req[w] # None /\ req[w].kind = "close"
    /\ locked[w] # {} => pc[w] \in {"lock", "insert", "entries", "commit"}
    /\ pc[w] = "reply" => outcome[w] # "none"
    /\ pc[w] = "relookup" /\ outcome[w] = "none"
          => KeyTaken(book, row[w].key)

(* The state is well formed.                                                *)
TypeOK ==
    /\ book \in Seq(TransferRow)
    /\ status \in [Period -> {"OPEN", "CLOSED"}]
    /\ today \in Day
    /\ pc \in [Worker -> Step]
    /\ req \in [Worker -> Request \cup {None}]
    /\ row \in [Worker -> TransferRow \cup {None}]
    /\ seen \in [Worker -> {"OPEN", "CLOSED"}]
    /\ locked \in [Worker -> SUBSET Account]
    /\ outcome \in [Worker -> Outcome]
    /\ answers \subseteq Request \X (Outcome \ {"none"})
    /\ attempts \in 0..MaxAttempts
    /\ \A w \in Worker : WorkerOK(w)

-----------------------------------------------------------------------------
(* Safety. *)

(* No cash account is ever below zero, whatever transfers run at the same   *)
(* time: the balance that _check_sufficient_funds reads is still the        *)
(* balance when the entries are committed (services.py, _lock_accounts).    *)
NoOverdraft == \A a \in Cash : NativeBalance(book, a) >= 0

(* However often a request is sent, crashed, timed out or answered, its key *)
(* has made at most one transfer (run_idempotent and the unique key).       *)
AtMostOnce ==
    \A i, j \in DOMAIN book : book[i].key = book[j].key => i = j

(* A reversal cancels one earlier transfer, no reversal, entry by entry,    *)
(* and no transfer is cancelled twice (reverse_transfer).                   *)
ReversalsCancel ==
    \A j \in DOMAIN book :
        LET i == book[j].reverses IN
        book[j].type = "REVERSAL" =>
            /\ i \in 1..(j - 1)
            /\ book[i].type # "REVERSAL"
            /\ ReversalsOf(book, i) = {j}
            /\ \A a \in Account :
                  Delta(book[i].legs, a) + Delta(book[j].legs, a) = 0

(* The books balance as a whole, per period and per fund, in base currency, *)
(* and so does what a fund sees of each transfer (reconciliation.py: "must  *)
(* always be 0"; FundReconciliationView, whose two queries cannot disagree).*)
Reconciles ==
    /\ Imbalance(book, Entries(book)) = 0
    /\ \A p \in Period : PeriodImbalance(book, p) = 0
    /\ \A f \in Fund : /\ FundImbalance(book, f) = 0
                       /\ UnbalancedTransfers(book, f) = {}

(* The closed periods of a fund are its first ones (close_period).          *)
ClosedInOrder ==
    \A p, q \in Period :
        p[1] = q[1] /\ q[2] < p[2] /\ status[p] = "CLOSED"
            => status[q] = "CLOSED"

(* The transfer t is what request r asks for. *)
Answers(t, r) ==
    /\ t.key = r.key
    /\ r.kind = "transfer" => SameRequest(t, RowOfTransfer(r))
    /\ r.kind = "reversal" => /\ t.reverses = r.target
                              /\ r.on # Undated => t.period[2] = r.on

Closed(d) == \E p \in Period : p[2] = d /\ status[p] = "CLOSED"

(* What a client was told is so, and stays so: a transfer it was told of is *)
(* in the book under its key, a key it was told is in use is, a transfer    *)
(* said to be reversed was reversed by another key, and a period said to be *)
(* closed is closed.                                                        *)
Truthful(r, o) ==
    /\ o \in {"created", "replayed"} =>
          \E i \in DOMAIN book : Answers(book[i], r)
    /\ o = "idempotency_conflict" => KeyTaken(book, r.key)
    /\ o = "already_reversed" =>
          \E j \in ReversalsOf(book, r.target) : book[j].key # r.key
    /\ o = "period_closed" =>
          IF r.kind = "transfer" THEN status[r.period] = "CLOSED"
          ELSE IF r.on = Undated THEN \E d \in Day : Closed(d)
          ELSE Closed(r.on)
    /\ o \in {"closed", "unchanged"} => status[r.period] = "CLOSED"

TruthfulAnswers == \A a \in answers : Truthful(a[1], a[2])

(* No set of workers waits within itself: the order in which rows are       *)
(* locked and indexes are entered leaves no deadlock for the database to    *)
(* break ("makes a deadlock cycle impossible", services.py).                *)
NoWaitCycle ==
    \A S \in (SUBSET Worker) \ {{}} : \E w \in S : WaitsFor(w) \cap S = {}

(* "Retrying with the same key and body replays the original result"        *)
(* (api/views.py): a client is told its key belongs to another request only *)
(* when it does.                                                            *)
RetryNeverConflicts ==
    \A a \in answers : a[2] = "idempotency_conflict" =>
        ~\E i \in DOMAIN book : Answers(book[i], a[1])

-----------------------------------------------------------------------------
(* What a step may never do. *)

(* Once a period is closed, nothing is posted into it and it stays closed   *)
(* (assert_period_open, forbid_period_reopen), even by a transfer that was  *)
(* under way when it closed.                                                *)
ClosedIsFinal ==
    [][\A p \in Period : status[p] = "CLOSED" =>
        /\ status'[p] = "CLOSED"
        /\ \A i \in DOMAIN book' : book'[i].period = p => i \in DOMAIN book]_vars

(* A request is never refused while its own transfer is in the book: the    *)
(* loser of a race between duplicates replays what the winner did, even     *)
(* when the winner left it no money to pay with (_run_once).                *)
NeverRefusedWhenDone ==
    [][\A w \in Worker :
        pc[w] # "reply" /\ pc'[w] = "reply" /\ outcome'[w] \in Refusal
            => ~\E i \in DOMAIN book : Answers(book[i], req'[w])]_vars

-----------------------------------------------------------------------------
(* The engine implements the ledger it promises. *)

Abstract == INSTANCE AbstractLedger
AbstractSpec == Abstract!Spec
=============================================================================
