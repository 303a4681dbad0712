------------------------------- MODULE Capital -------------------------------
(***************************************************************************)
(* Capital calls and distributions (operations/services.py), posted by the  *)
(* workers of Ledger.tla next to its transfers, reversals and closings.     *)
(*                                                                          *)
(* create_capital_call and create_distribution run inside run_idempotent:   *)
(* they lock the fund, work out the legs, let post_transfer post them and   *)
(* write a numbered document in the same transaction.  What post_transfer   *)
(* does is the ledger's: LockAccount to InsertEntries are its actions.  A   *)
(* worker that serves such a request holds its fund FOR UPDATE from prepare *)
(* until its transaction ends.                                              *)
(***************************************************************************)
EXTENDS Ledger, Operations

CONSTANT CapitalRequest     \* the calls and distributions clients ask for

Documented == {"CAPITAL_CALL", "DISTRIBUTION"}

(* on is the period of the notice or payment date; terms is what else the   *)
(* request says, a due date or a classification.                            *)
CapitalRequests ==
    [kind: Documented, key: Key, fund: Fund, total: Nat \ {0}, on: Nat,
     terms: Nat]

(* Amounts are whole pennies (MONEY_IN of api/serializers.py), and only     *)
(* these operations post transfers of their types.                          *)
ASSUME CapitalAssumption ==
    /\ CapitalRequest \subseteq CapitalRequests
    /\ None \notin CapitalRequest \cup TransferRequest
    /\ \A r \in CapitalRequest : r.total % Penny = 0
    /\ \A r \in Request : r.kind = "transfer" => r.type \notin Documented

VARIABLES
    documents,      \* committed CapitalCall and Distribution rows
    doc             \* the row each worker is to write

capitalVars == <<vars, documents, doc>>

(* A document; transfer is the place of its transfer in the book. *)
DocumentOf(r, n) ==
    [kind |-> r.kind, fund |-> r.fund, number |-> n, total |-> r.total,
     on |-> r.on, terms |-> r.terms, transfer |-> 0]

CapitalInit ==
    /\ Init
    /\ documents = {}
    /\ doc = [w \in Worker |-> None]

(* The worker serves a call or a distribution. *)
Capital(w) == pc[w] # "idle" /\ req[w].kind \in Documented

-----------------------------------------------------------------------------
(* Amounts. *)

(* The LPs the call would take beyond what they promised. *)
Overcalled(r) ==
    {lp \in DOMAIN Commitment[r.fund] :
        Shares(r.fund, r.total)[lp]
            > Commitment[r.fund][lp] - Contributed(book, r.fund, lp)}

RowOfCapital(r) ==
    [key |-> r.key, type |-> r.kind, period |-> <<r.fund, r.on>>,
     reverses |-> 0, legs |-> CapitalLegs(r.kind, r.fund, r.total)]

(* The documents of one kind that a fund has, and the next number. *)
Series(kind, f) == {d \in documents : d.kind = kind /\ d.fund = f}

BugNextNumber(kind, f) == Cardinality(documents) + 1    \* one series for all
NextNumber(kind, f) ==
    LET taken == {d.number : d \in Series(kind, f)} \cup {0}
    IN  1 + CHOOSE n \in taken : \A k \in taken : k <= n

-----------------------------------------------------------------------------
(* Who waits for whom. *)

BugFundHolders(f) == {}                 \* no FOR UPDATE on the fund
FundHolders(f) ==
    {v \in Worker : /\ pc[v] \in {"prepare", "number", "lock", "insert",
                                  "entries", "commit"}
                    /\ Capital(v)
                    /\ req[v].fund = f}

CapitalWaitsFor(w) ==
    IF pc[w] = "fund" THEN FundHolders(req[w].fund) ELSE WaitsFor(w)

-----------------------------------------------------------------------------
(* One call or distribution. *)

ReceiveCapital(w, r) ==
    /\ Receive(w, r)
    /\ Goto(w, "lookup")
    /\ UNCHANGED <<row, seen, outcome, documents, doc>>

(* The fingerprint covers what the request says, not what came of it. *)
SameTerms(d, r) ==
    /\ d.kind = r.kind /\ d.fund = r.fund /\ d.total = r.total
    /\ d.on = r.on /\ d.terms = r.terms

(* What a known key means: the document of its transfer is the answer. *)
BugCapitalVerdict(w) ==                 \* the fingerprint is not compared
    IF book[Existing(book, req[w].key)].type = req[w].kind
    THEN "replayed" ELSE "idempotency_conflict"
CapitalVerdict(w) ==
    IF \E d \in documents : /\ d.transfer = Existing(book, req[w].key)
                            /\ SameTerms(d, req[w])
    THEN "replayed" ELSE "idempotency_conflict"

LookupCapital(w) ==
    /\ pc[w] = "lookup"
    /\ IF KeyTaken(book, req[w].key)
       THEN Finish(w, CapitalVerdict(w))
       ELSE Goto(w, "fund") /\ UNCHANGED outcome
    /\ UNCHANGED <<book, status, today, job, locked, answers, attempts,
                   documents, doc>>

LockFund(w) ==
    /\ pc[w] = "fund"
    /\ CapitalWaitsFor(w) = {}
    /\ Goto(w, "prepare")
    /\ UNCHANGED <<book, status, today, job, locked, outcome, answers,
                   attempts, documents, doc>>

(* The first reason to refuse the request before any leg exists. *)
CapitalObjection(r) ==
    IF <<r.fund, r.on>> \notin Period        THEN "no_period"
    ELSE IF ~Allocatable(Commitment[r.fund]) THEN "invalid_transfer"
    ELSE IF r.kind = "CAPITAL_CALL" /\ Overcalled(r) # {}
    THEN "commitment_exceeded"
    ELSE "none"

(* Period, shares and unfunded commitments are read under the fund lock. *)
PrepareCapital(w) ==
    LET r == req[w] IN
    /\ pc[w] = "prepare"
    /\ IF CapitalObjection(r) = "none"
       THEN Prepare(w, RowOfCapital(r), "number")
       ELSE /\ Goto(w, "relookup")
            /\ outcome' = [outcome EXCEPT ![w] = CapitalObjection(r)]
            /\ UNCHANGED <<row, seen>>
    /\ UNCHANGED <<book, status, today, req, locked, answers, attempts,
                   documents, doc>>

NumberDocument(w) ==
    LET r == req[w] IN
    /\ pc[w] = "number"
    /\ doc' = [doc EXCEPT ![w] = DocumentOf(r, NextNumber(r.kind, r.fund))]
    /\ Goto(w, "lock")
    /\ UNCHANGED <<book, status, today, job, locked, outcome, answers,
                   attempts, documents>>

(* The document is inserted with the transfer, unless its number is taken:  *)
(* then neither is.                                                         *)
CommitCapital(w) ==
    /\ pc[w] = "commit"
    /\ IF \E d \in Series(req[w].kind, req[w].fund) : d.number = doc[w].number
       THEN /\ Finish(w, "internal_error") /\ Release(w)
            /\ UNCHANGED <<book, status, today, job, answers, attempts,
                           documents>>
       ELSE /\ Commit(w)
            /\ documents' = documents \cup
                  {[doc[w] EXCEPT !.transfer = Len(book) + 1]}
    /\ UNCHANGED doc

(* The key once more, after a refusal or a duplicate key. *)
BugCapitalAfterRollback(w) == outcome[w]
CapitalAfterRollback(w) ==
    IF KeyTaken(book, req[w].key) THEN CapitalVerdict(w) ELSE outcome[w]

RelookupCapital(w) ==
    /\ pc[w] = "relookup"
    /\ Finish(w, CapitalAfterRollback(w))
    /\ UNCHANGED <<book, status, today, job, locked, answers, attempts,
                   documents, doc>>

FundTimeout(w) ==
    /\ pc[w] = "fund"
    /\ CapitalWaitsFor(w) # {}
    /\ Finish(w, "busy")
    /\ UNCHANGED <<book, status, today, job, locked, answers, attempts,
                   documents, doc>>

-----------------------------------------------------------------------------
(* All the workers together. *)

(* The ledger's own steps, which write no document. *)
LedgerStep(w) ==
    /\ \/ ~Capital(w) /\ (Lookup(w) \/ Relookup(w) \/ Commit(w))
       \/ Examine(w) \/ LockAccount(w) \/ Check(w)
       \/ Insert(w) \/ InsertEntries(w) \/ Close(w)
    /\ UNCHANGED <<documents, doc>>

CapitalStep(w) ==
    /\ Capital(w)
    /\ \/ LookupCapital(w) \/ LockFund(w) \/ PrepareCapital(w)
       \/ NumberDocument(w) \/ CommitCapital(w) \/ RelookupCapital(w)

Leave(w) == /\ doc' = [doc EXCEPT ![w] = None]
            /\ UNCHANGED documents

CapitalProceed(w) == LedgerStep(w) \/ CapitalStep(w) \/ (Reply(w) /\ Leave(w))

Environment ==
    /\ \/ \E w \in Worker, r \in Request : Arrive(w, r)
       \/ \E w \in Worker : Timeout(w)
       \/ Tick
       \/ Quiet
    /\ UNCHANGED <<documents, doc>>

CapitalNext ==
    \/ Environment
    \/ \E w \in Worker, r \in CapitalRequest : ReceiveCapital(w, r)
    \/ \E w \in Worker :
          CapitalProceed(w) \/ (Crash(w) /\ Leave(w)) \/ FundTimeout(w)

CapitalSpec == CapitalInit /\ [][CapitalNext]_capitalVars

(* A worker goes on with its request while it need not wait; nothing else   *)
(* is assumed.                                                              *)
CapitalFairSpec ==
    CapitalSpec /\ \A w \in Worker : WF_capitalVars(CapitalProceed(w))

-----------------------------------------------------------------------------
(* Safety. *)

(* No LP is ever called beyond its commitment, nor given back by reversals  *)
(* more than it was called, whatever runs at the same time: the fund lock   *)
(* keeps what create_capital_call read true until its entries are in.       *)
WithinCommitment ==
    \A f \in Fund : \A lp \in DOMAIN Commitment[f] :
        Contributed(book, f, lp) \in 0..Commitment[f][lp]

(* Documents and money go together: every call and distribution in the book *)
(* has one document, which names its fund, its period and all the cash that *)
(* moved (create_capital_call, create_distribution; one transaction).       *)
DocumentsMatchMoney ==
    /\ \A i \in DOMAIN book : book[i].type \in Documented =>
          Cardinality({d \in documents : d.transfer = i}) = 1
    /\ \A d \in documents :
          LET t == book[d.transfer]
              cash == Delta(t.legs, Chart[d.fund].cash)
          IN  /\ t.type = d.kind
              /\ t.period = <<d.fund, d.on>>
              /\ cash = IF d.kind = "CAPITAL_CALL" THEN d.total ELSE -d.total

(* The calls of a fund are numbered 1, 2, 3 in the order they were made,    *)
(* with no gap and no number twice, and so are its distributions.           *)
NumberedInOrder ==
    \A f \in Fund, kind \in Documented :
        LET S == Series(kind, f) IN
        /\ {d.number : d \in S} = 1..Cardinality(S)
        /\ \A d, e \in S : d.number < e.number => d.transfer < e.transfer

(* The document a request made. *)
Made(d, r) == SameTerms(d, r) /\ book[d.transfer].key = r.key

(* What a client was told of a call or a distribution is so: it was made,   *)
(* or its key belongs to something else, or its period is closed, and no    *)
(* number was ever fought over (internal_error).                            *)
CapitalTruthful ==
    \A a \in answers : a[1].kind \in Documented =>
        LET r == a[1]  o == a[2]  IN
        /\ o \in {"created", "replayed"} => \E d \in documents : Made(d, r)
        /\ o = "idempotency_conflict" =>
              KeyTaken(book, r.key) /\ ~\E d \in documents : Made(d, r)
        /\ o = "period_closed" => status[<<r.fund, r.on>>] = "CLOSED"
        /\ o # "internal_error"

(* The fund lock, taken before the account locks, adds no deadlock to the   *)
(* ledger ("Lock order: fund first, then accounts", create_capital_call).   *)
CapitalNoWaitCycle ==
    \A S \in (SUBSET Worker) \ {{}} :
        \E w \in S : CapitalWaitsFor(w) \cap S = {}

RefusesCapital(w) ==
    /\ pc[w] = "reply"
    /\ req[w].kind \in Documented
    /\ outcome[w] \in Refusal \cup {"no_period", "commitment_exceeded"}

(* A call is never refused while it is in the book: a duplicate that comes  *)
(* second to the fund finds the commitment or the cash used up by the first *)
(* and must replay it (run_idempotent around create_capital_call).          *)
MadeIsNeverRefused ==
    [][\A w \in Worker :
        pc[w] # "reply" /\ RefusesCapital(w)'
            => ~\E d \in documents : Made(d, req'[w])]_capitalVars

-----------------------------------------------------------------------------
(* Liveness. *)

(* Every request is answered unless its worker dies: nobody waits for ever  *)
(* for the fund, an account, a key or a period.                             *)
CapitalAnswered == \A w \in Worker : pc[w] # "idle" ~> pc[w] = "idle"

-----------------------------------------------------------------------------
(* Calls and distributions, too, are transfers of the ledger as promised. *)

CapitalRows == {RowOfCapital(r) : r \in
                   {q \in CapitalRequest : <<q.fund, q.on>> \in Period
                                           /\ Allocatable(Commitment[q.fund])}}

CapitalReversals ==
    {RowOfReversal(r, p, t.legs) : r \in {q \in Request : q.kind = "reversal"},
                                   p \in Period, t \in CapitalRows}

Promise == INSTANCE AbstractLedger
              WITH Row <- Row \cup CapitalRows \cup CapitalReversals
PromiseSpec == Promise!Spec
=============================================================================
