# Fund ledger: TLA+ specification and proofs

This directory models the fund ledger of this repository: a double-entry
ledger on PostgreSQL served by several gunicorn workers, the capital operations
on top of it, and what is read from it. TLC checks the models on small
instances; TLAPS proves some of their properties for every instance.

    tlc -config funds.cfg MCLedger.tla        # a run; each cfg names its properties
    tlapm LedgerProofs.tla                    # the proofs of a module

## The system

Several worker processes serve one request each. They share nothing but the
database, at READ COMMITTED; what makes them safe is row locks, unique indexes,
two triggers and the order in which the handlers use them.

| Part | State | Operations | Correct when | Modelled by |
|---|---|---|---|---|
| Ledger engine (`ledger/services.py`) | `ledger_transfer`, `ledger_entry`; account row locks | `post_transfer`, `post_transfer_idempotent`, `reverse_transfer` | balanced, never overdrawn, no deadlock | `Ledger` |
| Idempotency (`ledger/idempotency.py`) | unique key and fingerprint on the transfer | `run_idempotent` | a key makes one transfer; every duplicate learns of it | `Ledger`, `Capital` |
| Periods (`operations/periods.py`, migration 0003) | `status` of each period | `close_period`, trigger `assert_period_open` | closed in order, nothing posted afterwards | `Ledger` |
| Books (`ledger/models.py`, `queries.py`, `reconciliation.py`) | `created_at` of entries; the rest is derived | balances and imbalances, now or as of a moment, unbalanced transfers, pages of entries | zero per fund, period and transfer, now and in the past; a past that is over does not change | `Sums`, `Books`, `History` |
| Capital (`operations/services.py`, `models.py`, `queries.py`) | fund row lock, `CapitalCall`, `Distribution` | `create_capital_call`, `create_distribution` | within commitments, numbered, documents match money | `Operations`, `Capital` |
| Allocation (`operations/allocation.py`) | none | `allocate` | sums exactly, as fair as possible | `Allocation` |
| Pricing (`ledger/pricing.py`) | `FxRate` | `fx_rate_for`, `price_legs` | rounding refuses nothing and hides nothing; reversals undo | `Pricing` |
| Statements (`operations/statements.py`) | `NavSnapshot` | `lp_statement`, `nav`, `snapshot_nav` | Σ LP capital = NAV; a closed period's statement is final | `Statements` |
| Access (`access/`) | keys, memberships | authentication, authorisation, commands | served only when entitled; outsiders learn nothing | `Access` |
| Set-up (`operations/chart.py`, `sandbox.py`, `seed_demo`, `rotate_sandbox`) | funds, LPs, commitments, periods, accounts, rates, the sandbox membership | get-or-create, one script per command | may be killed and run again; the sandbox key reaches one whole fund | `Setup` |
| Retry (`ledger/retry.py`) | none | retry on deadlock | | not modelled |
| HTTP edge, observability, deployment | counters | | | not modelled |

How they interact. A view of `api/views.py` authenticates and authorises
(Access), then calls one service. The services of `operations/` lock the fund,
compute legs (Allocation) and call the engine inside `run_idempotent`; the
engine locks accounts in primary-key order, checks, inserts the transfer and its
entries, and the triggers have the last word at the insert of an entry (period)
and at commit (balance). A closing locks its period, so it meets postings at the
trigger's `FOR SHARE`. Readers take no locks and no transaction.

What is hard, and where it is looked at:

* **interleavings** of check and insert (overdraft, commitment, call numbers,
  double reversal, duplicate keys);
* **waiting**: account rows, unique indexes, fund rows and period rows are all
  waited for, by transactions that take them in different orders;
* **stale reads**: a `Period` instance loaded before the locks, a membership
  read before the handler, a statement put together from many queries;
* **times**: entries are dated when they are sent and seen when they are
  committed, in another order;
* **failures**: a worker killed before or after its commit, a lost reply, a
  lock timeout, a request sent again, perhaps a day later, a set-up command
  killed halfway and run again;
* **arithmetic**: pro-rata shares, rounding of foreign amounts, per-period
  allocation of gains and fees.

`PROJECT.json` lists each hazard at its line with the properties that cover it.

## Modules

    Sums -> Books -+-> AbstractLedger ------+-> Statements
                   +-> Ledger -+-> History  |
    Allocation ----+-> Operations -+--------+
                               +---+-> Capital
    Sums -> Pricing -> PricedTransfers
    Access, Setup: on their own

    Sums, Allocation -> SumsProofs -+-> RoundingProofs  (with MCAllocation and
                                    |                    PricedTransfers)
                                    +-> BooksProofs
    BooksProofs -+-> LedgerProofs -> HistoryProofs
                 |   (with Ledger)   (with History)
                 +-> CapitalProofs  (with Capital; instantiates LedgerProofs)
                 +-> StatementProofs  (with Statements)
    Access -> AccessProofs

* `Sums`: the sum of amounts over a finite set, written as the number of units
  in them: a closed form TLAPS can reason about, as it cannot about folds.
* `Books`: transfers, legs, entries, balances and imbalances as functions of the
  sequence of committed transfers.
* `AbstractLedger`: what callers are promised. One acceptable transfer at a
  time is appended, exactly once per key; periods close in order and for good.
* `Ledger`: workers, step by step. One action per database statement, or part of
  a handler between two of them: `Lookup` (the key, before and after the
  savepoint), `LockAccount` (one row at a time), `Check`, `Insert` (waiting at
  the unique indexes), `InsertEntries` (with the triggers), `Commit`,
  `AfterRollback` and `Relookup` (the second look of `_run_once`), the four steps
  of a closing, `Reply`, and `Crash`, `Timeout` and `Tick` of the environment. An
  uncommitted row is not a variable: it is told by its worker's `pc`, which also
  tells what locks it holds, as the head of the module says.
* `Operations`: the legs of every business operation and the chart of accounts.
* `Capital`: extends `Ledger` with requests that hold the fund, check
  commitments, number documents, and use the actions of `Ledger` for the rest.
* `History`: extends `Ledger` with the database's clock, the moment each `INSERT`
  of entries is sent and the `created_at` of committed entries; reads as of a
  moment, and a client that follows the links from page to page with the cursors
  of the REST framework (a position, and an offset among entries of one moment).
* `Statements`: `lp_statement` query by query over `AbstractLedger`, and
  `snapshot_nav`, which computes and then overwrites. The abstract ledger is
  enough because `Ledger` and `Capital` implement it (`periods`,
  `capital_answered`) and a statement reads committed rows only.
* `Allocation`, `Pricing`: the pure algorithms. `MCAllocation` has the definitions
  the first is checked against; `PricedTransfers` puts legs together, prices,
  books and reverses them while rates are published, with the exact values the
  second is checked against.
* `Access`: requests through `verify_key`, `record_use` (`ReadClock`, which
  decides, then `RecordUse`, which writes the reading over whatever is on record),
  `FundRolePermission` and the view, while commands issue and revoke keys, grant
  roles and move the sandbox. What was true while a request lasted is kept in
  the history variable `witnessed`.
* `Setup`: `seed_demo` and `rotate_sandbox` as scripts of statements. A
  `get_or_create` is a `Get`, a `Create` that waits at the unique index for a row
  another transaction has not committed, and a `GetAgain` when it loses. A step
  outside a transaction commits at once; `Kill` ends a process anywhere.

Definitions named `Bug...` are the mistakes the properties were tried on, each
next to the definition it spoils; no specification uses them.

### Abstractions

* A day stands for the stretch of dates of a period, a period is a fund and a
  position; the periods of a fund do not overlap.
* In `Ledger` the base amounts of a leg come with the request; `Pricing` says how
  they are found. Amounts are counts of the smallest unit; `Penny` is the number
  of units in a penny.
* In `History` a commit ends at least one tick of the clock (a microsecond) after
  its `INSERT` was sent; replies are lost (`Crash`), since `Ledger` says what
  clients are told.
* A fingerprint is the comparison of what is hashed (`SameRequest`).
* LPs, commitments, accounts and the chart do not change, but in `Setup`.
* In `Setup` a row is what its unique index holds; two of the five standard
  accounts, three of the six operations, one LP of a sandbox fund and one period
  stand for all, and a transfer is posted in one step, as `Ledger` shows the
  engine to. `update_or_create` of the membership that exists is a `Get` that
  waits; the lock it then holds is not kept, so a rotation that deletes that row
  does not wait for it, which matters only where rotations to different days
  overlap. Two such rotations can leave PostgreSQL a deadlock to break: the
  victim's end is `Kill`.
* `with_deadlock_retry` retries on errors that, by `NoWaitCycle` and
  `CapitalNoWaitCycle`, PostgreSQL never reports here. Foreign-key locks (FOR KEY
  SHARE, which conflict with FOR UPDATE only) are left out: a posting takes them
  on rows its transaction has locked already (its accounts, its period by the
  trigger, the fund of a call) or that nobody locks (a transfer).
* `Ledger` has no refusal for a missing rate: its requests come priced. It is in
  `Pricing` (`MissingFxRate`), before anything is written.
* `Pricing` lets rates change between transfers only: pricing reads the rates of
  its date before it writes. Its legs come debits first, a choice of order.
* `Access`: commands run one at a time, each atomic as its transaction is
  (`Setup` has them overlap); `demo_access` is taken role by role, and the user
  and the membership of `grant_access`, two commits in the code, are one (a new
  user has no key to be served with in between). No one but
  `rotate_sandbox` changes the sandbox user's memberships. Nothing in the code
  deactivates a user; the step that does stands for an administrator. Throttling
  comes after authorisation and before the handler and is left out.

## Runs

| Run | Module | Question | Bounds |
|---|---|---|---|
| `funds` | MCLedger | no overdraft, balanced books, no wait cycle | 3 workers, 9 requests on 4 keys over 3 accounts, in opposite directions and among refused ones, 4 attempts |
| `replay` | MCLedger | duplicates, reused keys, racing reversals, a reversal on a later day, crashes, lost replies | 2 workers, 9 requests on 4 keys, 2 periods, 3 days, 4 attempts |
| `periods` | MCLedger | closing against postings; refines `AbstractLedger` | 2 workers, 2 periods, 2 days, 4 attempts |
| `undated` | MCLedger | an undated reversal retried the next day | expected violation, see Findings |
| `allocation` | MCAllocation | every split of small totals | 3 recipients, weights up to 3, totals up to 4, two splits one after the other |
| `capital` | MCCapital | calls that do not fit together, distribution, reversal, refusals | 2 workers, 2 LPs, 7 capital requests, 4 attempts |
| `capital_answered` | MCCapital | everyone is answered; refines `AbstractLedger` | 2 workers, a call, a distribution, a fee, a reversal, a closing, 3 attempts |
| `pricing` | MCPricing (PricedTransfers) | price, book, reverse while rates change | legs of two currencies, up to 4 per transfer, 2 transfers |
| `statements` | MCStatements | statement and NAV of every history, while one is being read or snapshots are taken | 2 LPs, 2 periods, operations of five kinds with reversals, 2 snapshots at once |
| `access` | MCAccess | requests, and the uses of keys they record, while keys and memberships change | 2 workers, 4 requests, 3 funds, 2 users, 2 keys, 3 commands, 2 moments, touch interval 0 |
| `history` | MCHistory | the past and the pages of an account, while transfers commit | 2 workers, 4 transfers on 3 accounts, pages of 2, 4 attempts, 4 moments |
| `setup` | MCSetup | set-up killed, repeated, overlapping | 2 processes, 5 runs, 2 days, demo fund of 2 LPs, 2 rates |

Why the bounds are enough. The hazards need two actors that meet (three in
`funds`, where a third transfer may use up what the second was promised), a
request and its duplicate, and one event between them; four attempts are a
deposit, two rivals and a retry. `MaxAttempts` counts requests received and is
the only bound of `Ledger`. Two LPs with commitments 2 and 1 give ties and
uneven remainders; in `pricing` a penny of four units makes rates round in both
directions. Two workers in `access` are what `UseIsOnRecord` is about: both find no
use with their key, one reads the clock and stalls, the other records a later
reading, and the first sets it back. Two moments more than the touch interval apart
are what that takes, hence an interval of 0: a use is recent in the moment it was
made in and not in the next. Three commands give the sandbox user a fund and a key
and then move the fund, or replace a partner's key of the demo fund and change the
role, between any two queries of the requests; the four requests meet every reason
to be refused: no such fund, no or too low a membership, another LP's statement,
one of an LP with no commitment. In `history` a page of two splits the transfer with
two legs on one account, and four moments let two transfers be dated and committed
in opposite orders with a reading in between. In `setup` five runs are one that is
killed, its repetition, and three rotations: with fewer, two memberships left by
an overlap are never fought over. Workers are symmetric; symmetry is not used
where refinement or liveness is checked.

Deadlock is checked except in `allocation`, `pricing` and `setup`, which do a
bounded number of things and stop. A `Ledger` whose attempts are used up may
still step (`Quiet`, a finished system, is an explicit disjunct of `Next`).

**Fairness** (`capital_answered` only): weak fairness of each worker's own
steps, for the operating system schedules every worker and a lock is granted
when it is free. Nothing is assumed of requests arriving, of the clock, of
crashes or of timeouts: the lock order, not `lock_timeout`, is what answers
everyone.

## Properties

Safety of the engine: `NoOverdraft`, `NoWaitCycle`, `AtMostOnce`,
`ReversalsCancel`, `ClosedInOrder`, `ClosedIsFinal`, `Reconciles`. What clients
are told: `TruthfulAnswers` (an answer agrees with the book),
`RetryNeverConflicts`, `NeverRefusedWhenDone` and, for capital,
`CapitalTruthful`, `MadeIsNeverRefused`. Capital: `WithinCommitment`,
`DocumentsMatchMoney`, `NumberedInOrder`. The past: `PastSettles` (a past no
transfer is under way to is over), `PastIsSound`, `WalkIsExact`. Set-up:
`RerunsComplete`, `SandboxReachesItsFund`. Each module states its properties in
words at its end. Every property of a passing run has a mutant in
`PROJECT.json`: a plausible bug of a definition, under which TLC finds the
property violated in the same run.

### Findings

`undated`: a reversal without `on_date` is booked on the day it arrives
(`api/views.py:264`), and the period of that day is part of its fingerprint
(`ledger/services.py:230`). Sent again, unchanged, in the next period it is
answered 422 `idempotency_conflict`, where `api/views.py:64` promises a replay.

Three more disagreements are written as exceptions into the property that holds
otherwise, each at a guard of its own, and have no run that expects a violation:

* Two requests that come with the same old use of a key both pass the comparison of
  `record_use` (`access/keys.py:56`) and both update it, where `access/keys.py:54`
  has "at most once a minute"; the one that read the clock first may even write
  last and set the use back. What remains true is `UseIsOnRecord`: the use on
  record is recent for every request during which that did not happen, so the
  next request puts it right. Nothing but `list_api_keys` reads the field.
* Once a rate is published for a date up to that of the demo purchase,
  `seed_demo`, run again, ends in `IdempotencyConflict`, as the rate is part of
  the purchase's legs (`operations/services.py:185`), though `seed_demo.py:58`
  has "Fixed idempotency keys make re-runs replay" (`RerunsComplete`).
* Rotations to different days that overlap can leave the sandbox key two funds,
  where `rotate_sandbox.py:29` has yesterday's stop being reachable, and the
  next ones can end in `IntegrityError`; cron runs one a day
  (`SandboxReachesItsFund`).

## Proofs

`SumsProofs` and `BooksProofs` have the lemmas on sums, shares and books: a sum
over a union, under a renaming, of an extended function, of sums and of
multiples; that largest-remainder shares add up to the total and stay next to
their exact parts; how appending a transfer changes a balance and an imbalance;
that mirrored legs cancel.

`LedgerProofs!TypeCorrect`: `Spec => []TypeOK`. `TypeOK` is inductive as it
stands, because it also relates the parts of the state: locks end with their
transaction, nobody replies without an answer, and a worker that was refused
for a duplicate key finds the transfer that took it.

`LedgerProofs!NeverOverdrawn`: `Spec => []NoOverdraft`. The balances alone
are not inductive: two workers may both have passed the check. The invariant
`FundsInv` adds that the book has finitely many entries, that no two workers
hold one account, and `Covered(w)`: from the check to the commit a worker holds
every account its legs name, the legs balance within one fund, and the
*committed* balances cover them. A step that commits changes only accounts its
worker holds, so it takes nothing from what covers the others.

`LedgerProofs!AlwaysReconciles`: `Spec => []Reconciles`. By `Covered(w)` what
is committed balances and belongs to one fund; `ImbalanceOfAppend` then says
that its entries, which count together or not at all in the total, in a period,
in a fund and in the fund's part of one transfer, leave each of the four
imbalances at zero.

`LedgerProofs!NoDeadlock`: `Spec => []NoWaitCycle`. `LockOrder` says that a
worker locking rows holds only rows that come before all it still has to lock.
In a set of workers that wait for one another, one whose next row is the largest
(they are finitely many) would wait for a worker that needs a larger one. What a
worker waits for past its rows, an inserted row or a period, is held by workers
that wait for no row, so no circle goes through it.

`LedgerProofs!KeysWorkOnce`: `Spec => []AtMostOnce`. The committed keys alone are
not inductive: two inserted rows may both be about to commit. `KeyInv` says that
an inserted row is `Apart` (another key, and another target if it reverses)
from every committed row and from every other inserted one. `Insert` establishes
this, because it waits for inserted rows it clashes with and then looks at the
committed ones.

`LedgerProofs!ReversalsCancelOnce`: `Spec => []ReversalsCancel`. `ReversalInv`
adds that a reversal, on its way or in the book, carries the mirrored legs of a
target in the book (transfers never leave it) and that the target, once
examined, is no reversal; `FlipCancels` turns that into deltas, `KeyInv` into a
single reversal per target.

`LedgerProofs!PeriodsCloseInOrder` and `ClosedPeriodsAreFinal`:
`Spec => []ClosedInOrder` and `Spec => ClosedIsFinal`. `PeriodInv` adds what the
period row locks give their holders: a worker about to commit has an open period
that no one is closing; one that closes a period is the only one, and from its
decision on all earlier periods are closed.

`LedgerProofs!KeepsItsPromise`: `Spec => AbstractSpec`, the engine
implements `AbstractLedger` (safety; the abstract ledger promises no more). The
mapping is the identity on `book`, `status` and `today`. `EngineInv`, the
invariants above with `RowInv` (what is on its way was asked for), turns a
`Commit` into `Post`, a `CommitClose` into `Close` and the tick of the day into
itself; every other step leaves the abstract variables alone.

`LedgerProofs!AnswersStayTrue` and `DoneIsNeverRefused`: `Spec =>
[]TruthfulAnswers` and `Spec => NeverRefusedWhenDone`. `AnswerInv` adds that a
worker works on the row its own request asks for, and that what it is about to
say is true already; as the book only grows and closed periods stay closed, what
was true when it was said stays so. A refusal is said only when the second look
finds no transfer under the key; `KeyInv` tells a reversal that came before a
refused one by its key.

`LedgerProofs!RetriesAreRecognised`: `AllDated` implies `Spec =>
[]RetryNeverConflicts`. That every reversal names its day is needed: `undated`
is the counterexample without it.

`RoundingProofs!NothingIsLost`, `RoundingStaysSmall` and
`LargestRemaindersAreBest`: `[]SumsExactly`, `[]DriftIsBounded` and
`[]LeastDeviation`. The quanta left by the floors, times the sum W of the
weights, are the sum of the remainders; so fewer are left than recipients have a
remainder, and `by_remainder`, whose ranks are 0, 1, 2, ..., each taken once,
hands out exactly these. `AllocInv` carries both over many totals. That no split
deviates less: let p be a remainder between those rounded up and the others.
Each quantum moved changes a squared deviation by at least W(W - 2p), whichever
way; the moves of another split add up to nothing, so these prices do too, and
only moves among equal remainders cost no more.

`HistoryProofs!HistoryIsLedger`: `HistorySpec => Spec`; so every theorem on
`Spec` holds of the ledger with its times, and its proofs use them.

`HistoryProofs!ThePastIsSound` and `ThePastSettles`: `HistorySpec =>
[]PastIsSound` and `HistorySpec => PastSettles`. Entries commit in another order
than they are dated in, so a past can still grow; what makes it sound is that
this cannot happen on one account. `Dated(w)` says it: a worker whose entries are
sent dates them later than every committed entry on the accounts it holds. A
commit then adds to the past of an account only what comes after all of that
past, so what it held before stands, and from then on it is the balance the
check has seen. `Sound` is stated of all moments, those to come included, since
a moment that comes has a past at once.

`HistoryProofs!WalksAreExact`: `FitsPage` implies `HistorySpec =>
[]WalkIsExact`. The entries on an account are `Spaced`: of two transfers, the one
that commits later is dated later, again by `Dated(w)`. So the entries a walk
began with stay the oldest there are, and `WalkInv` says of the walk that its
pages are the first n of them (`Shown`), where n is what its cursor tells: those
since its position, which is the moment of one of them, and its offset more. A
page goes on from there, and its cursor moves to the last moment that the page
has done with (`PositionCounts`, `CursorMoves`). The first page has no position
to start from, so its cursor needs one on that page: no transfer may have more
entries on one account than a page has rows (`FitsPage`). With pages of one row
and two legs on an account TLC finds the walk that shows an entry twice: its
cursor is a bare offset, which the next commit shifts. The code's page has 50
rows (`api/views.py:296`), and a capital call has a leg on the cash account for
each partner (`operations/services.py:74`): `FitsPage` holds of funds of at most
50 partners, and of a larger one the first pages of the cash account are exact
only if nothing commits on it meanwhile. Entries of one moment are read in the
order of their legs; that PostgreSQL gives rows of equal `created_at` in one
order on every read is assumed.

`AccessProofs!OnlyTheEntitledAreServed`, `OutsidersLearnNothing` and
`UsesAreOnRecord`: `Spec => []EntitledWhenServed`, `[]OutsidersAreToldNothing`
and `[]UseIsOnRecord`. `WorkerInv(w)` says of a request on its way that its
witness keeps up with the memberships, whatever commands run (`OnItsWay`), and
what its worker has found out at each `pc` (`FoundOut`): past `verify` the key was
good when the request came, past `touch` its use is on record or, at `record`, is
about to be, past `authorise` a membership in the witness is enough. A use that is
not set back only grows, so one that was recent when it was read stays recent
(`UsedFrom`). What another worker's write can take away is in `Kept`: a later use
for an earlier one, and then the witness of every request with that key knows it.

`CapitalProofs` carries the engine's invariants over to `CapitalSpec`, whose steps
are not steps of `Spec`: calls hold the fund, look things up and compute their
legs first. It instantiates `LedgerProofs` as `E`, with variables of the
engine defined from those of `Capital`: a worker that serves a call is seen as
idle until its legs are prepared; then it comes to the engine with a transfer
request, past its lookup, at `lock`; when it fails, is told something or leaves,
the engine sees it crash. For this the proofs on the engine are of a wider
specification than `Spec` ("The engine in the service of others"): requests may
enter at `lock` (`Enter`), or come and not be the engine's business yet
(`Aside`). `EngineStep` shows that every
step of `CapitalSpec` is one of these or none, given `ServingInv`, which says
what a worker that serves a call has at each `pc`: the row that its request
computes, the keys and numbers it goes by.

`CapitalProofs!CapitalNeverOverdrawn` and `CapitalKeepsThePromise`: `CapitalSpec
=> []NoOverdraft` and `CapitalSpec => PromiseSpec`, from the engine's invariants.
The latter also needs that computed legs are valid (`LegPairs`, `WhatLegsMove`:
one debit and one credit per LP that gets a share, in the fund, adding up to the
total).

`CapitalProofs!FundLockNoDeadlock`: `CapitalSpec => []CapitalNoWaitCycle`. Who
waits for a fund has no row, key or period yet, and is waited for by nobody; the
others wait as in the engine, for which `NoDeadlock` is shown.

`CapitalProofs!DocumentsAreNumbered` and `DocumentsTellTheMoney`: `CapitalSpec =>
[]NumberedInOrder` and `[]DocumentsMatchMoney`. `DocumentInv` says that no two
workers have one fund, that the number a worker read under it is still the next
one (`NextInLine`), and that the calls and distributions of the book and the
documents are one to one; a commit adds one of each, or neither.

`CapitalProofs!MadeIsReplayed` and `CapitalAnswersAreTrue`: `CapitalSpec =>
MadeIsNeverRefused` and `[]CapitalTruthful`. A worker that refuses has looked
for its key under the fund lock, or again after its rollback, and whoever might
have made the same call since needs that lock. `TellingInv` says that what a
worker is about to tell is so; documents stay, as do closed periods.

`CapitalProofs!CallsStayWithinCommitment`: `CapitalSpec => []WithinCommitment`.
`CommitmentInv` says what contributions are: the sum, over the calls of the book
that are not reversed, of what the LP paid in on each (`ContributionsAddUp`;
a reversal takes back one call, and once). So a commit adds a call's shares,
which are not negative, or takes back one of the terms. It also says that a call
under way still fits (`Overcalled` is empty) from the check to the commit:
another call of the fund would need the fund, which its worker holds, and
reversals, which do not, only lower what was called.

`RoundingProofs!RoundingRefusesNothing` and `NothingElseIsAbsorbed`: `Spec =>
[]RoundingNeverRefuses` and `[]OnlyRoundingIsAbsorbed`. Multiplied by `Precision`,
the parts of a quantum in which the exact values are whole, every converted leg is
off by half a quantum at most (`PricedToTheQuantum`); residuals add up and are
bounded by what their terms are (`ResidualIsLinear`, `ResidualIsBounded`), so legs
that balance exactly leave a residual within half a quantum per converted leg,
which is within what may be absorbed, and one leg takes up all of it
(`ResidualIsTakenUp`). That leg is the largest, and what it takes up is, but for
its own rounding, the rounding of the others (`RestIsSmaller`): half a quantum less
than the bound in the property, so its base amount stays above zero.

`RoundingProofs!ReversalsTakeBack` and `PurchasesBalance`: `Spec =>
[]ReversalUndoes` and `[]PurchaseIsPriced`. `PricedInv` says what is published,
asked for and booked, and that reversed pairs are `Undone`. Neither a reversal nor a
purchase has a leg that may be adjusted (`NothingToAdjust`): their base amounts are
those they come with, whatever the rates have become.

`StatementProofs!PartnersOwnTheFund`: `StatementSpec => []PartnersCapitalIsNav`.
`BookInv` says that the book is fit to be read (`GoodBook`: its transfers balance
and stay on the chart of their fund, reversals name earlier transfers) and that
periods closed in order. Entries that balance over a fund show, on the accounts of
the partners, the opposite of what they show on the other four (`FourAccounts`,
`ImbalanceOfParts`); the shares of a period's gains and fees add up to them,
losses included (`SharesOfTotal`); so for one period the partners' lines add up to
what its entries do to cash and holdings (`PeriodIsOwned`). The closing balances
sum these lines over periods for each LP, the value over LPs for each period:
`RowsOrColumns`, the sum of a table by rows or by columns, makes them one.

`StatementProofs!StatementsAgreeWithCalls`: `StatementSpec =>
[]ToDateIsWhatCallsFind`, the same partition by period of an LP's calls.

`StatementProofs!ClosedStatementsStay`: `StatementSpec => ClosedStatementIsFinal`.
A transfer is posted into an open period, and changes no line of any other
(`OtherPeriodsUnchanged`), not even when it reverses a transfer there; whatever a
statement of a closed period reads is closed (`ClosedPeriodStays`).

`StatementProofs!ReadersSeeClosedPeriods`: `StatementSpec => []ClosedIsNeverTorn`.
`ReadingInv` follows the reader: of a period that was closed when the reading
began, what has been read is what the book gives now (`AsItIs`), query by query,
and the period to read next is the first of those not passed yet.

`StatementProofs!FinalSnapshotsStand`: `StatementSpec => []SnapshotIsNav`.
`SnapshotsInv` says the same of the snapshots computed and not yet written, which
is why it does not matter in which order they are written.

They assume what the modules assume of the constants (`BooksAssumption`,
`LedgerAssumption`, `NoneAssumption`, `OperationsAssumption`, `CapitalAssumption`,
`HistoryAssumption`, `AccessAssumption`, `PricingAssumption`, `RatesAssumption`,
`StatementAssumption`):
any number of workers, accounts, keys,
users and requests, infinitely many included. `NoDeadlock` and
`FundLockNoDeadlock` alone need `WorkerAssumption` (finitely many workers), the
allocation theorems `RecipientAssumption` (finitely many recipients, in an
order), and those about capital finitely many LPs to a fund, in an order, with
accounts of their own (`OperationsAssumption`). `RatesAssumption` asks of rates that
they are positive (`fxrate_positive`) and of bounded precision (ten decimals), and of
amounts that they are positive (`validate_legs`). `StatementAssumption` asks of
transfers that they are on the accounts of the chart, as those of all business
operations are: one posted directly on `GP_CAPITAL`, the account of the chart that
neither `lp_statement` nor `nav` reads, would leave the partners' capital and the
net asset value apart.

Only model-checked: liveness and `ENABLED`, which the prover does not do, and
everything about the set-up, whose scripts are put together with `FlattenSeq`, a
recursive function: what it gives for every input is an induction over data.

## Plan

Done, in this order: `Sums`, `Books`, `AbstractLedger`, `Ledger`, `Allocation`,
`Operations`, `Capital`, `Pricing`, `Statements`, `Access`, `History`, `Setup`.

To be modelled: the engine itself under the commands of `Setup`, in place of its
one step; the issuing of grants.

Not to be modelled: parsing and rendering, grants (beyond that ledger rows are
only appended), rate limits, observability, deployment and backups; they keep no
state the ledger's rules depend on, or are the business of the libraries and the
host.
