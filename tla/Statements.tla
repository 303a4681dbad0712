----------------------------- MODULE Statements -----------------------------
(***************************************************************************)
(* Capital account statements and net asset value (operations/statements.py)*)
(* over the ledger as its callers see it: a book that grows by whole        *)
(* transfers and periods that close (AbstractLedger, which Ledger and       *)
(* Capital implement).                                                      *)
(*                                                                          *)
(* A statement is not read in one transaction: lp_statement runs three      *)
(* queries for each period, and transfers commit and periods close between  *)
(* them.                                                                    *)
(***************************************************************************)
EXTENDS AbstractLedger, Operations

CONSTANTS
    None,
    Valued,         \* the periods of which NAV snapshots are taken
    MaxComputed     \* bound: snapshots being computed at once

(* Transfers on the accounts of the fund's chart: the business operations   *)
(* post to no others.  Holdings in other currencies need not be told apart; *)
(* GP_CAPITAL, which only a transfer posted directly could name, is in no   *)
(* LP's statement and not in nav.  Only reverse_transfer names a transfer   *)
(* it reverses.                                                             *)
LPs(f) == DOMAIN Commitment[f]
Charted(f) ==
    {Chart[f].cash, Chart[f].holding, Chart[f].fee, Chart[f].gain}
      \cup {Chart[f].lp[lp] : lp \in LPs(f)}

ASSUME StatementAssumption ==
    /\ None \notin Period
    /\ Valued \subseteq Period
    /\ \A r \in Row :
          /\ r \in TransferRow
          /\ r.type # "REVERSAL" => r.reverses = 0
          /\ Touched(r.legs) \subseteq Charted(r.period[1])

VARIABLES
    reading,        \* the statement being put together, or None
    computed,       \* NAV snapshots computed and not yet written
    stored          \* [Period -> its NavSnapshot, or None]

snapshots     == <<computed, stored>>
statementVars == <<vars, reading, snapshots>>

-----------------------------------------------------------------------------
(* The lines of one period. *)

(* Entries by the period of their transfer, a reversal's being its own. *)
BugPeriodOf(b, i) ==                    \* that of what it reverses
    IF b[i].reverses # 0 THEN b[b[i].reverses].period
    ELSE b[i].period
PeriodOf(b, i) == b[i].period

Posted(b, a, p) ==
    {e \in Entries(b) : EntryOf(b, e).account = a /\ PeriodOf(b, e[1]) = p}

(* What an LP's account gained by transfers of the given effective types,   *)
(* credit-positive.                                                         *)
BugGained(b, f, lp, p, types) ==        \* reversals are their own kind
    -Imbalance(b, {e \in Posted(b, Chart[f].lp[lp], p) :
                      b[e[1]].type \in types})
Gained(b, f, lp, p, types) ==
    -Imbalance(b, {e \in Posted(b, Chart[f].lp[lp], p) :
                      EffectiveType(b, e[1]) \in types})

(* One grouped query: contributions, distributions and the rest. *)
Rest == TransferType \ {"CAPITAL_CALL", "DISTRIBUTION"}

LpLedgerMovement(b, f, lp, p) ==
    [contributions |-> Gained(b, f, lp, p, {"CAPITAL_CALL"}),
     distributions |-> -Gained(b, f, lp, p, {"DISTRIBUTION"}),
     other |-> Gained(b, f, lp, p, Rest)]

(* The fund's gain or fee of the period, and the LP's part of it. *)
Part(f, lp, total) == Allocate(total, Commitment[f])[lp]
Gains(b, f, p) == -Imbalance(b, Posted(b, Chart[f].gain, p))
Fees(b, f, p) == Imbalance(b, Posted(b, Chart[f].fee, p))

-----------------------------------------------------------------------------
(* Statements. *)

BugPeriodsThrough(p) == {q \in Period : q[1] = p[1]}    \* all of the fund's
PeriodsThrough(p) == {q \in Period : q[1] = p[1] /\ q[2] <= p[2]}

(* Put together from what was read of each period: m, its movement; g and   *)
(* h, its gains and fees.                                                   *)
Net(f, lp, line) ==
    line.m.contributions - line.m.distributions + line.m.other
      + Part(f, lp, line.g) - Part(f, lp, line.h)

StatementOf(f, lp, p, lines) ==
    LET this == lines[p]
        NetOf(q) == Net(f, lp, lines[q])
        Contributions(q) == lines[q].m.contributions
        earlier == PeriodsThrough(p) \ {p}
        opening == SignedSum([q \in earlier |-> NetOf(q)])
        toDate == SignedSum([q \in earlier |-> Contributions(q)])
                    + this.m.contributions
    IN  [opening |-> opening,
         contributions |-> this.m.contributions,
         distributions |-> this.m.distributions,
         other |-> this.m.other,
         gains |-> Part(f, lp, this.g),
         fees |-> Part(f, lp, this.h),
         closing |-> opening + Net(f, lp, this),
         contributed |-> toDate,
         unfunded |-> Commitment[f][lp] - toDate]

(* The statement a book gives. *)
Line(b, f, lp, q) ==
    [m |-> LpLedgerMovement(b, f, lp, q), g |-> Gains(b, f, q),
     h |-> Fees(b, f, q)]

Statement(b, f, lp, p) ==
    StatementOf(f, lp, p, [q \in PeriodsThrough(p) |-> Line(b, f, lp, q)])

(* Cash and investments, in base currency. *)
Nav(b, f, p) ==
    LET assets == {Chart[f].cash, Chart[f].holding}
    IN  Imbalance(b, UNION {Posted(b, a, q) : a \in assets,
                                              q \in PeriodsThrough(p)})

-----------------------------------------------------------------------------
(* Reading. *)

(* The period to read next and the query to make of it; what was read; and  *)
(* the periods that were closed when the reading began.                     *)
First(periods) == CHOOSE q \in periods : \A r \in periods : q[2] <= r[2]

Begin(f, lp, p) ==
    /\ reading = None
    /\ reading' = [fund |-> f, lp |-> lp, period |-> p,
                   closed |-> {q \in Period : status[q] = "CLOSED"},
                   at |-> First(PeriodsThrough(p)), query |-> "movement",
                   lines |-> [q \in PeriodsThrough(p) |->
                                [m |-> None, g |-> None, h |-> None]]]
    /\ UNCHANGED vars

Asks(query) ==
    /\ reading # None
    /\ reading.at # None
    /\ reading.query = query
    /\ UNCHANGED vars

ReadMovement ==
    /\ Asks("movement")
    /\ reading' = [reading EXCEPT
          !.lines[reading.at].m =
              LpLedgerMovement(book, reading.fund, reading.lp, reading.at),
          !.query = "gains"]

ReadGains ==
    /\ Asks("gains")
    /\ reading' = [reading EXCEPT
          !.lines[reading.at].g = Gains(book, reading.fund, reading.at),
          !.query = "fees"]

Later(q) == {r \in PeriodsThrough(reading.period) : r[2] > q[2]}

(* The last query of a period; the next period is read next. *)
ReadFees ==
    /\ Asks("fees")
    /\ reading' = [reading EXCEPT
          !.lines[reading.at].h = Fees(book, reading.fund, reading.at),
          !.query = "movement",
          !.at = IF Later(reading.at) = {} THEN None
                 ELSE First(Later(reading.at))]

(* The statement is sent. *)
Given == StatementOf(reading.fund, reading.lp, reading.period, reading.lines)

Send ==
    /\ reading # None
    /\ reading.at = None
    /\ reading' = None
    /\ UNCHANGED vars

-----------------------------------------------------------------------------
(* NAV snapshots. *)

(* snapshot_nav computes the net asset value first; final tells whether the *)
(* period was closed by then.                                               *)
Compute(p) ==
    /\ Cardinality(computed) < MaxComputed
    /\ computed' = computed \cup
          {[period |-> p, nav |-> Nav(book, p[1], p),
            final |-> status[p] = "CLOSED"]}
    /\ UNCHANGED <<vars, stored>>

(* and then writes the one row of the fund and the period's last day.       *)
Store(snapshot) ==
    /\ computed' = computed \ {snapshot}
    /\ stored' = [stored EXCEPT ![snapshot.period] = snapshot]
    /\ UNCHANGED vars

-----------------------------------------------------------------------------

NoSnapshots == computed = {} /\ stored = [p \in Period |-> None]

StatementInit == Init /\ reading = None /\ NoSnapshots

(* The ledger goes on, whoever reads. *)
Grow == Next /\ UNCHANGED <<reading, snapshots>>

(* Statements and snapshots change nothing the other reads: a behaviour has *)
(* one or the other.                                                        *)
Reads ==
    /\ NoSnapshots
    /\ \/ \E p \in Period : \E lp \in LPs(p[1]) : Begin(p[1], lp, p)
       \/ ReadMovement \/ ReadGains \/ ReadFees
       \/ Send
    /\ UNCHANGED snapshots

Snapshots ==
    /\ reading = None
    /\ \/ \E p \in Valued : Compute(p)
       \/ \E snapshot \in computed : Store(snapshot)
    /\ UNCHANGED reading

StatementSpec == StatementInit /\ [][Grow \/ Reads \/ Snapshots]_statementVars

-----------------------------------------------------------------------------
(* What statements promise. *)

(* What is said of the books alone need only be said between two readings,  *)
(* which leave them as they are.                                            *)
Quiescent == reading = None /\ NoSnapshots

(* The accounting equation: what the partners own, over all periods, is     *)
(* what the fund holds, to the last unit, after any calls, fees, gains,     *)
(* losses and reversals ("Sum of LP capital = NAV", README).                *)
PartnersCapitalIsNav ==
    Quiescent =>
        \A p \in Period :
            LET Closing(lp) == Statement(book, p[1], lp, p).closing
            IN  LPs(p[1]) # {} =>
                    SignedSum([lp \in LPs(p[1]) |-> Closing(lp)])
                        = Nav(book, p[1], p)

(* The statement that was sent says of an LP's contributions what the next  *)
(* capital call will find (contributed_to_date of lp_statement against      *)
(* contributed_by_account): reversals count in the same way.                *)
ToDateIsWhatCallsFind ==
    Quiescent =>
        \A p \in Period : \A lp \in LPs(p[1]) :
            (\A q \in Period : q[1] = p[1] => q[2] <= p[2]) =>
                Statement(book, p[1], lp, p).contributed
                    = Contributed(book, p[1], lp)

(* A closed period has one statement for ever: what is posted later, a      *)
(* reversal of one of its own transfers included, appears in later periods. *)
ClosedStatementIsFinal ==
    [][book' # book /\ NoSnapshots =>
          \A p \in Period : \A lp \in LPs(p[1]) :
             status[p] = "CLOSED" =>
                Statement(book', p[1], lp, p)
                    = Statement(book, p[1], lp, p)]_vars

(* A snapshot computed once its period is closed is the net asset value for *)
(* ever: it is wrong only if it was computed before, though it may have been*)
(* written after (snapshot_nav computes and then overwrites; the last to    *)
(* write need not be the last to compute).                                  *)
SnapshotIsNav ==
    \A p \in Period :
        stored[p] # None /\ stored[p].final
            => stored[p].nav = Nav(book, p[1], p)

(* A reader is given that statement, though it is read query by query while *)
(* others post and close; and of an open period, once the earlier ones are  *)
(* closed, at least the opening balance (lp_statement, in autocommit).      *)
ClosedIsNeverTorn ==
    reading # None /\ reading.at = None =>
        LET p == reading.period
            now == Statement(book, reading.fund, reading.lp, p)
        IN  /\ p \in reading.closed => Given = now
            /\ PeriodsThrough(p) \ {p} \subseteq reading.closed
                  => Given.opening = now.opening
=============================================================================
