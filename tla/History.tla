------------------------------ MODULE History -------------------------------
(***************************************************************************)
(* The ledger with its times: entries carry created_at, and are read as of  *)
(* a moment (ledger/queries.py, ledger/reconciliation.py) or page by page,  *)
(* newest first (AccountEntriesView), while transfers are being posted.     *)
(*                                                                          *)
(* created_at is STATEMENT_TIMESTAMP(), so the entries of a transfer, which *)
(* one INSERT writes, share the moment it was sent; they are seen from the  *)
(* commit on.  The clock is the database's, in microseconds: a commit ends  *)
(* in a later moment than its INSERT was sent.  The day stands still.       *)
(***************************************************************************)
EXTENDS Ledger, FiniteSetsExt

CONSTANTS
    PageSize,       \* page_size of EntryCursorPagination
    Listed,         \* the accounts whose entries are listed
    MaxTime         \* bound: moments in one behaviour

ASSUME HistoryAssumption ==
    /\ PageSize \in Nat \ {0}
    /\ Listed \subseteq Account
    /\ MaxTime \in Nat
    /\ None \notin Nat \cup [position : Nat \cup {None}, offset : Nat]

VARIABLES
    now,            \* the clock of the database
    stamp,          \* the moment a worker's INSERT of entries was sent, or 0
    created,        \* created_at of the entries of each committed transfer
    walk            \* the reader that goes through the pages of an account

times       == <<now, stamp, created>>
historyVars == <<vars, times, walk>>

-----------------------------------------------------------------------------
(* Reading as of a moment. *)

BugCreatedAt(e) == created[e[1]] + e[2] - 1     \* clock_timestamp(), row by row
CreatedAt(e) == created[e[1]]

EntriesAsOf(t) == {e \in Entries(book) : CreatedAt(e) <= t}

BalanceAsOf(a, t) ==
    LET amount == [e \in Entries(book) |-> EntryOf(book, e).amount]
        Then(direction) == EntriesOn(book, a, direction) \cap EntriesAsOf(t)
    IN  SumOf(Then("DEBIT"), amount) - SumOf(Then("CREDIT"), amount)

ImbalanceAsOf(t) == Imbalance(book, EntriesAsOf(t))

-----------------------------------------------------------------------------
(* Pages.  A cursor is a created_at that the entries of the page are older  *)
(* than, or None, and how many of those to skip.  Entries of one moment are *)
(* of one transfer: in which order they come does not matter, as long as it *)
(* is the same every time; here it is that of the legs.                     *)

Newest == [position |-> None, offset |-> 0]

OlderThan(e, position) == position = None \/ CreatedAt(e) < position

On(a) == EntriesOn(book, a, "DEBIT") \cup EntriesOn(book, a, "CREDIT")

Newer(d, e) ==
    \/ CreatedAt(d) > CreatedAt(e)
    \/ CreatedAt(d) = CreatedAt(e) /\ d[2] < e[2]

(* Entries, each in the place that those newer than it leave it.            *)
NewestFirst(S) ==
    [j \in 1..Cardinality(S) |->
        CHOOSE e \in S : Cardinality({d \in S : Newer(d, e)}) = j - 1]

(* The entries of account a from the cursor on, newest first. *)
From(a, cursor) ==
    LET rows == {e \in On(a) : OlderThan(e, cursor.position)}
    IN  SubSeq(NewestFirst(rows), cursor.offset + 1, Cardinality(rows))

PageOf(rows) == SubSeq(rows, 1, Min({PageSize, Len(rows)}))

(* The cursor after a page with more to come: the last entry of the page    *)
(* that is not of the moment of the entry after it, or none such.           *)
BugNext(cursor, rows) ==                \* offsets, not positions
    [cursor EXCEPT !.offset = @ + PageSize]
NextCursor(cursor, rows) ==
    LET marks == {j \in 1..PageSize :
                     CreatedAt(rows[j]) # CreatedAt(rows[j + 1])}
    IN  IF marks = {} THEN [cursor EXCEPT !.offset = @ + PageSize]
        ELSE [position |-> CreatedAt(rows[Max(marks)]),
              offset |-> PageSize - Max(marks)]

(* One request for a page; the client keeps what it is given and the link   *)
(* to the next page, if there is one.                                       *)
Turn(a, cursor, known, pages) ==
    LET rows == From(a, cursor)
    IN  walk' = [account |-> a, known |-> known, pages |-> pages \o PageOf(rows),
                 cursor |-> IF Len(rows) > PageSize
                            THEN NextCursor(cursor, rows) ELSE None]

FirstPage(a) ==
    /\ walk = None
    /\ Turn(a, Newest, Len(book), <<>>)
    /\ UNCHANGED <<vars, times>>

NextPage ==
    /\ walk # None
    /\ walk.cursor # None
    /\ Turn(walk.account, walk.cursor, walk.known, walk.pages)
    /\ UNCHANGED <<vars, times>>

LastPage ==
    /\ walk # None
    /\ walk.cursor = None
    /\ walk' = None
    /\ UNCHANGED <<vars, times>>

-----------------------------------------------------------------------------
(* The ledger, with its times. *)

BugSent(w) == pc[w] = "lookup" /\ pc'[w] = "lock"   \* CURRENT_TIMESTAMP
Sent(w) == pc[w] = "insert" /\ pc'[w] = "entries"

(* Conjoined to every step of the ledger. *)
Stamp ==
    stamp' = [w \in Worker |->
                 IF Sent(w) THEN now
                 ELSE IF pc'[w] \notin Posting THEN 0 ELSE stamp[w]]

(* What clients are told is the business of Ledger: a reply here is one     *)
(* that is lost (Crash).                                                    *)
Working(w) ==
    \/ Examine(w) \/ Lookup(w) \/ LockAccount(w) \/ Check(w) \/ Insert(w)
    \/ InsertEntries(w) \/ Relookup(w) \/ Close(w) \/ Crash(w) \/ Timeout(w)

Serve ==
    /\ \/ \E w \in Worker, r \in Request : Arrive(w, r)
       \/ \E w \in Worker : Working(w)
    /\ Stamp
    /\ UNCHANGED <<now, created, walk>>

Record(w) ==
    /\ stamp[w] < now
    /\ Commit(w)
    /\ created' = Append(created, stamp[w])
    /\ Stamp
    /\ UNCHANGED <<now, walk>>

Pass ==
    /\ now < MaxTime
    /\ now' = now + 1
    /\ UNCHANGED <<vars, stamp, created, walk>>

HistoryInit ==
    /\ Init
    /\ now = 1
    /\ stamp = [w \in Worker |-> 0]
    /\ created = <<>>
    /\ walk = None

HistoryNext ==
    \/ Serve
    \/ \E w \in Worker : Record(w)
    \/ Pass
    \/ \E a \in Listed : FirstPage(a)
    \/ NextPage
    \/ LastPage

HistorySpec == HistoryInit /\ [][HistoryNext]_historyVars

-----------------------------------------------------------------------------
(* What the past promises. *)

Past == 1..(now - 1)

(* Some transfer on account a was sent by moment t and is yet to commit. *)
UnderWay(a, t) ==
    \E w \in Worker : /\ stamp[w] \in 1..t
                      /\ pc[w] \in {"entries", "commit"}
                      /\ a \in Touched(row[w].legs)

(* The past of an account settles: at a moment that is over, once no        *)
(* transfer on the account sent by then is still to commit, no other will   *)
(* ever be, and its balance as of that moment never changes again           *)
(* (native_balance with as_of; created_at is taken under the row locks of   *)
(* _lock_accounts).  So a page that shows balance and base_balance, read by *)
(* two queries, shows them of one book.                                     *)
PastSettles ==
    [][\A a \in Account, t \in Past :
          ~UnderWay(a, t) =>
              /\ ~UnderWay(a, t)'
              /\ BalanceAsOf(a, t)' = BalanceAsOf(a, t)]_historyVars

(* As of any moment the books balance ("must always be 0", total_imbalance  *)
(* with as_of) and no cash account was overdrawn, though transfers are dated*)
(* before they commit and commit in another order than they are dated in:   *)
(* _check_sufficient_funds reads a balance without as_of, and the entries   *)
(* of a transfer have one created_at.                                       *)
PastIsSound ==
    \A t \in 1..now :
        /\ ImbalanceAsOf(t) = 0
        /\ \A a \in Cash : BalanceAsOf(a, t) >= 0

(* Whoever follows the links to the last page, while transfers commit, has  *)
(* seen every entry that was there when the first page was read, once, and  *)
(* newest first; nothing that commits later slips into a later page         *)
(* (EntryCursorPagination orders by a time that is not that of the commit). *)
WalkIsExact ==
    walk # None /\ walk.cursor = None =>
        LET Of(i) == {j \in DOMAIN walk.pages : walk.pages[j][1] = i}
            Had(i) == {j \in DOMAIN book[i].legs :
                          book[i].legs[j].account = walk.account}
        IN  /\ \A i \in DOMAIN book :
                  Cardinality(Of(i)) = IF i <= walk.known
                                       THEN Cardinality(Had(i)) ELSE 0
            /\ \A j, k \in DOMAIN walk.pages :
                  j < k => walk.pages[j][1] >= walk.pages[k][1]
=============================================================================
