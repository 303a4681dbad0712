-------------------------------- MODULE Setup --------------------------------
(***************************************************************************)
(* The commands that set funds up: seed_demo and rotate_sandbox, with the   *)
(* chart of accounts (operations/chart.py, operations/sandbox.py), run      *)
(* again after being killed, or by two processes at once.                   *)
(*                                                                          *)
(* A command is a script of steps, each one statement to the database, or   *)
(* one get_or_create, which is up to three; a step runs in the transaction  *)
(* its script began, or commits at once.  A row stands for the columns of   *)
(* the unique index that get_or_create goes by.                             *)
(***************************************************************************)
EXTENDS Naturals, Sequences, FiniteSets

LOCAL INSTANCE SequencesExt

CONSTANTS
    Process,        \* what runs commands: cron, CI, an operator
    Demo,           \* the demo fund
    Day,            \* the days; the sandbox fund of a day goes by its day
    Lps,            \* [fund -> the names of its LPs, in their order]
    MaxRuns,        \* bound: commands started
    MaxRate         \* bound: rates published

Fund == {Demo} \cup Day

VARIABLES
    rows,           \* committed rows
    posted,         \* the demo fund's transfers: [operation, rate]
    rate,           \* the USD rate that is good for the purchase's date
    pc,             \* where each process is
    todo,           \* what is left of its script
    atomic,         \* whether it is in a transaction,
    mine,           \* the rows it has inserted there
    gone,           \* and those it has deleted
    day,            \* the day it rotates to
    priced,         \* the rate it has read
    runs,           \* commands started so far
    overlapped      \* whether rotations to different days ever ran at once;
                    \* history the code does not keep

database == <<rows, posted, rate>>
script   == <<pc, todo, atomic, mine, gone>>
vars     == <<database, script, day, priced, runs, overlapped>>

-----------------------------------------------------------------------------
(* Rows. *)

FundRow(f) == <<"fund", f>>
LpRow(lp) == <<"lp", lp>>               \* shared by the sandbox funds
Commitment(f, lp) == <<"commitment", f, lp>>
Period(f) == <<"period", f>>            \* one for the quarters of two years
Account(f, code) == <<"account", f, code>>
UsdRate == <<"rate">>
User == <<"user">>                      \* of the sandbox key
Member(f) == <<"member", f>>            \* that user's membership

Members == {Member(d) : d \in Day}

(* Those opened for every fund; INVESTMENT, GAIN_LOSS and GP_CAPITAL are    *)
(* opened alike.                                                            *)
Standard == <<"CASH", "FEE_EXPENSE">>
Codes(f) == Standard \o Lps[f]          \* LP accounts go by their LP

RowsOf(f) ==
    {FundRow(f), Period(f)}
      \cup {LpRow(lp) : lp \in ToSet(Lps[f])}
      \cup {Commitment(f, lp) : lp \in ToSet(Lps[f])}
      \cup {Account(f, code) : code \in ToSet(Codes(f))}

-----------------------------------------------------------------------------
(* Scripts. *)

Ensure(row) == <<"get_or_create", row>>
EnsureAll(s) == [j \in DOMAIN s |-> Ensure(s[j])]
Begin == <<"begin">>
End == <<"commit">>

ReferenceData(f) ==
    EnsureAll(<<FundRow(f)>>
      \o FlattenSeq([j \in DOMAIN Lps[f] |->
                        <<LpRow(Lps[f][j]), Commitment(f, Lps[f][j])>>])
      \o <<Period(f)>>)

OpenFundAccounts(f) ==
    EnsureAll([j \in DOMAIN Standard |-> Account(f, Standard[j])])
      \o <<<<"open LP accounts", f>>>>

(* A call, a purchase in dollars and a fee stand for the six operations of  *)
(* the demo fund's year; each has its fixed key.                            *)
Operations == <<"call", "purchase", "fee">>

History ==
    <<<<"post", 1>>,
      Ensure(Account(Demo, "INVESTMENT-USD")), <<"price">>, <<"post", 2>>,
      <<"post", 3>>>>

SeedDemo ==
    <<Begin>> \o ReferenceData(Demo) \o <<Ensure(UsdRate), End>>
      \o OpenFundAccounts(Demo) \o History

BugRotateSandbox(d) ==                  \* each step on its own
    ReferenceData(d) \o OpenFundAccounts(d)
      \o <<Ensure(User), <<"delete other memberships", d>>, Ensure(Member(d))>>
RotateSandbox(d) ==
    <<Begin>> \o ReferenceData(d) \o OpenFundAccounts(d)
      \o <<Ensure(User), <<"delete other memberships", d>>, Ensure(Member(d)),
           End>>

-----------------------------------------------------------------------------
(* Steps. *)

Init ==
    /\ rows = {}
    /\ posted = <<>>
    /\ rate = 1
    /\ pc = [w \in Process |-> "idle"]
    /\ todo = [w \in Process |-> <<>>]
    /\ atomic = [w \in Process |-> FALSE]
    /\ mine = [w \in Process |-> {}]
    /\ gone = [w \in Process |-> {}]
    /\ day = [w \in Process |-> Demo]
    /\ priced = [w \in Process |-> 0]
    /\ runs = 0
    /\ overlapped = FALSE

Visible(w) == (rows \cup mine[w]) \ gone[w]

(* Who has inserted or deleted the row and not committed yet. *)
Holders(w, row) == {v \in Process \ {w} : row \in mine[v] \cup gone[v]}

At(w, step) == pc[w] = "run" /\ todo[w] # <<>> /\ Head(todo[w])[1] = step
Arg(w) == Head(todo[w])[2]

Goto(w, step) == pc' = [pc EXCEPT ![w] = step]
Advance(w) == Goto(w, "run") /\ todo' = [todo EXCEPT ![w] = Tail(@)]

Start(w, steps, d) ==
    /\ pc[w] \notin {"run", "create", "get again"}
    /\ runs < MaxRuns
    /\ runs' = runs + 1
    /\ Goto(w, "run")
    /\ todo' = [todo EXCEPT ![w] = steps]
    /\ day' = [day EXCEPT ![w] = d]
    /\ overlapped' =
          (overlapped \/ \E v \in Process \ {w} :
                             {d, day[v]} \subseteq Day /\ day[v] # d)
    /\ UNCHANGED <<database, atomic, mine, gone, priced>>

(* The transaction of w, if any, ends with what it did kept, or not. *)
Leave(w, step) ==
    /\ Goto(w, step)
    /\ todo' = [todo EXCEPT ![w] = <<>>]
    /\ atomic' = [atomic EXCEPT ![w] = FALSE]
    /\ mine' = [mine EXCEPT ![w] = {}]
    /\ gone' = [gone EXCEPT ![w] = {}]
    /\ day' = [day EXCEPT ![w] = Demo]
    /\ UNCHANGED <<database, priced, runs, overlapped>>

(* A finished command keeps its script's name until the process starts      *)
(* another.                                                                 *)
Finish(w) ==
    /\ pc[w] = "run"
    /\ todo[w] = <<>>
    /\ Leave(w, IF day[w] = Demo THEN "seeded" ELSE "rotated")

Kill(w) == pc[w] \in {"run", "create", "get again"} /\ Leave(w, "idle")

Others == <<posted, rate, day, priced, runs, overlapped>>

BeginTransaction(w) ==
    /\ At(w, "begin")
    /\ atomic' = [atomic EXCEPT ![w] = TRUE]
    /\ Advance(w)
    /\ UNCHANGED <<rows, mine, gone, Others>>

Commit(w) ==
    /\ At(w, "commit")
    /\ rows' = Visible(w)
    /\ atomic' = [atomic EXCEPT ![w] = FALSE]
    /\ mine' = [mine EXCEPT ![w] = {}]
    /\ gone' = [gone EXCEPT ![w] = {}]
    /\ Advance(w)
    /\ UNCHANGED Others

(* get_or_create: get.  A membership is got FOR UPDATE (update_or_create).  *)
Get(w) ==
    /\ At(w, "get_or_create")
    /\ Arg(w) \in Members \cap rows => Holders(w, Arg(w)) = {}
    /\ IF Arg(w) \in Visible(w) THEN Advance(w)
       ELSE Goto(w, "create") /\ UNCHANGED todo
    /\ UNCHANGED <<rows, atomic, mine, gone, Others>>

(* create, in a savepoint: the unique index makes it wait for an equal row  *)
(* that is not committed, or its deletion.                                  *)
Create(w) ==
    /\ pc[w] = "create"
    /\ Holders(w, Arg(w)) = {}
    /\ IF Arg(w) \in Visible(w)
       THEN Goto(w, "get again") /\ UNCHANGED <<rows, mine, gone, todo>>
       ELSE /\ Advance(w)
            /\ IF atomic[w]
               THEN /\ mine' = [mine EXCEPT ![w] = @ \cup {Arg(w)}]
                    /\ UNCHANGED <<rows, gone>>
               ELSE rows' = rows \cup {Arg(w)} /\ UNCHANGED <<mine, gone>>
    /\ UNCHANGED <<atomic, Others>>

(* The IntegrityError is for a row that can be got now. *)
BugFound(w) == FALSE                    \* the error is raised
Found(w) == Arg(w) \in Visible(w)

GetAgain(w) ==
    /\ pc[w] = "get again"
    /\ IF Found(w)
       THEN Advance(w) /\ UNCHANGED <<database, atomic, mine, gone, day, priced,
                                      runs, overlapped>>
       ELSE Leave(w, "IntegrityError")

(* The loop over fund.commitments. *)
BugToOpen(w, f) ==                      \* not if some are open already
    IF \E lp \in ToSet(Lps[f]) : Account(f, lp) \in Visible(w) THEN <<>>
    ELSE SelectSeq(Lps[f], LAMBDA lp : Commitment(f, lp) \in Visible(w))
ToOpen(w, f) == SelectSeq(Lps[f], LAMBDA lp : Commitment(f, lp) \in Visible(w))

OpenLpAccounts(w) ==
    LET lps == ToOpen(w, Arg(w)) IN
    /\ At(w, "open LP accounts")
    /\ todo' = [todo EXCEPT ![w] =
           EnsureAll([j \in DOMAIN lps |-> Account(Arg(w), lps[j])]) \o Tail(@)]
    /\ UNCHANGED <<rows, pc, atomic, mine, gone, Others>>

(* Rows another transaction is deleting are waited for, those it inserts    *)
(* are not seen.                                                            *)
BugRevoked(w) == {}
Revoked(w) == (Members \ {Member(Arg(w))}) \cap Visible(w)

DeleteOtherMemberships(w) ==
    /\ At(w, "delete other memberships")
    /\ \A row \in Revoked(w) : Holders(w, row) = {}
    /\ IF atomic[w]
       THEN /\ gone' = [gone EXCEPT ![w] = @ \cup Revoked(w)]
            /\ UNCHANGED rows
       ELSE rows' = rows \ Revoked(w) /\ UNCHANGED gone
    /\ Advance(w)
    /\ UNCHANGED <<atomic, mine, Others>>

(* record_investment reads the rate before it asks for the transfer, *)
Price(w) ==
    /\ At(w, "price")
    /\ priced' = [priced EXCEPT ![w] = rate]
    /\ Advance(w)
    /\ UNCHANGED <<database, atomic, mine, gone, day, runs, overlapped>>

(* whose legs, and so whose fingerprint, depend on it.  The engine does the *)
(* rest in one step, as Ledger shows it to.                                 *)
Transfer(w) ==
    [operation |-> Arg(w), rate |-> IF Arg(w) = 2 THEN priced[w] ELSE 0]

AccountsOf(n) ==
    CASE n = 1 -> {Account(Demo, code) : code \in {"CASH"} \cup ToSet(Lps[Demo])}
      [] n = 2 -> {Account(Demo, "CASH"), Account(Demo, "INVESTMENT-USD")}
      [] n = 3 -> {Account(Demo, "CASH"), Account(Demo, "FEE_EXPENSE")}

Post(w) ==
    LET made == {j \in DOMAIN posted : posted[j].operation = Arg(w)} IN
    /\ At(w, "post")
    /\ IF ~(AccountsOf(Arg(w)) \subseteq Visible(w)) THEN Leave(w, "DoesNotExist")
       ELSE IF \E j \in made : posted[j] # Transfer(w)
       THEN Leave(w, "IdempotencyConflict")
       ELSE /\ posted' = IF made = {} THEN Append(posted, Transfer(w)) ELSE posted
            /\ Advance(w)
            /\ UNCHANGED <<rows, rate, atomic, mine, gone, day, priced, runs,
                           overlapped>>

(* A rate for a later date, but not after that of the purchase. *)
PublishRate ==
    /\ rate < MaxRate
    /\ rate' = rate + 1
    /\ UNCHANGED <<rows, posted, script, day, priced, runs, overlapped>>

Work(w) ==
    \/ BeginTransaction(w) \/ Commit(w) \/ Get(w) \/ Create(w) \/ GetAgain(w)
    \/ OpenLpAccounts(w) \/ DeleteOtherMemberships(w) \/ Price(w) \/ Post(w)
    \/ Finish(w)

Next ==
    \/ \E w \in Process : \/ Start(w, SeedDemo, Demo)
                          \/ \E d \in Day : Start(w, RotateSandbox(d), d)
    \/ \E w \in Process : Work(w) \/ Kill(w)
    \/ PublishRate

Spec == Init /\ [][Next]_vars

-----------------------------------------------------------------------------

(* A command may be run again, after being killed at any step or while      *)
(* another runs: it does not fail, and makes everything that is missing     *)
(* ("Safe to run repeatedly", seed_demo; "Idempotent", open_fund_accounts   *)
(* and open_sandbox_fund), with every LP's account opened and every         *)
(* operation posted once.  With two exceptions: a rate that is published    *)
(* for the date of the purchase makes the purchase another request, and     *)
(* rotations to different days may take each other's membership away.       *)
RerunsComplete ==
    \A w \in Process :
        /\ pc[w] = "seeded" =>
              /\ RowsOf(Demo) \subseteq rows
              /\ [j \in DOMAIN posted |-> posted[j].operation]
                    = [j \in DOMAIN Operations |-> j]
        /\ pc[w] = "IdempotencyConflict" => rate > 1
        /\ pc[w] = "IntegrityError" => overlapped
        /\ pc[w] # "DoesNotExist"

(* The sandbox key always reaches a fund, a whole one, from the first       *)
(* rotation on, and one only ("Yesterday's fund ... just stops being        *)
(* reachable with this key", rotate_sandbox) unless rotations to different  *)
(* days ran at once, for neither sees the membership the other inserts.     *)
SandboxReachesItsFund ==
    LET reached == {d \in Day : Member(d) \in rows} IN
    /\ User \in rows => reached # {}
    /\ \A d \in reached : RowsOf(d) \subseteq rows
    /\ ~overlapped => Cardinality(reached) <= 1
=============================================================================
