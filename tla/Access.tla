------------------------------- MODULE Access -------------------------------
(***************************************************************************)
(* Who may do what (access/, the views of api/views.py): API keys, roles    *)
(* that hold on one fund, and the commands an operator runs while requests  *)
(* are being served.                                                        *)
(*                                                                          *)
(* A request is no transaction: its key, its membership and what the view   *)
(* serves are read one after the other.  A command commits as a whole;      *)
(* commands run one at a time.                                              *)
(***************************************************************************)
EXTENDS Integers, Sequences, FiniteSets

CONSTANTS
    Worker, User, Fund, Lp, None,
    Sandbox,        \* the user of the public sandbox key
    DailyFund,      \* [day -> the sandbox fund of that day]
    DemoUser,       \* [role -> the user demo_access gives that role]
    DemoFund, DemoLp,
    Committed,      \* <<fund, lp>>: who has a commitment to which fund
    ObjectFund,     \* [account or transfer -> its fund]
    Request,        \* [view, id, lp]: what may be asked; the id of a fund, an
                    \* account or a transfer, or of nothing at all
    TouchInterval,
    MaxKeys, MaxTime, MaxCommands    \* bounds of the state space

VARIABLES
    users,          \* [User -> {"absent", "active", "inactive"}]
    funds,          \* the funds that exist
    membership,     \* [User -> [Fund -> a role and its LP, or None]]
    keys,           \* the API keys, in the order they were issued
    now,
    commands,       \* how many commands have run
    session,        \* [Worker -> the request it serves]
    witnessed       \* [Worker -> what has been true since its request came];
                    \* history the code does not keep

vars == <<users, funds, membership, keys, now, commands, session, witnessed>>
directory == <<users, funds, membership, keys, now, commands>>

-----------------------------------------------------------------------------
Rank == [LP |-> 0, VIEWER |-> 1, OPERATOR |-> 2, CONTROLLER |-> 3]
Role == DOMAIN Rank

(* The check constraint on memberships: an LP for the LP role only. *)
Membership == [role : Role \ {"LP"}, lp : {None}] \cup [role : {"LP"}, lp : Lp]
Never == 0                              \* an expiry or a use

RequiredRole ==
    [accounts |-> "VIEWER", periods |-> "LP", capital_calls |-> "OPERATOR",
     distributions |-> "OPERATOR", reverse |-> "OPERATOR",
     balance |-> "VIEWER", entries |-> "VIEWER", close |-> "CONTROLLER",
     statement |-> "LP", reconciliation |-> "VIEWER"]

ASSUME AccessAssumption ==
    /\ \A r \in Request : r.view \in DOMAIN RequiredRole
    /\ None \notin Fund \cup Membership
    /\ ObjectFund \in [DOMAIN ObjectFund -> Fund]
    /\ DailyFund \in [DOMAIN DailyFund -> Fund]
    /\ DemoUser \in [DOMAIN DemoUser -> User]
    /\ DOMAIN DemoUser \subseteq Role
    /\ DemoFund \in Fund /\ DemoLp \in Lp /\ Sandbox \in User
    /\ TouchInterval \in Nat /\ MaxTime \in Nat

(* The fund a request touches: for an account or a transfer, its own. *)
FundOf(r) ==
    IF r.view \in {"balance", "entries", "reverse"}
    THEN IF r.id \in DOMAIN ObjectFund THEN ObjectFund[r.id] ELSE None
    ELSE IF r.id \in Fund THEN r.id ELSE None

(* verify_key: the row under the prefix, if the secret is right (0 stands   *)
(* for every header that names no key), and live.                           *)
BugLive(k) == k # 0 /\ (keys[k].expires = Never \/ keys[k].expires > now)
Live(k) ==
    /\ k # 0
    /\ ~keys[k].revoked
    /\ keys[k].expires = Never \/ keys[k].expires > now
    /\ users[keys[k].user] = "active"

Key(u, name, expires) ==
    [user |-> u, name |-> name, expires |-> expires, revoked |-> FALSE,
     used |-> Never]

-----------------------------------------------------------------------------
Idle == [pc |-> "idle", key |-> 0, request |-> None, seen |-> Never,
         time |-> Never, member |-> None, answer |-> 0]
Nothing == [dead |-> FALSE, rows |-> {}, since |-> 0, setBack |-> FALSE]

Init ==
    /\ users = [u \in User |-> "absent"]
    /\ funds = {f \in Fund : \A d \in DOMAIN DailyFund : f # DailyFund[d]}
    /\ membership = [u \in User |-> [f \in Fund |-> None]]
    /\ keys = <<>>
    /\ now = 1
    /\ commands = 0
    /\ session = [w \in Worker |-> Idle]
    /\ witnessed = [w \in Worker |-> Nothing]

(* The history: keys that are no good for good, and                         *)
Dead(k) ==
    IF k = 0 THEN TRUE
    ELSE \/ keys[k].revoked \/ keys[k].expires \in 1..now
         \/ users[keys[k].user] = "inactive"

(* the membership of the presented key's user on the fund of the request. *)
Standing(s, members) ==
    IF s.key = 0 \/ FundOf(s.request) = None THEN {}
    ELSE {members[keys[s.key].user][FundOf(s.request)]} \ {None}

(* Conjoined to every step that changes a membership. *)
Witness(members) ==
    witnessed' = [w \in Worker |->
        IF session[w].pc = "idle" THEN witnessed[w]
        ELSE [witnessed[w] EXCEPT !.rows = @ \cup Standing(session[w], members)]]

-----------------------------------------------------------------------------
(* A request. *)

Step(w, s) == session' = [session EXCEPT ![w] = s]
Answer(w, code) ==
    /\ Step(w, [session[w] EXCEPT !.pc = "answered", !.answer = code])
    /\ UNCHANGED <<directory, witnessed>>

Receive(w) == \E k \in 0..Len(keys), r \in Request :
    LET s == [Idle EXCEPT !.pc = "verify", !.key = k, !.request = r] IN
    /\ session[w].pc = "idle"
    /\ Step(w, s)
    /\ witnessed' = [witnessed EXCEPT ![w] =
           [dead |-> Dead(k), rows |-> Standing(s, membership), since |-> now,
            setBack |-> FALSE]]
    /\ UNCHANGED directory

VerifyKey(w) ==
    LET s == session[w] IN
    /\ s.pc = "verify"
    /\ IF Live(s.key)
       THEN /\ Step(w, [s EXCEPT !.pc = "touch", !.seen = keys[s.key].used])
            /\ UNCHANGED <<directory, witnessed>>
       ELSE Answer(w, 401)

BugStale(seen) == seen = Never
Stale(seen) == seen = Never \/ now - seen > TouchInterval

(* record_use reads the clock, and the use that came with the key is either *)
(* recent, *)
ReadClock(w) ==
    LET s == session[w] IN
    /\ s.pc = "touch"
    /\ Step(w, IF Stale(s.seen) THEN [s EXCEPT !.pc = "record", !.time = now]
               ELSE [s EXCEPT !.pc = "authorise"])
    /\ UNCHANGED <<directory, witnessed>>

(* or replaced by that reading, whatever is on record by now: the history   *)
(* keeps for whom of the others it was set back.                            *)
SetBack(v, w) ==
    /\ v # w /\ session[v].pc # "idle" /\ session[v].key = session[w].key
    /\ session[w].time < keys[session[w].key].used

RecordUse(w) ==
    LET s == session[w] IN
    /\ s.pc = "record"
    /\ keys' = [keys EXCEPT ![s.key].used = s.time]
    /\ Step(w, [s EXCEPT !.pc = "authorise"])
    /\ witnessed' = [v \in Worker |->
           IF SetBack(v, w) THEN [witnessed[v] EXCEPT !.setBack = TRUE]
           ELSE witnessed[v]]
    /\ UNCHANGED <<users, funds, membership, now, commands>>

BugRefusal(row, r) ==                   \* no membership answered as a low rank
    IF row = None \/ Rank[row.role] < Rank[RequiredRole[r.view]] THEN 403 ELSE 0
Refusal(row, r) ==
    CASE row = None -> 404
      [] row # None /\ Rank[row.role] < Rank[RequiredRole[r.view]] -> 403
      [] OTHER -> 0

HasPermission(w) ==
    LET s == session[w]
        f == FundOf(s.request)
        row == IF f = None THEN None ELSE membership[keys[s.key].user][f] IN
    /\ s.pc = "authorise"
    /\ IF Refusal(row, s.request) # 0 THEN Answer(w, Refusal(row, s.request))
       ELSE /\ Step(w, [s EXCEPT !.pc = "handle", !.member = row])
            /\ UNCHANGED <<directory, witnessed>>

(* LPStatementView: another LP, or one without a commitment, is not found.  *)
BugHidden(row, r) == <<FundOf(r), r.lp>> \notin Committed
Hidden(row, r) ==
    \/ row.role = "LP" /\ row.lp # r.lp
    \/ <<FundOf(r), r.lp>> \notin Committed

Handle(w) ==
    LET s == session[w] IN
    /\ s.pc = "handle"
    /\ Answer(w, IF s.request.view = "statement" /\ Hidden(s.member, s.request)
                 THEN 404 ELSE 200)

Done(w) ==
    /\ session[w].pc = "answered"
    /\ Step(w, Idle)
    /\ witnessed' = [witnessed EXCEPT ![w] = Nothing]
    /\ UNCHANGED directory

-----------------------------------------------------------------------------
(* The commands. *)

Command == commands < MaxCommands /\ commands' = commands + 1
Known(us) == [u \in User |-> IF u \in us /\ users[u] = "absent" THEN "active"
                             ELSE users[u]]

CreateApiKey == \E u \in User, expires \in {Never} \cup now + 1 .. MaxTime :
    /\ Command
    /\ users[u] # "absent"
    /\ Len(keys) < MaxKeys
    /\ keys' = Append(keys, Key(u, "other", expires))
    /\ UNCHANGED <<users, funds, membership, now, session, witnessed>>

RevokeApiKey == \E k \in DOMAIN keys :
    /\ Command
    /\ ~keys[k].revoked
    /\ keys' = [keys EXCEPT ![k].revoked = TRUE]
    /\ UNCHANGED <<users, funds, membership, now, session, witnessed>>

(* Operators leave the sandbox user to rotate_sandbox. *)
GrantAccess == \E u \in User \ {Sandbox}, f \in funds, row \in Membership :
    /\ Command
    /\ row.lp # None => <<f, row.lp>> \in Committed
    /\ users' = Known({u})
    /\ membership' = [membership EXCEPT ![u][f] = row]
    /\ Witness(membership')
    /\ UNCHANGED <<funds, keys, now, session>>

Controller == [role |-> "CONTROLLER", lp |-> None]
Moved(held, f) == [g \in Fund |-> IF g = f THEN Controller ELSE None]

RotateSandbox == \E d \in DOMAIN DailyFund :
    /\ Command
    /\ users' = Known({Sandbox})
    /\ funds' = funds \cup {DailyFund[d]}
    /\ membership' = [membership EXCEPT ![Sandbox] = Moved(@, DailyFund[d])]
    /\ Witness(membership')
    /\ UNCHANGED <<keys, now, session>>

(* One role of --roles: a new key in place of that of the run before. *)
DemoAccess == \E role \in DOMAIN DemoUser, expires \in now + 1 .. MaxTime :
    LET u == DemoUser[role] IN
    /\ Command
    /\ Len(keys) < MaxKeys
    /\ users' = Known({u})
    /\ membership' = [membership EXCEPT ![u][DemoFund] =
           [role |-> role, lp |-> IF role = "LP" THEN DemoLp ELSE None]]
    /\ keys' = Append([k \in DOMAIN keys |->
                   IF keys[k].user = u /\ keys[k].name = "demo"
                   THEN [keys[k] EXCEPT !.revoked = TRUE] ELSE keys[k]],
                   Key(u, "demo", expires))
    /\ Witness(membership')
    /\ UNCHANGED <<funds, now, session>>

(* Nothing in the code clears is_active; an administrator may. *)
Deactivate == \E u \in User :
    /\ Command
    /\ users[u] = "active"
    /\ users' = [users EXCEPT ![u] = "inactive"]
    /\ UNCHANGED <<funds, membership, keys, now, session, witnessed>>

Tick ==
    /\ now < MaxTime
    /\ now' = now + 1
    /\ UNCHANGED <<users, funds, membership, keys, commands, session, witnessed>>

Next ==
    \/ \E w \in Worker : \/ Receive(w) \/ VerifyKey(w) \/ ReadClock(w)
                         \/ RecordUse(w) \/ HasPermission(w) \/ Handle(w)
                         \/ Done(w)
    \/ CreateApiKey \/ RevokeApiKey \/ GrantAccess \/ RotateSandbox
    \/ DemoAccess \/ Deactivate \/ Tick

Spec == Init /\ [][Next]_vars

-----------------------------------------------------------------------------
Answered(w) == session[w].pc = "answered"
ViewOf(w) == session[w].request.view

(* Whatever is revoked or moved while a request is on its way, it is served *)
(* only if its key was good when it came (revoke_api_key: "Takes effect on  *)
(* the next request"), and at some moment since its user held, on the very  *)
(* fund of the account, transfer or fund it names, a role that allows it, a *)
(* partner's only for that partner's own statement (verify_key,             *)
(* FundRolePermission, get_fund_id, LPStatementView).  Only a key that is   *)
(* no good is turned away.                                                  *)
EntitledWhenServed == \A w \in Worker :
    /\ Answered(w) /\ session[w].answer = 200 =>
          /\ ~witnessed[w].dead
          /\ \E row \in witnessed[w].rows :
                /\ Rank[row.role] >= Rank[RequiredRole[ViewOf(w)]]
                /\ ViewOf(w) = "statement" /\ row.role = "LP" =>
                       row.lp = session[w].request.lp
    /\ Answered(w) /\ session[w].answer = 401 => Dead(session[w].key)

(* One who was no member of the fund while the request lasted is told       *)
(* nothing but "not found", whether the fund, account, transfer or partner  *)
(* exists or not; so is a partner who asks for another's statement          *)
(* ("don't confirm the fund exists to non-members", permissions.py).        *)
OutsidersAreToldNothing == \A w \in Worker :
    LET s == session[w]
        stranger(row) == /\ ViewOf(w) = "statement"
                         /\ row.role = "LP" /\ row.lp # s.request.lp IN
    Answered(w) /\ s.answer # 401 /\ (\A row \in witnessed[w].rows : stranger(row))
        => s.answer = 404

(* A request served with a key finds a use of it on record that is no more  *)
(* than the touch interval older than the request, though the use that      *)
(* record_use goes by was read before others wrote theirs.  One exception:  *)
(* while it was under way another request, that had read its clock earlier, *)
(* put its own older use over a later one, for the update of record_use is  *)
(* unconditional.  Requests that come after find out and put it right.      *)
UseIsOnRecord == \A w \in Worker :
    session[w].pc \in {"authorise", "handle", "answered"}
        /\ session[w].answer # 401 =>
            LET used == keys[session[w].key].used IN
            /\ used # Never
            /\ used + TouchInterval >= witnessed[w].since \/ witnessed[w].setBack
=============================================================================
