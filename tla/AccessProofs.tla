----------------------------- MODULE AccessProofs -----------------------------
(***************************************************************************)
(* What a served request has had the right to, for any number of workers,   *)
(* users, keys and commands.                                                *)
(***************************************************************************)
EXTENDS Access, SequenceTheorems, TLAPS

Code == {0, 200, 401, 403, 404}

KeyRow == [user : User, name : {"other", "demo"}, expires : Nat,
           revoked : BOOLEAN, used : Nat]

SessionRow == [pc : {"idle", "verify", "touch", "record", "authorise", "handle",
                     "answered"},
               key : Nat, request : Request \cup {None}, seen : Nat, time : Nat,
               member : Membership \cup {None}, answer : Code]

WitnessRow == [dead : BOOLEAN, rows : SUBSET Membership, since : Nat,
               setBack : BOOLEAN]

Typed ==
    /\ users \in [User -> {"absent", "active", "inactive"}]
    /\ funds \subseteq Fund
    /\ membership \in [User -> [Fund -> Membership \cup {None}]]
    /\ keys \in Seq(KeyRow)
    /\ now \in Nat \ {0}
    /\ session \in [Worker -> SessionRow]
    /\ witnessed \in [Worker -> WitnessRow]

(* The user of a key has been created. *)
KeysSound == \A k \in DOMAIN keys : users[keys[k].user] # "absent"

(* The use on record of the key of w is one from t on, unless it was set    *)
(* back for w; *)
UsedFrom(w, t) ==
    LET used == keys[session[w].key].used
    IN  /\ t # Never => used # Never
        /\ used >= t \/ witnessed[w].setBack

(* and once w has passed record_use there is one, and it is recent. *)
Recorded(w) ==
    LET used == keys[session[w].key].used
    IN  /\ used # Never
        /\ used + TouchInterval >= witnessed[w].since \/ witnessed[w].setBack

(* The key of w was good when the request came. *)
Verified(w) ==
    session[w].key # 0 /\ ~witnessed[w].dead

Enough(row, r) == Rank[row.role] >= Rank[RequiredRole[r.view]]

(* What is known of the request of w on its way: its witness keeps up with  *)
(* the memberships, and a key that was no good stays so.                    *)
OnItsWay(w) ==
    session[w].pc # "idle" =>
        /\ session[w].key \in 0..Len(keys)
        /\ session[w].request \in Request
        /\ witnessed[w].since <= now
        /\ witnessed[w].dead => Dead(session[w].key)
        /\ Standing(session[w], membership) \subseteq witnessed[w].rows

(* What its worker has found out. *)
FoundOut(w) ==
    LET s == session[w] IN
    /\ s.pc # "answered" => s.answer = 0
    /\ s.pc = "touch" => Verified(w) /\ UsedFrom(w, s.seen)
    /\ s.pc = "record" => /\ Verified(w)
                          /\ s.time # Never /\ s.time >= witnessed[w].since
    /\ s.pc \in {"authorise", "handle"} => Verified(w) /\ Recorded(w)
    /\ s.pc = "handle" => s.member \in witnessed[w].rows
                          /\ Enough(s.member, s.request)

(* What its answer rests on. *)
Answers(w) ==
    LET s == session[w] IN
    s.pc = "answered" =>
        /\ s.answer = 401 => Dead(s.key)
        /\ s.answer # 401 => Verified(w) /\ Recorded(w)
        /\ s.answer = 403 => \E row \in witnessed[w].rows :
               Rank[row.role] < Rank[RequiredRole[s.request.view]]
        /\ s.answer = 200 => \E row \in witnessed[w].rows :
               /\ Enough(row, s.request)
               /\ s.request.view = "statement" /\ row.role = "LP" =>
                      row.lp = s.request.lp
        /\ s.answer # 0

WorkerInv(w) == OnItsWay(w) /\ FoundOut(w) /\ Answers(w)

AccessInv ==
    Typed /\ KeysSound /\ \A w \in Worker : WorkerInv(w)

-----------------------------------------------------------------------------
(* The parts of the state have their types. *)

(* Roles are ranked by numbers, and every view requires one of them.        *)
LEMMA Ranks ==
    /\ \A role \in Role : Rank[role] \in 0..3
    /\ \A v \in DOMAIN RequiredRole : RequiredRole[v] \in Role
    /\ Rank["LP"] = 0 /\ RequiredRole["statement"] = "LP"
  BY DEF Rank, Role, RequiredRole

(* A row of the table of memberships has a role and, for a partner, an LP.  *)
LEMMA MembershipFields ==
    \A row \in Membership : row # None /\ row.role \in Role
  BY AccessAssumption DEF Membership, Role, Rank

(* The fund a request touches exists, or is none.                           *)
LEMMA FundOfRequest ==
    \A r \in Request : FundOf(r) \in Fund \cup {None}
  BY AccessAssumption DEF FundOf

(* The keys are numbered and have fields of the right types.                *)
LEMMA KeyFields ==
    ASSUME Typed
    PROVE  /\ Len(keys) \in Nat /\ DOMAIN keys = 1..Len(keys)
           /\ \A k \in 1..Len(keys) :
                 /\ keys[k] \in KeyRow
                 /\ keys[k].user \in User /\ keys[k].expires \in Nat
                 /\ keys[k].used \in Nat
<1>1. keys \in Seq(KeyRow)
  BY DEF Typed
<1>2. Len(keys) \in Nat /\ DOMAIN keys = 1..Len(keys)
  BY <1>1, LenProperties
<1>3. \A k \in 1..Len(keys) : keys[k] \in KeyRow
  BY <1>1
<1> QED  BY <1>2, <1>3 DEF KeyRow

(* A step of the worker that serves a request. *)
Serves(w) ==
    Receive(w) \/ VerifyKey(w) \/ ReadClock(w) \/ RecordUse(w) \/ HasPermission(w)
    \/ Handle(w) \/ Done(w)

(* A command, an administrator, or the clock. *)
Manages ==
    CreateApiKey \/ RevokeApiKey \/ GrantAccess \/ RotateSandbox \/ DemoAccess
    \/ Deactivate \/ Tick

(* The directory is empty at first, and nobody is served.                   *)
LEMMA TypedInit == Init => Typed
<1>1. Idle \in SessionRow
  BY DEF Idle, SessionRow, Code, Never
<1>2. Nothing \in WitnessRow
  BY DEF Nothing, WitnessRow
<1> QED  BY <1>1, <1>2 DEF Init, Typed

(* What a step leaves of w, and of the others. *)
Frame(w) ==
    /\ \A v \in Worker \ {w} : /\ session'[v] = session[v]
                               /\ witnessed'[v] = witnessed[v]
    /\ UNCHANGED <<users, funds, membership, now, commands>>

(* What a request keeps in a step that is not its own: what its witness has *)
(* seen and, unless it is set back, the use of its key.                     *)
Kept(v) ==
    LET k == session[v].key IN
    /\ session'[v] = session[v]
    /\ witnessed'[v].dead = witnessed[v].dead
    /\ witnessed'[v].since = witnessed[v].since
    /\ witnessed[v].rows \subseteq witnessed'[v].rows
    /\ witnessed[v].setBack => witnessed'[v].setBack
    /\ session[v].pc # "idle" /\ k \in 1..Len(keys) =>
          /\ keys[k].used # Never => keys'[k].used # Never
          /\ keys[k].used <= keys'[k].used \/ witnessed'[v].setBack

Apart(w) == UNCHANGED membership /\ \A v \in Worker \ {w} : Kept(v)

(* What w may have received. *)
Received(k, r) == [Idle EXCEPT !.pc = "verify", !.key = k, !.request = r]

(* The steps that serve a request, by what they leave in the session: a     *)
(* request is received with the memberships and the key as they are.        *)
LEMMA ReceiveStep ==
    ASSUME Typed, NEW w \in Worker, Receive(w)
    PROVE  /\ Typed' /\ Frame(w) /\ UNCHANGED keys
           /\ session[w].pc = "idle" /\ session'[w].pc = "verify"
           /\ session'[w].key \in 0..Len(keys)
           /\ session'[w].request \in Request
           /\ session'[w].answer = 0
           /\ witnessed'[w] = [dead |-> Dead(session'[w].key),
                               rows |-> Standing(session'[w], membership),
                               since |-> now, setBack |-> FALSE]
<1> USE DEF Typed
<1>1. PICK k \in 0..Len(keys), r \in Request :
         /\ session' = [session EXCEPT ![w] = Received(k, r)]
         /\ witnessed' = [witnessed EXCEPT ![w] =
                [dead |-> Dead(k), rows |-> Standing(Received(k, r), membership),
                 since |-> now, setBack |-> FALSE]]
         /\ session[w].pc = "idle"
         /\ UNCHANGED directory
  BY DEF Receive, Step, Received
<1>2. Dead(k) \in BOOLEAN
  BY DEF Dead
<1>3. Idle \in SessionRow /\ Idle.answer = 0
  BY DEF Idle, SessionRow, Code, Never
<1>4. /\ Received(k, r) \in SessionRow
      /\ Received(k, r).pc = "verify" /\ Received(k, r).key = k
      /\ Received(k, r).request = r /\ Received(k, r).answer = 0
  <2>1. k \in Nat
    BY LenProperties
  <2> QED  BY <1>3, <2>1 DEF Received, SessionRow
<1>5. Standing(Received(k, r), membership) \subseteq Membership
  <2>1. CASE k = 0 \/ FundOf(r) = None
    BY <1>4, <2>1 DEF Standing
  <2>2. CASE k # 0 /\ FundOf(r) # None
    <3>1. keys[k] \in KeyRow
      BY <2>2
    <3>2. membership[keys[k].user][FundOf(r)] \in Membership \cup {None}
      BY <2>2, <3>1, FundOfRequest DEF KeyRow
    <3> QED  BY <1>4, <2>2, <3>2 DEF Standing
  <2> QED  BY <2>1, <2>2
<1>6. session'[w] = Received(k, r)
  BY <1>1
<1>7. witnessed'[w] = [dead |-> Dead(session'[w].key),
                       rows |-> Standing(session'[w], membership),
                       since |-> now, setBack |-> FALSE]
  BY <1>1, <1>4, <1>6
<1>8. witnessed'[w] \in WitnessRow
  BY <1>2, <1>4, <1>5, <1>6, <1>7 DEF WitnessRow
<1>9. Typed' /\ Frame(w) /\ UNCHANGED keys
  BY <1>1, <1>4, <1>8 DEF directory, Frame
<1> QED  BY <1>1, <1>4, <1>6, <1>7, <1>9

(* An answer ends the work; key and request stay.                           *)
LEMMA AnswerStep ==
    ASSUME Typed, NEW w \in Worker, NEW code \in Code, Answer(w, code)
    PROVE  /\ Typed' /\ Frame(w) /\ UNCHANGED <<keys, witnessed>>
           /\ session'[w].pc = "answered" /\ session'[w].answer = code
           /\ session'[w].key = session[w].key
           /\ session'[w].request = session[w].request
<1> DEFINE s == [session[w] EXCEPT !.pc = "answered", !.answer = code]
<1>1. session[w] \in SessionRow
  BY DEF Typed
<1>2. /\ s \in SessionRow /\ s.pc = "answered" /\ s.answer = code
      /\ s.key = session[w].key /\ s.request = session[w].request
  BY <1>1 DEF SessionRow
<1>3. session' = [session EXCEPT ![w] = s] /\ UNCHANGED <<directory, witnessed>>
  BY DEF Answer, Step
<1> HIDE DEF s
<1> QED  BY <1>2, <1>3 DEF Typed, Frame, directory

(* A good key is taken with the last use it is read with.                   *)
LEMMA VerifyStep ==
    ASSUME Typed, NEW w \in Worker, VerifyKey(w), Live(session[w].key),
           session[w].key \in 0..Len(keys)
    PROVE  /\ Typed' /\ Frame(w) /\ UNCHANGED <<keys, witnessed>>
           /\ session'[w].pc = "touch" /\ session'[w].answer = session[w].answer
           /\ session'[w].key = session[w].key
           /\ session'[w].request = session[w].request
           /\ session'[w].seen = keys[session[w].key].used
<1> DEFINE s == [session[w] EXCEPT !.pc = "touch",
                                   !.seen = keys[session[w].key].used]
<1>1. session[w] \in SessionRow /\ keys[session[w].key] \in KeyRow
  BY DEF Typed, Live
<1>2. /\ s \in SessionRow /\ s.pc = "touch" /\ s.answer = session[w].answer
      /\ s.key = session[w].key /\ s.request = session[w].request
      /\ s.seen = keys[session[w].key].used
  BY <1>1 DEF SessionRow, KeyRow
<1>3. session' = [session EXCEPT ![w] = s] /\ UNCHANGED <<directory, witnessed>>
  BY DEF VerifyKey, Step
<1> HIDE DEF s
<1> QED  BY <1>2, <1>3 DEF Typed, Frame, directory

(* The clock is read, and a use that is not recent is to be replaced.       *)
LEMMA ClockStep ==
    ASSUME Typed, NEW w \in Worker, ReadClock(w)
    PROVE  /\ Typed' /\ Frame(w) /\ UNCHANGED <<keys, witnessed>>
           /\ session'[w].answer = session[w].answer
           /\ session'[w].key = session[w].key
           /\ session'[w].request = session[w].request
           /\ IF Stale(session[w].seen)
              THEN session'[w].pc = "record" /\ session'[w].time = now
              ELSE session'[w].pc = "authorise"
<1> DEFINE s == IF Stale(session[w].seen)
                THEN [session[w] EXCEPT !.pc = "record", !.time = now]
                ELSE [session[w] EXCEPT !.pc = "authorise"]
<1>1. session[w] \in SessionRow /\ now \in Nat
  BY DEF Typed
<1>2. /\ s \in SessionRow /\ s.answer = session[w].answer
      /\ s.key = session[w].key /\ s.request = session[w].request
      /\ IF Stale(session[w].seen) THEN s.pc = "record" /\ s.time = now
         ELSE s.pc = "authorise"
  BY <1>1 DEF SessionRow
<1>3. session' = [session EXCEPT ![w] = s] /\ UNCHANGED <<directory, witnessed>>
  BY DEF ReadClock, Step
<1> HIDE DEF s
<1> QED  BY <1>2, <1>3 DEF Typed, Frame, directory

(* The reading goes on record, and whoever finds a later use replaced by it *)
(* is witness to that.                                                      *)
LEMMA RecordStep ==
    ASSUME Typed, NEW w \in Worker, RecordUse(w),
           session[w].key \in 1..Len(keys), session[w].time # Never
    PROVE  /\ Typed' /\ Apart(w) /\ witnessed'[w] = witnessed[w]
           /\ UNCHANGED <<users, funds, now, commands>>
           /\ session'[w].pc = "authorise" /\ session'[w].answer = session[w].answer
           /\ session'[w].key = session[w].key
           /\ session'[w].request = session[w].request
           /\ Len(keys') = Len(keys) /\ DOMAIN keys' = DOMAIN keys
           /\ \A j \in 1..Len(keys) :
                 /\ keys'[j].user = keys[j].user
                 /\ keys'[j].expires = keys[j].expires
                 /\ keys[j].revoked <=> keys'[j].revoked
           /\ keys'[session[w].key].used = session[w].time
<1> DEFINE s == [session[w] EXCEPT !.pc = "authorise"]
           k == session[w].key
           new == [keys[k] EXCEPT !.used = session[w].time]
<1>0. /\ keys \in Seq(KeyRow) /\ session \in [Worker -> SessionRow]
      /\ witnessed \in [Worker -> WitnessRow]
      /\ Len(keys) \in Nat /\ DOMAIN keys = 1..Len(keys)
  BY KeyFields DEF Typed
<1>1. session[w] \in SessionRow /\ session[w].time \in Nat /\ keys[k] \in KeyRow
      /\ k \in 1..Len(keys)
  BY <1>0 DEF SessionRow
<1>2. /\ s \in SessionRow /\ s.pc = "authorise" /\ s.answer = session[w].answer
      /\ s.key = session[w].key /\ s.request = session[w].request
  BY <1>1 DEF SessionRow
<1>3. /\ new \in KeyRow /\ new.used = session[w].time /\ new.user = keys[k].user
      /\ new.expires = keys[k].expires /\ new.revoked = keys[k].revoked
  BY <1>1 DEF KeyRow
<1>4. /\ session' = [session EXCEPT ![w] = s] /\ keys' = [keys EXCEPT ![k] = new]
      /\ witnessed' = [v \in Worker |->
             IF SetBack(v, w) THEN [witnessed[v] EXCEPT !.setBack = TRUE]
             ELSE witnessed[v]]
      /\ UNCHANGED <<users, funds, membership, now, commands>>
  BY DEF RecordUse, Step
<1> HIDE DEF s, new
<1>5. /\ keys' \in Seq(KeyRow) /\ Len(keys') = Len(keys)
      /\ \A j \in 1..Len(keys) : keys'[j] = IF j = k THEN new ELSE keys[j]
  BY <1>0, <1>1, <1>3, <1>4, ExceptSeq
<1>6. DOMAIN keys' = 1..Len(keys)
  BY <1>5, LenProperties
<1>7. ASSUME NEW v \in Worker
      PROVE  /\ witnessed'[v] \in WitnessRow
             /\ witnessed'[v].dead = witnessed[v].dead
             /\ witnessed'[v].since = witnessed[v].since
             /\ witnessed'[v].rows = witnessed[v].rows
             /\ witnessed[v].setBack => witnessed'[v].setBack
             /\ SetBack(v, w) => witnessed'[v].setBack
             /\ v = w => witnessed'[v] = witnessed[v]
  <2>1. witnessed[v] \in WitnessRow
    BY <1>0
  <2>2. CASE SetBack(v, w)
    <3>1. witnessed'[v] = [witnessed[v] EXCEPT !.setBack = TRUE] /\ v # w
      BY <1>4, <2>2 DEF SetBack
    <3> QED  BY <2>1, <3>1 DEF WitnessRow
  <2>3. CASE ~SetBack(v, w)
    BY <1>4, <2>1, <2>3
  <2> QED  BY <2>2, <2>3
<1>8. Typed'
  <2>1. witnessed' \in [Worker -> WitnessRow]
    BY <1>4, <1>7
  <2> QED  BY <1>2, <1>4, <1>5, <2>1 DEF Typed
<1>9. ASSUME NEW v \in Worker \ {w}
      PROVE  Kept(v)
  <2>1. session'[v] = session[v]
    BY <1>0, <1>4
  <2>2. ASSUME session[v].pc # "idle", session[v].key \in 1..Len(keys)
        PROVE  /\ keys[session[v].key].used # Never =>
                      keys'[session[v].key].used # Never
               /\ \/ keys[session[v].key].used <= keys'[session[v].key].used
                  \/ witnessed'[v].setBack
    <3>1. keys[session[v].key].used \in Nat
      BY <2>2, KeyFields
    <3>2. CASE session[v].key # k
      BY <1>5, <2>2, <3>1, <3>2
    <3>3. CASE session[v].key = k
      <4>1. keys'[session[v].key].used = session[w].time
        BY <1>1, <1>3, <1>5, <3>3
      <4>2. session[w].time < keys[k].used => witnessed'[v].setBack
        BY <1>7, <2>2, <3>3 DEF SetBack
      <4> QED  BY <1>1, <3>1, <3>3, <4>1, <4>2
    <3> QED  BY <3>2, <3>3
  <2> QED  BY <1>7, <2>1, <2>2 DEF Kept
<1>10. session'[w] = s
  BY <1>0, <1>4
<1> QED  BY <1>0, <1>1, <1>2, <1>3, <1>4, <1>5, <1>6, <1>7, <1>8, <1>9, <1>10
        DEF Apart

(* A sufficient membership is kept for the view.                            *)
LEMMA PermitStep ==
    ASSUME Typed, NEW w \in Worker, NEW row \in Membership,
           Step(w, [session[w] EXCEPT !.pc = "handle", !.member = row]),
           UNCHANGED <<directory, witnessed>>
    PROVE  /\ Typed' /\ Frame(w) /\ UNCHANGED <<keys, witnessed>>
           /\ session'[w].pc = "handle" /\ session'[w].answer = session[w].answer
           /\ session'[w].key = session[w].key
           /\ session'[w].request = session[w].request
           /\ session'[w].member = row
<1> DEFINE s == [session[w] EXCEPT !.pc = "handle", !.member = row]
<1>1. session[w] \in SessionRow
  BY DEF Typed
<1>2. /\ s \in SessionRow /\ s.pc = "handle" /\ s.answer = session[w].answer
      /\ s.key = session[w].key /\ s.request = session[w].request
      /\ s.member = row
  BY <1>1 DEF SessionRow
<1>3. session' = [session EXCEPT ![w] = s]
  BY DEF Step
<1> HIDE DEF s
<1> QED  BY <1>2, <1>3 DEF Typed, Frame, directory

(* A request that has been answered leaves nothing.                         *)
LEMMA DoneStep ==
    ASSUME Typed, NEW w \in Worker, Done(w)
    PROVE  /\ Typed' /\ Frame(w) /\ UNCHANGED keys
           /\ session'[w] = Idle
<1>1. Idle \in SessionRow
  BY DEF Idle, SessionRow, Code, Never
<1>2. Nothing \in WitnessRow
  BY DEF Nothing, WitnessRow
<1> QED  BY <1>1, <1>2 DEF Done, Step, Typed, Frame, directory

-----------------------------------------------------------------------------
(* What is on record stays there. *)

(* A key keeps its user and its expiry, and a revoked one stays revoked; a  *)
(* user is not forgotten, and one that was deactivated stays so.            *)
Lasting ==
    /\ now <= now'
    /\ Len(keys) <= Len(keys')
    /\ \A k \in DOMAIN keys : /\ keys'[k].user = keys[k].user
                              /\ keys'[k].expires = keys[k].expires
                              /\ keys[k].revoked => keys'[k].revoked
    /\ \A u \in User : /\ users[u] = "inactive" => users'[u] = "inactive"
                       /\ users[u] # "absent" => users'[u] # "absent"

(* A command leaves the sessions and the uses of keys alone, and does not   *)
(* move a membership unwitnessed.                                           *)
Still ==
    /\ UNCHANGED session
    /\ \A k \in DOMAIN keys : keys'[k].used = keys[k].used
    /\ \/ UNCHANGED <<membership, witnessed>>
       \/ Witness(membership')

(* Creating users forgets none of them.                                     *)
LEMMA KnownUsers ==
    ASSUME Typed, NEW us
    PROVE  /\ Known(us) \in [User -> {"absent", "active", "inactive"}]
           /\ \A u \in User : /\ users[u] = "inactive" => Known(us)[u] = "inactive"
                              /\ users[u] # "absent" => Known(us)[u] # "absent"
                              /\ u \in us => Known(us)[u] # "absent"
  BY DEF Typed, Known

(* A new key goes after those there are.                                    *)
LEMMA AppendedKey ==
    ASSUME NEW ks \in Seq(KeyRow), NEW key \in KeyRow
    PROVE  /\ Append(ks, key) \in Seq(KeyRow)
           /\ Len(Append(ks, key)) = Len(ks) + 1
           /\ \A k \in 1..Len(ks) : Append(ks, key)[k] = ks[k]
           /\ Append(ks, key)[Len(ks) + 1] = key
  BY AppendProperties

(* A key that is issued belongs to its user and has not been used.          *)
LEMMA NewKey ==
    ASSUME NEW u \in User, NEW name \in {"other", "demo"}, NEW expires \in Nat
    PROVE  /\ Key(u, name, expires) \in KeyRow
           /\ Key(u, name, expires).user = u
           /\ Key(u, name, expires).used = 0
  BY DEF Key, KeyRow, Never

(* A command that changes memberships writes them down for every request.   *)
LEMMA Witnessing ==
    ASSUME Typed, membership' \in [User -> [Fund -> Membership \cup {None}]],
           Witness(membership'),
           \A w \in Worker : session[w].pc # "idle" =>
               /\ session[w].key \in 0..Len(keys)
               /\ session[w].request \in Request
    PROVE  /\ witnessed' \in [Worker -> WitnessRow]
           /\ \A w \in Worker :
                 /\ witnessed'[w].dead = witnessed[w].dead
                 /\ witnessed'[w].since = witnessed[w].since
                 /\ witnessed'[w].setBack = witnessed[w].setBack
                 /\ witnessed[w].rows \subseteq witnessed'[w].rows
                 /\ session[w].pc # "idle" =>
                       Standing(session[w], membership') \subseteq witnessed'[w].rows
<1> DEFINE new(w) == IF session[w].pc = "idle" THEN witnessed[w]
                     ELSE [witnessed[w] EXCEPT
                              !.rows = @ \cup Standing(session[w], membership')]
<1>1. witnessed' = [w \in Worker |-> new(w)]
  BY DEF Witness
<1>2. ASSUME NEW w \in Worker, session[w].pc # "idle"
      PROVE  Standing(session[w], membership') \subseteq Membership
  <2>1. CASE session[w].key = 0 \/ FundOf(session[w].request) = None
    BY <2>1 DEF Standing
  <2>2. CASE session[w].key # 0 /\ FundOf(session[w].request) # None
    <3>1. keys[session[w].key].user \in User /\ FundOf(session[w].request) \in Fund
      BY <1>2, <2>2, KeyFields, FundOfRequest
    <3>2. membership'[keys[session[w].key].user][FundOf(session[w].request)]
              \in Membership \cup {None}
      BY <3>1
    <3> QED  BY <2>2, <3>2 DEF Standing
  <2> QED  BY <2>1, <2>2
<1>3. ASSUME NEW w \in Worker
      PROVE  /\ new(w) \in WitnessRow
             /\ new(w).dead = witnessed[w].dead /\ new(w).since = witnessed[w].since
             /\ new(w).setBack = witnessed[w].setBack
             /\ witnessed[w].rows \subseteq new(w).rows
             /\ session[w].pc # "idle" =>
                   Standing(session[w], membership') \subseteq new(w).rows
  <2>1. witnessed[w] \in WitnessRow
    BY DEF Typed
  <2>2. CASE session[w].pc = "idle"
    BY <2>1, <2>2
  <2>3. CASE session[w].pc # "idle"
    <3> DEFINE more == Standing(session[w], membership')
    <3>1. more \subseteq Membership
      BY <1>2, <2>3
    <3> HIDE DEF more
    <3>2. new(w) = [witnessed[w] EXCEPT !.rows = @ \cup more]
      BY <2>3 DEF more
    <3>3. /\ new(w) \in WitnessRow
          /\ new(w).dead = witnessed[w].dead /\ new(w).since = witnessed[w].since
          /\ new(w).setBack = witnessed[w].setBack
          /\ new(w).rows = witnessed[w].rows \cup more
      BY <2>1, <3>1, <3>2 DEF WitnessRow
    <3> QED  BY <3>3 DEF more
  <2> QED  BY <2>2, <2>3
<1> HIDE DEF new
<1> QED  BY <1>1, <1>3

(* What a command does to the parts.                                        *)
LEMMA ManagingStep ==
    ASSUME Typed, KeysSound, Manages,
           \A w \in Worker : session[w].pc # "idle" =>
               /\ session[w].key \in 0..Len(keys)
               /\ session[w].request \in Request
    PROVE  Typed' /\ KeysSound' /\ Lasting /\ Still
<1>0. /\ users \in [User -> {"absent", "active", "inactive"}]
      /\ funds \subseteq Fund
      /\ membership \in [User -> [Fund -> Membership \cup {None}]]
      /\ keys \in Seq(KeyRow)
      /\ now \in Nat \ {0}
      /\ session \in [Worker -> SessionRow]
      /\ witnessed \in
             [Worker -> WitnessRow]
  BY DEF Typed
<1> USE KeyFields
<1>1. CASE CreateApiKey
  <2>1. PICK u \in User, expires \in {Never} \cup now + 1 .. MaxTime :
           /\ users[u] # "absent"
           /\ keys' = Append(keys, Key(u, "other", expires))
           /\ UNCHANGED <<users, funds, membership, now, session, witnessed>>
    BY <1>1 DEF CreateApiKey
  <2>2. expires \in Nat
    BY <1>0, AccessAssumption DEF Never
  <2> DEFINE new == Key(u, "other", expires)
  <2>3. new \in KeyRow /\ new.user = u /\ new.used = 0
    BY <2>2, NewKey
  <2> HIDE DEF new
  <2>4. /\ keys' \in Seq(KeyRow) /\ Len(keys') = Len(keys) + 1
        /\ \A k \in 1..Len(keys) : keys'[k] = keys[k]
        /\ keys'[Len(keys) + 1] = new
    BY <1>0, <2>1, <2>3, AppendedKey DEF new
  <2>5. DOMAIN keys' = 1..(Len(keys) + 1)
    BY <2>4, LenProperties
  <2>6. Typed'
    BY <1>0, <2>1, <2>4 DEF Typed
  <2>7. KeysSound'
    BY <1>0, <2>1, <2>3, <2>4, <2>5 DEF KeysSound
  <2>8. Lasting /\ Still
    BY <1>0, <2>1, <2>4 DEF Lasting, Still
  <2> QED  BY <2>6, <2>7, <2>8
<1>2. CASE RevokeApiKey
  <2>1. PICK k \in DOMAIN keys :
           /\ keys' = [keys EXCEPT ![k].revoked = TRUE]
           /\ UNCHANGED <<users, funds, membership, now, session, witnessed>>
    BY <1>2 DEF RevokeApiKey
  <2> DEFINE new == [keys[k] EXCEPT !.revoked = TRUE]
  <2>2. /\ new \in KeyRow /\ new.user = keys[k].user
        /\ new.expires = keys[k].expires /\ new.used = keys[k].used
        /\ new.revoked
    BY <1>0 DEF KeyRow
  <2>3. keys' = [keys EXCEPT ![k] = new]
    BY <2>1
  <2> HIDE DEF new
  <2>4. /\ keys' \in Seq(KeyRow) /\ Len(keys') = Len(keys)
        /\ \A j \in 1..Len(keys) : keys'[j] = IF j = k THEN new ELSE keys[j]
    BY <1>0, <2>2, <2>3, ExceptSeq
  <2>5. DOMAIN keys' = 1..Len(keys)
    BY <2>4, LenProperties
  <2>6. Typed'
    BY <1>0, <2>1, <2>4 DEF Typed
  <2>7. KeysSound'
    BY <1>0, <2>1, <2>2, <2>4, <2>5 DEF KeysSound
  <2>8. Lasting /\ Still
    BY <1>0, <2>1, <2>2, <2>4 DEF Lasting, Still
  <2> QED  BY <2>6, <2>7, <2>8
<1>3. ASSUME NEW us, users' = Known(us), UNCHANGED <<now, keys>>
      PROVE  users' \in [User -> {"absent", "active", "inactive"}]
             /\ Lasting /\ KeysSound'
  BY <1>0, <1>3, KnownUsers DEF Lasting, KeysSound
<1>4. CASE GrantAccess
  <2>1. PICK u \in User \ {Sandbox}, f \in funds, row \in Membership :
           /\ users' = Known({u})
           /\ membership' = [membership EXCEPT ![u][f] = row]
           /\ Witness(membership')
           /\ UNCHANGED <<funds, keys, now, session>>
    BY <1>4 DEF GrantAccess
  <2>2. membership' \in [User -> [Fund -> Membership \cup {None}]]
    BY <1>0, <2>1
  <2> QED  BY <1>0, <1>3, <2>1, <2>2, Witnessing DEF Typed, Still
<1>5. CASE RotateSandbox
  <2>1. PICK d \in DOMAIN DailyFund :
           /\ users' = Known({Sandbox})
           /\ funds' = funds \cup {DailyFund[d]}
           /\ membership' = [membership EXCEPT
                                ![Sandbox] = Moved(@, DailyFund[d])]
           /\ Witness(membership')
           /\ UNCHANGED <<keys, now, session>>
    BY <1>5 DEF RotateSandbox
  <2>2. Controller \in Membership
    BY DEF Controller, Membership, Role, Rank
  <2>3. membership' \in [User -> [Fund -> Membership \cup {None}]]
    BY <1>0, <2>1, <2>2 DEF Moved
  <2>4. funds' \subseteq Fund
    BY <1>0, <2>1, AccessAssumption
  <2>5. /\ users' \in [User -> {"absent", "active", "inactive"}]
        /\ Lasting /\ KeysSound'
    BY <1>3, <2>1
  <2>6. witnessed' \in
           [Worker -> WitnessRow]
    BY <2>1, <2>3, Witnessing
  <2> QED  BY <1>0, <2>1, <2>3, <2>4, <2>5, <2>6 DEF Typed, Still
<1>6. CASE DemoAccess
  <2>1. PICK role \in DOMAIN DemoUser, expires \in now + 1 .. MaxTime :
           /\ users' = Known({DemoUser[role]})
           /\ membership' = [membership EXCEPT ![DemoUser[role]][DemoFund] =
                  [role |-> role, lp |-> IF role = "LP" THEN DemoLp ELSE None]]
           /\ keys' = Append([k \in DOMAIN keys |->
                          IF keys[k].user = DemoUser[role] /\ keys[k].name = "demo"
                          THEN [keys[k] EXCEPT !.revoked = TRUE] ELSE keys[k]],
                          Key(DemoUser[role], "demo", expires))
           /\ Witness(membership')
           /\ UNCHANGED <<funds, now, session>>
    BY <1>6 DEF DemoAccess
  <2>2. DemoUser[role] \in User /\ role \in Role /\ expires \in Nat
    BY <1>0, AccessAssumption
  <2> DEFINE row == [role |-> role, lp |-> IF role = "LP" THEN DemoLp ELSE None]
             old == [k \in DOMAIN keys |->
                        IF keys[k].user = DemoUser[role] /\ keys[k].name = "demo"
                        THEN [keys[k] EXCEPT !.revoked = TRUE] ELSE keys[k]]
             new == Key(DemoUser[role], "demo", expires)
  <2>3. row \in Membership
    BY <2>2, AccessAssumption DEF Membership
  <2>4. membership' \in [User -> [Fund -> Membership \cup {None}]]
    <3>1. membership' = [membership EXCEPT ![DemoUser[role]][DemoFund] = row]
      BY <2>1
    <3> HIDE DEF row
    <3> QED  BY <1>0, <2>2, <2>3, <3>1, AccessAssumption
  <2>5. \A k \in 1..Len(keys) :
           /\ old[k] \in KeyRow
           /\ old[k].user = keys[k].user /\ old[k].expires = keys[k].expires
           /\ old[k].used = keys[k].used
           /\ keys[k].revoked => old[k].revoked
    BY <1>0 DEF KeyRow
  <2>6. old \in Seq(KeyRow) /\ Len(old) = Len(keys)
    <3> HIDE DEF old
    <3>1. old = [k \in 1..Len(keys) |-> old[k]]
      BY <1>0 DEF old
    <3> QED  BY <1>0, <2>5, <3>1, IsASeq
  <2>7. new \in KeyRow /\ new.user = DemoUser[role] /\ new.used = 0
    BY <2>2, NewKey
  <2> HIDE DEF old, new, row
  <2>8. /\ keys' \in Seq(KeyRow) /\ Len(keys') = Len(keys) + 1
        /\ \A k \in 1..Len(keys) : keys'[k] = old[k]
        /\ keys'[Len(keys) + 1] = new
    BY <2>1, <2>6, <2>7, AppendedKey DEF old, new
  <2>9. DOMAIN keys' = 1..(Len(keys) + 1)
    BY <2>8, LenProperties
  <2>10. Lasting /\ users' \in [User -> {"absent", "active", "inactive"}]
    BY <1>0, <2>1, <2>5, <2>8, KnownUsers DEF Lasting
  <2>11. KeysSound'
    <3>1. users'[DemoUser[role]] # "absent"
      BY <2>1, <2>2, KnownUsers
    <3>2. ASSUME NEW k \in 1..Len(keys)
          PROVE  users'[keys'[k].user] # "absent"
      <4>1. keys'[k].user = keys[k].user
        BY <2>5, <2>8
      <4>2. users[keys[k].user] # "absent" /\ keys[k].user \in User
        BY DEF KeysSound
      <4> QED  BY <2>1, <2>10, <4>1, <4>2 DEF Lasting
    <3>3. users'[keys'[Len(keys) + 1].user] # "absent"
      BY <1>0, <2>1, <2>7, <2>8, <3>1
    <3>4. \A k \in 1..(Len(keys) + 1) : k \in 1..Len(keys) \/ k = Len(keys) + 1
      OBVIOUS
    <3> HIDE <2>5, <2>8
    <3> QED  BY <2>9, <3>2, <3>3, <3>4 DEF KeysSound
  <2>12. \A k \in 1..Len(keys) : keys'[k].used = keys[k].used
    BY <2>5, <2>8
  <2> QED  BY <1>0, <2>1, <2>4, <2>8, <2>10, <2>11, <2>12, Witnessing
          DEF Typed, Still
<1>7. CASE Deactivate
  <2>1. PICK u \in User :
           /\ users[u] = "active"
           /\ users' = [users EXCEPT ![u] = "inactive"]
           /\ UNCHANGED <<funds, membership, keys, now, session, witnessed>>
    BY <1>7 DEF Deactivate
  <2>2. /\ users' \in [User -> {"absent", "active", "inactive"}]
        /\ \A v \in User : /\ users[v] = "inactive" => users'[v] = "inactive"
                           /\ users[v] # "absent" => users'[v] # "absent"
    BY <1>0, <2>1
  <2>3. Lasting
    BY <1>0, <2>1, <2>2 DEF Lasting
  <2>4. KeysSound'
    BY <2>1, <2>2 DEF KeysSound
  <2> QED  BY <1>0, <2>1, <2>2, <2>3, <2>4 DEF Typed, Still
<1>8. CASE Tick
  <2>1. Typed' /\ Still
    BY <1>0, <1>8 DEF Tick, Typed, Still
  <2>2. Lasting
    BY <1>0, <1>8 DEF Tick, Lasting
  <2>3. KeysSound'
    BY <1>0, <1>8 DEF Tick, KeysSound
  <2> QED  BY <2>1, <2>2, <2>3
<1> QED  BY <1>1, <1>2, <1>4, <1>5, <1>6, <1>7, <1>8 DEF Manages

-----------------------------------------------------------------------------
(* What the answers rest on. *)

(* A key that is no good stays no good.                                     *)
LEMMA DeadForGood ==
    ASSUME Typed, Typed', Lasting, NEW k \in 0..Len(keys), Dead(k)
    PROVE  Dead(k)'
<1>1. CASE k = 0
  BY <1>1 DEF Dead
<1>2. CASE k # 0
  <2>1. k \in 1..Len(keys) /\ k \in DOMAIN keys /\ keys[k].user \in User
    BY <1>2, KeyFields
  <2>2. keys[k].revoked \/ keys[k].expires \in 1..now
        \/ users[keys[k].user] = "inactive"
    BY <1>2 DEF Dead
  <2>3. keys'[k].revoked \/ keys'[k].expires \in 1..now'
        \/ users'[keys'[k].user] = "inactive"
    <3>1. CASE keys[k].revoked
      BY <2>1, <3>1 DEF Lasting
    <3>2. CASE keys[k].expires \in 1..now
      <4>1. /\ now \in Nat /\ now' \in Nat /\ now <= now'
            /\ keys'[k].expires = keys[k].expires
        BY <2>1 DEF Lasting, Typed
      <4> QED  BY <3>2, <4>1
    <3>3. CASE users[keys[k].user] = "inactive"
      BY <2>1, <3>3 DEF Lasting
    <3> QED  BY <2>2, <3>1, <3>2, <3>3
  <2> QED  BY <1>2, <2>3 DEF Dead
<1> QED  BY <1>1, <1>2

(* A worker whose session stays as it is keeps what it has found out.       *)
LEMMA Undisturbed ==
    ASSUME Typed, Typed', Lasting, NEW w \in Worker, WorkerInv(w), Kept(w),
           session[w].pc # "idle" =>
               Standing(session[w], membership') \subseteq witnessed'[w].rows
    PROVE  WorkerInv(w)'
<1>0. /\ Len(keys) \in Nat /\ Len(keys') \in Nat /\ Len(keys) <= Len(keys')
      /\ now \in Nat /\ now' \in Nat /\ now <= now'
      /\ witnessed[w].since \in Nat /\ witnessed[w].dead \in BOOLEAN
  BY KeyFields, LenProperties DEF Typed, Lasting, WitnessRow
<1>1. /\ session'[w] = session[w] /\ witnessed'[w].dead = witnessed[w].dead
      /\ witnessed'[w].since = witnessed[w].since
      /\ witnessed[w].rows \subseteq witnessed'[w].rows
      /\ witnessed[w].setBack => witnessed'[w].setBack
  BY DEF Kept
<1> DEFINE a == keys[session[w].key].used
           b == keys'[session[w].key].used
<1>2. ASSUME session[w].pc # "idle", session[w].key # 0
      PROVE  /\ session[w].key \in 1..Len(keys)
             /\ keys'[session[w].key].user = keys[session[w].key].user
             /\ a \in Nat /\ b \in Nat
             /\ a # 0 => b # 0
             /\ a <= b \/ witnessed'[w].setBack
  <2>1. session[w].key \in 1..Len(keys)
    BY <1>0, <1>2 DEF WorkerInv, OnItsWay
  <2>2. session[w].key \in DOMAIN keys /\ session[w].key \in 1..Len(keys')
    BY <1>0, <2>1, KeyFields
  <2>3. keys'[session[w].key] \in KeyRow
    BY <2>2 DEF Typed
  <2>4. b \in Nat
    BY <2>3 DEF KeyRow
  <2>5. (a # 0 => b # 0) /\ (a <= b \/ witnessed'[w].setBack)
    BY <1>2, <2>1 DEF Kept, Never
  <2> HIDE DEF b
  <2> QED  BY <2>1, <2>2, <2>4, <2>5, KeyFields DEF Lasting
<1>3. OnItsWay(w)'
  <2> SUFFICES ASSUME session[w].pc # "idle"
               PROVE  /\ session[w].key \in 0..Len(keys')
                      /\ session[w].request \in Request
                      /\ witnessed'[w].since <= now'
                      /\ witnessed'[w].dead => Dead(session[w].key)'
                      /\ Standing(session[w], membership)' \subseteq witnessed'[w].rows
    BY <1>1 DEF OnItsWay
  <2>1. /\ session[w].key \in 0..Len(keys) /\ session[w].request \in Request
        /\ witnessed[w].since <= now
        /\ witnessed[w].dead => Dead(session[w].key)
    BY DEF WorkerInv, OnItsWay
  <2>2. Dead(session[w].key) => Dead(session[w].key)'
    BY <1>1, <2>1, DeadForGood
  <2>3. Standing(session[w], membership)' = Standing(session[w], membership')
    BY <1>1, <1>2 DEF Standing
  <2> QED  BY <1>0, <1>1, <2>1, <2>2, <2>3
<1>4. ASSUME session[w].pc # "idle", Verified(w)
      PROVE  /\ Verified(w)'
             /\ Recorded(w) => Recorded(w)'
             /\ UsedFrom(w, session[w].seen) => UsedFrom(w, session[w].seen)'
  <2> DEFINE c == witnessed[w].since
             t == session[w].seen
  <2>1. t \in Nat /\ c \in Nat /\ TouchInterval \in Nat
    BY <1>0, AccessAssumption DEF Typed, SessionRow
  <2>2. Verified(w)'
    BY <1>1, <1>4 DEF Verified
  <2>3. /\ a \in Nat /\ b \in Nat /\ (a # 0 => b # 0)
        /\ a <= b \/ witnessed'[w].setBack
    BY <1>4, <1>2 DEF Verified
  <2>4. /\ Recorded(w) <=> /\ a # 0
                           /\ a + TouchInterval >= c \/ witnessed[w].setBack
        /\ Recorded(w)' <=> /\ b # 0
                            /\ b + TouchInterval >= c \/ witnessed'[w].setBack
        /\ UsedFrom(w, t) <=> /\ t # 0 => a # 0
                              /\ a >= t \/ witnessed[w].setBack
        /\ UsedFrom(w, t)' <=> /\ t # 0 => b # 0
                               /\ b >= t \/ witnessed'[w].setBack
    BY <1>1 DEF Recorded, UsedFrom, Never
  <2> HIDE DEF a, b, c, t
  <2>5. /\ a <= b /\ a + TouchInterval >= c => b + TouchInterval >= c
        /\ a <= b /\ a >= t => b >= t
    BY <2>1, <2>3
  <2> QED  BY <1>1, <2>2, <2>3, <2>4, <2>5 DEF t
<1> HIDE DEF a, b
<1>5. FoundOut(w)'
  BY <1>1, <1>4 DEF WorkerInv, FoundOut, Enough
<1>6. Answers(w)'
  <2> SUFFICES ASSUME session[w].pc = "answered"
               PROVE  Answers(w)'
    BY <1>1 DEF Answers
  <2>1. session[w].answer = 401 => Dead(session[w].key)'
    <3>1. session[w].key \in 0..Len(keys)
      BY DEF WorkerInv, OnItsWay
    <3> QED  BY <1>1, <3>1, DeadForGood DEF WorkerInv, Answers
  <2>2. session[w].answer # 401 => Verified(w)' /\ Recorded(w)'
    BY <1>4 DEF WorkerInv, Answers
  <2> QED  BY <1>1, <2>1, <2>2 DEF WorkerInv, Answers, Enough
<1> QED  BY <1>3, <1>5, <1>6 DEF WorkerInv

(* A step of the worker that serves the request of w.                       *)
LEMMA ServingStep ==
    ASSUME Typed, KeysSound, NEW w \in Worker, WorkerInv(w), Serves(w)
    PROVE  Typed' /\ KeysSound' /\ Lasting /\ Apart(w) /\ WorkerInv(w)'
<1>0. /\ Len(keys) \in Nat /\ DOMAIN keys = 1..Len(keys)
      /\ now \in Nat \ {0} /\ TouchInterval \in Nat
      /\ session[w] \in SessionRow
      /\ witnessed[w] \in WitnessRow
  BY KeyFields, AccessAssumption DEF Typed
<1>1. ASSUME Frame(w), UNCHANGED keys
      PROVE  KeysSound' /\ Lasting /\ Apart(w)
  <2>1. KeysSound' /\ Lasting
    BY <1>0, <1>1 DEF KeysSound, Lasting, Frame
  <2>2. \A k \in 1..Len(keys) : keys[k].used <= keys[k].used
    BY KeyFields
  <2> QED  BY <1>1, <2>1, <2>2 DEF Frame, Apart, Kept
<1>2. ASSUME NEW code \in Code \ {0}, Answer(w, code), session[w].pc # "idle",
             code = 401 => Dead(session[w].key),
             code # 401 => Verified(w) /\ Recorded(w),
             code = 403 => \E row \in witnessed[w].rows :
                 Rank[row.role] < Rank[RequiredRole[session[w].request.view]],
             code = 200 => \E row \in witnessed[w].rows :
                 /\ Enough(row, session[w].request)
                 /\ session[w].request.view = "statement" /\ row.role = "LP" =>
                        row.lp = session[w].request.lp
      PROVE  Typed' /\ KeysSound' /\ Lasting /\ Apart(w) /\ WorkerInv(w)'
  <2>1. /\ Typed' /\ Frame(w) /\ UNCHANGED <<keys, witnessed>>
        /\ session'[w].pc = "answered" /\ session'[w].answer = code
        /\ session'[w].key = session[w].key
        /\ session'[w].request = session[w].request
    BY <1>2, AnswerStep
  <2>2. KeysSound' /\ Lasting /\ Apart(w)
    BY <1>1, <2>1 DEF Frame
  <2>3. OnItsWay(w)'
    BY <1>2, <2>1 DEF WorkerInv, OnItsWay, Frame, Dead, Standing
  <2>4. FoundOut(w)'
    BY <2>1 DEF FoundOut
  <2>5. Answers(w)'
    BY <1>2, <2>1 DEF Answers, Frame, Dead, Verified, Recorded, Enough
  <2> QED  BY <2>1, <2>2, <2>3, <2>4, <2>5 DEF WorkerInv
<1>3. CASE Receive(w)
  <2>1. /\ Typed' /\ Frame(w) /\ UNCHANGED keys
        /\ session'[w].pc = "verify"
        /\ session'[w].key \in 0..Len(keys)
        /\ session'[w].request \in Request
        /\ session'[w].answer = 0
        /\ witnessed'[w] = [dead |-> Dead(session'[w].key),
                            rows |-> Standing(session'[w], membership),
                            since |-> now, setBack |-> FALSE]
    BY <1>3, ReceiveStep
  <2>2. KeysSound' /\ Lasting /\ Apart(w)
    BY <1>1, <2>1 DEF Frame
  <2>3. /\ witnessed'[w].since = now
        /\ witnessed'[w].dead = Dead(session'[w].key)
        /\ witnessed'[w].rows = Standing(session'[w], membership)
    BY <2>1
  <2>4. Dead(session[w].key)' = Dead(session'[w].key)
        /\ Standing(session[w], membership)' = Standing(session'[w], membership)
    BY <2>1 DEF Frame, Dead, Standing
  <2>5. OnItsWay(w)'
    BY <1>0, <2>1, <2>3, <2>4 DEF OnItsWay, Frame
  <2>6. FoundOut(w)' /\ Answers(w)'
    BY <2>1 DEF FoundOut, Answers
  <2> QED  BY <2>1, <2>2, <2>5, <2>6 DEF WorkerInv
<1>4. CASE VerifyKey(w) /\ ~Live(session[w].key)
  <2>1. session[w].pc = "verify" /\ Answer(w, 401)
    BY <1>4 DEF VerifyKey
  <2>2. session[w].key \in 0..Len(keys)
    BY <2>1 DEF WorkerInv, OnItsWay
  <2>3. Dead(session[w].key)
    <3>1. CASE session[w].key = 0
      BY <3>1 DEF Dead
    <3>2. CASE session[w].key # 0
      <4> DEFINE k == session[w].key
      <4>1. k \in 1..Len(keys) /\ k \in DOMAIN keys
        BY <1>0, <2>2, <3>2
      <4>2. /\ keys[k].expires \in Nat /\ keys[k].user \in User
            /\ users[keys[k].user] \in {"absent", "active", "inactive"}
            /\ users[keys[k].user] # "absent"
        BY <4>1, KeyFields DEF Typed, KeysSound
      <4>3. \/ keys[k].revoked
            \/ ~(keys[k].expires = 0 \/ keys[k].expires > now)
            \/ users[keys[k].user] # "active"
        BY <1>4, <3>2 DEF Live, Never
      <4> QED  BY <1>0, <3>2, <4>2, <4>3 DEF Dead
    <3> QED  BY <3>1, <3>2
  <2> QED  BY <1>2, <2>1, <2>3 DEF Code
<1>5. CASE VerifyKey(w) /\ Live(session[w].key)
  <2>1. /\ session[w].pc = "verify" /\ session[w].key \in 0..Len(keys)
        /\ session[w].key # 0
    BY <1>5 DEF VerifyKey, WorkerInv, OnItsWay, Live
  <2>2. /\ Typed' /\ Frame(w) /\ UNCHANGED <<keys, witnessed>>
        /\ session'[w].pc = "touch" /\ session'[w].answer = session[w].answer
        /\ session'[w].key = session[w].key
        /\ session'[w].request = session[w].request
        /\ session'[w].seen = keys[session[w].key].used
    BY <1>5, <2>1, VerifyStep
  <2>3. KeysSound' /\ Lasting /\ Apart(w)
    BY <1>1, <2>2 DEF Frame
  <2>4. ~Dead(session[w].key)
    <3> DEFINE k == session[w].key
    <3>1. ~keys[k].revoked /\ (keys[k].expires = 0 \/ keys[k].expires > now)
          /\ users[keys[k].user] = "active"
      BY <1>5 DEF Live, Never
    <3>2. keys[k].expires \in Nat
      BY <1>0, <2>1, KeyFields
    <3> QED  BY <1>0, <2>1, <3>1, <3>2 DEF Dead
  <2>5. ~witnessed[w].dead
    BY <2>1, <2>4 DEF WorkerInv, OnItsWay
  <2>6. OnItsWay(w)'
    BY <2>1, <2>2 DEF WorkerInv, OnItsWay, Frame, Dead, Standing
  <2>7. FoundOut(w)' /\ Answers(w)'
    <3>1. keys[session[w].key].used \in Nat
      BY <1>0, <2>1, KeyFields
    <3>2. UsedFrom(w, session[w].seen)'
      BY <2>2, <3>1 DEF UsedFrom
    <3> QED  BY <2>1, <2>2, <2>5, <3>2 DEF WorkerInv, FoundOut, Answers, Verified
  <2> QED  BY <2>2, <2>3, <2>6, <2>7 DEF WorkerInv
<1>6. CASE ReadClock(w)
  <2> DEFINE k == session[w].key
  <2>1. /\ session[w].pc = "touch" /\ k \in 0..Len(keys) /\ k # 0
        /\ ~witnessed[w].dead /\ witnessed[w].since <= now
        /\ UsedFrom(w, session[w].seen)
    BY <1>6 DEF ReadClock, WorkerInv, OnItsWay, FoundOut, Verified
  <2>2. /\ Typed' /\ Frame(w) /\ UNCHANGED <<keys, witnessed>>
        /\ session'[w].answer = session[w].answer
        /\ session'[w].key = session[w].key
        /\ session'[w].request = session[w].request
        /\ IF Stale(session[w].seen)
           THEN session'[w].pc = "record" /\ session'[w].time = now
           ELSE session'[w].pc = "authorise"
    BY <1>6, ClockStep
  <2>3. KeysSound' /\ Lasting /\ Apart(w)
    BY <1>1, <2>2
  <2>4. OnItsWay(w)'
    BY <2>1, <2>2 DEF WorkerInv, OnItsWay, Frame, Dead, Standing
  <2>5. FoundOut(w)' /\ Answers(w)'
    <3>1. Verified(w)' /\ session'[w].answer = 0
      BY <2>1, <2>2 DEF Verified, WorkerInv, FoundOut
    <3>2. CASE Stale(session[w].seen)
      <4>1. session'[w].time # Never /\ session'[w].time >= witnessed'[w].since
        BY <1>0, <2>1, <2>2, <3>2 DEF Never, WitnessRow
      <4> QED  BY <2>2, <3>1, <3>2, <4>1 DEF FoundOut, Answers
    <3>3. CASE ~Stale(session[w].seen)
      <4>1. /\ session[w].seen \in Nat /\ keys[k].used \in Nat
            /\ witnessed[w].since \in Nat
        BY <1>0, <2>1, KeyFields DEF SessionRow, WitnessRow
      <4>2. session[w].seen # 0 /\ ~(now - session[w].seen > TouchInterval)
        BY <3>3 DEF Stale, Never
      <4>3. /\ keys[k].used # 0
            /\ keys[k].used >= session[w].seen \/ witnessed[w].setBack
        BY <2>1, <4>2 DEF UsedFrom, Never
      <4>4. keys[k].used >= session[w].seen =>
                keys[k].used + TouchInterval >= witnessed[w].since
        BY <1>0, <2>1, <4>1, <4>2
      <4>5. Recorded(w)'
        BY <2>2, <4>3, <4>4 DEF Recorded, Never
      <4> QED  BY <2>2, <3>1, <3>3, <4>5 DEF FoundOut, Answers
    <3> QED  BY <3>2, <3>3
  <2> QED  BY <2>2, <2>3, <2>4, <2>5 DEF WorkerInv
<1>7. CASE RecordUse(w)
  <2> DEFINE k == session[w].key
  <2>1. /\ session[w].pc = "record" /\ k \in 0..Len(keys) /\ k # 0
        /\ ~witnessed[w].dead /\ witnessed[w].since <= now
        /\ session[w].time # Never /\ session[w].time >= witnessed[w].since
        /\ session[w].answer = 0
    BY <1>7 DEF RecordUse, WorkerInv, OnItsWay, FoundOut, Verified
  <2>2. k \in 1..Len(keys) /\ k \in DOMAIN keys
    BY <1>0, <2>1
  <2>3. /\ Typed' /\ Apart(w) /\ witnessed'[w] = witnessed[w]
        /\ UNCHANGED <<users, funds, now, commands>>
        /\ session'[w].pc = "authorise" /\ session'[w].answer = session[w].answer
        /\ session'[w].key = session[w].key
        /\ session'[w].request = session[w].request
        /\ Len(keys') = Len(keys) /\ DOMAIN keys' = DOMAIN keys
        /\ \A j \in 1..Len(keys) :
              /\ keys'[j].user = keys[j].user
              /\ keys'[j].expires = keys[j].expires
              /\ keys[j].revoked <=> keys'[j].revoked
        /\ keys'[k].used = session[w].time
    BY <1>7, <2>1, <2>2, RecordStep
  <2>4. KeysSound' /\ Lasting
    BY <1>0, <2>3 DEF KeysSound, Lasting
  <2>5. OnItsWay(w)'
    <3>1. Standing(session[w], membership)' = Standing(session[w], membership)
      BY <2>2, <2>3 DEF Standing, Apart
    <3>2. Standing(session[w], membership)' \subseteq witnessed'[w].rows
      BY <2>1, <2>3, <3>1 DEF WorkerInv, OnItsWay, Apart, Standing
    <3> QED  BY <1>0, <2>1, <2>3, <3>2 DEF WorkerInv, OnItsWay, Apart
  <2>6. Recorded(w)'
    <3>1. /\ session[w].time \in Nat /\ witnessed[w].since \in Nat
          /\ session[w].time + TouchInterval >= witnessed[w].since
      BY <1>0, <2>1 DEF SessionRow, WitnessRow
    <3> QED  BY <2>1, <2>3, <3>1 DEF Recorded
  <2>7. FoundOut(w)' /\ Answers(w)'
    BY <2>1, <2>3, <2>6 DEF FoundOut, Answers, Verified
  <2> QED  BY <2>3, <2>4, <2>5, <2>7 DEF WorkerInv
<1>8. CASE HasPermission(w)
  <2> DEFINE s == session[w]
             f == FundOf(s.request)
             row == IF f = None THEN None ELSE membership[keys[s.key].user][f]
             least == RequiredRole[s.request.view]
  <2>1. /\ s.pc = "authorise" /\ s.key \in 1..Len(keys) /\ s.request \in Request
        /\ Verified(w) /\ Recorded(w)
        /\ Standing(s, membership) \subseteq witnessed[w].rows
        /\ s.answer = 0
    BY <1>0, <1>8 DEF HasPermission, WorkerInv, OnItsWay, FoundOut, Verified
  <2>2. \/ Refusal(row, s.request) # 0 /\ Answer(w, Refusal(row, s.request))
        \/ /\ Refusal(row, s.request) = 0
           /\ Step(w, [s EXCEPT !.pc = "handle", !.member = row])
           /\ UNCHANGED <<directory, witnessed>>
    BY <1>8 DEF HasPermission
  <2>3. row # None => row \in Standing(s, membership)
    <3>1. s.key # 0
      BY <1>0, <2>1
    <3> QED  BY <3>1 DEF Standing
  <2>4. row # None => row \in witnessed[w].rows /\ row \in Membership
                      /\ Rank[row.role] \in Int
    <3>1. row # None => row \in witnessed[w].rows
      BY <2>1, <2>3
    <3> HIDE DEF row
    <3>2. row # None => row \in Membership
      <4>1. witnessed[w].rows \subseteq Membership
        BY DEF Typed, WitnessRow
      <4> QED  BY <3>1, <4>1
    <3>3. row \in Membership => Rank[row.role] \in Int
      BY MembershipFields, Ranks
    <3> QED  BY <3>1, <3>2, <3>3
  <2>5. Rank[least] \in Int
    BY <2>1, AccessAssumption, Ranks
  <2> HIDE DEF row, least
  <2>6. \/ row = None /\ Refusal(row, s.request) = 404
        \/ row # None /\ Rank[row.role] < Rank[least]
           /\ Refusal(row, s.request) = 403
        \/ row # None /\ ~(Rank[row.role] < Rank[least])
           /\ Refusal(row, s.request) = 0
    BY DEF Refusal, least
  <2>7. CASE Refusal(row, s.request) = 404
    <3>1. Answer(w, 404)
      BY <2>2, <2>7
    <3> QED  BY <1>2, <2>1, <3>1 DEF Code
  <2>8. CASE Refusal(row, s.request) = 403
    <3>1. Answer(w, 403)
      BY <2>2, <2>8
    <3>2. \E r \in witnessed[w].rows :
             Rank[r.role] < Rank[RequiredRole[s.request.view]]
      BY <2>4, <2>6, <2>8 DEF least
    <3> QED  BY <1>2, <2>1, <3>1, <3>2 DEF Code
  <2>9. CASE Refusal(row, s.request) = 0
    <3>1. row # None /\ ~(Rank[row.role] < Rank[least])
      BY <2>6, <2>9
    <3>2. /\ Typed' /\ Frame(w) /\ UNCHANGED <<keys, witnessed>>
          /\ session'[w].pc = "handle" /\ session'[w].answer = s.answer
          /\ session'[w].key = s.key /\ session'[w].request = s.request
          /\ session'[w].member = row
      BY <2>2, <2>4, <2>9, <3>1, PermitStep
    <3>3. KeysSound' /\ Lasting /\ Apart(w)
      BY <1>1, <3>2 DEF Frame
    <3>4. OnItsWay(w)'
      BY <2>1, <3>2 DEF WorkerInv, OnItsWay, Frame, Dead, Standing
    <3>5. Enough(row, s.request)
      BY <2>4, <2>5, <3>1 DEF Enough, least
    <3>6. FoundOut(w)' /\ Answers(w)'
      BY <2>1, <2>4, <3>1, <3>2, <3>5
         DEF WorkerInv, FoundOut, Answers, Verified, Recorded, Enough
    <3> QED  BY <3>2, <3>3, <3>4, <3>6 DEF WorkerInv
  <2> QED  BY <2>6, <2>7, <2>8, <2>9
<1>9. CASE Handle(w)
  <2> DEFINE s == session[w]
  <2>1. /\ s.pc = "handle" /\ Verified(w) /\ Recorded(w)
        /\ s.member \in witnessed[w].rows /\ Enough(s.member, s.request)
    BY <1>9 DEF Handle, WorkerInv, FoundOut
  <2>2. CASE s.request.view = "statement" /\ Hidden(s.member, s.request)
    <3>1. Answer(w, 404)
      BY <1>9, <2>2 DEF Handle
    <3> QED  BY <1>2, <2>1, <3>1 DEF Code
  <2>3. CASE ~(s.request.view = "statement" /\ Hidden(s.member, s.request))
    <3>1. Answer(w, 200)
      BY <1>9, <2>3 DEF Handle
    <3>2. \E row \in witnessed[w].rows :
             /\ Enough(row, s.request)
             /\ s.request.view = "statement" /\ row.role = "LP" =>
                    row.lp = s.request.lp
      BY <2>1, <2>3 DEF Hidden
    <3> QED  BY <1>2, <2>1, <3>1, <3>2 DEF Code
  <2> QED  BY <2>2, <2>3
<1>10. CASE Done(w)
  <2>1. Typed' /\ Frame(w) /\ UNCHANGED keys /\ session'[w] = Idle
    BY <1>10, DoneStep
  <2>2. KeysSound' /\ Lasting /\ Apart(w)
    BY <1>1, <2>1 DEF Frame
  <2>3. WorkerInv(w)'
    BY <2>1 DEF WorkerInv, OnItsWay, FoundOut, Answers, Idle
  <2> QED  BY <2>1, <2>2, <2>3
<1> QED  BY <1>3, <1>4, <1>5, <1>6, <1>8, <1>9, <1>10, <1>7 DEF Serves

-----------------------------------------------------------------------------
(* The inductive invariant, and what follows from it.                       *)
LEMMA AccessInvInit == Init => AccessInv
<1> SUFFICES ASSUME Init
             PROVE  AccessInv
  OBVIOUS
<1>1. Typed
  BY TypedInit
<1>2. KeysSound
  BY DEF Init, KeysSound
<1>3. \A w \in Worker : session[w] = Idle
  BY DEF Init
<1>4. \A w \in Worker : WorkerInv(w)
  BY <1>3 DEF WorkerInv, OnItsWay, FoundOut, Answers, Idle
<1> QED  BY <1>1, <1>2, <1>4 DEF AccessInv

(* Every step keeps the invariant.                                          *)
LEMMA AccessInvStep ==
    ASSUME AccessInv, [Next]_vars
    PROVE  AccessInv'
<1>1. /\ Typed /\ KeysSound /\ \A w \in Worker : WorkerInv(w)
      /\ \A w \in Worker : session[w].pc # "idle" =>
            /\ session[w].key \in 0..Len(keys)
            /\ session[w].request \in Request
            /\ Standing(session[w], membership) \subseteq witnessed[w].rows
  BY DEF AccessInv, WorkerInv, OnItsWay
<1>2. ASSUME NEW w \in Worker, Serves(w)
      PROVE  AccessInv'
  <2>1. Typed' /\ KeysSound' /\ Lasting /\ Apart(w) /\ WorkerInv(w)'
    BY <1>1, <1>2, ServingStep
  <2>2. ASSUME NEW v \in Worker, v # w
        PROVE  WorkerInv(v)'
    <3>1. Kept(v) /\ UNCHANGED membership
      BY <2>1, <2>2 DEF Apart
    <3>2. session[v].pc # "idle" =>
              Standing(session[v], membership') \subseteq witnessed'[v].rows
      BY <1>1, <3>1 DEF Kept
    <3> QED  BY <1>1, <2>1, <3>1, <3>2, Undisturbed
  <2> QED  BY <2>1, <2>2 DEF AccessInv
<1>3. CASE Manages
  <2>1. Typed' /\ KeysSound' /\ Lasting /\ Still
    BY <1>1, <1>3, ManagingStep
  <2>2. ASSUME NEW w \in Worker
        PROVE  /\ Kept(w)
               /\ session[w].pc # "idle" =>
                      Standing(session[w], membership') \subseteq witnessed'[w].rows
    <3>1. UNCHANGED session
      BY <2>1 DEF Still
    <3>2. \A k \in 1..Len(keys) : keys'[k].used = keys[k].used
                                   /\ keys[k].used <= keys[k].used
      BY <1>1, <2>1, KeyFields DEF Still
    <3>3. CASE UNCHANGED <<membership, witnessed>>
      BY <1>1, <3>1, <3>2, <3>3 DEF Kept
    <3>4. CASE Witness(membership')
      <4>1. membership' \in [User -> [Fund -> Membership \cup {None}]]
        BY <2>1 DEF Typed
      <4>2. /\ witnessed'[w].dead = witnessed[w].dead
            /\ witnessed'[w].since = witnessed[w].since
            /\ witnessed'[w].setBack = witnessed[w].setBack
            /\ witnessed[w].rows \subseteq witnessed'[w].rows
            /\ session[w].pc # "idle" =>
                   Standing(session[w], membership') \subseteq witnessed'[w].rows
        BY <1>1, <3>1, <3>4, <4>1, Witnessing
      <4> QED  BY <3>1, <3>2, <4>2 DEF Kept
    <3> QED  BY <2>1, <3>3, <3>4 DEF Still
  <2>3. \A w \in Worker : WorkerInv(w)'
    BY <1>1, <2>1, <2>2, Undisturbed
  <2> QED  BY <2>1, <2>3 DEF AccessInv
<1>4. CASE UNCHANGED vars
  <2>1. Typed' /\ KeysSound'
    BY <1>1, <1>4 DEF vars, Typed, KeysSound
  <2>2. ASSUME NEW w \in Worker
        PROVE  WorkerInv(w)'
    <3>1. /\ now <= now /\ Len(keys) <= Len(keys)
          /\ \A k \in 1..Len(keys) : keys[k].used <= keys[k].used
      BY <1>1, KeyFields DEF Typed
    <3>2. Lasting /\ Kept(w)
      BY <1>4, <3>1 DEF vars, Lasting, Kept
    <3> QED  BY <1>1, <1>4, <2>1, <3>2, Undisturbed DEF vars
  <2> QED  BY <2>1, <2>2 DEF AccessInv
<1> QED  BY <1>2, <1>3, <1>4 DEF Next, Serves, Manages

(* It holds in every reachable state.                                       *)
LEMMA AccessInvariant == Spec => []AccessInv
  BY AccessInvInit, AccessInvStep, PTL DEF Spec

(* Whoever is served held, at some moment since the request came and on the *)
(* very fund it names, a role that allows it, a partner's only for that     *)
(* partner, by a key that was good when it came; and only a key that is no  *)
(* good is turned away (verify_key, FundRolePermission, get_fund_id,        *)
(* LPStatementView): whatever commands run in between.                      *)
THEOREM OnlyTheEntitledAreServed == Spec => []EntitledWhenServed
<1>1. AccessInv => EntitledWhenServed
  BY DEF AccessInv, WorkerInv, Answers, Verified, Enough, EntitledWhenServed,
         Answered, ViewOf
<1> QED  BY <1>1, AccessInvariant, PTL

(* Who was no member of the fund while the request lasted, or was a partner *)
(* asking for another's statement, learns nothing but "not found"           *)
(* (permissions.py, LPStatementView): even where memberships move while the *)
(* request is served.                                                       *)
THEOREM OutsidersLearnNothing == Spec => []OutsidersAreToldNothing
<1>1. ASSUME AccessInv
      PROVE  OutsidersAreToldNothing
  <2> SUFFICES ASSUME NEW w \in Worker, Answered(w), session[w].answer # 401,
                      session[w].answer # 404,
                      \A row \in witnessed[w].rows :
                          /\ ViewOf(w) = "statement"
                          /\ row.role = "LP" /\ row.lp # session[w].request.lp
               PROVE  FALSE
    BY DEF OutsidersAreToldNothing
  <2>1. session[w].answer \in {200, 403}
    BY <1>1 DEF AccessInv, WorkerInv, Answers, Answered, Typed, SessionRow, Code
  <2>2. ASSUME session[w].answer = 403
        PROVE  FALSE
    <3>1. PICK row \in witnessed[w].rows :
             Rank[row.role] < Rank[RequiredRole[session[w].request.view]]
      BY <1>1, <2>2 DEF AccessInv, WorkerInv, Answers, Answered
    <3>2. row.role = "LP" /\ session[w].request.view = "statement"
      BY <3>1 DEF ViewOf
    <3> QED  BY <3>1, <3>2, Ranks
  <2>3. ASSUME session[w].answer = 200
        PROVE  FALSE
    BY <1>1, <2>3 DEF AccessInv, WorkerInv, Answers, Answered, ViewOf
  <2> QED  BY <2>1, <2>2, <2>3
<1> QED  BY <1>1, AccessInvariant, PTL

(* A request that is served finds on record a use of its key no more than   *)
(* the touch interval older than itself (record_use), unless while it was   *)
(* under way another request put its own older use over a later one;        *)
(* whatever use was read with the key, and however many workers write.      *)
THEOREM UsesAreOnRecord == Spec => []UseIsOnRecord
<1>1. AccessInv => UseIsOnRecord
  BY DEF AccessInv, WorkerInv, FoundOut, Answers, Recorded, UseIsOnRecord
<1> QED  BY <1>1, AccessInvariant, PTL
=============================================================================
