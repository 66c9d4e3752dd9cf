----------------------------- MODULE AuthProofs -----------------------------
(***************************************************************************)
(* Proofs about Accounts and about Projects, the two halves of             *)
(* auth/service.go, for any accounts, requests, tokens, links, calls and   *)
(* life of an access token; and for any projects, keys, domains,           *)
(* connections and time to live of the cache.                              *)
(***************************************************************************)
EXTENDS Accounts, Projects, TLAPS

(* What a call carries agrees with the tables, whatever other calls do to  *)
(* them: only a session that is going to be inserted can be out of date,   *)
(* its subject is of its kind, a claim it will put into a token was true   *)
(* when it was read, and before there are accounts only administrators     *)
(* register.                                                               *)
Grants == {"rotate", "load", "issue"}

CallOK(r) ==
    LET call == request[r] IN
    /\ call.session.old => call.pc \in Grants
    /\ call.pc = "rotate" => call.subject \in Token
    /\ call.pc = "hash" => call.subject \in Link
    /\ call.pc = "issue" /\ call.claim \in Right =>
          since[call.session.account][call.claim] <= IF call.late THEN 1 ELSE 0
    /\ call.pc = "insert" /\ born = {} => call.claim = "admin"

CallsOK == \A r \in Request : ~At(r, "idle") => CallOK(r)

(* Of a right that is held, no time has passed since it was. *)
HeldNow == \A a \in Account, c \in Right : Holds(a, c) => since[a][c] = 0

(* The later in its life an access token is, the longer ago its right may  *)
(* have been held; the call that issued it adds a tick.                    *)
ClaimsRecent == \A a \in Account, c \in Right :
    access[a][c] > 0 => since[a][c] + access[a][c] <= AccessTTL + 1

Recorded == \A a \in Account : Exists(a) => a \in born

(* What OldSessionsEnd says of the rows holds of the calls too.            *)
OldCallsEnd ==
    \A r \in Request :
        ~At(r, "idle") /\ request[r].session.old => request[r].session.spared \/ Ending(Target(r))

AccountsInv ==
    /\ TypeOK /\ CallsOK /\ OldSessionsEnd /\ OldCallsEnd /\ HeldNow /\ ClaimsRecent
    /\ Recorded /\ SomeoneAdministers

-----------------------------------------------------------------------------
(* Calls.                                                                  *)

LEMMA BegunType ==
    ASSUME NEW pc \in PC, NEW s \in Session, NEW x \in Token \cup Link \cup {None}, NEW c \in Role
    PROVE  Begun(pc, s, x, c) \in Call
  BY DEF Begun, Call

LEMMA GrantedType == ASSUME NEW a \in Account PROVE Granted(a) \in Session
  BY DEF Granted, Session

LEMMA CallFields ==
    ASSUME TypeOK, NEW r \in Request, ~At(r, "idle")
    PROVE  /\ request[r] \in Call /\ request[r].session \in Session /\ request[r].claim \in Role
           /\ request[r].late \in BOOLEAN /\ Target(r) \in Account
  <1>1. request[r] \in Call
    BY DEF TypeOK, At, Idle
  <1> QED
    BY <1>1 DEF Call, Session, Target

LEMMA IdleCalls ==
    ASSUME TypeOK, NEW q \in Request, At(q, "idle")
    PROVE  request[q] = Idle
  BY DEF TypeOK, At, Call, PC

(* A call is sound after a step that leaves it and the tables it speaks of *)
(* alone.                                                                  *)
LEMMA CallKept ==
    ASSUME NEW r \in Request, request'[r] = request[r], CallOK(r),
           UNCHANGED <<accounts, links, since, born>>
    PROVE  CallOK(r)'
  BY DEF CallOK, Holds, Exists

(* A request goes on, and no table that a call speaks of changes. *)
LEMMA CallsAdvance ==
    ASSUME TypeOK, CallsOK, NEW r \in Request, NEW call \in {Idle} \cup Call,
           Becomes(r, call), call = Idle \/ CallOK(r)',
           UNCHANGED <<accounts, born, links, since>>
    PROVE  CallsOK' /\ request' \in [Request -> {Idle} \cup Call]
  <1>1. request' \in [Request -> {Idle} \cup Call]
    BY DEF TypeOK, Becomes
  <1>2. ASSUME NEW q \in Request, ~At(q, "idle")' PROVE CallOK(q)'
    <2>1. CASE q = r
      <3>1. request'[r] = call
        BY DEF TypeOK, Becomes
      <3> QED
        BY <1>2, <2>1, <3>1 DEF At, Idle
    <2>2. CASE q # r
      <3>1. request'[q] = request[q]
        BY <2>2 DEF TypeOK, Becomes
      <3> QED
        BY <1>2, <3>1, CallKept DEF CallsOK, At
    <2> QED
      BY <2>1, <2>2
  <1> QED
    BY <1>1, <1>2 DEF CallsOK

-----------------------------------------------------------------------------
(* Sessions that are to end.                                               *)

(* A session that was there before, or is spared, or has its removal ahead. *)
Known(s) ==
    \/ ~s.old \/ s.spared
    \/ \E r \in Request : request'[r].pc = "revoke" /\ request'[r].session.account = s.account
    \/ \E t \in Token : tokens[t] # None /\ s = tokens[t]
    \/ \E r \in Request : ~At(r, "idle") /\ s = request[r].session

(* A step that ends removals of the sessions of an account leaves none of  *)
(* that account which are not spared.                                      *)
LEMMA SessionsLast ==
    ASSUME AccountsInv, NEW a,
           \A q \in Request : At(q, "revoke") /\ Target(q) # a =>
               request'[q].pc = "revoke" /\ request'[q].session.account = Target(q),
           \A t \in Token : tokens'[t] # None =>
               /\ Known(tokens'[t])
               /\ tokens'[t].old /\ tokens'[t].account = a => tokens'[t].spared,
           \A q \in Request : request'[q].pc # "idle" =>
               /\ Known(request'[q].session)
               /\ request'[q].session.old /\ request'[q].session.account = a => request'[q].session.spared
    PROVE  OldSessionsEnd' /\ OldCallsEnd'
  <1>1. ASSUME NEW s, Known(s), s.old, ~s.spared, s.account # a
        PROVE  \E r \in Request : request'[r].pc = "revoke" /\ request'[r].session.account = s.account
    <2>1. ASSUME Ending(s.account)
          PROVE  \E r \in Request : request'[r].pc = "revoke" /\ request'[r].session.account = s.account
      BY <1>1, <2>1 DEF Ending, Target
    <2>2. ASSUME NEW t \in Token, tokens[t] # None, s = tokens[t] PROVE Ending(s.account)
      BY <1>1, <2>2 DEF AccountsInv, OldSessionsEnd
    <2>3. ASSUME NEW r \in Request, ~At(r, "idle"), s = request[r].session PROVE Ending(s.account)
      BY <1>1, <2>3 DEF AccountsInv, OldCallsEnd, Target
    <2> QED
      BY <1>1, <2>1, <2>2, <2>3 DEF Known
  <1>2. OldSessionsEnd'
    BY <1>1 DEF OldSessionsEnd, Ending, At, Target
  <1>3. OldCallsEnd'
    BY <1>1 DEF OldCallsEnd, Ending, At, Target
  <1> QED
    BY <1>2, <1>3

(* The step of a request that removes nothing for others to wait for, and   *)
(* inserts at most the session it carries.                                 *)
LEMMA SessionsKept ==
    ASSUME AccountsInv, NEW r \in Request, NEW call \in {Idle} \cup Call, Becomes(r, call),
           ~At(r, "revoke"),
           \A t \in Token : tokens'[t] # None =>
               tokens'[t] = tokens[t] \/ (~At(r, "idle") /\ tokens'[t] = request[r].session),
           call = Idle \/ Known(call.session)
    PROVE  OldSessionsEnd' /\ OldCallsEnd'
  <1>1. request'[r] = call /\ \A q \in Request : q # r => request'[q] = request[q]
    BY DEF Becomes, AccountsInv, TypeOK
  <1>2. \A q \in Request : At(q, "revoke") /\ Target(q) # None =>
            request'[q].pc = "revoke" /\ request'[q].session.account = Target(q)
    BY <1>1 DEF At, Target
  <1>3. ASSUME NEW t \in Token, tokens'[t] # None
        PROVE  /\ Known(tokens'[t])
               /\ tokens'[t].account # None
    <2>1. CASE tokens'[t] = tokens[t]
      BY <1>3, <2>1, AccountsAssumption DEF Known, AccountsInv, TypeOK, Session
    <2>2. CASE ~At(r, "idle") /\ tokens'[t] = request[r].session
      BY <1>3, <2>2, CallFields, AccountsAssumption DEF Known, AccountsInv, Session
    <2> QED
      BY <1>3, <2>1, <2>2
  <1>4. ASSUME NEW q \in Request, request'[q].pc # "idle"
        PROVE  Known(request'[q].session) /\ request'[q].session.account # None
    <2>1. CASE q = r
      <3>1. call \in Call /\ Known(call.session)
        BY <1>1, <1>4, <2>1 DEF Idle
      <3> QED
        BY <1>1, <2>1, <3>1, AccountsAssumption DEF Call, Session
    <2>2. CASE q # r
      <3>1. request'[q] = request[q] /\ ~At(q, "idle")
        BY <1>1, <1>4, <2>2 DEF At
      <3> QED
        BY <3>1, CallFields, AccountsAssumption DEF Known, AccountsInv, Session
    <2> QED
      BY <2>1, <2>2
  <1> QED
    BY <1>2, <1>3, <1>4, SessionsLast

(* The step of a request that changes no table. *)
LEMMA Advance ==
    ASSUME AccountsInv, NEW r \in Request, NEW call \in {Idle} \cup Call,
           Becomes(r, call), ~At(r, "revoke"),
           call = Idle \/ (CallOK(r)' /\ Known(call.session)), calls' \in 0 .. MaxCalls,
           UNCHANGED <<accounts, born, tokens, links, access, since, ousted>>
    PROVE  AccountsInv'
  <1>1. CallsOK' /\ request' \in [Request -> {Idle} \cup Call]
    BY CallsAdvance DEF AccountsInv
  <1>2. TypeOK'
    BY <1>1 DEF AccountsInv, TypeOK
  <1>3. OldSessionsEnd' /\ OldCallsEnd'
    BY SessionsKept
  <1>4. HeldNow' /\ ClaimsRecent' /\ Recorded' /\ SomeoneAdministers'
    BY DEF AccountsInv, HeldNow, ClaimsRecent, Recorded, SomeoneAdministers, Holds, Exists
  <1> QED
    BY <1>1, <1>2, <1>3, <1>4 DEF AccountsInv

-----------------------------------------------------------------------------
(* What a step of another actor may do to a call: mark its session, if it   *)
(* is going to be inserted, and never add to the time since a right was    *)
(* held.                                                                   *)
Marks(s) == {Outdated(s), Missed(s), Ended(s)}

Lasts(q) ==
    \/ request'[q] = request[q]
    \/ /\ request[q].pc \in Grants
       /\ \E s \in Marks(request[q].session) : request'[q] = [request[q] EXCEPT !.session = s]

LEMMA MarkTypes ==
    ASSUME NEW s \in Session, NEW m \in Marks(s)
    PROVE  m \in Session /\ m.account = s.account
  BY DEF Marks, Outdated, Missed, Ended, Session

LEMMA MarkFacts ==
    ASSUME NEW s \in Session
    PROVE  /\ Missed(s).old => Missed(s).spared
           /\ Ended(s).spared
  BY DEF Outdated, Missed, Ended, Session

SinceFalls == \A a \in Account, c \in Right : since'[a][c] \in Nat /\ since'[a][c] <= since[a][c]

LEMMA SinceSame == ASSUME TypeOK, UNCHANGED since PROVE SinceFalls
  BY AccountsAssumption DEF TypeOK, SinceFalls, TooLong

LEMMA CallLasts ==
    ASSUME AccountsInv, NEW q \in Request, ~At(q, "idle"), Lasts(q), born \subseteq born', SinceFalls
    PROVE  CallOK(q)' /\ request'[q] \in Call /\ ~At(q, "idle")'
  <1>1. /\ CallOK(q) /\ request[q] \in Call /\ request[q].session \in Session
        /\ Target(q) \in Account
    BY CallFields DEF AccountsInv, CallsOK
  <1> DEFINE call == request[q] next == request'[q]
  <1>2. /\ next \in Call /\ next.pc = call.pc /\ next.subject = call.subject
        /\ next.claim = call.claim /\ next.late = call.late
        /\ next.session.account = call.session.account
        /\ next.session.old => next.pc \in Grants
    <2>1. CASE next = call
      BY <1>1, <2>1 DEF CallOK
    <2>2. ASSUME NEW s \in Marks(call.session), next = [call EXCEPT !.session = s], call.pc \in Grants
          PROVE  /\ next \in Call /\ next.pc = call.pc /\ next.subject = call.subject
                 /\ next.claim = call.claim /\ next.late = call.late
                 /\ next.session.account = call.session.account
                 /\ next.session.old => next.pc \in Grants
      <3>1. s \in Session /\ s.account = call.session.account
        BY <1>1, <2>2, MarkTypes
      <3> QED
        BY <1>1, <2>2, <3>1 DEF Call
    <2> QED
      BY <2>1, <2>2 DEF Lasts
  <1> HIDE DEF next
  <1>3. next.pc = "issue" /\ next.claim \in Right =>
            since'[next.session.account][next.claim] <= IF next.late THEN 1 ELSE 0
    <2> SUFFICES ASSUME next.pc = "issue", next.claim \in Right
                 PROVE  since'[Target(q)][call.claim] <= IF call.late THEN 1 ELSE 0
      BY <1>2 DEF Target
    <2>1. since[Target(q)][call.claim] <= IF call.late THEN 1 ELSE 0
      BY <1>1, <1>2 DEF CallOK, Target
    <2>2. since[Target(q)][call.claim] \in 0 .. TooLong
      BY <1>1, <1>2 DEF AccountsInv, TypeOK
    <2>3. since'[Target(q)][call.claim] \in Nat /\ since'[Target(q)][call.claim] <= since[Target(q)][call.claim]
      BY <1>1, <1>2 DEF SinceFalls
    <2> QED
      BY <2>1, <2>2, <2>3, AccountsAssumption DEF TooLong
  <1>4. next.pc = "insert" /\ born' = {} => next.claim = "admin"
    BY <1>1, <1>2 DEF CallOK
  <1>5. (next.pc = "rotate" => next.subject \in Token) /\ (next.pc = "hash" => next.subject \in Link)
    BY <1>1, <1>2 DEF CallOK
  <1>6. CallOK(q)'
    BY <1>2, <1>3, <1>4, <1>5 DEF CallOK, next
  <1> QED
    BY <1>2, <1>6 DEF At, next

(* Every call ends, goes on soundly or lasts. *)
LEMMA CallsLast ==
    ASSUME AccountsInv, born \subseteq born', SinceFalls,
           request' = [q \in Request |-> request'[q]],
           \A q \in Request : \/ request'[q] = Idle
                              \/ request'[q] \in Call /\ CallOK(q)'
                              \/ ~At(q, "idle") /\ Lasts(q)
    PROVE  CallsOK' /\ request' \in [Request -> {Idle} \cup Call]
  <1>1. ASSUME NEW q \in Request
        PROVE  request'[q] \in {Idle} \cup Call /\ (~At(q, "idle")' => CallOK(q)')
    BY CallLasts DEF At, Idle
  <1> QED
    BY <1>1 DEF CallsOK

LEMMA AccountsStart == Init => AccountsInv
  <1> SUFFICES ASSUME Init PROVE AccountsInv
    OBVIOUS
  <1> USE AccountsAssumption
  <1>1. TypeOK
    <2>1. since \in [Account -> [Right -> 0 .. TooLong]] /\ access \in [Account -> [Right -> 0 .. AccessTTL]]
      BY DEF Init, TooLong
    <2>2. accounts \in [Account -> {None} \cup Row] /\ tokens \in [Token -> {None} \cup Session]
      BY DEF Init
    <2>3. links \in [Link -> {None} \cup [account : Account, used : BOOLEAN]]
      BY DEF Init
    <2>4. request \in [Request -> {Idle} \cup Call]
      BY DEF Init
    <2>5. born \in SUBSET Account /\ calls \in 0 .. MaxCalls
      BY DEF Init
    <2>6. ousted \in BOOLEAN
      BY DEF Init
    <2> QED
      BY <2>1, <2>2, <2>3, <2>4, <2>5, <2>6 DEF TypeOK
  <1>2. CallsOK
    BY DEF Init, CallsOK, At, Idle
  <1>3. OldSessionsEnd /\ OldCallsEnd /\ Recorded /\ HeldNow /\ SomeoneAdministers
    BY DEF Init, OldSessionsEnd, OldCallsEnd, At, Idle, Recorded, HeldNow, SomeoneAdministers, Holds, Exists
  <1>4. ClaimsRecent
    BY DEF Init, ClaimsRecent
  <1> QED
    BY <1>1, <1>2, <1>3, <1>4 DEF AccountsInv

-----------------------------------------------------------------------------
(* Steps that change no table.                                             *)

(* What has just been read is true. *)
LEMMA Reads ==
    ASSUME AccountsInv, NEW r \in Request, NEW call \in Call, Becomes(r, call),
           call.session.old => call.pc \in Grants,
           \/ call.pc \in {"panel", "load", "update", "role"}
           \/ call.pc = "rotate" /\ call.subject \in Token
           \/ call.pc = "hash" /\ call.subject \in Link
           \/ call.pc = "issue" /\ (call.claim \in Right => Holds(call.session.account, call.claim))
           \/ call.pc = "insert" /\ (born = {} => call.claim = "admin"),
           UNCHANGED <<born, since>>
    PROVE  CallOK(r)'
  <1>1. request'[r] = call
    BY DEF AccountsInv, TypeOK, Becomes
  <1>2. call.pc = "issue" /\ call.claim \in Right => since[call.session.account][call.claim] = 0
    BY DEF AccountsInv, HeldNow, Call, Session
  <1> QED
    BY <1>1, <1>2 DEF CallOK

LEMMA BeginStep ==
    ASSUME AccountsInv, NEW r \in Request, calls' \in 0 .. MaxCalls,
           \/ \E a \in Account : Register(r, a) \/ Login(r, a)
           \/ \E t \in Token : SelectToken(r, t)
           \/ \E l \in Link : SelectLink(r, l)
           \/ \E a, b \in Account, c \in Right : Authorize(r, b, c, a)
    PROVE  AccountsInv'
  <1>0. At(r, "idle") /\ ~At(r, "revoke")
    BY DEF Register, Login, SelectToken, SelectLink, Authorize, At
  <1>1. ASSUME NEW a \in Account, Register(r, a) PROVE AccountsInv'
    <2>1. PICK first \in Counts :
             Becomes(r, Begun("insert", Granted(a), None, IF first THEN "admin" ELSE "user"))
      BY <1>1 DEF Register
    <2> DEFINE call == Begun("insert", Granted(a), None, IF first THEN "admin" ELSE "user")
    <2>2. call \in Call
      BY BegunType, GrantedType DEF PC, Role, Right
    <2>3. born = {} => first
      BY <2>1 DEF Counts, AccountsInv, Recorded
    <2>4. call.pc = "insert" /\ ~call.session.old /\ (born = {} => call.claim = "admin")
      BY <2>3 DEF Begun, Granted
    <2> HIDE DEF call
    <2> QED
      BY <1>0, <1>1, <2>1, <2>2, <2>4, Reads, Advance DEF Register, call, Known
  <1>2. ASSUME NEW a \in Account, Login(r, a) PROVE AccountsInv'
    <2> DEFINE call == Begun("issue", Granted(a), None, accounts[a].role)
    <2>1. accounts[a].role \in Role
      BY <1>2 DEF Login, Exists, AccountsInv, TypeOK, Row
    <2>2. call \in Call
      BY <2>1, BegunType, GrantedType DEF PC
    <2>3. call.pc = "issue" /\ ~call.session.old /\ Holds(call.session.account, call.claim)
      BY <1>2 DEF Login, Begun, Granted, Holds
    <2>4. Becomes(r, call) /\ UNCHANGED <<accounts, born, tokens, links, access, since, ousted>>
      BY <1>2 DEF Login
    <2> HIDE DEF call
    <2> QED
      BY <1>0, <2>2, <2>3, <2>4, Reads, Advance DEF Known
  <1>3. ASSUME NEW t \in Token, SelectToken(r, t) PROVE AccountsInv'
    <2> DEFINE call == Begun("rotate", tokens[t], t, "user")
    <2>1. tokens[t] \in Session /\ tokens[t] # None
      BY <1>3 DEF SelectToken, AccountsInv, TypeOK
    <2>2. call \in Call
      BY <2>1, BegunType DEF PC, Role
    <2>3. call.pc = "rotate" /\ call.subject \in Token /\ call.session = tokens[t]
      BY <2>1 DEF Begun
    <2>4. Becomes(r, call) /\ UNCHANGED <<accounts, born, tokens, links, access, since, ousted>>
      BY <1>3 DEF SelectToken
    <2> HIDE DEF call
    <2> QED
      BY <1>0, <2>1, <2>2, <2>3, <2>4, Reads, Advance DEF Known, Grants, SelectToken
  <1>4. ASSUME NEW l \in Link, SelectLink(r, l) PROVE AccountsInv'
    <2> DEFINE call == Begun("hash", Granted(links[l].account), l, "user")
    <2>1. links[l].account \in Account /\ ~links[l].used
      BY <1>4 DEF SelectLink, Usable, AccountsInv, TypeOK
    <2>2. call \in Call
      BY <2>1, BegunType, GrantedType DEF PC, Role
    <2>3. call.pc = "hash" /\ call.subject = l /\ ~call.session.old
      BY DEF Begun, Granted
    <2>4. Becomes(r, call) /\ UNCHANGED <<accounts, born, tokens, links, access, since, ousted>>
      BY <1>4 DEF SelectLink
    <2> HIDE DEF call
    <2> QED
      BY <1>0, <2>1, <2>2, <2>3, <2>4, Reads, Advance DEF Known
  <1>5. ASSUME NEW a \in Account, NEW b \in Account, NEW c \in Right, Authorize(r, b, c, a)
        PROVE  AccountsInv'
    <2> DEFINE call == Begun("panel", Granted(a), None, c)
    <2>1. call \in Call
      BY BegunType, GrantedType DEF PC, Role
    <2>2. call.pc = "panel" /\ ~call.session.old
      BY DEF Begun, Granted
    <2>3. Becomes(r, call) /\ UNCHANGED <<accounts, born, tokens, links, access, since, ousted>>
      BY <1>5 DEF Authorize
    <2> HIDE DEF call
    <2> QED
      BY <1>0, <2>1, <2>2, <2>3, Reads, Advance DEF Known
  <1> QED
    BY <1>1, <1>2, <1>3, <1>4, <1>5

(* The reads and the checks of a call that is under way. *)
LEMMA ReadStep ==
    ASSUME AccountsInv, NEW r \in Request, UNCHANGED calls,
           \/ LoadAccount(r) \/ Impersonate(r) \/ CheckTarget(r) \/ CheckFails(r)
           \/ UpdateDone(r)
    PROVE  AccountsInv'
  <1>0. calls' \in 0 .. MaxCalls
    BY DEF AccountsInv, TypeOK
  <1>1. /\ ~At(r, "idle") /\ ~At(r, "revoke")
        /\ UNCHANGED <<accounts, born, tokens, links, access, since, ousted>>
    BY DEF LoadAccount, Impersonate, CheckTarget, CheckFails, UpdateDone, At
  <1>2. request[r] \in Call /\ Target(r) \in Account /\ CallOK(r)
    BY <1>1, CallFields DEF AccountsInv, CallsOK
  <1>3. Known(request[r].session)
    BY <1>1 DEF Known
  <1>4. CASE Ends(r)
    BY <1>0, <1>1, <1>4, Advance DEF Ends
  <1>5. ASSUME Exists(Target(r)),
               Becomes(r, [request[r] EXCEPT !.pc = "issue", !.claim = accounts[Target(r)].role])
        PROVE  AccountsInv'
    <2> DEFINE call == [request[r] EXCEPT !.pc = "issue", !.claim = accounts[Target(r)].role]
    <2>1. accounts[Target(r)].role \in Role
      BY <1>2, <1>5 DEF Exists, AccountsInv, TypeOK, Row
    <2>2. call \in Call /\ call.pc = "issue" /\ call.session = request[r].session
            /\ call.claim = accounts[Target(r)].role
      BY <1>2, <2>1 DEF Call, PC
    <2>3. Holds(call.session.account, call.claim)
      BY <1>5, <2>2 DEF Holds, Target
    <2> HIDE DEF call
    <2>4. CallOK(r)'
      BY <1>1, <1>5, <2>2, <2>3, Reads DEF call, Grants
    <2> QED
      BY <1>0, <1>1, <1>3, <1>5, <2>2, <2>4, Advance DEF call
  <1>6. ASSUME request[r].pc = "panel", Goes(r, "update") PROVE AccountsInv'
    <2> DEFINE call == [request[r] EXCEPT !.pc = "update"]
    <2>1. call \in Call /\ call.pc = "update" /\ call.session = request[r].session
            /\ ~call.session.old
      BY <1>2, <1>6 DEF Call, PC, CallOK, Grants
    <2>2. Becomes(r, call)
      BY <1>6 DEF Goes
    <2> HIDE DEF call
    <2>3. CallOK(r)'
      BY <1>1, <2>1, <2>2, Reads
    <2> QED
      BY <1>0, <1>1, <1>3, <2>1, <2>2, <2>3, Advance
  <1> QED
    BY <1>4, <1>5, <1>6 DEF LoadAccount, Impersonate, CheckTarget, CheckFails, UpdateDone, At

-----------------------------------------------------------------------------
(* Sessions and reset links.                                               *)

LEMMA IssueStep ==
    ASSUME AccountsInv, NEW r \in Request, UNCHANGED calls, Issue(r)
    PROVE  AccountsInv'
  <1> USE AccountsAssumption
  <1> DEFINE a == Target(r) c == request[r].claim
  <1>1. /\ request[r] \in Call /\ request[r].session \in Session /\ a \in Account /\ c \in Role
        /\ CallOK(r) /\ ~At(r, "idle") /\ ~At(r, "revoke")
    BY CallFields DEF Issue, At, AccountsInv, CallsOK
  <1>2. CallsOK' /\ request' \in [Request -> {Idle} \cup Call]
    BY CallsAdvance DEF Issue, Ends, AccountsInv
  <1>3. CASE UNCHANGED <<tokens, access>>
    <2>1. TypeOK'
      BY <1>2, <1>3 DEF Issue, AccountsInv, TypeOK
    <2>2. HeldNow' /\ ClaimsRecent' /\ Recorded' /\ SomeoneAdministers'
      BY <1>3 DEF Issue, AccountsInv, HeldNow, ClaimsRecent, Recorded, SomeoneAdministers, Holds, Exists
    <2>3. OldSessionsEnd' /\ OldCallsEnd'
      BY <1>1, <1>3, SessionsKept DEF Issue, Ends
    <2> QED
      BY <1>2, <2>1, <2>2, <2>3 DEF AccountsInv
  <1>4. ASSUME NEW t \in Token, tokens' = [tokens EXCEPT ![t] = request[r].session],
               access' = IF c \in Right THEN [access EXCEPT ![a][c] = AccessTTL] ELSE access
        PROVE  AccountsInv'
    <2>1. tokens' \in [Token -> {None} \cup Session]
      BY <1>1, <1>4 DEF AccountsInv, TypeOK
    <2>2. access' \in [Account -> [Right -> 0 .. AccessTTL]]
      BY <1>1, <1>4 DEF AccountsInv, TypeOK
    <2>3. TypeOK'
      BY <1>2, <2>1, <2>2 DEF Issue, AccountsInv, TypeOK
    <2>4. OldSessionsEnd' /\ OldCallsEnd'
      <3>1. \A x \in Token : tokens'[x] = tokens[x] \/ tokens'[x] = request[r].session
        BY <1>4 DEF AccountsInv, TypeOK
      <3> QED
        BY <1>1, <3>1, SessionsKept DEF Issue, Ends
    <2>5. ClaimsRecent'
      <3> SUFFICES ASSUME NEW b \in Account, NEW x \in Right, access'[b][x] > 0
                   PROVE  since[b][x] + access'[b][x] <= AccessTTL + 1
        BY DEF Issue, ClaimsRecent
      <3>1. since[b][x] \in Nat
        BY DEF AccountsInv, TypeOK, TooLong
      <3>2. CASE b = a /\ x = c /\ c \in Right
        <4>1. since[b][x] <= 1
          BY <1>1, <3>1, <3>2 DEF Issue, At, CallOK, Target, Call
        <4>2. access'[b][x] = AccessTTL
          BY <1>1, <1>4, <3>2 DEF AccountsInv, TypeOK
        <4> QED
          BY <3>1, <4>1, <4>2
      <3>3. CASE ~(b = a /\ x = c /\ c \in Right)
        <4>1. access'[b][x] = access[b][x]
          BY <1>1, <1>4, <3>3 DEF AccountsInv, TypeOK
        <4> QED
          BY <4>1 DEF AccountsInv, ClaimsRecent
      <3> QED
        BY <3>2, <3>3
    <2>6. HeldNow' /\ Recorded' /\ SomeoneAdministers'
      BY DEF Issue, AccountsInv, HeldNow, Recorded, SomeoneAdministers, Holds, Exists
    <2> QED
      BY <1>2, <2>3, <2>4, <2>5, <2>6 DEF AccountsInv
  <1> QED
    BY <1>3, <1>4 DEF Issue

LEMMA SurvivorsType ==
    ASSUME TypeOK, NEW a \in Account, tokens' = Survivors(tokens, a)
    PROVE  /\ tokens' \in [Token -> {None} \cup Session]
           /\ \A t \in Token : tokens'[t] # None => tokens'[t] = tokens[t] /\ tokens[t].account # a
  BY DEF TypeOK, Survivors

(* A reset removes all the sessions it has made outdated.                   *)
LEMMA SurvivorsSame ==
    ASSUME TypeOK, NEW a \in Account
    PROVE  Survivors(SessionRows(a, Outdated), a) = Survivors(tokens, a)
  <1> DEFINE marked == SessionRows(a, Outdated)
  <1>1. ASSUME NEW t \in Token
        PROVE  Survivors(marked, a)[t] = Survivors(tokens, a)[t]
    <2>1. CASE tokens[t] # None /\ tokens[t].account = a
      <3>1. tokens[t] \in Session
        BY <2>1 DEF TypeOK
      <3>2. marked[t] = Outdated(tokens[t])
        BY <2>1 DEF SessionRows
      <3>3. marked[t].account = a
        BY <2>1, <3>1, <3>2 DEF Outdated, Session
      <3> QED
        BY <2>1, <3>3 DEF Survivors
    <2>2. CASE ~(tokens[t] # None /\ tokens[t].account = a)
      <3>1. marked[t] = tokens[t]
        BY <2>2 DEF SessionRows
      <3> QED
        BY <2>2, <3>1 DEF Survivors
    <2> QED
      BY <2>1, <2>2
  <1> QED
    BY <1>1 DEF Survivors

LEMMA MarkedType ==
    ASSUME TypeOK, NEW a \in Account,
           \/ tokens' = SessionRows(a, Outdated)
           \/ tokens' = SessionRows(a, Missed)
    PROVE  /\ tokens' \in [Token -> {None} \cup Session]
           /\ \A t \in Token : tokens'[t] # None =>
                  /\ tokens[t] \in Session /\ tokens'[t].account = tokens[t].account
                  /\ tokens[t].account # a => tokens'[t] = tokens[t]
                  /\ tokens' = SessionRows(a, Missed) /\ tokens[t].account = a =>
                         tokens'[t] = Missed(tokens[t])
  <1>1. ASSUME NEW t \in Token, tokens[t] # None
        PROVE  /\ tokens[t] \in Session
               /\ Outdated(tokens[t]) \in Session /\ Missed(tokens[t]) \in Session
               /\ Outdated(tokens[t]).account = tokens[t].account
               /\ Missed(tokens[t]).account = tokens[t].account
    BY <1>1, MarkTypes DEF TypeOK, Marks
  <1>2. CASE tokens' = SessionRows(a, Outdated)
    <2>1. tokens' = [t \in Token |-> IF tokens[t] # None /\ tokens[t].account = a
                                     THEN Outdated(tokens[t]) ELSE tokens[t]]
      BY <1>2 DEF SessionRows
    <2>2. ASSUME tokens' = SessionRows(a, Missed), NEW t \in Token, tokens'[t] # None, tokens[t].account = a
          PROVE  tokens'[t] = Missed(tokens[t])
      <3>1. tokens' = [x \in Token |-> IF tokens[x] # None /\ tokens[x].account = a
                                       THEN Missed(tokens[x]) ELSE tokens[x]]
        BY <2>2 DEF SessionRows
      <3>2. tokens[t] # None
        BY <2>1, <2>2
      <3> QED
        BY <2>2, <3>1, <3>2
    <2> QED
      BY <1>1, <2>1, <2>2 DEF TypeOK
  <1>3. CASE tokens' = SessionRows(a, Missed)
    <2>1. tokens' = [t \in Token |-> IF tokens[t] # None /\ tokens[t].account = a
                                     THEN Missed(tokens[t]) ELSE tokens[t]]
      BY <1>3 DEF SessionRows
    <2> QED
      BY <1>1, <2>1 DEF TypeOK
  <1> QED
    BY <1>2, <1>3

(* A request overtakes the others: what becomes of them, for the three     *)
(* marks of a session.                                                     *)
LEMMA OvertakenLast ==
    ASSUME AccountsInv, NEW r \in Request, NEW next, NEW a \in Account,
           \/ Overtakes(r, next, a, Outdated)
           \/ Overtakes(r, next, a, Missed)
           \/ Overtakes(r, next, a, Ended)
    PROVE  /\ request' = [q \in Request |-> request'[q]] /\ request'[r] = next
           /\ \A q \in Request : q # r => request'[q] = Idle \/ (~At(q, "idle") /\ Lasts(q))
           /\ \A q \in Request : q # r /\ ~Granting(q, a) => request'[q] = request[q]
           /\ \A q \in Request : q # r /\ Granting(q, a) =>
                  /\ request'[q].session.account = a
                  /\ Overtakes(r, next, a, Missed) \/ Overtakes(r, next, a, Ended) =>
                         ~request'[q].session.old \/ request'[q].session.spared
  <1>1. ASSUME NEW q \in Request, q # r, ~Granting(q, a) PROVE request'[q] = request[q]
    BY <1>1 DEF Overtakes
  <1>2. ASSUME NEW q \in Request, q # r, Granting(q, a)
        PROVE  /\ ~At(q, "idle")
               /\ Lasts(q) /\ request'[q].session.account = a
               /\ Overtakes(r, next, a, Missed) \/ Overtakes(r, next, a, Ended) =>
                      ~request'[q].session.old \/ request'[q].session.spared
    <2> DEFINE s == request[q].session
    <2>1. ~At(q, "idle") /\ s.account = a /\ request[q].pc \in Grants
      BY <1>2 DEF Granting, At, Target, Grants
    <2>2. request[q] \in Call /\ s \in Session
      BY <2>1, CallFields DEF AccountsInv
    <2>3. \A x : [request[q] EXCEPT !.session = x].session = x
      BY <2>2 DEF Call
    <2>4. /\ Outdated(s).account = a /\ Missed(s).account = a /\ Ended(s).account = a
          /\ (Missed(s).old => Missed(s).spared) /\ Ended(s).spared
      BY <2>1, <2>2, MarkTypes, MarkFacts DEF Marks
    <2>5. Overtakes(r, next, a, Outdated) => request'[q] = [request[q] EXCEPT !.session = Outdated(s)]
      BY <1>2 DEF Overtakes
    <2>6. Overtakes(r, next, a, Missed) => request'[q] = [request[q] EXCEPT !.session = Missed(s)]
      BY <1>2 DEF Overtakes
    <2>7. Overtakes(r, next, a, Ended) => request'[q] = [request[q] EXCEPT !.session = Ended(s)]
      BY <1>2 DEF Overtakes
    <2>8. Lasts(q)
      BY <2>1, <2>5, <2>6, <2>7 DEF Lasts, Marks
    <2> HIDE DEF s
    <2>9. ASSUME Overtakes(r, next, a, Missed) \/ Overtakes(r, next, a, Ended)
           PROVE  ~request'[q].session.old \/ request'[q].session.spared
      <3>1. CASE Overtakes(r, next, a, Missed)
        BY <2>3, <2>4, <2>6, <3>1
      <3>2. CASE Overtakes(r, next, a, Ended)
        BY <2>3, <2>4, <2>7, <3>2
      <3> QED
        BY <2>9, <3>1, <3>2
    <2>10. request'[q].session.account = a
      <3>1. CASE Overtakes(r, next, a, Outdated)
        BY <2>3, <2>4, <2>5, <3>1
      <3>2. CASE Overtakes(r, next, a, Missed)
        BY <2>3, <2>4, <2>6, <3>2
      <3>3. CASE Overtakes(r, next, a, Ended)
        BY <2>3, <2>4, <2>7, <3>3
      <3> QED
        BY <3>1, <3>2, <3>3
    <2> QED
      BY <2>1, <2>8, <2>9, <2>10
  <1>3. request' = [q \in Request |-> request'[q]] /\ request'[r] = next
    BY DEF Overtakes
  <1>4. ASSUME NEW q \in Request, q # r PROVE request'[q] = Idle \/ (~At(q, "idle") /\ Lasts(q))
    <2>1. CASE Granting(q, a)
      BY <1>2, <1>4, <2>1
    <2>2. CASE ~Granting(q, a)
      BY <1>1, <1>4, <2>2, IdleCalls DEF Lasts, AccountsInv
    <2> QED
      BY <2>1, <2>2
  <1> QED
    BY <1>1, <1>2, <1>3, <1>4

(* The removal of a's sessions, done or failed, leaves none that is not     *)
(* spared, in the table or in a call.                                      *)
LEMMA RemovalEnds ==
    ASSUME AccountsInv, NEW r \in Request, NEW next, NEW a \in Account,
           Overtakes(r, next, a, Missed) \/ Overtakes(r, next, a, Ended),
           At(r, "revoke") => Target(r) = a, next = Idle \/ ~next.session.old,
           \A t \in Token : tokens'[t] # None =>
               Known(tokens'[t]) /\ (tokens'[t].old /\ tokens'[t].account = a => tokens'[t].spared)
    PROVE  OldSessionsEnd' /\ OldCallsEnd'
  <1>1. /\ request'[r] = next
        /\ \A q \in Request : q # r /\ ~Granting(q, a) => request'[q] = request[q]
        /\ \A q \in Request : q # r /\ Granting(q, a) =>
               ~request'[q].session.old \/ request'[q].session.spared
    BY OvertakenLast
  <1>2. ASSUME NEW q \in Request, At(q, "revoke"), Target(q) # a
        PROVE  request'[q].pc = "revoke" /\ request'[q].session.account = Target(q)
    <2>1. q # r /\ ~Granting(q, a)
      BY <1>2 DEF Granting
    <2> QED
      BY <1>1, <1>2, <2>1 DEF At, Target
  <1>3. ASSUME NEW q \in Request, request'[q].pc # "idle"
        PROVE  /\ Known(request'[q].session)
               /\ request'[q].session.old /\ request'[q].session.account = a => request'[q].session.spared
    <2>1. CASE q = r
      BY <1>1, <1>3, <2>1 DEF Known, Idle
    <2>2. CASE q # r /\ Granting(q, a)
      BY <1>1, <2>2 DEF Known
    <2>3. CASE q # r /\ ~Granting(q, a)
      <3>1. request'[q] = request[q] /\ ~At(q, "idle")
        BY <1>1, <1>3, <2>3 DEF At
      <3>2. request[q].session.account = a => ~request[q].session.old
        BY <2>3, <3>1 DEF AccountsInv, CallsOK, CallOK, Granting, Grants, Target
      <3> QED
        BY <3>1, <3>2 DEF Known
    <2> QED
      BY <2>1, <2>2, <2>3
  <1> QED
    BY <1>2, <1>3, SessionsLast

LEMMA RotateStep ==
    ASSUME AccountsInv, NEW r \in Request, UNCHANGED calls, Rotate(r)
    PROVE  AccountsInv'
  <1> DEFINE call == [request[r] EXCEPT !.pc = "load", !.subject = None]
  <1>1. /\ request[r] \in Call /\ CallOK(r) /\ request[r].subject \in Token
        /\ ~At(r, "idle") /\ ~At(r, "revoke")
    BY CallFields DEF Rotate, At, AccountsInv, CallsOK, CallOK
  <1>2. call \in Call /\ call.pc = "load" /\ call.session = request[r].session
    BY <1>1 DEF Call, PC
  <1>3. Becomes(r, call) /\ UNCHANGED <<accounts, born, links, access, since, ousted>>
    BY DEF Rotate
  <1> HIDE DEF call
  <1>4. CallOK(r)'
    BY <1>2, <1>3, Reads DEF Grants
  <1>5. CallsOK' /\ request' \in [Request -> {Idle} \cup Call]
    BY <1>2, <1>3, <1>4, CallsAdvance DEF AccountsInv
  <1>6. /\ tokens' \in [Token -> {None} \cup Session]
        /\ \A t \in Token : tokens'[t] # None => tokens'[t] = tokens[t]
    BY <1>1 DEF Rotate, AccountsInv, TypeOK
  <1>7. OldSessionsEnd' /\ OldCallsEnd'
    <2>1. Known(call.session)
      BY <1>1, <1>2 DEF Known
    <2> QED
      BY <1>1, <1>2, <1>3, <1>6, <2>1, SessionsKept
  <1>8. TypeOK'
    BY <1>3, <1>5, <1>6 DEF AccountsInv, TypeOK
  <1>9. HeldNow' /\ ClaimsRecent' /\ Recorded' /\ SomeoneAdministers'
    BY <1>3 DEF AccountsInv, HeldNow, ClaimsRecent, Recorded, SomeoneAdministers, Holds, Exists
  <1> QED
    BY <1>5, <1>7, <1>8, <1>9 DEF AccountsInv

LEMMA LogoutStep ==
    ASSUME AccountsInv, NEW t \in Token, UNCHANGED calls, Logout(t)
    PROVE  AccountsInv'
  <1>1. /\ tokens' \in [Token -> {None} \cup Session]
        /\ \A x \in Token : tokens'[x] # None => tokens'[x] = tokens[x]
    BY DEF Logout, AccountsInv, TypeOK
  <1>2. OldSessionsEnd' /\ OldCallsEnd'
    BY <1>1 DEF Logout, AccountsInv, OldSessionsEnd, OldCallsEnd, Ending, At, Target
  <1>3. TypeOK'
    BY <1>1 DEF Logout, AccountsInv, TypeOK
  <1>4. CallsOK'
    BY DEF Logout, AccountsInv, CallsOK, CallOK, At
  <1>5. HeldNow' /\ ClaimsRecent' /\ Recorded' /\ SomeoneAdministers'
    BY DEF Logout, AccountsInv, HeldNow, ClaimsRecent, Recorded, SomeoneAdministers, Holds, Exists
  <1> QED
    BY <1>2, <1>3, <1>4, <1>5 DEF AccountsInv

LEMMA LinkStep ==
    ASSUME AccountsInv, NEW l \in Link, UNCHANGED calls,
           PurgeLink(l) \/ \E a \in Account : RequestPasswordReset(a, l)
    PROVE  AccountsInv'
  <1>1. /\ links' \in [Link -> {None} \cup [account : Account, used : BOOLEAN]]
        /\ UNCHANGED <<accounts, born, tokens, access, request, since, ousted>>
    <2>1. CASE PurgeLink(l)
      BY <2>1 DEF PurgeLink, AccountsInv, TypeOK
    <2>2. ASSUME NEW a \in Account, RequestPasswordReset(a, l)
          PROVE  links' = [links EXCEPT ![l] = [account |-> a, used |-> FALSE]]
                   /\ UNCHANGED <<accounts, born, tokens, access, request, since, ousted>>
      BY <2>2 DEF RequestPasswordReset
    <2>3. ASSUME NEW a \in Account, links' = [links EXCEPT ![l] = [account |-> a, used |-> FALSE]]
          PROVE  /\ links' \in [Link -> {None} \cup [account : Account, used : BOOLEAN]]
               BY <2>3 DEF AccountsInv, TypeOK
    <2> QED
      BY <2>1, <2>2, <2>3
  <1>2. TypeOK'
    BY <1>1 DEF AccountsInv, TypeOK
  <1>3. CallsOK'
    <2> SUFFICES ASSUME NEW q \in Request, ~At(q, "idle") PROVE CallOK(q)'
      BY <1>1 DEF CallsOK, At
    <2> QED
      BY <1>1 DEF AccountsInv, CallsOK, CallOK
  <1>4. OldSessionsEnd' /\ OldCallsEnd'
    BY <1>1 DEF AccountsInv, OldSessionsEnd, OldCallsEnd, Ending, At, Target
  <1>5. HeldNow' /\ ClaimsRecent' /\ Recorded' /\ SomeoneAdministers'
    BY <1>1 DEF AccountsInv, HeldNow, ClaimsRecent, Recorded, SomeoneAdministers, Holds, Exists
  <1> QED
    BY <1>2, <1>3, <1>4, <1>5 DEF AccountsInv

LEMMA ResetStep ==
    ASSUME AccountsInv, NEW r \in Request, UNCHANGED calls, ResetPassword(r)
    PROVE  AccountsInv'
  <1> DEFINE a == Target(r) l == request[r].subject
  <1>1. /\ request[r] \in Call /\ CallOK(r) /\ a \in Account /\ l \in Link
        /\ request[r].pc = "hash" /\ ~At(r, "revoke")
    BY CallFields DEF ResetPassword, At, AccountsInv, CallsOK, CallOK
  <1>2. CASE Ends(r) /\ UNCHANGED <<tokens, links>>
    <2>1. calls' \in 0 .. MaxCalls
      BY DEF AccountsInv, TypeOK
    <2> QED
      BY <1>1, <1>2, <2>1, Advance DEF Ends, ResetPassword
  <1>3. ASSUME tokens' = Survivors(SessionRows(a, Outdated), a), Overtakes(r, Idle, a, Ended),
               links' = IF links[l] = None THEN links ELSE [links EXCEPT ![l].used = TRUE]
        PROVE  AccountsInv'
    <2>1. /\ tokens' \in [Token -> {None} \cup Session]
          /\ \A t \in Token : tokens'[t] # None => tokens'[t] = tokens[t] /\ tokens[t].account # a
      BY <1>1, <1>3, SurvivorsSame, SurvivorsType DEF AccountsInv
    <2>2. links' \in [Link -> {None} \cup [account : Account, used : BOOLEAN]]
      <3>1. links[l] # None => [links[l] EXCEPT !.used = TRUE] \in [account : Account, used : BOOLEAN]
        BY <1>1 DEF AccountsInv, TypeOK
      <3> QED
        BY <1>1, <1>3, <3>1 DEF AccountsInv, TypeOK
    <2> HIDE DEF a, l
    <2>3. /\ request' = [q \in Request |-> request'[q]] /\ request'[r] = Idle
          /\ \A q \in Request : q # r => request'[q] = Idle \/ (~At(q, "idle") /\ Lasts(q))
      BY <1>1, <1>3, OvertakenLast
    <2>4. CallsOK' /\ request' \in [Request -> {Idle} \cup Call]
      BY <2>3, CallsLast, SinceSame DEF ResetPassword, AccountsInv
    <2>5. OldSessionsEnd' /\ OldCallsEnd'
      <3>1. \A t \in Token : tokens'[t] # None =>
               Known(tokens'[t]) /\ (tokens'[t].old /\ tokens'[t].account = a => tokens'[t].spared)
        BY <2>1 DEF Known
      <3> QED
        BY <1>1, <1>3, <3>1, RemovalEnds
    <2>6. TypeOK'
      BY <2>1, <2>2, <2>4 DEF ResetPassword, AccountsInv, TypeOK
    <2>7. HeldNow' /\ ClaimsRecent' /\ Recorded' /\ SomeoneAdministers'
      BY DEF ResetPassword, AccountsInv, HeldNow, ClaimsRecent, Recorded, SomeoneAdministers, Holds, Exists
    <2> QED
      BY <2>4, <2>5, <2>6, <2>7 DEF AccountsInv
  <1> QED
    BY <1>2, <1>3 DEF ResetPassword

-----------------------------------------------------------------------------
(* The panel and the payment events.                                       *)

(* Whether an account is blocked says nothing of its role. *)
LEMMA BlockingKeepsRoles ==
    ASSUME AccountsInv, NEW a \in Account, NEW b \in BOOLEAN,
           SetBlocked(a, b) \/ UNCHANGED accounts
    PROVE  /\ accounts' \in [Account -> {None} \cup Row]
           /\ \A x \in Account : (accounts'[x] # None <=> accounts[x] # None)
                 /\ (accounts[x] # None => accounts'[x].role = accounts[x].role)
  <1>1. CASE UNCHANGED accounts
    BY <1>1 DEF AccountsInv, TypeOK
  <1>2. CASE Exists(a) /\ accounts' = [accounts EXCEPT ![a].blocked = b]
    <2>1. accounts[a] \in Row /\ accounts[a] # None
      BY <1>2 DEF Exists, AccountsInv, TypeOK
    <2>2. [accounts[a] EXCEPT !.blocked = b] \in Row /\ [accounts[a] EXCEPT !.blocked = b].role = accounts[a].role
      BY <2>1 DEF Row
    <2>3. [accounts[a] EXCEPT !.blocked = b] # None
      BY <2>2, AccountsAssumption
    <2> QED
      BY <1>2, <2>1, <2>2, <2>3 DEF AccountsInv, TypeOK
  <1> QED
    BY <1>1, <1>2 DEF SetBlocked

(* Roles and the time since each right was held are what the rest of the   *)
(* invariant knows of the accounts.                                        *)
LEMMA RolesKept ==
    ASSUME AccountsInv, UNCHANGED <<born, access, since, ousted>>,
           \A x \in Account : (accounts'[x] # None <=> accounts[x] # None)
              /\ (accounts[x] # None => accounts'[x].role = accounts[x].role)
    PROVE  /\ HeldNow' /\ ClaimsRecent' /\ Recorded' /\ SomeoneAdministers'
           /\ \A x \in Account, c \in Role : Holds(x, c)' <=> Holds(x, c)
  <1>1. \A x \in Account, c \in Role : Holds(x, c)' <=> Holds(x, c)
    BY DEF Holds, Exists
  <1>2. HeldNow'
    BY <1>1 DEF AccountsInv, HeldNow, Role
  <1>3. ClaimsRecent' /\ Recorded'
    BY DEF AccountsInv, ClaimsRecent, Recorded, Exists
  <1>4. SomeoneAdministers'
    BY <1>1 DEF AccountsInv, SomeoneAdministers, Role, Right
  <1> QED
    BY <1>1, <1>2, <1>3, <1>4

(* Blocking an account leaves its sessions to request r, which removes them. *)
LEMMA CutOffStep ==
    ASSUME AccountsInv, NEW r \in Request, NEW next \in Call, NEW a \in Account, ~At(r, "revoke"),
           CutOff(r, next, a), next.pc = "revoke", next.session.account = a, ~next.session.old,
           UNCHANGED <<born, since>>
    PROVE  /\ tokens' \in [Token -> {None} \cup Session]
           /\ request' \in [Request -> {Idle} \cup Call]
           /\ CallsOK' /\ OldSessionsEnd' /\ OldCallsEnd'
  <1>1. tokens' = SessionRows(a, Outdated) /\ Overtakes(r, next, a, Outdated)
    BY DEF CutOff
  <1>2. /\ tokens' \in [Token -> {None} \cup Session]
        /\ \A t \in Token : tokens'[t] # None =>
              /\ tokens[t] \in Session /\ tokens'[t].account = tokens[t].account
              /\ tokens[t].account # a => tokens'[t] = tokens[t]
    BY <1>1, MarkedType DEF AccountsInv
  <1>3. /\ request' = [q \in Request |-> request'[q]] /\ request'[r] = next
        /\ \A q \in Request : q # r => request'[q] = Idle \/ (~At(q, "idle") /\ Lasts(q))
        /\ \A q \in Request : q # r /\ ~Granting(q, a) => request'[q] = request[q]
        /\ \A q \in Request : q # r /\ Granting(q, a) => request'[q].session.account = a
    BY <1>1, OvertakenLast
  <1>4. CallOK(r)'
    BY <1>3 DEF CallOK
  <1>5. CallsOK' /\ request' \in [Request -> {Idle} \cup Call]
    BY <1>3, <1>4, CallsLast, SinceSame DEF AccountsInv
  <1>6. ASSUME NEW q \in Request, At(q, "revoke"), Target(q) # None
        PROVE  request'[q].pc = "revoke" /\ request'[q].session.account = Target(q)
    <2>1. q # r /\ ~Granting(q, a)
      BY <1>6 DEF Granting, At
    <2> QED
      BY <1>3, <1>6, <2>1 DEF At, Target
  <1>7. ASSUME NEW s, s.account = a PROVE Known(s)
    BY <1>3, <1>7 DEF Known
  <1>8. ASSUME NEW t \in Token, tokens'[t] # None
        PROVE  Known(tokens'[t]) /\ tokens'[t].account # None
    <2>1. tokens[t] # None /\ tokens'[t].account # None
      <3>1. tokens' = [x \in Token |-> IF tokens[x] # None /\ tokens[x].account = a
                                       THEN Outdated(tokens[x]) ELSE tokens[x]]
        BY <1>1 DEF SessionRows
      <3>2. tokens[t] # None
        BY <1>8, <3>1
      <3>3. tokens[t].account \in Account
        BY <1>2, <1>8 DEF Session
      <3> QED
        BY <1>2, <1>8, <3>2, <3>3, AccountsAssumption
    <2>2. CASE tokens[t].account = a
      BY <1>2, <1>7, <1>8, <2>1, <2>2
    <2>3. CASE tokens[t].account # a
      BY <1>2, <1>8, <2>1, <2>3 DEF Known
    <2> QED
      BY <2>1, <2>2, <2>3
  <1>9. ASSUME NEW q \in Request, request'[q].pc # "idle"
        PROVE  Known(request'[q].session) /\ request'[q].session.account # None
    <2>1. request'[q].session.account # None
      BY <1>5, <1>9, AccountsAssumption DEF Call, Session, Idle
    <2>2. CASE q = r \/ Granting(q, a)
      BY <1>3, <1>7, <2>1, <2>2
    <2>3. CASE q # r /\ ~Granting(q, a)
      BY <1>3, <1>9, <2>1, <2>3 DEF Known, At
    <2> QED
      BY <2>1, <2>2, <2>3
  <1>10. OldSessionsEnd' /\ OldCallsEnd'
    BY <1>6, <1>8, <1>9, SessionsLast
  <1> QED
    BY <1>2, <1>5, <1>10

LEMMA UpdateStatusStep ==
    ASSUME AccountsInv, NEW r \in Request, UNCHANGED calls, UpdateStatus(r)
    PROVE  AccountsInv'
  <1> DEFINE a == Target(r)
  <1>1. /\ request[r] \in Call /\ CallOK(r) /\ a \in Account /\ request[r].pc = "update"
        /\ ~request[r].session.old /\ ~At(r, "revoke") /\ ~At(r, "idle")
    BY CallFields DEF UpdateStatus, At, AccountsInv, CallsOK, CallOK, Grants
  <1>2. UNCHANGED <<born, links, access, since, ousted>>
    BY DEF UpdateStatus
  <1>3. /\ accounts' \in [Account -> {None} \cup Row]
        /\ \A x \in Account : (accounts'[x] # None <=> accounts[x] # None)
              /\ (accounts[x] # None => accounts'[x].role = accounts[x].role)
    BY <1>1, BlockingKeepsRoles DEF UpdateStatus
  <1>4. HeldNow' /\ ClaimsRecent' /\ Recorded' /\ SomeoneAdministers'
    BY <1>2, <1>3, RolesKept
  <1>5. /\ tokens' \in [Token -> {None} \cup Session]
        /\ request' \in [Request -> {Idle} \cup Call]
        /\ CallsOK' /\ OldSessionsEnd' /\ OldCallsEnd'
    <2>1. CASE CutOff(r, [request[r] EXCEPT !.pc = "revoke"], a)
      <3> DEFINE next == [request[r] EXCEPT !.pc = "revoke"]
      <3>1. next \in Call /\ next.pc = "revoke" /\ next.session = request[r].session
        BY <1>1 DEF Call, PC
      <3>2. CutOff(r, next, a)
        BY <2>1
      <3> HIDE DEF next
      <3>3. next.session.account = a
        BY <3>1 DEF Target
      <3> QED
        BY <1>1, <1>2, <3>1, <3>2, <3>3, CutOffStep
    <2>2. CASE Goes(r, "role") /\ UNCHANGED tokens
      <3> DEFINE next == [request[r] EXCEPT !.pc = "role"]
      <3>1. next \in Call /\ next.pc = "role" /\ next.session = request[r].session /\ Becomes(r, next)
        BY <1>1, <2>2 DEF Call, PC, Goes
      <3> HIDE DEF next
      <3>2. /\ request'[r] = next /\ request' = [q \in Request |-> request'[q]]
            /\ \A q \in Request : q # r => request'[q] = request[q]
        BY <3>1 DEF Becomes, AccountsInv, TypeOK
      <3>3. CallOK(r)'
        BY <1>1, <1>2, <3>1, Reads
      <3>4. \A q \in Request : q # r => request'[q] = Idle \/ (~At(q, "idle") /\ Lasts(q))
        BY <3>2, IdleCalls DEF Lasts, AccountsInv
      <3>5. CallsOK' /\ request' \in [Request -> {Idle} \cup Call]
        BY <1>2, <3>1, <3>2, <3>3, <3>4, CallsLast, SinceSame DEF AccountsInv
      <3>6. Known(next.session)
        BY <1>1, <3>1 DEF Known
      <3>7. OldSessionsEnd' /\ OldCallsEnd'
        BY <1>1, <2>2, <3>1, <3>6, SessionsKept
      <3> QED
        BY <2>2, <3>5, <3>7 DEF AccountsInv, TypeOK
    <2> QED
      BY <2>1, <2>2 DEF UpdateStatus
  <1>6. TypeOK'
    BY <1>2, <1>3, <1>5 DEF AccountsInv, TypeOK
  <1> QED
    BY <1>4, <1>5, <1>6 DEF AccountsInv

LEMMA PaymentStep ==
    ASSUME AccountsInv, NEW a \in Account, calls' \in 0 .. MaxCalls,
           \/ PaymentApproved(a)
           \/ \E r \in Request : PaymentRefunded(r, a)
    PROVE  AccountsInv'
  <1>1. /\ accounts' \in [Account -> {None} \cup Row]
        /\ \A x \in Account : (accounts'[x] # None <=> accounts[x] # None)
              /\ (accounts[x] # None => accounts'[x].role = accounts[x].role)
    BY BlockingKeepsRoles DEF PaymentApproved, PaymentRefunded
  <1>2. UNCHANGED <<born, links, access, since, ousted>>
    BY DEF PaymentApproved, PaymentRefunded
  <1>3. HeldNow' /\ ClaimsRecent' /\ Recorded' /\ SomeoneAdministers'
    BY <1>1, <1>2, RolesKept
  <1>4. /\ tokens' \in [Token -> {None} \cup Session]
        /\ request' \in [Request -> {Idle} \cup Call]
        /\ CallsOK' /\ OldSessionsEnd' /\ OldCallsEnd'
    <2>1. CASE PaymentApproved(a)
      <3>1. UNCHANGED <<tokens, request, born, since>>
        BY <2>1 DEF PaymentApproved
      <3>2. CallsOK'
        BY <3>1 DEF AccountsInv, CallsOK, CallOK, At
      <3>3. OldSessionsEnd' /\ OldCallsEnd'
        BY <3>1 DEF AccountsInv, OldSessionsEnd, OldCallsEnd, Ending, At, Target
      <3> QED
        BY <3>1, <3>2, <3>3 DEF AccountsInv, TypeOK
    <2>2. ASSUME NEW r \in Request, PaymentRefunded(r, a)
          PROVE  /\ tokens' \in [Token -> {None} \cup Session]
                 /\ request' \in [Request -> {Idle} \cup Call]
                 /\ CallsOK' /\ OldSessionsEnd' /\ OldCallsEnd'
      <3> DEFINE call == Begun("revoke", Granted(a), None, "user")
      <3>1. call \in Call /\ call.pc = "revoke" /\ ~call.session.old /\ call.session.account = a
        BY BegunType, GrantedType DEF Begun, Granted, PC, Role
      <3>2. CutOff(r, call, a) /\ ~At(r, "revoke")
        BY <2>2 DEF PaymentRefunded, At
      <3> HIDE DEF call
      <3> QED
        BY <1>2, <3>1, <3>2, CutOffStep
    <2> QED
      BY <2>1, <2>2
  <1>5. TypeOK'
    BY <1>1, <1>2, <1>4 DEF AccountsInv, TypeOK
  <1> QED
    BY <1>3, <1>4, <1>5 DEF AccountsInv

LEMMA RevokeStep ==
    ASSUME AccountsInv, NEW r \in Request, UNCHANGED calls, Revoke(r)
    PROVE  AccountsInv'
  <1> DEFINE a == Target(r)
             next == IF request[r].claim \in Right THEN [request[r] EXCEPT !.pc = "role"] ELSE Idle
  <1>1. /\ request[r] \in Call /\ CallOK(r) /\ a \in Account /\ request[r].pc = "revoke"
        /\ ~request[r].session.old
    BY CallFields DEF Revoke, At, AccountsInv, CallsOK, CallOK, Grants
  <1>2. /\ Overtakes(r, next, a, Missed) /\ UNCHANGED <<accounts, born, links, access, since, ousted>>
        /\ tokens' \in {Survivors(tokens, a), SessionRows(a, Missed)}
    BY DEF Revoke
  <1>3. next = Idle \/ (next \in Call /\ next.pc = "role" /\ ~next.session.old)
    BY <1>1 DEF Call, PC
  <1> HIDE DEF next
  <1>4. ASSUME NEW t \in Token, tokens'[t] # None
        PROVE  Known(tokens'[t]) /\ (tokens'[t].old /\ tokens'[t].account = a => tokens'[t].spared)
    <2>1. CASE tokens' = Survivors(tokens, a)
      BY <1>1, <1>4, <2>1, SurvivorsType DEF Known, AccountsInv
    <2>2. CASE tokens' = SessionRows(a, Missed)
      <3>1. /\ tokens[t] \in Session /\ tokens'[t].account = tokens[t].account
            /\ tokens[t].account # a => tokens'[t] = tokens[t]
            /\ tokens[t].account = a => tokens'[t] = Missed(tokens[t])
        BY <1>1, <1>4, <2>2, MarkedType DEF AccountsInv
      <3>2. tokens[t].account = a => ~tokens'[t].old \/ tokens'[t].spared
        BY <3>1, MarkFacts
      <3>3. tokens[t] # None
        BY <1>4, <2>2 DEF SessionRows
      <3> QED
        BY <3>1, <3>2, <3>3 DEF Known
    <2> QED
      BY <1>2, <2>1, <2>2
  <1>5. tokens' \in [Token -> {None} \cup Session]
    BY <1>1, <1>2, SurvivorsType, MarkedType DEF AccountsInv
  <1>6. OldSessionsEnd' /\ OldCallsEnd'
    BY <1>1, <1>2, <1>3, <1>4, RemovalEnds
  <1>7. /\ request' = [q \in Request |-> request'[q]] /\ request'[r] = next
        /\ \A q \in Request : q # r => request'[q] = Idle \/ (~At(q, "idle") /\ Lasts(q))
    BY <1>1, <1>2, OvertakenLast
  <1>8. next = Idle \/ CallOK(r)'
    BY <1>3, <1>7 DEF CallOK
  <1>9. CallsOK' /\ request' \in [Request -> {Idle} \cup Call]
    BY <1>2, <1>3, <1>7, <1>8, CallsLast, SinceSame DEF AccountsInv
  <1>10. TypeOK'
    BY <1>2, <1>5, <1>9 DEF AccountsInv, TypeOK
  <1>11. HeldNow' /\ ClaimsRecent' /\ Recorded' /\ SomeoneAdministers'
    BY <1>2 DEF AccountsInv, HeldNow, ClaimsRecent, Recorded, SomeoneAdministers, Holds, Exists
  <1> QED
    BY <1>6, <1>9, <1>10, <1>11 DEF AccountsInv

(* Who loses a row loses its rights; nobody gets one. *)
LEMMA DeleteStep ==
    ASSUME AccountsInv, NEW r \in Request, UNCHANGED calls, DeleteAccount(r)
    PROVE  AccountsInv'
  <1> DEFINE a == Target(r)
  <1>1. request[r] \in Call /\ a \in Account /\ ~At(r, "revoke")
    BY CallFields DEF DeleteAccount, At, AccountsInv
  <1>2. tokens' \in [Token -> {None} \cup Session] /\ OldSessionsEnd' /\ OldCallsEnd'
    <2>1. /\ tokens' \in [Token -> {None} \cup Session]
          /\ \A t \in Token : tokens'[t] # None => tokens'[t] = tokens[t]
      BY <1>1, SurvivorsType DEF DeleteAccount, AccountsInv
    <2> QED
      BY <1>1, <2>1, SessionsKept DEF DeleteAccount, Ends
  <1>3. /\ links' \in [Link -> {None} \cup [account : Account, used : BOOLEAN]]
        /\ \A l \in Link : links'[l] # None => links'[l] = links[l]
    BY <1>1 DEF DeleteAccount, AccountsInv, TypeOK
  <1>4. /\ accounts' \in [Account -> {None} \cup Row]
        /\ accounts'[a] = None
        /\ \A x \in Account : x # a => accounts'[x] = accounts[x]
        /\ UNCHANGED <<born, access, since>> /\ ousted' = (ousted \/ Holds(a, "admin"))
    BY <1>1 DEF DeleteAccount, AccountsInv, TypeOK
  <1>5. \A x \in Account, c \in Role : Holds(x, c)' <=> (x # a /\ Holds(x, c))
    BY <1>4 DEF Holds, Exists
  <1>6. /\ request' = [q \in Request |-> request'[q]]
        /\ request'[r] = Idle
        /\ \A q \in Request : q # r => request'[q] = request[q]
    BY DEF DeleteAccount, Ends, Becomes, AccountsInv, TypeOK
  <1>7. \A q \in Request : q # r => request'[q] = Idle \/ (~At(q, "idle") /\ Lasts(q))
    BY <1>6, IdleCalls DEF Lasts, AccountsInv
  <1>8. CallsOK' /\ request' \in [Request -> {Idle} \cup Call]
    BY <1>4, <1>6, <1>7, CallsLast, SinceSame DEF AccountsInv
  <1>9. ousted' \in BOOLEAN
    BY <1>4 DEF AccountsInv, TypeOK
  <1>10. TypeOK'
    BY <1>2, <1>3, <1>4, <1>8, <1>9 DEF AccountsInv, TypeOK
  <1>11. HeldNow'
    BY <1>4, <1>5 DEF AccountsInv, HeldNow, Role
  <1>12. ClaimsRecent' /\ Recorded'
    BY <1>4 DEF AccountsInv, ClaimsRecent, Recorded, Exists
  <1>13. SomeoneAdministers'
    BY <1>4, <1>5 DEF AccountsInv, SomeoneAdministers, Role, Right
  <1> QED
    BY <1>2, <1>8, <1>10, <1>11, <1>12, <1>13 DEF AccountsInv

(* The time since the rights that a role gives were held starts anew. *)
LEMMA RightGained ==
    ASSUME AccountsInv, NEW a \in Account, NEW c \in Role,
           since' = [since EXCEPT ![a] = [x \in Right |-> IF x = c THEN 0 ELSE @[x]]],
           UNCHANGED access
    PROVE  /\ since' \in [Account -> [Right -> 0 .. TooLong]] /\ SinceFalls /\ ClaimsRecent'
           /\ c \in Right => since'[a][c] = 0
           /\ \A b \in Account, x \in Right : since[b][x] = 0 => since'[b][x] = 0
  <1> USE AccountsAssumption
  <1>1. \A b \in Account, x \in Right : since[b][x] \in 0 .. TooLong /\ TooLong \in Nat
    BY DEF AccountsInv, TypeOK, TooLong
  <1>2. \A b \in Account, x \in Right : since'[b][x] = IF b = a /\ x = c THEN 0 ELSE since[b][x]
    BY DEF AccountsInv, TypeOK
  <1>3. since' \in [Account -> [Right -> 0 .. TooLong]]
    <2>1. 0 \in 0 .. TooLong
      BY <1>1, AccountsAssumption DEF TooLong
    <2>2. [x \in Right |-> IF x = c THEN 0 ELSE since[a][x]] \in [Right -> 0 .. TooLong]
      BY <1>1, <2>1
    <2> QED
      BY <2>2 DEF AccountsInv, TypeOK
  <1>4. SinceFalls
    BY <1>1, <1>2 DEF SinceFalls
  <1>5. ClaimsRecent'
    <2> SUFFICES ASSUME NEW b \in Account, NEW x \in Right, access[b][x] > 0
                 PROVE  since'[b][x] + access[b][x] <= AccessTTL + 1
      BY DEF ClaimsRecent
    <2>1. since[b][x] + access[b][x] <= AccessTTL + 1 /\ access[b][x] \in Nat
      BY DEF AccountsInv, ClaimsRecent, TypeOK
    <2> QED
      BY <1>1, <1>2, <2>1
  <1> QED
    BY <1>2, <1>3, <1>4, <1>5

LEMMA UpdateRoleStep ==
    ASSUME AccountsInv, NEW r \in Request, NEW c \in Role, UNCHANGED calls, UpdateRole(r, c)
    PROVE  AccountsInv'
  <1> DEFINE a == Target(r)
  <1>1. ~At(r, "revoke") /\ request[r] \in Call /\ a \in Account /\ accounts[a] # None /\ accounts[a] \in Row
    BY CallFields DEF UpdateRole, At, Exists, AccountsInv, TypeOK
  <1>2. /\ [accounts[a] EXCEPT !.role = c] \in Row
        /\ [accounts[a] EXCEPT !.role = c] # None
    BY <1>1, AccountsAssumption DEF Row
  <1>3. /\ accounts' \in [Account -> {None} \cup Row]
        /\ accounts'[a] # None /\ accounts'[a].role = c
        /\ \A x \in Account : x # a => accounts'[x] = accounts[x]
    BY <1>1, <1>2 DEF UpdateRole, AccountsInv, TypeOK, Row
  <1>4. /\ UNCHANGED <<born, tokens, links, access>>
        /\ ousted' = (ousted \/ (Holds(a, "admin") /\ c # "admin"))
        /\ Ends(r)
    BY DEF UpdateRole
  <1>5. \A x \in Account, d \in Role : Holds(x, d)' <=> IF x = a THEN d = c ELSE Holds(x, d)
    BY <1>3 DEF Holds, Exists
  <1>6. /\ since' \in [Account -> [Right -> 0 .. TooLong]] /\ SinceFalls /\ ClaimsRecent'
        /\ c \in Right => since'[a][c] = 0
        /\ \A b \in Account, x \in Right : since[b][x] = 0 => since'[b][x] = 0
    BY <1>1, RightGained DEF UpdateRole
  <1>7. CallsOK' /\ request' \in [Request -> {Idle} \cup Call]
    <2> HIDE DEF a
    <2>1. /\ request' = [q \in Request |-> request'[q]] /\ request'[r] = Idle
          /\ \A q \in Request : q # r => request'[q] = request[q]
      BY <1>4 DEF Ends, Becomes, AccountsInv, TypeOK
    <2>2. \A q \in Request : q # r => request'[q] = Idle \/ (~At(q, "idle") /\ Lasts(q))
      BY <2>1, IdleCalls DEF Lasts, AccountsInv
    <2> QED
      BY <1>4, <1>6, <2>1, <2>2, CallsLast
  <1>8. ousted' \in BOOLEAN
    BY <1>4 DEF AccountsInv, TypeOK
  <1>9. TypeOK' /\ OldSessionsEnd' /\ OldCallsEnd'
    <2>1. TypeOK'
      BY <1>3, <1>4, <1>6, <1>7, <1>8 DEF AccountsInv, TypeOK
    <2> QED
      BY <1>1, <1>4, <2>1, SessionsKept DEF Ends
  <1>10. HeldNow'
    BY <1>5, <1>6 DEF AccountsInv, HeldNow, Role
  <1>11. Recorded'
    BY <1>1, <1>3, <1>4 DEF AccountsInv, Recorded, Exists
  <1>12. SomeoneAdministers'
    BY <1>4, <1>5 DEF AccountsInv, SomeoneAdministers, Role, Right
  <1> QED
    BY <1>6, <1>7, <1>9, <1>10, <1>11, <1>12 DEF AccountsInv

(* The first account of all is an administrator's. *)
LEMMA InsertStep ==
    ASSUME AccountsInv, NEW r \in Request, UNCHANGED calls, InsertAccount(r)
    PROVE  AccountsInv'
  <1> DEFINE a == Target(r) c == request[r].claim
  <1>1. request[r] \in Call /\ CallOK(r) /\ a \in Account /\ c \in Role /\ request[r].pc = "insert"
        /\ ~At(r, "revoke") /\ ~At(r, "idle") /\ ~request[r].session.old
    BY CallFields DEF InsertAccount, At, AccountsInv, CallsOK, CallOK, Grants
  <1>2. UNCHANGED <<tokens, links, access, ousted>>
    BY DEF InsertAccount
  <1>3. CASE a \in born
    <2>1. Ends(r) /\ UNCHANGED <<accounts, born, since>> /\ calls' \in 0 .. MaxCalls
      BY <1>3 DEF InsertAccount, AccountsInv, TypeOK
    <2> QED
      BY <1>1, <1>2, <2>1, Advance DEF Ends
  <1>4. CASE a \notin born
    <2>1. /\ accounts' = [accounts EXCEPT ![a] = [blocked |-> c # "admin", role |-> c]]
          /\ born' = born \cup {a}
          /\ since' = [since EXCEPT ![a] = [x \in Right |-> IF x = c THEN 0 ELSE @[x]]]
          /\ (c = "admin" /\ Goes(r, "issue")) \/ Ends(r)
      BY <1>4 DEF InsertAccount
    <2>2. [blocked |-> c # "admin", role |-> c] \in Row /\ [blocked |-> c # "admin", role |-> c] # None
      <3>1. \A b \in BOOLEAN, d \in Role : [blocked |-> b, role |-> d] \in Row
        BY DEF Row
      <3>2. (c # "admin") \in BOOLEAN
        OBVIOUS
      <3>3. [blocked |-> c # "admin", role |-> c] \in Row
        BY <1>1, <3>1, <3>2
      <3> QED
        BY <3>3, AccountsAssumption
    <2>3. /\ accounts' \in [Account -> {None} \cup Row] /\ born' \in SUBSET Account
          /\ accounts'[a] # None /\ accounts'[a].role = c
          /\ \A x \in Account : x # a => accounts'[x] = accounts[x]
      BY <1>1, <2>1, <2>2 DEF AccountsInv, TypeOK
    <2>4. \A x \in Account, d \in Role : Holds(x, d)' <=> IF x = a THEN d = c ELSE Holds(x, d)
      BY <2>3 DEF Holds, Exists
    <2>5. /\ since' \in [Account -> [Right -> 0 .. TooLong]] /\ SinceFalls /\ ClaimsRecent'
          /\ c \in Right => since'[a][c] = 0
          /\ \A b \in Account, x \in Right : since[b][x] = 0 => since'[b][x] = 0
      BY <1>1, <1>2, <2>1, RightGained
    <2> DEFINE next == request'[r]
    <2>6. /\ Becomes(r, next)
          /\ next = Idle \/ (c = "admin" /\ next = [request[r] EXCEPT !.pc = "issue"])
      BY <2>1 DEF Goes, Ends, Becomes, AccountsInv, TypeOK
    <2>7. /\ request' = [q \in Request |-> request'[q]]
          /\ \A q \in Request : q # r => request'[q] = request[q]
      BY <2>6 DEF Becomes, AccountsInv, TypeOK
    <2>8. \A q \in Request : q # r => request'[q] = Idle \/ (~At(q, "idle") /\ Lasts(q))
      BY <2>7, IdleCalls DEF Lasts, AccountsInv
    <2>9. next = Idle \/ (next \in Call /\ CallOK(r)' /\ ~next.session.old)
      <3> SUFFICES ASSUME c = "admin", next = [request[r] EXCEPT !.pc = "issue"]
                   PROVE  next \in Call /\ CallOK(r)' /\ ~next.session.old
        BY <2>6
      <3>1. next \in Call /\ next.pc = "issue" /\ next.session = request[r].session /\ next.claim = "admin"
        BY <1>1 DEF Call, PC
      <3>2. since'[next.session.account]["admin"] = 0
        BY <2>5, <3>1 DEF Target, Right
      <3> QED
        BY <1>1, <3>1, <3>2 DEF CallOK
    <2>10. CallsOK' /\ request' \in [Request -> {Idle} \cup Call]
      BY <2>1, <2>5, <2>7, <2>8, <2>9, CallsLast
    <2>11. TypeOK'
      BY <1>2, <2>3, <2>5, <2>10 DEF InsertAccount, AccountsInv, TypeOK
    <2>15. OldSessionsEnd' /\ OldCallsEnd'
      <3> HIDE DEF next
      <3>1. next = Idle \/ Known(next.session)
        BY <2>9 DEF Known
      <3> QED
        BY <1>1, <1>2, <2>6, <2>9, <3>1, SessionsKept
    <2>12. HeldNow'
      BY <2>4, <2>5 DEF AccountsInv, HeldNow, Role
    <2>13. Recorded'
      BY <2>1, <2>3 DEF AccountsInv, Recorded, Exists
    <2>14. SomeoneAdministers'
      <3>1. CASE born = {}
        <4>1. c = "admin"
          BY <1>1, <3>1 DEF CallOK
        <4>2. PICK b \in Account : b = a
          BY <1>1
        <4>3. Holds(b, "admin")'
          BY <1>1, <2>4, <4>1, <4>2
        <4> QED
          BY <4>3 DEF SomeoneAdministers
      <3>2. ASSUME born # {}, ~ousted PROVE \E x \in Account : Holds(x, "admin")'
        <4>1. PICK x \in Account : Holds(x, "admin")
          BY <3>2 DEF AccountsInv, SomeoneAdministers
        <4>2. x # a
          BY <1>4, <4>1 DEF Holds, AccountsInv, Recorded
        <4> QED
          BY <2>4, <4>1, <4>2 DEF Role, Right
      <3> QED
        BY <1>2, <3>1, <3>2 DEF SomeoneAdministers
    <2> QED
      BY <2>5, <2>10, <2>11, <2>12, <2>13, <2>14, <2>15 DEF AccountsInv
  <1> QED
    BY <1>3, <1>4

-----------------------------------------------------------------------------
(* Time.                                                                   *)

(* A tick adds one to the time since a right was held only while something *)
(* claims it, and no call that claims it saw a tick before.                *)
LEMMA TickStep ==
    ASSUME AccountsInv, UNCHANGED calls, Tick
    PROVE  AccountsInv'
  <1> USE AccountsAssumption
  <1>1. UNCHANGED <<accounts, born, tokens, links, ousted>>
    BY DEF Tick
  <1>2. ASSUME NEW q \in Request, ~At(q, "idle")
        PROVE  /\ request[q] \in Call /\ CallOK(q) /\ ~request[q].late
               /\ request'[q] = [request[q] EXCEPT !.late = TRUE]
               /\ request'[q] \in Call
    <2>1. request[q] \in Call /\ CallOK(q)
      BY <1>2, CallFields DEF AccountsInv, CallsOK
    <2>2. ~request[q].late /\ request'[q] = [request[q] EXCEPT !.late = TRUE]
      BY <1>2 DEF Tick
    <2> QED
      BY <2>1, <2>2 DEF Call
  <1>3. request' \in [Request -> {Idle} \cup Call]
    BY <1>2 DEF Tick
  <1>4. ASSUME NEW a \in Account, NEW c \in Right
        PROVE  /\ since[a][c] \in Nat /\ since[a][c] <= TooLong /\ TooLong = AccessTTL + 1
               /\ access[a][c] \in Nat /\ access[a][c] <= AccessTTL
               /\ access'[a][c] = IF access[a][c] = 0 THEN 0 ELSE access[a][c] - 1
               /\ since'[a][c] = IF Holds(a, c) THEN 0
                                 ELSE IF since[a][c] = TooLong \/ ~Claimed(a, c) THEN TooLong
                                 ELSE since[a][c] + 1
    BY DEF AccountsInv, TypeOK, Tick, TooLong, Aged
  <1>5. access' \in [Account -> [Right -> 0 .. AccessTTL]]
    <2>1. \A a \in Account, c \in Right : Aged(access[a][c]) \in 0 .. AccessTTL
      BY <1>4 DEF Aged
    <2> QED
      BY <2>1 DEF Tick
  <1>6. since' \in [Account -> [Right -> 0 .. TooLong]]
    <2> DEFINE next(a, c) == IF Holds(a, c) THEN 0
                             ELSE IF since[a][c] = TooLong \/ ~Claimed(a, c) THEN TooLong
                             ELSE since[a][c] + 1
    <2>1. \A a \in Account, c \in Right : next(a, c) \in 0 .. TooLong
      BY <1>4
    <2>2. since' = [a \in Account |-> [c \in Right |-> next(a, c)]]
      BY DEF Tick
    <2> HIDE DEF next
    <2> QED
      BY <2>1, <2>2
  <1>7. TypeOK'
    BY <1>1, <1>3, <1>5, <1>6 DEF AccountsInv, TypeOK
  <1>8. CallsOK'
    <2> SUFFICES ASSUME NEW q \in Request, ~At(q, "idle")' PROVE CallOK(q)'
      BY DEF CallsOK
    <2>1. ~At(q, "idle")
      BY DEF Tick, At, Idle
    <2>2. request[q] \in Call /\ CallOK(q) /\ ~request[q].late
            /\ request'[q] = [request[q] EXCEPT !.late = TRUE]
      BY <1>2, <2>1
    <2>3. ASSUME request[q].pc = "issue", request[q].claim \in Right
          PROVE  since'[request[q].session.account][request[q].claim] <= 1
      <3> DEFINE a == request[q].session.account c == request[q].claim
      <3>1. a \in Account /\ c \in Right
        BY <2>2, <2>3 DEF Call, Session
      <3>2. since[a][c] <= 0
        BY <2>2, <2>3 DEF CallOK
      <3>3. Claimed(a, c)
        BY <2>3 DEF Claimed, At, Target
      <3> HIDE DEF a, c
      <3>4. since'[a][c] <= 1
        BY <1>4, <3>1, <3>2, <3>3
      <3> QED
        BY <3>4 DEF a, c
    <2> DEFINE next == request'[q]
    <2>4. /\ next.pc = request[q].pc /\ next.session = request[q].session
          /\ next.subject = request[q].subject /\ next.claim = request[q].claim /\ next.late
      BY <2>2 DEF Call
    <2>5. next.pc = "issue" /\ next.claim \in Right =>
              since'[next.session.account][next.claim] <= IF next.late THEN 1 ELSE 0
      BY <2>3, <2>4
    <2> HIDE DEF next
    <2> QED
      BY <1>1, <2>2, <2>4, <2>5 DEF CallOK, Holds, Exists, next
  <1>9. HeldNow'
    BY <1>1, <1>4 DEF HeldNow, Holds, Exists
  <1>10. ClaimsRecent'
    <2> SUFFICES ASSUME NEW a \in Account, NEW c \in Right, access'[a][c] > 0
                 PROVE  since'[a][c] + access'[a][c] <= AccessTTL + 1
      BY DEF ClaimsRecent
    <2>1. access[a][c] > 1 /\ access'[a][c] = access[a][c] - 1
      BY <1>4
    <2>2. since[a][c] + access[a][c] <= AccessTTL + 1 /\ Claimed(a, c)
      BY <1>4, <2>1 DEF AccountsInv, ClaimsRecent, Claimed
    <2> QED
      BY <1>4, <2>1, <2>2
  <1>11. Recorded' /\ SomeoneAdministers'
    BY <1>1 DEF AccountsInv, Recorded, SomeoneAdministers, Holds, Exists
  <1>12. OldSessionsEnd' /\ OldCallsEnd'
    <2>1. ASSUME NEW q \in Request, ~At(q, "idle")
          PROVE  request'[q].pc = request[q].pc /\ request'[q].session = request[q].session
      BY <1>2, <2>1 DEF Call
    <2>2. \A q \in Request : ~At(q, "idle")' => ~At(q, "idle")
      BY DEF Tick, At, Idle
    <2>3. \A q \in Request : At(q, "revoke") => ~At(q, "idle")
      BY DEF At
    <2>4. \A x : Ending(x) => Ending(x)'
      BY <2>1, <2>3 DEF Ending, At, Target
    <2>5. OldSessionsEnd'
      BY <1>1, <2>4 DEF AccountsInv, OldSessionsEnd
    <2>6. OldCallsEnd'
      BY <2>1, <2>2, <2>4 DEF AccountsInv, OldCallsEnd, Target
    <2> QED
      BY <2>5, <2>6
  <1> QED
    BY <1>7, <1>8, <1>9, <1>10, <1>11, <1>12 DEF AccountsInv

-----------------------------------------------------------------------------
(* The invariance of AccountsInv, and what follows from it.                *)

LEMMA AccountsStep == AccountsInv /\ [Next]_vars => AccountsInv'
  <1> SUFFICES ASSUME AccountsInv, [Next]_vars PROVE AccountsInv'
    OBVIOUS
  <1>1. ASSUME NEW r \in Request, Begin(r) PROVE AccountsInv'
    <2>1. calls' \in 0 .. MaxCalls
      BY <1>1, AccountsAssumption DEF Begin, AccountsInv, TypeOK
    <2>2. CASE \E a \in Account : PaymentRefunded(r, a)
      BY <2>1, <2>2, PaymentStep
    <2>3. CASE ~\E a \in Account : PaymentRefunded(r, a)
      BY <1>1, <2>1, <2>3, BeginStep DEF Begin
    <2> QED
      BY <2>2, <2>3
  <1>2. ASSUME NEW r \in Request, Continue(r), UNCHANGED calls PROVE AccountsInv'
    <2>1. CASE \/ LoadAccount(r) \/ Impersonate(r) \/ CheckTarget(r) \/ CheckFails(r)
               \/ UpdateDone(r)
      BY <1>2, <2>1, ReadStep
    <2>2. CASE InsertAccount(r)
      BY <1>2, <2>2, InsertStep
    <2>3. CASE Issue(r)
      BY <1>2, <2>3, IssueStep
    <2>4. CASE Rotate(r)
      BY <1>2, <2>4, RotateStep
    <2>5. CASE ResetPassword(r)
      BY <1>2, <2>5, ResetStep
    <2>6. CASE UpdateStatus(r)
      BY <1>2, <2>6, UpdateStatusStep
    <2>7. CASE Revoke(r)
      BY <1>2, <2>7, RevokeStep
    <2>8. ASSUME NEW c \in Role, UpdateRole(r, c) PROVE AccountsInv'
      BY <1>2, <2>8, UpdateRoleStep
    <2>9. CASE DeleteAccount(r)
      BY <1>2, <2>9, DeleteStep
    <2> QED
      BY <1>2, <2>1, <2>2, <2>3, <2>4, <2>5, <2>6, <2>7, <2>8, <2>9 DEF Continue
  <1>3. ASSUME Environment, UNCHANGED calls PROVE AccountsInv'
    <2>1. ASSUME NEW t \in Token, Logout(t) PROVE AccountsInv'
      BY <1>3, <2>1, LogoutStep
    <2>2. ASSUME NEW l \in Link, PurgeLink(l) \/ \E a \in Account : RequestPasswordReset(a, l)
          PROVE  AccountsInv'
      BY <1>3, <2>2, LinkStep
    <2>3. ASSUME NEW a \in Account, PaymentApproved(a) PROVE AccountsInv'
      <3>1. calls' \in 0 .. MaxCalls
        BY <1>3 DEF AccountsInv, TypeOK
      <3> QED
        BY <2>3, <3>1, PaymentStep
    <2>4. CASE Tick
      BY <1>3, <2>4, TickStep
    <2> QED
      BY <1>3, <2>1, <2>2, <2>3, <2>4 DEF Environment
  <1>4. CASE UNCHANGED vars
    <2>1. TypeOK' /\ CallsOK'
      BY <1>4 DEF vars, AccountsInv, TypeOK, CallsOK, CallOK, At
    <2>2. OldSessionsEnd' /\ OldCallsEnd'
      BY <1>4 DEF vars, AccountsInv, OldSessionsEnd, OldCallsEnd, Ending, At, Target
    <2>3. HeldNow' /\ ClaimsRecent' /\ Recorded' /\ SomeoneAdministers'
      BY <1>4 DEF vars, AccountsInv, HeldNow, ClaimsRecent, Recorded, SomeoneAdministers, Holds, Exists
    <2> QED
      BY <2>1, <2>2, <2>3 DEF AccountsInv
  <1> QED
    BY <1>1, <1>2, <1>3, <1>4 DEF Next

THEOREM AccountsInvariance == Spec => []AccountsInv
  BY AccountsStart, AccountsStep, PTL DEF Spec

(* The tables, the calls in flight and the history have their types.       *)
THEOREM AccountsTypes == Spec => []TypeOK
  <1>1. AccountsInv => TypeOK
    BY DEF AccountsInv
  <1> QED
    BY <1>1, AccountsInvariance, PTL

(* Blocking an account or giving it a new password ends the sessions it had, *)
(* whatever requests rotate or issue tokens meanwhile, but for those that a *)
(* request had checked before the removal and inserts after it, and for    *)
(* removals that fail (auth/recovery.go, api/handlers/admin.go).           *)
THEOREM SessionsEnd == Spec => []OldSessionsEnd
  <1>1. AccountsInv => OldSessionsEnd
    BY DEF AccountsInv
  <1> QED
    BY <1>1, AccountsInvariance, PTL

(* No access token claims a right that its account lost more than its life *)
(* ago, however often refresh tokens are rotated (auth/service.go).        *)
THEOREM LostRightsExpire == Spec => []LostRightExpires
  <1>1. AccountsInv => LostRightExpires
    <2> SUFFICES ASSUME AccountsInv, NEW a \in Account, NEW c \in Right, access[a][c] > 0
                 PROVE  since[a][c] <= AccessTTL
      BY DEF LostRightExpires
    <2>1. since[a][c] \in Nat /\ access[a][c] \in Nat /\ since[a][c] + access[a][c] <= AccessTTL + 1
      BY AccountsAssumption DEF AccountsInv, TypeOK, TooLong, ClaimsRecent
    <2> QED
      BY <2>1, AccountsAssumption
  <1> QED
    BY <1>1, AccountsInvariance, PTL

(* In whatever order the first registrations run, there is an administrator *)
(* until one is demoted or deleted (auth/service.go).                       *)
THEOREM FirstAccountAdministers == Spec => []SomeoneAdministers
  <1>1. AccountsInv => SomeoneAdministers
    BY DEF AccountsInv
  <1> QED
    BY <1>1, AccountsInvariance, PTL

-----------------------------------------------------------------------------
(* Projects.                                                               *)

(* The parts of the type invariant, by what they speak of. *)
ProjectRowsOK ==
    /\ projects \subseteq ProjectRow /\ used \subseteq Project \cup Key
    /\ \A row \in projects : {row.project, row.key} \subseteq used
    /\ \A a, b \in projects : a.project = b.project \/ a.key = b.key => a = b

CacheOK == \A k \in Key : cache[k] = Absent \/ (cache[k] \in Entry /\ cache[k].copy.row.key = k)

LookupsOK == lookup \in [Connection -> LookupState] /\ late \subseteq Holding

(* A request that has seen no tick since its query holds a fresh row. *)
FreshUntilTick == \A q \in Holding \ late : lookup[q].copy.age = 0

CacheIsFunction == DOMAIN cache = Key

ProjectsInv ==
    /\ ProjectRowsOK /\ CacheOK /\ LookupsOK /\ CacheIsFunction
    /\ ResolvedRowRecent /\ FreshUntilTick

LEMMA ProjectsStart == ProjectsInit => ProjectsInv
  <1> SUFFICES ASSUME ProjectsInit PROVE ProjectsInv
    OBVIOUS
  <1>1. ProjectRowsOK /\ CacheOK /\ CacheIsFunction
    BY DEF ProjectsInit, ProjectRowsOK, CacheOK, CacheIsFunction
  <1>2. Holding = {} /\ LookupsOK
    BY DEF ProjectsInit, Holding, LookupsOK, LookupState
  <1>3. ResolvedRowRecent /\ FreshUntilTick
    BY <1>2 DEF ProjectsInit, ResolvedRowRecent, FreshUntilTick
  <1> QED
    BY <1>1, <1>2, <1>3 DEF ProjectsInv

-----------------------------------------------------------------------------
(* The dashboard's edits change the rows alone.                            *)

LEMMA ReplaceKeepsRows ==
    ASSUME ProjectRowsOK, NEW row \in projects, NEW new \in ProjectRow, new.project = row.project,
           Replace(row, new),
           \/ new.key = row.key /\ UNCHANGED used
           \/ new.key \in Key /\ new.key \notin used /\ used' = used \cup {new.key}
    PROVE  ProjectRowsOK'
  <1>1. projects' = (projects \ {row}) \cup {new}
    BY DEF Replace
  <1>2. \A a \in projects \ {row} : a.project # new.project /\ a.key # new.key
    BY DEF ProjectRowsOK
  <1>3. new.project \in used' /\ new.key \in used' /\ used \subseteq used' /\ used' \subseteq Project \cup Key
    BY DEF ProjectRowsOK
  <1>4. \A a, b \in projects' : a.project = b.project \/ a.key = b.key => a = b
    BY <1>1, <1>2 DEF ProjectRowsOK
  <1>5. \A a \in projects' : {a.project, a.key} \subseteq used'
    BY <1>1, <1>3 DEF ProjectRowsOK
  <1>6. projects' \subseteq ProjectRow
    BY <1>1 DEF ProjectRowsOK
  <1> QED
    BY <1>3, <1>4, <1>5, <1>6 DEF ProjectRowsOK

LEMMA EditKeepsRows == ProjectRowsOK /\ Edit => ProjectRowsOK' /\ UNCHANGED <<cache, lookup, late>>
  <1> SUFFICES ASSUME ProjectRowsOK, Edit PROVE ProjectRowsOK' /\ UNCHANGED <<cache, lookup, late>>
    OBVIOUS
  <1>1. ASSUME NEW p \in Project, NEW k \in Key, NEW d \in Domain, CreateProject(p, k, d)
        PROVE  ProjectRowsOK' /\ UNCHANGED <<cache, lookup, late>>
    <2> DEFINE new == [project |-> p, key |-> k, domain |-> d, protect |-> FALSE]
    <2>1. new \in ProjectRow /\ new.project = p /\ new.key = k
      BY DEF ProjectRow
    <2>2. /\ projects' = projects \cup {new} /\ used' = used \cup {p, k}
          /\ p \notin used /\ k \notin used
      BY <1>1 DEF CreateProject
    <2> HIDE DEF new
    <2>3. \A a \in projects : a.project # p /\ a.key # k
      BY <2>2 DEF ProjectRowsOK
    <2>4. ProjectRowsOK'
      BY <2>1, <2>2, <2>3 DEF ProjectRowsOK
    <2> QED
      BY <1>1, <2>4 DEF CreateProject
  <1>2. ASSUME NEW row \in projects, NEW d \in Domain \cup {NoDomain}, UpdateProject(row, d)
        PROVE  ProjectRowsOK' /\ UNCHANGED <<cache, lookup, late>>
    <2>1. row \in ProjectRow
      BY DEF ProjectRowsOK
    <2>2. LET new == [row EXCEPT !.domain = d]
          IN  new \in ProjectRow /\ new.project = row.project /\ new.key = row.key
      BY <2>1 DEF ProjectRow
    <2> QED
      BY <1>2, <2>2, ReplaceKeepsRows DEF UpdateProject, Replace
  <1>3. ASSUME NEW row \in projects, NEW b \in BOOLEAN, SetCloneProtection(row, b)
        PROVE  ProjectRowsOK' /\ UNCHANGED <<cache, lookup, late>>
    <2>1. row \in ProjectRow
      BY DEF ProjectRowsOK
    <2>2. LET new == [row EXCEPT !.protect = b]
          IN  new \in ProjectRow /\ new.project = row.project /\ new.key = row.key
      BY <2>1 DEF ProjectRow
    <2> QED
      BY <1>3, <2>2, ReplaceKeepsRows DEF SetCloneProtection, Replace
  <1>4. ASSUME NEW row \in projects, NEW k \in Key, RotateAPIKey(row, k)
        PROVE  ProjectRowsOK' /\ UNCHANGED <<cache, lookup, late>>
    <2>1. row \in ProjectRow
      BY DEF ProjectRowsOK
    <2>2. LET new == [row EXCEPT !.key = k]
          IN  new \in ProjectRow /\ new.project = row.project /\ new.key = k
      BY <2>1 DEF ProjectRow
    <2> QED
      BY <1>4, <2>2, ReplaceKeepsRows DEF RotateAPIKey, Replace
  <1>5. ASSUME NEW row \in projects, DeleteProject(row)
        PROVE  ProjectRowsOK' /\ UNCHANGED <<cache, lookup, late>>
    BY <1>5 DEF DeleteProject, ProjectRowsOK
  <1> QED
    BY <1>1, <1>2, <1>3, <1>4, <1>5 DEF Edit

-----------------------------------------------------------------------------
(* Requests and time.                                                      *)

LEMMA GetCachedStep ==
    ASSUME ProjectsInv, NEW q \in Connection, NEW k \in Key, GetCached(q, k)
    PROVE  ProjectsInv'
  <1>1. /\ lookup[q].pc = "idle" /\ UNCHANGED <<projects, used, cache, late>>
        /\ lookup' \in [Connection -> LookupState]
        /\ lookup'[q].pc \in {"idle", "handler", "select"}
        /\ \A r \in Connection \ {q} : lookup'[r] = lookup[r]
    BY DEF GetCached, DomainCheck, ProjectsInv, LookupsOK, LookupState
  <1>2. Holding' = Holding
    BY <1>1 DEF Holding
  <1>3. q \notin Holding
    BY <1>1 DEF Holding
  <1>4. \A r \in Holding : lookup'[r] = lookup[r]
    BY <1>1, <1>3 DEF Holding
  <1> QED
    BY <1>1, <1>2, <1>4
       DEF ProjectsInv, ProjectRowsOK, CacheOK, CacheIsFunction, LookupsOK, ResolvedRowRecent, FreshUntilTick

LEMMA SelectStep ==
    ASSUME ProjectsInv, NEW q \in Connection, Select(q)
    PROVE  ProjectsInv'
  <1>1. lookup[q].pc = "select" /\ UNCHANGED <<projects, used, cache, late>>
    BY DEF Select
  <1>2. /\ lookup' \in [Connection -> LookupState]
        /\ \A r \in Connection \ {q} : lookup'[r] = lookup[r]
        /\ lookup'[q].pc = "idle" \/ (lookup'[q].pc = "store" /\ lookup'[q].copy.age = 0)
    <2>1. CASE lookup' = [lookup EXCEPT ![q] = [pc |-> "idle"]]
      BY <2>1 DEF ProjectsInv, LookupsOK, LookupState
    <2>2. ASSUME NEW row \in projects,
                 lookup' = [lookup EXCEPT ![q] =
                               [pc |-> "store", copy |-> [row |-> row, age |-> 0]]]
          PROVE  <1>2!1 /\ <1>2!2 /\ <1>2!3
      <3>1. [pc |-> "store", copy |-> [row |-> row, age |-> 0]] \in LookupState
        BY ProjectsAssumption DEF ProjectsInv, ProjectRowsOK, LookupState, Copy, TooOld
      <3> QED
        BY <2>2, <3>1 DEF ProjectsInv, LookupsOK
    <2> QED
      BY <2>1, <2>2 DEF Select
  <1>3. q \notin Holding /\ q \notin late /\ Holding \subseteq Holding' /\ Holding' \subseteq Holding \cup {q}
    BY <1>1, <1>2 DEF Holding, ProjectsInv, LookupsOK
  <1>4. \A r \in Holding : lookup'[r] = lookup[r]
    BY <1>2, <1>3 DEF Holding
  <1>5. LookupsOK' /\ FreshUntilTick'
    BY <1>1, <1>2, <1>3, <1>4 DEF ProjectsInv, LookupsOK, FreshUntilTick, Holding
  <1>6. ResolvedRowRecent'
    BY <1>1, <1>2, <1>3, <1>4 DEF ProjectsInv, ResolvedRowRecent, Holding
  <1> QED
    BY <1>1, <1>5, <1>6 DEF ProjectsInv, ProjectRowsOK, CacheOK, CacheIsFunction

LEMMA SetCachedStep ==
    ASSUME ProjectsInv, NEW q \in Connection, SetCached(q)
    PROVE  ProjectsInv'
  <1> DEFINE copy == lookup[q].copy
             entry == [copy |-> copy, ttl |-> CacheTTL]
  <1>1. /\ lookup[q].pc = "store" /\ late' = late \ {q} /\ UNCHANGED <<projects, used>>
        /\ cache' \in {cache, [cache EXCEPT ![copy.row.key] = entry]}
    BY DEF SetCached
  <1>2. /\ lookup' \in [Connection -> LookupState]
        /\ lookup'[q].pc \in {"idle", "handler"}
        /\ \A r \in Connection \ {q} : lookup'[r] = lookup[r]
    BY DEF SetCached, DomainCheck, ProjectsInv, LookupsOK, LookupState
  <1>3. Holding' = Holding \ {q} /\ q \in Holding /\ \A r \in Holding' : lookup'[r] = lookup[r]
    BY <1>1, <1>2 DEF Holding
  <1>4. copy \in Copy /\ copy.age <= 1 /\ copy.row.key \in Key
    <2>1. copy \in Copy
      BY <1>1 DEF ProjectsInv, LookupsOK, LookupState
    <2>2. copy.age <= 1
      BY <1>3 DEF ProjectsInv, ResolvedRowRecent
    <2> QED
      BY <2>1, <2>2 DEF Copy, ProjectRow
  <1>5. entry \in Entry /\ entry.copy = copy /\ entry.ttl = CacheTTL
    BY <1>4, ProjectsAssumption DEF Entry
  <1> HIDE DEF copy, entry
  <1>6. /\ DOMAIN cache' = Key
        /\ \A k \in Key : cache'[k] = cache[k] \/ (k = copy.row.key /\ cache'[k] = entry)
    BY <1>1, <1>4 DEF ProjectsInv, CacheIsFunction
  <1>7. CacheOK' /\ CacheIsFunction'
    BY <1>5, <1>6 DEF ProjectsInv, CacheOK, CacheIsFunction
  <1>8. ResolvedRowRecent'
    <2>1. entry.copy.age <= CacheTTL + 1 - entry.ttl
      <3>1. copy.age \in Nat
        BY <1>4 DEF Copy, TooOld
      <3> QED
        BY <1>4, <1>5, <3>1, ProjectsAssumption
    <2>2. \A k \in Key : cache'[k] # Absent => cache'[k].copy.age <= CacheTTL + 1 - cache'[k].ttl
      BY <1>6, <2>1 DEF ProjectsInv, ResolvedRowRecent
    <2>3. \A r \in Holding' : lookup'[r].copy.age <= 1
      BY <1>3 DEF ProjectsInv, ResolvedRowRecent
    <2> QED
      BY <2>2, <2>3 DEF ResolvedRowRecent
  <1>9. LookupsOK' /\ FreshUntilTick'
    BY <1>1, <1>2, <1>3 DEF ProjectsInv, LookupsOK, FreshUntilTick
  <1> QED
    BY <1>1, <1>7, <1>8, <1>9 DEF ProjectsInv, ProjectRowsOK

LEMMA HandleStep ==
    ASSUME ProjectsInv, NEW q \in Connection, Handle(q)
    PROVE  ProjectsInv'
  <1>1. /\ lookup[q].pc = "handler" /\ UNCHANGED <<projects, used, cache, late>>
        /\ lookup' \in [Connection -> LookupState] /\ lookup'[q].pc = "idle"
        /\ \A r \in Connection \ {q} : lookup'[r] = lookup[r]
    BY DEF Handle, ProjectsInv, LookupsOK, LookupState
  <1>2. Holding' = Holding /\ \A r \in Holding : lookup'[r] = lookup[r]
    BY <1>1 DEF Holding
  <1> QED
    BY <1>1, <1>2
       DEF ProjectsInv, ProjectRowsOK, CacheOK, CacheIsFunction, LookupsOK, ResolvedRowRecent, FreshUntilTick

(* A tick ages every copy by one, and takes one from the time an entry has. *)
LEMMA CacheTickStep ==
    ASSUME ProjectsInv, CacheTick
    PROVE  ProjectsInv'
  <1> USE ProjectsAssumption
  <1>1. \A n \in 0 .. TooOld : Older(n) \in 0 .. TooOld /\ Older(n) <= n + 1
    BY DEF Older, TooOld
  <1>2. ASSUME NEW k \in Key
        PROVE  /\ cache'[k] = Absent \/ (cache'[k] \in Entry /\ cache'[k].copy.row.key = k)
               /\ cache'[k] # Absent => cache'[k].copy.age <= CacheTTL + 1 - cache'[k].ttl
    <2>1. cache'[k] = IF cache[k].ttl <= 1 THEN Absent
                      ELSE [cache[k] EXCEPT !.ttl = @ - 1, !.copy.age = Older(@)]
      BY DEF CacheTick
    <2>2. CASE cache[k].ttl <= 1
      BY <2>1, <2>2
    <2>3. CASE ~(cache[k].ttl <= 1)
      <3>1. cache[k] \in Entry /\ cache[k].copy.row.key = k
        BY <2>3 DEF ProjectsInv, CacheOK, Absent
      <3>2. PICK row \in ProjectRow, age \in 0 .. TooOld, ttl \in 1 .. CacheTTL :
               cache[k] = [copy |-> [row |-> row, age |-> age], ttl |-> ttl]
        BY <3>1 DEF Entry, Copy
      <3>3. cache'[k] = [copy |-> [row |-> row, age |-> Older(age)], ttl |-> ttl - 1]
        <4>1. cache'[k] = [cache[k] EXCEPT !.ttl = @ - 1, !.copy.age = Older(@)]
          BY <2>1, <2>3
        <4>2. cache'[k].copy = [cache[k].copy EXCEPT !.age = Older(@)]
          BY <3>2, <4>1
        <4>3. cache'[k].copy = [row |-> row, age |-> Older(age)]
          BY <3>2, <4>2
        <4>4. cache'[k] = [copy |-> cache'[k].copy, ttl |-> ttl - 1]
          <5> DEFINE shorter == [cache[k] EXCEPT !.ttl = @ - 1]
          <5>1. shorter = [copy |-> cache[k].copy, ttl |-> ttl - 1]
            BY <3>2
          <5>2. cache'[k] = [shorter EXCEPT !.copy.age = Older(@)]
            BY <4>1
          <5> HIDE DEF shorter
          <5> QED
            BY <5>1, <5>2
        <4> QED
          BY <4>3, <4>4
      <3>4. ttl - 1 \in 1 .. CacheTTL /\ Older(age) \in 0 .. TooOld /\ Older(age) <= age + 1
        BY <1>1, <2>3, <3>2
      <3>5. cache'[k] \in Entry /\ cache'[k].copy.row.key = k
        BY <3>1, <3>2, <3>3, <3>4 DEF Entry, Copy
      <3>6. cache[k] # Absent
        BY <2>3, <3>2 DEF Absent
      <3>7. age <= CacheTTL + 1 - ttl
        BY <3>2, <3>6 DEF ProjectsInv, ResolvedRowRecent
      <3>8. Older(age) <= CacheTTL + 1 - (ttl - 1)
        BY <3>4, <3>7 DEF TooOld
      <3> QED
        BY <3>3, <3>5, <3>8
    <2> QED
      BY <2>2, <2>3
  <1>3. /\ late' = Holding /\ UNCHANGED <<projects, used>>
        /\ DOMAIN cache' = Key /\ lookup' \in [Connection -> LookupState]
        /\ Holding' = Holding /\ \A q \in Holding : lookup'[q].copy.age <= 1
    <2>1. ASSUME NEW q \in Connection
          PROVE  /\ lookup'[q] \in LookupState /\ lookup'[q].pc = lookup[q].pc
                 /\ q \in Holding => lookup'[q].copy.age <= 1
      <3>1. CASE q \in Holding
        <4>1. lookup[q].pc = "store" /\ lookup[q].copy \in Copy /\ lookup[q].copy.age = 0
          BY <3>1 DEF CacheTick, ProjectsInv, FreshUntilTick, LookupsOK, LookupState, Holding
        <4>2. PICK row \in ProjectRow : lookup[q] = [pc |-> "store", copy |-> [row |-> row, age |-> 0]]
          BY <4>1 DEF ProjectsInv, LookupsOK, LookupState, Copy
        <4>3. lookup'[q] = [pc |-> "store", copy |-> [row |-> row, age |-> Older(0)]]
          <5>1. lookup'[q] = [lookup[q] EXCEPT !.copy.age = Older(@)]
            BY <3>1 DEF CacheTick
          <5>2. lookup'[q].copy = [lookup[q].copy EXCEPT !.age = Older(@)]
            BY <4>2, <5>1
          <5>3. lookup'[q].copy = [row |-> row, age |-> Older(0)]
            BY <4>2, <5>2
          <5>4. lookup'[q] = [pc |-> "store", copy |-> lookup'[q].copy]
            BY <4>2, <5>1
          <5> QED
            BY <5>3, <5>4
        <4>4. Older(0) \in 0 .. TooOld /\ Older(0) <= 1
          BY <1>1 DEF TooOld
        <4> QED
          BY <4>1, <4>3, <4>4 DEF LookupState, Copy
      <3>2. CASE q \notin Holding
        BY <3>2 DEF CacheTick, ProjectsInv, LookupsOK
      <3> QED
        BY <3>1, <3>2
    <2>2. Holding' = Holding
      BY <2>1 DEF Holding
    <2>3. lookup' = [q \in Connection |-> lookup'[q]] /\ DOMAIN cache' = Key
      BY DEF CacheTick
    <2> QED
      BY <2>1, <2>2, <2>3 DEF CacheTick, Holding
  <1>4. CacheOK' /\ ResolvedRowRecent'
    BY <1>2, <1>3 DEF CacheOK, ResolvedRowRecent
  <1> QED
    BY <1>3, <1>4 DEF ProjectsInv, ProjectRowsOK, CacheIsFunction, LookupsOK, FreshUntilTick

LEMMA ProjectsStep == ProjectsInv /\ [ProjectsNext]_projectVars => ProjectsInv'
  <1> SUFFICES ASSUME ProjectsInv, [ProjectsNext]_projectVars PROVE ProjectsInv'
    OBVIOUS
  <1>1. ASSUME Edit PROVE ProjectsInv'
    BY <1>1, EditKeepsRows
       DEF ProjectsInv, CacheOK, CacheIsFunction, LookupsOK, ResolvedRowRecent, FreshUntilTick, Holding
  <1>2. ASSUME UNCHANGED projectVars PROVE ProjectsInv'
    BY <1>2 DEF projectVars, ProjectsInv, ProjectRowsOK, CacheOK, CacheIsFunction, LookupsOK, ResolvedRowRecent,
                FreshUntilTick, Holding
  <1> QED
    BY <1>1, <1>2, GetCachedStep, SelectStep, SetCachedStep, HandleStep, CacheTickStep
       DEF ProjectsNext, LookupStep

-----------------------------------------------------------------------------
(* The results.                                                            *)

(* The inductive invariant holds in every reachable state. *)
THEOREM ProjectsInvariance == ProjectsSpec => []ProjectsInv
  <1> QED
    BY ProjectsStart, ProjectsStep, PTL DEF ProjectsSpec

(* Every variable keeps its type, a project has one row and a key one       *)
(* project (createProject, RotateAPIKey), and a cached row is under its key *)
(* (Cache.SetProject).                                                      *)
THEOREM ProjectsTypes == ProjectsSpec => []ProjectsTypeOK
  <1>1. ProjectsInv => ProjectsTypeOK
    BY DEF ProjectsInv, ProjectRowsOK, CacheOK, LookupsOK, ProjectsTypeOK
  <1> QED
    BY <1>1, ProjectsInvariance, PTL

(* A row that a request may use left Postgres no longer ago than the time   *)
(* to live of the cache and one tick (resolveProject), whatever was edited, *)
(* rotated or deleted meanwhile.                                            *)
THEOREM ResolvedRowsRecent == ProjectsSpec => []ResolvedRowRecent
  <1>1. ProjectsInv => ResolvedRowRecent
    BY DEF ProjectsInv
  <1> QED
    BY <1>1, ProjectsInvariance, PTL
=============================================================================
