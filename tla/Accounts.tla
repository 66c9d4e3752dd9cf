------------------------------ MODULE Accounts ------------------------------
(***************************************************************************)
(* Accounts and their sessions: registration, login, impersonation and the *)
(* rotation of refresh tokens (auth/service.go), password resets           *)
(* (auth/recovery.go), the check of every request of the dashboard         *)
(* (api/middleware/jwt.go, admin.go), the administration of accounts       *)
(* (api/handlers/admin.go) and the payment events that approve or suspend  *)
(* an account (billing/pixup.go).                                          *)
(*                                                                         *)
(* A handler is a request that runs statement by statement; a transaction  *)
(* is one step.  Statuses "pending" and "suspended" are refused alike and  *)
(* are one here: blocked.  A refresh token and a reset link may expire at  *)
(* any time; the life of an access token is counted in ticks, of which a   *)
(* request sees one at most.  Passwords themselves, plans, quotas, mail    *)
(* and the verification of addresses are left out.                         *)
(***************************************************************************)
EXTENDS Naturals

CONSTANTS
    Account,   \* ids of accounts, never used twice
    Request,   \* connections that serve requests
    Token,     \* ids of rows of auth_tokens
    Link,      \* ids of rows of password_reset_tokens
    MaxCalls,  \* bound on the calls that go through the requests
    AccessTTL, \* life of an access token (fifteen minutes), in ticks
    None

(* is_admin comes before is_manager wherever both are asked for. *)
Right == {"admin", "manager"}
Role == Right \cup {"user"}
Row == [blocked : BOOLEAN, role : Role]

(* The absence of a row is no row, and no id of one. *)
ASSUME AccountsAssumption ==
    MaxCalls \in Nat /\ AccessTTL \in Nat \ {0} /\ None \notin Account \cup Token \cup Link \cup Row

(* A session, and as history whether its account has been cut off (blocked *)
(* or given a new password) since the session was granted, and whether the *)
(* DELETE that is to end it missed it: it failed, or a request was going   *)
(* to insert the session only later.                                       *)
Session == [account : Account, old : BOOLEAN, spared : BOOLEAN]
Granted(a) == [account |-> a, old |-> FALSE, spared |-> FALSE]

PC == {"insert", "rotate", "load", "issue", "hash", "panel", "update", "revoke", "role"}
Call == [pc : PC, session : Session, subject : Token \cup Link \cup {None},
         claim : Role, late : BOOLEAN]
Idle == [pc |-> "idle"]
Begun(pc, s, x, c) ==
    [pc |-> pc, session |-> s, subject |-> x, claim |-> c, late |-> FALSE]

VARIABLES
    accounts, \* the rows of accounts
    born,     \* accounts that were ever inserted
    tokens,   \* auth_tokens: the session of each row
    links,    \* password_reset_tokens: [account, used] of each row
    access,   \* per account and right: ticks left of the last access token that claims it
    request,  \* per connection: the call it serves
    since,    \* history: ticks since the account last had a right that is claimed, capped
    ousted,   \* history: some administrator was deleted or lost the role
    calls     \* history: calls begun so far

vars == <<accounts, born, tokens, links, access, request, since, ousted, calls>>

TooLong == AccessTTL + 1

Init ==
    /\ accounts = [a \in Account |-> None] /\ born = {}
    /\ tokens = [t \in Token |-> None] /\ links = [l \in Link |-> None]
    /\ access = [a \in Account |-> [c \in Right |-> 0]]
    /\ request = [r \in Request |-> Idle]
    /\ since = [a \in Account |-> [c \in Right |-> TooLong]]
    /\ ousted = FALSE /\ calls = 0

At(r, pc) == request[r].pc = pc
Target(r) == request[r].session.account
Exists(a) == accounts[a] # None
Holds(a, c) == Exists(a) /\ accounts[a].role = c
Becomes(r, call) == request' = [request EXCEPT ![r] = call]
Goes(r, pc) == Becomes(r, [request[r] EXCEPT !.pc = pc])
Ends(r) == Becomes(r, Idle)
Refers(x) == \E r \in Request : ~At(r, "idle") /\ request[r].subject = x

(* Calls whose grant has been checked and that will insert a session. *)
Granting(r, a) ==
    request[r].pc \in {"rotate", "load", "issue"} /\ Target(r) = a

-----------------------------------------------------------------------------
(* What blocking or a new password means for the sessions of an account:   *)
(* those granted so far, in the table or in a call under way, are to end.  *)
Outdated(s) == [s EXCEPT !.old = TRUE, !.spared = FALSE]
Missed(s) == [s EXCEPT !.spared = s.old]
Ended(s) == Missed(Outdated(s))

(* The rows of a's sessions, each as f makes it. *)
SessionRows(a, F(_)) ==
    [t \in Token |-> IF tokens[t] # None /\ tokens[t].account = a THEN F(tokens[t]) ELSE tokens[t]]

(* Request r goes on as next; in the others the sessions of a that are going *)
(* to be inserted become as F makes them.                                  *)
Overtakes(r, next, a, F(_)) ==
    request' = [q \in Request |->
        IF q = r THEN next
        ELSE IF Granting(q, a) THEN [request[q] EXCEPT !.session = F(request[q].session)]
        ELSE request[q]]

CutOff(r, next, a) ==
    /\ tokens' = SessionRows(a, Outdated)
    /\ Overtakes(r, next, a, Outdated)

(* A faulty removal that leaves the sessions where they are. *)
SurvivorsKept(rows, a) == rows

(* DELETE FROM auth_tokens WHERE account_id *)
Survivors(rows, a) ==
    [t \in Token |-> IF rows[t] # None /\ rows[t].account = a THEN None ELSE rows[t]]

-----------------------------------------------------------------------------
(* Registration and login.                                                 *)

(* A faulty registration that counts its own account. *)
CountsItself == {FALSE, TRUE}

(* Register up to the COUNT, whose error is dropped and reads as zero. *)
Counts == {~\E a \in Account : Exists(a), TRUE}

Register(r, a) ==
    /\ At(r, "idle") /\ a \notin born
    /\ \E first \in Counts :
          Becomes(r, Begun("insert", Granted(a), None, IF first THEN "admin" ELSE "user"))
    /\ UNCHANGED <<accounts, born, tokens, links, access, since, ousted>>

(* The INSERT, refused when the address is taken.  The tokens of an account *)
(* that waits for approval are given to nobody, and its row is left out;    *)
(* an administrator's follow if the first project could be created.         *)
InsertAccount(r) ==
    LET a == Target(r) c == request[r].claim IN
    /\ At(r, "insert")
    /\ IF a \in born THEN Ends(r) /\ UNCHANGED <<accounts, born, since>>
       ELSE /\ accounts' = [accounts EXCEPT ![a] = [blocked |-> c # "admin", role |-> c]]
            /\ born' = born \cup {a}
            /\ since' = [since EXCEPT ![a] = [x \in Right |-> IF x = c THEN 0 ELSE @[x]]]
            /\ (c = "admin" /\ Goes(r, "issue")) \/ Ends(r)
    /\ UNCHANGED <<tokens, links, access, ousted>>

Login(r, a) ==
    /\ At(r, "idle") /\ Exists(a) /\ ~accounts[a].blocked
    /\ Becomes(r, Begun("issue", Granted(a), None, accounts[a].role))
    /\ UNCHANGED <<accounts, born, tokens, links, access, since, ousted>>

(* issueTokens: the row of the refresh token needs its account; the access *)
(* token keeps the claim that was read before.                             *)
Issue(r) ==
    LET a == Target(r) c == request[r].claim IN
    /\ At(r, "issue") /\ Ends(r)
    /\ \/ /\ Exists(a)
          /\ \E t \in Token : /\ tokens[t] = None /\ ~Refers(t)
                              /\ tokens' = [tokens EXCEPT ![t] = request[r].session]
          /\ access' = IF c \in Right THEN [access EXCEPT ![a][c] = AccessTTL] ELSE access
       \/ UNCHANGED <<tokens, access>>
    /\ UNCHANGED <<accounts, born, links, since, ousted>>

-----------------------------------------------------------------------------
(* Refresh and Logout.                                                     *)

SelectToken(r, t) ==
    /\ At(r, "idle") /\ tokens[t] # None
    /\ Becomes(r, Begun("rotate", tokens[t], t, "user"))
    /\ UNCHANGED <<accounts, born, tokens, links, access, since, ousted>>

(* The DELETE, whose failure is dropped. *)
Rotate(r) ==
    /\ At(r, "rotate") /\ Becomes(r, [request[r] EXCEPT !.pc = "load", !.subject = None])
    /\ tokens' \in {tokens, [tokens EXCEPT ![request[r].subject] = None]}
    /\ UNCHANGED <<accounts, born, links, access, since, ousted>>

LoadAccount(r) ==
    /\ At(r, "load")
    /\ IF Exists(Target(r))
       THEN Becomes(r, [request[r] EXCEPT !.pc = "issue", !.claim = accounts[Target(r)].role])
       ELSE Ends(r)
    /\ UNCHANGED <<accounts, born, tokens, links, access, since, ousted>>

(* Logout, or Refresh with a token that has expired. *)
Logout(t) ==
    /\ tokens[t] # None /\ tokens' = [tokens EXCEPT ![t] = None]
    /\ UNCHANGED <<accounts, born, links, access, request, since, ousted>>

-----------------------------------------------------------------------------
(* Password resets.                                                        *)

RequestPasswordReset(a, l) ==
    /\ Exists(a) /\ links[l] = None /\ ~Refers(l)
    /\ links' = [links EXCEPT ![l] = [account |-> a, used |-> FALSE]]
    /\ UNCHANGED <<accounts, born, tokens, access, request, since, ousted>>

Usable(l) == links[l] # None /\ ~links[l].used

(* ResetPassword reads the link, then hashes the password for a while. *)
SelectLink(r, l) ==
    /\ At(r, "idle") /\ Usable(l)
    /\ Becomes(r, Begun("hash", Granted(links[l].account), l, "user"))
    /\ UNCHANGED <<accounts, born, tokens, links, access, since, ousted>>

(* The transaction, or its rollback.  A row that is gone is not updated,    *)
(* and a link that another request has used meanwhile is used again.       *)
ResetPassword(r) ==
    LET a == Target(r) l == request[r].subject IN
    /\ At(r, "hash")
    /\ \/ /\ tokens' = Survivors(SessionRows(a, Outdated), a) /\ Overtakes(r, Idle, a, Ended)
          /\ links' = IF links[l] = None THEN links ELSE [links EXCEPT ![l].used = TRUE]
       \/ Ends(r) /\ UNCHANGED <<tokens, links>>
    /\ UNCHANGED <<accounts, born, access, since, ousted>>

(* The retention job removes used and expired links. *)
PurgeLink(l) ==
    /\ links[l] # None /\ links' = [links EXCEPT ![l] = None]
    /\ UNCHANGED <<accounts, born, tokens, access, request, since, ousted>>

-----------------------------------------------------------------------------
(* The panel of administrators and managers.                               *)

(* JWTAuth and AdminOrManager: the right is what the token claims.  The     *)
(* status is read from the row, but neither a deleted account nor a query  *)
(* that fails stops the request, so nothing is asked of it here.           *)
Authorize(r, b, c, a) ==
    /\ At(r, "idle") /\ access[b][c] > 0
    /\ Becomes(r, Begun("panel", Granted(a), None, c))
    /\ UNCHANGED <<accounts, born, tokens, links, access, since, ousted>>

(* ImpersonateAccount, whatever the status of the account. *)
Impersonate(r) ==
    LET a == Target(r) IN
    /\ At(r, "panel") /\ request[r].claim = "admin"
    /\ IF Exists(a) THEN Becomes(r, [request[r] EXCEPT !.pc = "issue", !.claim = accounts[a].role])
       ELSE Ends(r)
    /\ UNCHANGED <<accounts, born, tokens, links, access, since, ousted>>

(* Who is no administrator may not touch one: but when the query fails its  *)
(* error is dropped, and the target passes for no administrator.           *)
MayTouch(r) == request[r].claim = "manager" => ~Holds(Target(r), "admin")

CheckTarget(r) ==
    /\ At(r, "panel") /\ IF MayTouch(r) THEN Goes(r, "update") ELSE Ends(r)
    /\ UNCHANGED <<accounts, born, tokens, links, access, since, ousted>>

CheckFails(r) ==
    /\ At(r, "panel") /\ request[r].claim = "manager" /\ Goes(r, "update")
    /\ UNCHANGED <<accounts, born, tokens, links, access, since, ousted>>

(* UpdateAccount: the status if it is given, with the removal of the       *)
(* sessions as a statement of its own, then the flags of the role in one.  *)
SetBlocked(a, b) ==
    accounts' = IF Exists(a) THEN [accounts EXCEPT ![a].blocked = b] ELSE accounts

UpdateStatus(r) ==
    /\ At(r, "update")
    /\ \/ /\ SetBlocked(Target(r), TRUE)
          /\ CutOff(r, [request[r] EXCEPT !.pc = "revoke"], Target(r))
       \/ SetBlocked(Target(r), FALSE) /\ Goes(r, "role") /\ UNCHANGED tokens
       \/ Goes(r, "role") /\ UNCHANGED <<accounts, tokens>>
    /\ UNCHANGED <<born, links, access, since, ousted>>

(* The DELETE, whose failure is dropped; a payment event ends here.  A       *)
(* process that ends before it leaves the same behind as one that fails.   *)
Revoke(r) ==
    LET a == Target(r)
        next == IF request[r].claim \in Right THEN [request[r] EXCEPT !.pc = "role"] ELSE Idle
    IN  /\ At(r, "revoke")
        /\ tokens' \in {Survivors(tokens, a), SessionRows(a, Missed)}
        /\ Overtakes(r, next, a, Missed)
        /\ UNCHANGED <<accounts, born, links, access, since, ousted>>

(* A manager may change is_manager only, which means nothing to an admin. *)
MaySet(r, c) == request[r].claim = "admin" \/ (c # "admin" /\ ~Holds(Target(r), "admin"))

UpdateRole(r, c) ==
    LET a == Target(r) IN
    /\ At(r, "role") /\ Exists(a) /\ MaySet(r, c)
    /\ accounts' = [accounts EXCEPT ![a].role = c]
    /\ since' = [since EXCEPT ![a] = [x \in Right |-> IF x = c THEN 0 ELSE @[x]]]
    /\ ousted' = (ousted \/ (Holds(a, "admin") /\ c # "admin"))
    /\ Ends(r)
    /\ UNCHANGED <<born, tokens, links, access>>

UpdateDone(r) ==
    /\ At(r, "role") /\ Ends(r)
    /\ UNCHANGED <<accounts, born, tokens, links, access, since, ousted>>

(* DeleteAccount; sessions and links go with the row. *)
DeleteAccount(r) ==
    LET a == Target(r) IN
    /\ At(r, "update") /\ Ends(r)
    /\ accounts' = [accounts EXCEPT ![a] = None]
    /\ tokens' = Survivors(tokens, a)
    /\ links' = [l \in Link |-> IF links[l] # None /\ links[l].account = a THEN None ELSE links[l]]
    /\ ousted' = (ousted \/ Holds(a, "admin"))
    /\ UNCHANGED <<born, access, since>>

-----------------------------------------------------------------------------
(* HandleWebhook: a payment approves the account; a refund or a chargeback *)
(* suspends it and removes its sessions.                                   *)

PaymentApproved(a) ==
    /\ Exists(a) /\ SetBlocked(a, FALSE)
    /\ UNCHANGED <<born, tokens, links, access, request, since, ousted>>

PaymentRefunded(r, a) ==
    /\ At(r, "idle") /\ Exists(a) /\ SetBlocked(a, TRUE)
    /\ CutOff(r, Begun("revoke", Granted(a), None, "user"), a)
    /\ UNCHANGED <<born, links, access, since, ousted>>

(* A faulty parser that does not look at the expiry of an access token. *)
AgedNever(n) == n

Aged(n) == IF n = 0 THEN 0 ELSE n - 1

(* An access token, or a call that will issue one, claims c for a. *)
Claimed(a, c) ==
    \/ access[a][c] > 0
    \/ \E r \in Request : At(r, "issue") /\ Target(r) = a /\ request[r].claim = c

(* Time passes; no request outlives two ticks. *)
Tick ==
    /\ \A r \in Request : ~At(r, "idle") => ~request[r].late
    /\ request' = [r \in Request |-> IF At(r, "idle") THEN Idle ELSE [request[r] EXCEPT !.late = TRUE]]
    /\ access' = [a \in Account |-> [c \in Right |-> Aged(access[a][c])]]
    /\ since' = [a \in Account |-> [c \in Right |->
           IF Holds(a, c) THEN 0
           ELSE IF since[a][c] = TooLong \/ ~Claimed(a, c) THEN TooLong ELSE since[a][c] + 1]]
    /\ UNCHANGED <<accounts, born, tokens, links, ousted>>

Begin(r) ==
    /\ calls < MaxCalls /\ calls' = calls + 1
    /\ \/ \E a \in Account : Register(r, a) \/ Login(r, a) \/ PaymentRefunded(r, a)
       \/ \E t \in Token : SelectToken(r, t)
       \/ \E l \in Link : SelectLink(r, l)
       \/ \E a, b \in Account, c \in Right : Authorize(r, b, c, a)

Continue(r) ==
    \/ InsertAccount(r) \/ Issue(r) \/ Rotate(r) \/ LoadAccount(r) \/ ResetPassword(r)
    \/ Impersonate(r) \/ CheckTarget(r) \/ CheckFails(r) \/ UpdateStatus(r) \/ Revoke(r)
    \/ \E c \in Role : UpdateRole(r, c)
    \/ UpdateDone(r) \/ DeleteAccount(r)

Environment ==
    \/ \E t \in Token : Logout(t)
    \/ \E a \in Account, l \in Link : RequestPasswordReset(a, l)
    \/ \E l \in Link : PurgeLink(l)
    \/ \E a \in Account : PaymentApproved(a)
    \/ Tick

Next ==
    \/ \E r \in Request : Begin(r)
    \/ (\E r \in Request : Continue(r)) /\ UNCHANGED calls
    \/ Environment /\ UNCHANGED calls

Spec == Init /\ [][Next]_vars

-----------------------------------------------------------------------------
(* Properties.                                                             *)

(* Types of the tables, of the calls in flight and of the history.         *)
TypeOK ==
    /\ accounts \in [Account -> {None} \cup Row]
    /\ born \in SUBSET Account
    /\ tokens \in [Token -> {None} \cup Session]
    /\ links \in [Link -> {None} \cup [account : Account, used : BOOLEAN]]
    /\ access \in [Account -> [Right -> 0 .. AccessTTL]]
    /\ request \in [Request -> {Idle} \cup Call]
    /\ since \in [Account -> [Right -> 0 .. TooLong]]
    /\ ousted \in BOOLEAN /\ calls \in 0 .. MaxCalls

(* Blocking an account or giving it a new password ends every session it    *)
(* was granted before (admin.go, recovery.go, pixup.go), also one that is  *)
(* rotated meanwhile.  Left are only those whose removal is still to come, *)
(* those that a request had checked before the removal and inserts after   *)
(* it, and those whose removal failed.                                     *)
Ending(a) == \E r \in Request : At(r, "revoke") /\ Target(r) = a

OldSessionsEnd ==
    \A t \in Token :
        tokens[t] # None /\ tokens[t].old => tokens[t].spared \/ Ending(tokens[t].account)

(* A right that an account has lost, by a change of its role or with its   *)
(* row, opens the panel for the life of one access token and one request   *)
(* more, and no rotation of refresh tokens prolongs it.                    *)
LostRightExpires ==
    \A a \in Account, c \in Right :
        access[a][c] > 0 /\ ~Holds(a, c) => since[a][c] <= AccessTTL

(* The comment of UpdateAccount (api/handlers/admin.go line 139): managers  *)
(* cannot change ANYTHING of an administrator's account, nor delete it.    *)
ManagersSpareAdmins ==
    [][\A r \in Request :
         request[r].pc \in {"update", "role"} /\ request[r].claim = "manager"
             /\ Holds(Target(r), "admin") /\ request'[r] # request[r] =>
         accounts'[Target(r)] = accounts[Target(r)]]_vars

(* Whoever registers first can administer the rest: once there has been an *)
(* account there is an administrator, unless one was demoted or deleted,   *)
(* in whatever order the first registrations run.                          *)
SomeoneAdministers ==
    born # {} /\ ~ousted => \E a \in Account : Holds(a, "admin")
=============================================================================
