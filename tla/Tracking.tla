------------------------------ MODULE Tracking ------------------------------
(***************************************************************************)
(* From a visit to an attributed conversion: the collect endpoints         *)
(* (api/handlers/collect.go, session/service.go), the two producers of     *)
(* conversions (api/handlers/webhook.go with attribution/service.go and    *)
(* conversion/service.go, and the trigger rules' FireConversionFromRule)   *)
(* and the retention job (retention/retention.go) on one Postgres.         *)
(*                                                                         *)
(* One SQL statement is one step; handlers and the retention job           *)
(* interleave between statements.  The model is of one project.  Payload   *)
(* parsing, hashing and money are abstracted: a webhook carries an         *)
(* optional session id and the hashes of an optional email and phone.  A   *)
(* client may leave out its visitor id, its session id or both: the zero   *)
(* UUID then stands for it, and its rows are shared by all who do so.  The *)
(* lookup of a session's country, which writes columns nothing else does,  *)
(* is left out.                                                            *)
(***************************************************************************)
EXTENDS Naturals, FiniteSets

CONSTANTS
    Visitor,    \* visitor ids made by trackers
    Session,    \* session ids made by trackers
    Owner,      \* the visitor whose tracker made a session id
    Contact,    \* hashes of emails and phones
    Visit,      \* connections that serve /v1/collect/session
    Request,    \* webhook deliveries and rule conversions
    Platform,   \* integration platforms
    Value,      \* values of an attribution field, the empty one apart
    Page,       \* addresses of pages, the empty one apart
    Nil,        \* the zero UUID
    None,
    Empty,      \* the empty string
    Faults,     \* whether a statement may fail for no reason of its own
    MaxStarts,  \* bound: how many session rows are ever inserted
    MaxBeat     \* bound: the largest metric a heartbeat reports

ASSUME TrackingAssumption ==
    /\ Owner \in [Session -> Visitor]
    /\ Nil \notin Visitor \cup Session
    /\ None \notin Visitor \cup Session \cup Contact \cup {Nil}
    /\ Empty \notin Value \cup Page
    /\ Faults \in BOOLEAN
    /\ MaxStarts \in Nat /\ MaxBeat \in Nat

VisitorId == Visitor \cup {Nil}
SessionId == Session \cup {Nil}

(* The attribution fields: "source" stands for utm_source and the click    *)
(* ids, "other" for the other utm fields and the cookies.                  *)
Field == {"source", "other"}

(* What a row of attributions, and the part of a visit about it, hold. *)
Fields == [Field -> Value \cup {Empty}]

VARIABLES
    visitors,     \* rows of visitors
    sessions,     \* rows of sessions: [visitor, started, metric, exit]
    attributions, \* rows of attributions: the value of each field
    identifiers,  \* visitor_identifiers: who owns a contact
    conversions,  \* rows of conversions: [session, attributed]
    jobs,         \* fire_integration jobs pushed to Redis
    now,          \* the clock: how many session rows were inserted
    cutoff,       \* sessions started before it are past the retention window
    visit,        \* per connection: [pc, visitor, session] of its request
    request       \* per request: [pc, sid, via] and the session found

rows == <<visitors, sessions, attributions, identifiers, conversions>>
vars == <<rows, jobs, now, cutoff, visit, request>>

Live == DOMAIN sessions
Stored == DOMAIN conversions

Init ==
    /\ visitors = {} /\ identifiers = [c \in Contact |-> None]
    /\ sessions = <<>> /\ attributions = <<>> /\ conversions = <<>>
    /\ jobs = {} /\ now = 0 /\ cutoff = 0
    /\ visit = [q \in Visit |-> [pc |-> "idle"]]
    /\ request = [r \in Request |-> [pc |-> "idle"]]

-----------------------------------------------------------------------------
(* POST /v1/collect/session *)

(* parseOrNewUUID: an absent id becomes the zero UUID, not a new one.  (An  *)
(* unreadable one is replaced by a new one, as good as a tracker's.)  A     *)
(* session id comes with the visitor whose tracker made it, or with none.   *)
ClientIds ==
    {id \in VisitorId \X SessionId : id[2] \in Session => id[1] \in {Nil, Owner[id[2]]}}

VisitDone(q) == visit' = [visit EXCEPT ![q] = [pc |-> "idle"]]

(* Session and GetOrCreateVisitor; an error answers the request with 500. *)
GetOrCreateVisitor(q) ==
    /\ visit[q].pc = "idle"
    /\ \/ \E id \in ClientIds :
             /\ visitors' = visitors \cup {id[1]}
             /\ visit' = [visit EXCEPT ![q] =
                            [pc |-> "session", visitor |-> id[1], session |-> id[2]]]
       \/ Faults /\ UNCHANGED visitors /\ VisitDone(q)
    /\ UNCHANGED <<sessions, attributions, identifiers, conversions, jobs, now, cutoff,
                   request>>

NewSession(v) == [visitor |-> v, started |-> now, metric |-> 0, exit |-> Empty]

(* UpsertSession: an existing row keeps everything but last_activity. *)
InsertOrTouch(s, v) ==
    IF s \in Live THEN UNCHANGED <<sessions, now>>
    ELSE /\ now < MaxStarts
         /\ now' = now + 1
         /\ sessions' = [x \in Live \cup {s} |->
                IF x = s THEN NewSession(v) ELSE sessions[x]]

(* The fields the client sends matter only in the next step. *)
UpsertSession(q) ==
    /\ visit[q].pc = "session"
    /\ \/ /\ InsertOrTouch(visit[q].session, visit[q].visitor)
          /\ \/ visit' = [visit EXCEPT ![q].pc = "attribution"]
             \/ VisitDone(q)
       \/ Faults /\ UNCHANGED <<sessions, now>> /\ VisitDone(q)
    /\ UNCHANGED <<visitors, attributions, identifiers, conversions, jobs, cutoff, request>>

(* A faulty merge in which an empty field overwrites. *)
Overwritten(old, F) == F

(* COALESCE(NULLIF(EXCLUDED.x, ''), x): an empty field keeps the old value,  *)
(* another one replaces it.                                                 *)
Merged(old, F) == [f \in Field |-> IF F[f] = Empty THEN old[f] ELSE F[f]]

(* hasAttribution: the other fields alone do not make the handler write. *)
HasAttribution(F) == F["source"] # Empty

Attribution(s) ==
    IF s \in DOMAIN attributions THEN attributions[s] ELSE [f \in Field |-> Empty]

(* UpsertAttribution, whose error (the session may be gone) is ignored. *)
UpsertAttribution(q) ==
    LET s == visit[q].session
    IN  /\ visit[q].pc = "attribution"
        /\ \/ \E F \in Fields :
                 /\ HasAttribution(F)
                 /\ s \in Live
                 /\ attributions' = [x \in DOMAIN attributions \cup {s} |->
                        IF x = s THEN Merged(Attribution(s), F) ELSE attributions[x]]
           \/ (Faults \/ s \notin Live) /\ UNCHANGED attributions
        /\ VisitDone(q)
        /\ UNCHANGED <<visitors, sessions, identifiers, conversions, jobs, now, cutoff,
                       request>>

-----------------------------------------------------------------------------
(* The other collect endpoints: one statement each. *)

(* RecordIdentifier: the first visitor to identify keeps the contact.      *)
Identify(v, c) ==
    /\ v \in visitors
    /\ identifiers[c] = None
    /\ identifiers' = [identifiers EXCEPT ![c] = v]
    /\ UNCHANGED <<visitors, sessions, attributions, conversions, jobs, now, cutoff,
                   visit, request>>

(* GREATEST of each metric; ended_at, set once, is one that ends at 1. *)
Greatest(old, n) == IF n > old THEN n ELSE old

(* CASE WHEN $4 != '' THEN $4 ELSE exit_page END *)
LastNamed(old, page) == IF page = Empty THEN old ELSE page

(* Heartbeats arrive in any order, late ones included: a late one cannot   *)
(* take a metric back, but its page becomes the session's exit page again. *)
Heartbeat(s) ==
    /\ s \in Live
    /\ \E n \in 0 .. MaxBeat, page \in Page \cup {Empty} :
          sessions' = [sessions EXCEPT ![s].metric = Greatest(@, n),
                                       ![s].exit = LastNamed(@, page)]
    /\ UNCHANGED <<visitors, attributions, identifiers, conversions, jobs, now, cutoff,
                   visit, request>>

-----------------------------------------------------------------------------
(* Conversions: a webhook delivery or the firing of a trigger rule.        *)

RequestAt(r, pc) == request' = [request EXCEPT ![r].pc = pc]

(* The session found is a local of the handler until it is marked. *)
Goes(r, found, via) ==
    request' = [request EXCEPT ![r] =
        [pc |-> "create", sid |-> request[r].sid, via |-> via, found |-> found]]

(* How the session was found is kept while a row tells of it. *)
Enqueue(r) ==
    request' = [request EXCEPT ![r] =
        [pc |-> "enqueue", sid |-> request[r].sid, via |-> request[r].via]]

EnqueueUnattributed(r) ==
    request' = [request EXCEPT ![r] = [pc |-> "enqueue", sid |-> None, via |-> None]]

(* The parsers bring the payloads of all platforms to one form.  A payload *)
(* whose status they do not know makes no conversion, any other one does;  *)
(* only the generic one may name a session.                                *)
NamedSession == SessionId \cup {None}

PayloadOf == [hotmart |-> {None}, kiwify |-> {None}, eduzz |-> {None}, generic |-> NamedSession]

WebhookStart(r) ==
    /\ request[r].pc = "idle"
    /\ \E platform \in DOMAIN PayloadOf : \E sid \in PayloadOf[platform] :
          request' = [request EXCEPT ![r] =
                        [pc |-> IF sid = None THEN "email" ELSE "direct", sid |-> sid,
                         via |-> None]]
    /\ UNCHANGED <<rows, jobs, now, cutoff, visit>>

(* ResolveForConversion with a session id asks for its attribution row, of *)
(* whatever session that is; without one the id is forgotten.              *)
ResolveDirect(r) ==
    /\ request[r].pc = "direct"
    /\ \/ request[r].sid \in DOMAIN attributions /\ RequestAt(r, "touch")
       \/ /\ Faults \/ request[r].sid \notin DOMAIN attributions
          /\ request' = [request EXCEPT ![r] = [pc |-> "email", sid |-> None, via |-> None]]
    /\ UNCHANGED <<rows, jobs, now, cutoff, visit>>

(* Then it reads the session with UpsertSession and no visitor.  When the  *)
(* row is gone the insert needs a visitor with the zero UUID.  The error   *)
(* is dropped and the empty result, whose id is zero, is used.             *)
ResolveTouch(r) ==
    LET sid == request[r].sid
        mayInsert == sid \in Live \/ Nil \in visitors
    IN  /\ request[r].pc = "touch"
        /\ \/ mayInsert /\ InsertOrTouch(sid, Nil) /\ Goes(r, sid, None)
           \/ (Faults \/ ~mayInsert) /\ UNCHANGED <<sessions, now>> /\ Goes(r, Nil, None)
        /\ UNCHANGED <<visitors, attributions, identifiers, conversions, jobs, cutoff,
                       visit>>

(* A faulty query without the join on the identifiers. *)
AnySession(c) == Live

(* FindSessionByEmailHash: the latest session of the contact's owner. *)
SessionsOf(c) == {s \in Live : sessions[s].visitor = identifiers[c]}

Latest(c, s) ==
    /\ s \in SessionsOf(c)
    /\ \A x \in SessionsOf(c) : sessions[x].started <= sessions[s].started

(* The webhook carries a contact to ask for, or none; one that leads to no *)
(* session, or cannot be asked for, is as good as none.                    *)
Resolve(r) == \E c \in Contact, s \in Live : Latest(c, s) /\ Goes(r, s, c)

ResolveEmail(r) ==
    /\ request[r].pc = "email"
    /\ Resolve(r) \/ RequestAt(r, "phone")
    /\ UNCHANGED <<rows, jobs, now, cutoff, visit>>

ResolvePhone(r) ==
    /\ request[r].pc = "phone"
    /\ Resolve(r) \/ Goes(r, None, None)
    /\ UNCHANGED <<rows, jobs, now, cutoff, visit>>

Insert(r, s) ==
    conversions' = [x \in Stored \cup {r} |->
        IF x = r THEN [session |-> s, attributed |-> FALSE] ELSE conversions[x]]

(* A faulty handler that enqueues the integrations with the insert. *)
CreateEnqueuing(r) ==
    /\ request[r].pc = "create"
    /\ Insert(r, None)
    /\ IF request[r].found = None THEN RequestAt(r, "done") ELSE RequestAt(r, "mark")
    /\ jobs' = jobs \cup ({r} \X Platform)
    /\ UNCHANGED <<visitors, sessions, attributions, identifiers, now, cutoff, visit>>

(* Create: the row is not attributed yet; an error is answered with a 500. *)
CreateConversion(r) ==
    /\ request[r].pc = "create"
    /\ \/ /\ Insert(r, None)
          /\ IF request[r].found = None THEN EnqueueUnattributed(r) ELSE RequestAt(r, "mark")
       \/ /\ Faults /\ UNCHANGED conversions
          /\ request' = [request EXCEPT ![r] = [pc |-> "done", sid |-> None, via |-> None]]
    /\ UNCHANGED <<visitors, sessions, attributions, identifiers, jobs, now, cutoff,
                   visit>>

(* MarkAttributed, whose error is ignored: the foreign key wants the       *)
(* session to be there still.                                              *)
MarkAttributed(r) ==
    LET s == request[r].found
    IN  /\ request[r].pc = "mark"
        /\ \/ /\ s \in Live
              /\ conversions' = [conversions EXCEPT ![r] = [session |-> s, attributed |-> TRUE]]
              /\ Enqueue(r)
           \/ (Faults \/ s \notin Live) /\ UNCHANGED conversions /\ EnqueueUnattributed(r)
        /\ UNCHANGED <<visitors, sessions, attributions, identifiers, jobs, now, cutoff,
                       visit>>

(* FireConversionFromRule: one insert with the session if there is one;    *)
(* the integrations are enqueued by a goroutine.                           *)
RuleFires(r) ==
    /\ request[r].pc = "idle"
    /\ \E sid \in SessionId :
          /\ Insert(r, IF sid \in Live THEN sid ELSE None)
          /\ EnqueueUnattributed(r)
    /\ UNCHANGED <<visitors, sessions, attributions, identifiers, jobs, now, cutoff,
                   visit>>

(* EnqueueIntegrations: one LPUSH per platform enabled as the settings are *)
(* read; a failing one is printed and the next is tried.  Nothing here     *)
(* tells the pushes of one call apart.                                     *)
EnqueueIntegrations(r) ==
    /\ request[r].pc = "enqueue"
    /\ \E P \in SUBSET Platform : jobs' = jobs \cup ({r} \X P)
    /\ RequestAt(r, "done")
    /\ UNCHANGED <<rows, now, cutoff, visit>>

-----------------------------------------------------------------------------
(* Retention.                                                              *)

Age ==
    /\ cutoff < now
    /\ cutoff' = cutoff + 1
    /\ UNCHANGED <<rows, jobs, now, visit, request>>

Old == {s \in Live : sessions[s].started < cutoff}
Converted == {conversions[c].session : c \in Stored}

(* A faulty selection that takes only the attributed conversions for       *)
(* conversions.                                                            *)
ExpiredUnattributed ==
    Old \ {conversions[c].session : c \in {x \in Stored : conversions[x].attributed}}

(* The sessions the DELETE selects: old ones without a conversion. *)
Expired == Old \ Converted

(* runOnce: the statement fails as a whole when a conversion refers to one *)
(* of the rows; attributions go with their session.                        *)
Retention ==
    LET kept == Live \ Expired
    IN  /\ Expired # {} /\ Expired \cap Converted = {}
        /\ sessions' = [s \in kept |-> sessions[s]]
        /\ attributions' = [s \in DOMAIN attributions \cap kept |-> attributions[s]]
        /\ UNCHANGED <<visitors, identifiers, conversions, jobs, now, cutoff, visit,
                       request>>

-----------------------------------------------------------------------------
VisitStep(q) ==
    GetOrCreateVisitor(q) \/ UpsertSession(q) \/ UpsertAttribution(q)

RequestStep(r) ==
    \/ WebhookStart(r) \/ ResolveDirect(r) \/ ResolveTouch(r)
    \/ ResolveEmail(r) \/ ResolvePhone(r)
    \/ CreateConversion(r) \/ MarkAttributed(r) \/ RuleFires(r)
    \/ EnqueueIntegrations(r)

(* Identify takes a visitor's contacts, Heartbeat a session's metrics. *)
Collect ==
    \/ \E v \in VisitorId, c \in Contact : Identify(v, c)
    \/ \E s \in SessionId : Heartbeat(s)

Next ==
    \/ \E q \in Visit : VisitStep(q)
    \/ Collect
    \/ \E r \in Request : RequestStep(r)
    \/ Age \/ Retention

Spec == Init /\ [][Next]_vars

(* The ticker of the retention job runs as long as the process does. *)
FairSpec == Spec /\ WF_vars(Retention)

-----------------------------------------------------------------------------
(* Properties.                                                             *)

SessionRow ==
    [visitor : VisitorId, started : 0 .. MaxStarts - 1, metric : 0 .. MaxBeat,
     exit : Page \cup {Empty}]

(* Every variable has its type. *)
TypeOK ==
    /\ visitors \subseteq VisitorId
    /\ Live \subseteq SessionId
    /\ \A s \in Live : sessions[s] \in SessionRow
    /\ DOMAIN attributions \subseteq Live
    /\ \A s \in DOMAIN attributions : attributions[s] \in Fields
    /\ identifiers \in [Contact -> visitors \cup {None}]
    /\ Stored \subseteq Request
    /\ \A c \in Stored :
          conversions[c] \in [session : Live \cup {None}, attributed : BOOLEAN]
    /\ jobs \subseteq Request \X Platform
    /\ now \in 0 .. MaxStarts /\ cutoff \in 0 .. now

(* ResolveForConversion "finds the best session attribution" (attribution/ *)
(* service.go line 22).  An attributed conversion belongs to the session   *)
(* its webhook named, or to a session which the tracker of the visitor     *)
(* that identified itself with its email or its phone has made: whatever   *)
(* visits, the retention job and rows inserted again do between the        *)
(* statements of the handler, and although clients share the zero ids, it  *)
(* never goes to the session of another visitor's tracker.  Where a zero   *)
(* id takes part nobody can be told apart: the zero session takes the      *)
(* conversions whose named session has gone and of visitors known by no    *)
(* other row, and a contact of the zero visitor takes any session sent     *)
(* without a visitor id.                                                   *)
BelongsTo(c, s) ==
    \/ s = request[c].sid
    \/ s = Nil /\ request[c].sid # None
    \/ LET owner == identifiers[request[c].via]
       IN  request[c].via # None /\ owner # None
             /\ (s = Nil \/ owner = Nil \/ owner = Owner[s])

AttributionTruthful ==
    \A c \in Stored :
        conversions[c].attributed => BelongsTo(c, conversions[c].session)

(* A worker that takes a job from the queue finds its conversion, and      *)
(* finds it as it will stay: no job is pushed before the attribution of    *)
(* its conversion is settled.                                              *)
QueuedRowIsFinal ==
    [][\A c \in Request : (\E p \in Platform : <<c, p>> \in jobs')
          => c \in Stored /\ conversions'[c] = conversions[c]]_vars

(* While a session row exists, late heartbeats, repeated visits and        *)
(* webhooks never erase what is known of it: its visitor and its start     *)
(* stay, its metrics never fall, and an exit page or an attribution field  *)
(* that has a value may be given another one but is not emptied.           *)
NothingErased ==
    [][\A s \in Live \cap Live' :
          /\ sessions'[s].visitor = sessions[s].visitor
          /\ sessions'[s].started = sessions[s].started
          /\ sessions'[s].metric >= sessions[s].metric
          /\ sessions[s].exit # Empty => sessions'[s].exit # Empty
          /\ s \in DOMAIN attributions =>
                /\ s \in DOMAIN attributions'
                /\ \A f \in Field :
                      attributions[s][f] # Empty => attributions'[s][f] # Empty]_vars

(* A session past the window goes away unless it leads to a conversion. *)
OldSessionsGo ==
    \A s \in SessionId : (s \in Expired) ~> (s \notin Old \/ s \in Converted)

-----------------------------------------------------------------------------
(* The inductive strengthening of the invariants above.                    *)

VisitState ==
    [pc : {"idle"}] \cup [pc : {"session", "attribution"}, visitor : VisitorId, session : SessionId]

RequestState ==
    LET Sid == SessionId \cup {None}  Via == Contact \cup {None}
    IN  [pc : {"idle"}]
          \cup [pc : {"direct", "touch"}, sid : SessionId, via : {None}]
          \cup [pc : {"email", "phone"}, sid : {None}, via : {None}]
          \cup [pc : {"enqueue", "done"}, sid : Sid, via : Via]
          \cup [pc : {"create", "mark"}, sid : Sid, via : Via, found : SessionId \cup {None}]

(* The handlers' own states have their types. *)
HandlersOK ==
    /\ visit \in [Visit -> VisitState]
    /\ request \in [Request -> RequestState]

(* A session that some tracker made is recorded as its own visitor's, or as *)
(* the zero visitor's, in the rows and in the visits on the way.            *)
OwnersKept ==
    /\ \A q \in Visit : visit[q].pc # "idle" => <<visit[q].visitor, visit[q].session>> \in ClientIds
    /\ \A s \in Live : <<sessions[s].visitor, s>> \in ClientIds

(* The session a handler has found, or has marked, is one it may use. *)
FoundIsNamed ==
    /\ \A r \in Request :
          request[r].pc \in {"create", "mark"} /\ request[r].found # None
              => BelongsTo(r, request[r].found)
    /\ AttributionTruthful

(* What the handler's place says about the row and the jobs. *)
RowFollowsHandler ==
    /\ \A r \in Request :
          /\ request[r].pc \in {"idle", "direct", "touch", "email", "phone", "create"} => r \notin Stored
          /\ request[r].pc \in {"mark", "enqueue"} => r \in Stored
          /\ request[r].pc = "mark" => ~conversions[r].attributed
    /\ \A j \in jobs : j[1] \in Stored /\ request[j[1]].pc = "done"

IInv == TypeOK /\ HandlersOK /\ RowFollowsHandler
=============================================================================
