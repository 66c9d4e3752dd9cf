----------------------------- MODULE Campaigns -----------------------------
(***************************************************************************)
(* The campaigns of a project, the domains that point to them and the two  *)
(* Redis caches through which a visit finds its campaign (shield/          *)
(* campaign.go, the dashboard handlers of api/handlers/shield_campaigns.go *)
(* and the lookups of SlugCloak and DomainProxyMiddleware).                *)
(*                                                                         *)
(* A request runs statement by statement.  Of a row the project, the slug  *)
(* and the flag are kept, and whether a cached copy of it is still what    *)
(* the table holds; an entry of the cache may expire at any time.  An id   *)
(* stands for a new campaign once nothing refers to the old one.  Left out *)
(* are the quota of domains, which may refuse as any error does, and the   *)
(* deletion of a whole project or account, which no cache hears of.        *)
(***************************************************************************)
EXTENDS Naturals, FiniteSets

CONSTANTS
    Campaign,     \* ids of rows of shield_campaigns
    Slug,         \* non-empty slugs
    Domain,       \* host names
    Project,
    Request,      \* connections that serve visits and the dashboard
    MaxCampaigns, \* the plan's limit of campaigns per project
    MaxCalls,     \* bound on the calls of the dashboard
    None          \* no row; as a slug, the empty one

ASSUME CampaignsAssumption ==
    /\ MaxCampaigns \in Nat \ {0} /\ MaxCalls \in Nat
    /\ IsFiniteSet(Request) /\ IsFiniteSet(Campaign)
    /\ None \notin Campaign \cup Slug \cup Domain \cup Project
    /\ Slug \cap Domain = {}

Key == Slug \cup Domain
Row == [project : Project, slug : Slug \cup {None}, enabled : BOOLEAN]
Binding == [project : Project, campaign : Campaign]

(* A copy of a row under some key.  As history: whether it is still what   *)
(* the table holds for that key, and whether nobody could have removed it. *)
Copy == [campaign : Campaign, current : BOOLEAN, excused : BOOLEAN]

Idle == [pc |-> "idle"]
Deletion == [pc : {"delete"}, campaign : Campaign]
Call ==
    {Idle} \cup Deletion
    \cup [pc : {"select"}, key : Key] \cup [pc : {"store"}, key : Key, copy : Copy]
    \cup [pc : {"forget"}, key : Key \cup {None}, next : {Idle} \cup Deletion]
    \cup [pc : {"insert"}, project : Project]

VARIABLES
    campaigns, \* shield_campaigns
    domains,   \* shield_domains
    cache,     \* shield_slug:* and shield_domain:*
    request,   \* per connection: the call it serves
    misread,   \* history: some COUNT failed and was taken for zero
    calls      \* history: calls of the dashboard so far

campaignVars == <<campaigns, domains, cache, request, misread, calls>>

CampaignsInit ==
    /\ campaigns = [c \in Campaign |-> None]
    /\ domains = [d \in Domain |-> None]
    /\ cache = [k \in Key |-> None]
    /\ request = [r \in Request |-> Idle]
    /\ misread = FALSE /\ calls = 0

At(r, pc) == request[r].pc = pc
Becomes(r, call) == request' = [request EXCEPT ![r] = call]
Ends(r) == Becomes(r, Idle)
Exists(c) == campaigns[c] # None
Of(p) == {c \in Campaign : Exists(c) /\ campaigns[c].project = p}
Taken(s) == \E c \in Campaign : Exists(c) /\ campaigns[c].slug = s

(* The campaign a visit to key k should find in the tables. *)
Answers(k, c) ==
    /\ Exists(c) /\ campaigns[c].enabled
    /\ IF k \in Slug THEN campaigns[c].slug = k
       ELSE domains[k] # None /\ domains[k].campaign = c

-----------------------------------------------------------------------------
(* Visits: ResolveCampaignBySlug and ResolveCampaignByDomain.              *)

(* Redis has no entry, or does not answer; a hit changes nothing. *)
Miss(r, k) ==
    /\ At(r, "idle") /\ Becomes(r, [pc |-> "select", key |-> k])
    /\ UNCHANGED <<campaigns, domains, cache, misread, calls>>

SelectCampaign(r) ==
    /\ At(r, "select")
    /\ \/ \E c \in Campaign :
             /\ Answers(request[r].key, c)
             /\ Becomes(r, [pc |-> "store", key |-> request[r].key,
                            copy |-> [campaign |-> c, current |-> TRUE, excused |-> FALSE]])
       \/ Ends(r)
    /\ UNCHANGED <<campaigns, domains, cache, misread, calls>>

(* The SET, whose error is dropped. *)
StoreCopy(r) ==
    /\ At(r, "store") /\ Ends(r)
    /\ cache' \in {cache, [cache EXCEPT ![request[r].key] = request[r].copy]}
    /\ UNCHANGED <<campaigns, domains, misread, calls>>

Expire(k) ==
    /\ cache[k] # None /\ cache' = [cache EXCEPT ![k] = None]
    /\ UNCHANGED <<campaigns, domains, request, misread, calls>>

-----------------------------------------------------------------------------
(* What a change of the tables does to the copies that are about.          *)

(* Campaign c has changed, and the entry of key kept will be removed.      *)
(* Nothing removes its other entries, nor what a visit is about to store.  *)
AgedEntries(c, kept) ==
    [k \in Key |-> IF cache[k] # None /\ cache[k].campaign = c
                   THEN [campaign |-> c, current |-> FALSE, excused |-> cache[k].excused \/ k # kept]
                   ELSE cache[k]]

AgedCall(call) ==
    [pc |-> "store", key |-> call.key,
     copy |-> [campaign |-> call.copy.campaign, current |-> FALSE, excused |-> TRUE]]

(* r goes on, and what the calls in overtaken hold has aged. *)
Ages(r, next, overtaken) ==
    request' = [q \in Request |->
        IF q = r THEN next ELSE IF q \in overtaken THEN AgedCall(request[q]) ELSE request[q]]

Storing == {q \in Request : At(q, "store")}

AgesCampaign(r, next, c, kept) ==
    /\ cache' = AgedEntries(c, kept)
    /\ Ages(r, next, {q \in Storing : request[q].copy.campaign = c})

AgesDomain(r, next, d, kept) ==
    /\ cache' = [cache EXCEPT ![d] =
           IF @ = None THEN None
           ELSE [campaign |-> @.campaign, current |-> FALSE, excused |-> @.excused \/ ~kept]]
    /\ Ages(r, next, {q \in Storing : request[q].key = d})

(* A faulty invalidation that leaves the entry where it is. *)
ForgottenKept(k) == cache

Forgotten(k) == [cache EXCEPT ![k] = None]

(* Without Redis the entry stays. *)
Failed(k) ==
    [cache EXCEPT ![k] =
        IF @ = None THEN None ELSE [campaign |-> @.campaign, current |-> @.current, excused |-> TRUE]]

(* Del, whose error is dropped. *)
Forget(r) ==
    LET k == request[r].key IN
    /\ At(r, "forget")
    /\ IF k = None THEN UNCHANGED cache ELSE cache' \in {Forgotten(k), Failed(k)}
    /\ Becomes(r, request[r].next)
    /\ UNCHANGED <<campaigns, domains, misread, calls>>

Forgets(k, next) == [pc |-> "forget", key |-> k, next |-> next]

-----------------------------------------------------------------------------
(* The dashboard's campaigns.                                              *)

(* A faulty check of the quota that lets one more through. *)
QuotaLeftLate(p) == Cardinality(Of(p)) <= MaxCampaigns

QuotaLeft(p) == Cardinality(Of(p)) < MaxCampaigns

(* CreateCampaign counts; the error of the COUNT is dropped and reads as   *)
(* zero.                                                                   *)
CountCampaigns(r, p) ==
    /\ At(r, "idle") /\ Becomes(r, [pc |-> "insert", project |-> p])
    /\ \/ QuotaLeft(p) /\ UNCHANGED misread
       \/ misread' = TRUE
    /\ UNCHANGED <<campaigns, domains, cache>>

(* Nothing refers to an earlier campaign with this id. *)
Unused(c) ==
    /\ ~Exists(c)
    /\ \A k \in Key : cache[k] # None => cache[k].campaign # c
    /\ \A r \in Request : /\ At(r, "store") => request[r].copy.campaign # c
                          /\ At(r, "delete") => request[r].campaign # c
                          /\ At(r, "forget") => request[r].next # [pc |-> "delete", campaign |-> c]

(* The slug that was asked for if it is free, else with a random prefix, up *)
(* to six attempts; several campaigns may have the empty one.               *)
InsertCampaign(r) ==
    /\ At(r, "insert") /\ Ends(r)
    /\ \/ \E c \in Campaign, s \in Slug \cup {None}, e \in BOOLEAN :
             /\ Unused(c) /\ (s # None => ~Taken(s))
             /\ campaigns' = [campaigns EXCEPT ![c] =
                    [project |-> request[r].project, slug |-> s, enabled |-> e]]
       \/ UNCHANGED campaigns
    /\ UNCHANGED <<domains, cache, misread, calls>>

(* The UPDATE of every column, refused when another campaign has the slug. *)
(* Only the entry of the new slug will be removed.                         *)
UpdateCampaign(r, c, p, s, e) ==
    LET next == Forgets(s, Idle) IN
    /\ At(r, "idle")
    /\ IF c \in Of(p)
       THEN /\ s \notin {None, campaigns[c].slug} => ~Taken(s)
            /\ campaigns' = [campaigns EXCEPT ![c].slug = s, ![c].enabled = e]
            /\ AgesCampaign(r, next, c, s)
       ELSE Becomes(r, next) /\ UNCHANGED <<campaigns, cache>>
    /\ UNCHANGED <<domains, misread>>

(* DeleteCampaign looks up the slug, removes its entry, then deletes.  A   *)
(* list that fails, or that does not have the campaign, removes none.      *)
ListCampaigns(r, c, p) ==
    LET next == [pc |-> "delete", campaign |-> c] IN
    /\ At(r, "idle") /\ (Exists(c) => c \in Of(p))
    /\ \/ Exists(c) /\ Becomes(r, Forgets(campaigns[c].slug, next))
       \/ Becomes(r, next)
    /\ UNCHANGED <<campaigns, domains, cache, misread>>

(* The DELETE; domains go with it. *)
DeleteCampaign(r) ==
    LET c == request[r].campaign IN
    /\ At(r, "delete")
    /\ \/ /\ campaigns' = [campaigns EXCEPT ![c] = None]
          /\ domains' = [d \in Domain |-> IF domains[d] # None /\ domains[d].campaign = c
                                          THEN None ELSE domains[d]]
          /\ AgesCampaign(r, Idle, c, None)
       \/ Ends(r) /\ UNCHANGED <<campaigns, domains, cache>>
    /\ UNCHANGED <<misread, calls>>

-----------------------------------------------------------------------------
(* The dashboard's domains.                                                *)

(* The upsert, refused when another project has the domain. *)
CreateDomain(r, p, d, c) ==
    /\ At(r, "idle") /\ Exists(c) /\ (domains[d] # None => domains[d].project = p)
    /\ domains' = [domains EXCEPT ![d] = [project |-> p, campaign |-> c]]
    /\ AgesDomain(r, Forgets(d, Idle), d, TRUE)
    /\ UNCHANGED <<campaigns, misread>>

(* The SELECT that finds the name may fail; then nothing is removed. *)
DeleteDomain(r, p, d) ==
    /\ At(r, "idle") /\ domains[d] # None /\ domains[d].project = p
    /\ domains' = [domains EXCEPT ![d] = None]
    /\ \/ AgesDomain(r, Forgets(d, Idle), d, TRUE)
       \/ AgesDomain(r, Idle, d, FALSE)
    /\ UNCHANGED <<campaigns, misread>>

Dashboard(r) ==
    /\ calls < MaxCalls /\ calls' = calls + 1
    /\ \E p \in Project :
          \/ CountCampaigns(r, p)
          \/ \E c \in Campaign :
                \/ \E s \in Slug \cup {None}, e \in BOOLEAN : UpdateCampaign(r, c, p, s, e)
                \/ ListCampaigns(r, c, p)
                \/ \E d \in Domain : CreateDomain(r, p, d, c)
          \/ \E d \in Domain : DeleteDomain(r, p, d)

Visit(r) == (\E k \in Key : Miss(r, k)) \/ SelectCampaign(r) \/ StoreCopy(r)

CampaignsNext ==
    \/ \E r \in Request : Visit(r) \/ Dashboard(r) \/ Forget(r) \/ InsertCampaign(r) \/ DeleteCampaign(r)
    \/ \E k \in Key : Expire(k)

CampaignsSpec == CampaignsInit /\ [][CampaignsNext]_campaignVars

-----------------------------------------------------------------------------
(* Properties.                                                             *)

(* The type of the state, which the proofs rely on. *)
CampaignsTypeOK ==
    /\ campaigns \in [Campaign -> {None} \cup Row]
    /\ domains \in [Domain -> {None} \cup Binding]
    /\ cache \in [Key -> {None} \cup Copy]
    /\ request \in [Request -> Call]
    /\ misread \in BOOLEAN /\ calls \in Nat

(* An edit reaches the visitors: what the cache answers for a slug or a    *)
(* domain is the campaign the tables have for it, as they have it, unless  *)
(* the edit is about to remove the entry (shield_campaigns.go calls        *)
(* InvalidateSlugCache, campaign.go the DEL of a domain) or could not: a   *)
(* visit had read the row before the edit and stored it after, the         *)
(* campaign gave up the slug, it is reached through a domain, it was       *)
(* deleted after its entry, or Redis failed.                               *)
EditReachesVisitors ==
    \A k \in Key : cache[k] # None =>
        \/ cache[k].excused
        \/ cache[k].current /\ Answers(k, cache[k].campaign)
        \/ \E r \in Request : At(r, "forget") /\ request[r].key = k

(* The quota is counted before the campaign is inserted, so concurrent     *)
(* calls overshoot it, but by no more than the other connections there     *)
(* are, as long as the COUNT works (CreateCampaign of the dashboard).      *)
QuotaNearlyKept ==
    ~misread => \A p \in Project :
        Cardinality(Of(p)) + Cardinality({r \in Request : At(r, "insert") /\ request[r].project = p})
            < MaxCampaigns + Cardinality(Request)
=============================================================================
