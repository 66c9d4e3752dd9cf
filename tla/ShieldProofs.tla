---------------------------- MODULE ShieldProofs ----------------------------
(***************************************************************************)
(* Proofs about Campaigns and about Visits, for any campaigns, slugs,      *)
(* domains, projects, connections, quota, visitors and hooks.              *)
(***************************************************************************)
EXTENDS Campaigns, Visits, FiniteSetTheorems, TLAPS

(* What a visit is about to store is what the tables hold, or an edit has  *)
(* overtaken it.                                                           *)
CopyOK(r) ==
    At(r, "store") =>
        \/ request[r].copy.excused
        \/ request[r].copy.current /\ Answers(request[r].key, request[r].copy.campaign)

CopiesOK == \A r \in Request : CopyOK(r)

(* One key's part of EditReachesVisitors. *)
EntryOK(k) ==
    cache[k] # None =>
        \/ cache[k].excused
        \/ cache[k].current /\ Answers(k, cache[k].campaign)
        \/ \E r \in Request : At(r, "forget") /\ request[r].key = k

CampaignsInv == CampaignsTypeOK /\ CopiesOK /\ EditReachesVisitors

LEMMA EntriesOK == EditReachesVisitors <=> \A k \in Key : EntryOK(k)
  BY DEF EditReachesVisitors, EntryOK

LEMMA CampaignsStart == CampaignsInit => CampaignsInv
  <1> SUFFICES ASSUME CampaignsInit PROVE CampaignsInv
    OBVIOUS
  <1>1. CampaignsTypeOK
    BY DEF CampaignsInit, CampaignsTypeOK, Call
  <1>2. CopiesOK /\ EditReachesVisitors
    BY DEF CampaignsInit, CopiesOK, CopyOK, EditReachesVisitors, At, Idle
  <1> QED
    BY <1>1, <1>2 DEF CampaignsInv

-----------------------------------------------------------------------------
(* Types.                                                                  *)

LEMMA BecomesType ==
    ASSUME CampaignsTypeOK, NEW r \in Request, NEW call \in Call, Becomes(r, call)
    PROVE  request' \in [Request -> Call]
  BY DEF CampaignsTypeOK, Becomes

LEMMA IdleType == Idle \in Call
  BY DEF Call

LEMMA ForgetsType ==
    ASSUME NEW k \in Key \cup {None}, NEW next \in {Idle} \cup Deletion
    PROVE  Forgets(k, next) \in Call
  BY DEF Forgets, Call

LEMMA StoreFields ==
    ASSUME CampaignsTypeOK, NEW r \in Request, At(r, "store")
    PROVE  request[r] \in [pc : {"store"}, key : Key, copy : Copy]
  BY DEF CampaignsTypeOK, At, Call, Idle, Deletion

LEMMA ForgetFields ==
    ASSUME CampaignsTypeOK, NEW r \in Request, At(r, "forget")
    PROVE  request[r] \in [pc : {"forget"}, key : Key \cup {None}, next : {Idle} \cup Deletion]
  BY DEF CampaignsTypeOK, At, Call, Idle, Deletion

LEMMA AgedCallType ==
    ASSUME NEW call \in [pc : {"store"}, key : Key, copy : Copy]
    PROVE  /\ AgedCall(call) \in [pc : {"store"}, key : Key, copy : Copy]
           /\ AgedCall(call).copy.excused
  BY DEF AgedCall, Copy

(* A change of a campaign's row, or of a domain's, keeps the types. *)
LEMMA AgesCampaignType ==
    ASSUME CampaignsTypeOK, NEW r \in Request, NEW next \in Call, NEW c \in Campaign, NEW kept,
           AgesCampaign(r, next, c, kept)
    PROVE  cache' \in [Key -> {None} \cup Copy] /\ request' \in [Request -> Call]
  <1>1. cache' \in [Key -> {None} \cup Copy]
    BY DEF AgesCampaign, AgedEntries, CampaignsTypeOK, Copy
  <1>2. \A q \in Request : At(q, "store") => AgedCall(request[q]) \in Call
    BY StoreFields, AgedCallType DEF Call
  <1>3. request' \in [Request -> Call]
    BY <1>2 DEF AgesCampaign, Ages, Storing, CampaignsTypeOK
  <1> QED
    BY <1>1, <1>3

LEMMA AgesDomainType ==
    ASSUME CampaignsTypeOK, NEW r \in Request, NEW next \in Call, NEW d \in Domain, NEW kept \in BOOLEAN,
           AgesDomain(r, next, d, kept)
    PROVE  cache' \in [Key -> {None} \cup Copy] /\ request' \in [Request -> Call]
  <1>1. cache' \in [Key -> {None} \cup Copy]
    BY DEF AgesDomain, CampaignsTypeOK, Copy, Key
  <1>2. \A q \in Request : At(q, "store") => AgedCall(request[q]) \in Call
    BY StoreFields, AgedCallType DEF Call
  <1>3. request' \in [Request -> Call]
    BY <1>2 DEF AgesDomain, Ages, Storing, CampaignsTypeOK
  <1> QED
    BY <1>1, <1>3

LEMMA CampaignsTypes == CampaignsTypeOK /\ [CampaignsNext]_campaignVars => CampaignsTypeOK'
  <1> SUFFICES ASSUME CampaignsTypeOK, [CampaignsNext]_campaignVars PROVE CampaignsTypeOK'
    OBVIOUS
  <1>1. CASE UNCHANGED campaignVars
    BY <1>1 DEF CampaignsTypeOK, campaignVars
  <1>2. ASSUME NEW r \in Request, Visit(r) PROVE CampaignsTypeOK'
    <2>1. ASSUME NEW k \in Key, Miss(r, k) PROVE CampaignsTypeOK'
      <3>1. [pc |-> "select", key |-> k] \in Call
        BY DEF Call
      <3> QED
        BY <2>1, <3>1, BecomesType DEF Miss, CampaignsTypeOK
    <2>2. CASE SelectCampaign(r)
      <3>1. request[r].key \in Key
        BY <2>2 DEF SelectCampaign, At, CampaignsTypeOK, Call, Idle, Deletion
      <3>2. ASSUME NEW c \in Campaign
            PROVE  [pc |-> "store", key |-> request[r].key,
                    copy |-> [campaign |-> c, current |-> TRUE, excused |-> FALSE]] \in Call
        BY <3>1 DEF Call, Copy
      <3> QED
        BY <2>2, <3>2, BecomesType, IdleType DEF SelectCampaign, Ends, CampaignsTypeOK
    <2>3. CASE StoreCopy(r)
      BY <2>3, StoreFields, BecomesType, IdleType DEF StoreCopy, Ends, CampaignsTypeOK
    <2> QED
      BY <1>2, <2>1, <2>2, <2>3 DEF Visit
  <1>3. ASSUME NEW r \in Request, Dashboard(r) PROVE CampaignsTypeOK'
    <2>0. calls' \in Nat
      BY <1>3 DEF Dashboard, CampaignsTypeOK
    <2>1. ASSUME NEW p \in Project, CountCampaigns(r, p) PROVE CampaignsTypeOK'
      <3>1. [pc |-> "insert", project |-> p] \in Call
        BY DEF Call
      <3> QED
        BY <2>0, <2>1, <3>1, BecomesType DEF CountCampaigns, CampaignsTypeOK
    <2>2. ASSUME NEW p \in Project, NEW c \in Campaign, NEW s \in Slug \cup {None}, NEW e \in BOOLEAN,
                 UpdateCampaign(r, c, p, s, e)
          PROVE  CampaignsTypeOK'
      <3>1. Forgets(s, Idle) \in Call
        BY ForgetsType DEF Key
      <3>2. CASE c \in Of(p)
        <4>1. campaigns[c] \in Row
          BY <3>2 DEF Of, Exists, CampaignsTypeOK
        <4>2. campaigns' \in [Campaign -> {None} \cup Row]
          BY <2>2, <3>2, <4>1 DEF UpdateCampaign, CampaignsTypeOK, Row
        <4>3. AgesCampaign(r, Forgets(s, Idle), c, s)
          BY <2>2, <3>2 DEF UpdateCampaign
        <4> QED
          BY <2>0, <2>2, <3>1, <4>2, <4>3, AgesCampaignType DEF UpdateCampaign, CampaignsTypeOK
      <3>3. CASE c \notin Of(p)
        BY <2>0, <2>2, <3>1, <3>3, BecomesType DEF UpdateCampaign, CampaignsTypeOK
      <3> QED
        BY <3>2, <3>3
    <2>3. ASSUME NEW p \in Project, NEW c \in Campaign, ListCampaigns(r, c, p) PROVE CampaignsTypeOK'
      <3>1. [pc |-> "delete", campaign |-> c] \in Deletion
        BY DEF Deletion
      <3>2. Exists(c) => campaigns[c].slug \in Key \cup {None}
        BY DEF Exists, CampaignsTypeOK, Row, Key
      <3>3. Exists(c) => Forgets(campaigns[c].slug, [pc |-> "delete", campaign |-> c]) \in Call
        BY <3>1, <3>2, ForgetsType
      <3> QED
        BY <2>0, <2>3, <3>1, <3>3, BecomesType DEF ListCampaigns, CampaignsTypeOK, Call
    <2>4. ASSUME NEW p \in Project, NEW c \in Campaign, NEW d \in Domain, CreateDomain(r, p, d, c)
          PROVE  CampaignsTypeOK'
      <3>1. Forgets(d, Idle) \in Call
        BY ForgetsType DEF Key
      <3>2. domains' \in [Domain -> {None} \cup Binding]
        BY <2>4 DEF CreateDomain, CampaignsTypeOK, Binding
      <3> QED
        BY <2>0, <2>4, <3>1, <3>2, AgesDomainType DEF CreateDomain, CampaignsTypeOK
    <2>5. ASSUME NEW p \in Project, NEW d \in Domain, DeleteDomain(r, p, d) PROVE CampaignsTypeOK'
      <3>1. Forgets(d, Idle) \in Call
        BY ForgetsType DEF Key
      <3>2. domains' \in [Domain -> {None} \cup Binding]
        BY <2>5 DEF DeleteDomain, CampaignsTypeOK
      <3> QED
        BY <2>0, <2>5, <3>1, <3>2, AgesDomainType, IdleType DEF DeleteDomain, CampaignsTypeOK
    <2> QED
      BY <1>3, <2>1, <2>2, <2>3, <2>4, <2>5 DEF Dashboard
  <1>4. ASSUME NEW r \in Request, Forget(r) PROVE CampaignsTypeOK'
    <2>1. request[r].next \in Call
      BY <1>4, ForgetFields DEF Forget, Call
    <2>2. cache' \in [Key -> {None} \cup Copy]
      <3>1. \A k \in Key : Forgotten(k) \in [Key -> {None} \cup Copy] /\ Failed(k) \in [Key -> {None} \cup Copy]
        BY DEF Forgotten, Failed, CampaignsTypeOK, Copy
      <3>2. request[r].key \in Key \cup {None}
        BY <1>4, ForgetFields DEF Forget
      <3> QED
        BY <1>4, <3>1, <3>2 DEF Forget, CampaignsTypeOK
    <2> QED
      BY <1>4, <2>1, <2>2, BecomesType DEF Forget, CampaignsTypeOK
  <1>5. ASSUME NEW r \in Request, InsertCampaign(r) PROVE CampaignsTypeOK'
    <2>1. request[r].project \in Project
      BY <1>5 DEF InsertCampaign, At, CampaignsTypeOK, Call, Idle, Deletion
    <2>2. campaigns' \in [Campaign -> {None} \cup Row]
      BY <1>5, <2>1 DEF InsertCampaign, CampaignsTypeOK, Row
    <2> QED
      BY <1>5, <2>2, BecomesType, IdleType DEF InsertCampaign, Ends, CampaignsTypeOK
  <1>6. ASSUME NEW r \in Request, DeleteCampaign(r) PROVE CampaignsTypeOK'
    <2>1. request[r].campaign \in Campaign
      BY <1>6 DEF DeleteCampaign, At, CampaignsTypeOK, Call, Idle, Deletion
    <2>2. /\ campaigns' \in [Campaign -> {None} \cup Row]
          /\ domains' \in [Domain -> {None} \cup Binding]
      BY <1>6 DEF DeleteCampaign, CampaignsTypeOK
    <2> QED
      BY <1>6, <2>1, <2>2, AgesCampaignType, BecomesType, IdleType DEF DeleteCampaign, Ends, CampaignsTypeOK
  <1>7. ASSUME NEW k \in Key, Expire(k) PROVE CampaignsTypeOK'
    BY <1>7 DEF Expire, CampaignsTypeOK
  <1> QED
    BY <1>1, <1>2, <1>3, <1>4, <1>5, <1>6, <1>7 DEF CampaignsNext

-----------------------------------------------------------------------------
(* An edit reaches the visitors.                                           *)

(* What is about to be stored, and the entries, after a campaign's row has *)
(* changed: the copies of the others are answered for as before.           *)
LEMMA AgesCampaignKeeps ==
    ASSUME CampaignsInv, NEW r \in Request, NEW next \in Call, NEW c \in Campaign, NEW kept \in Key \cup {None},
           At(r, "idle") \/ At(r, "delete"), AgesCampaign(r, next, c, kept),
           next.pc # "store", kept # None => next.pc = "forget" /\ next.key = kept,
           \A k \in Key, o \in Campaign : o # c /\ Answers(k, o) => Answers(k, o)'
    PROVE  CopiesOK' /\ EditReachesVisitors'
  <1>1. ASSUME NEW q \in Request PROVE CopyOK(q)'
    <2>1. CASE q = r
      BY <2>1 DEF AgesCampaign, Ages, CopyOK, At
    <2>2. CASE q # r /\ At(q, "store") /\ request[q].copy.campaign = c
      <3>1. request'[q] = AgedCall(request[q])
        BY <2>2 DEF AgesCampaign, Ages, Storing
      <3> QED
        BY <2>2, <3>1, StoreFields, AgedCallType DEF CampaignsInv, CopyOK
    <2>3. CASE q # r /\ ~(At(q, "store") /\ request[q].copy.campaign = c)
      <3>1. request'[q] = request[q]
        BY <2>3 DEF AgesCampaign, Ages, Storing
      <3>2. CASE At(q, "store")
        <4>1. request[q].key \in Key /\ request[q].copy.campaign \in Campaign
          BY <3>2, StoreFields DEF CampaignsInv, Copy
        <4>2. CopyOK(q)
          BY DEF CampaignsInv, CopiesOK
        <4> QED
          BY <2>3, <3>1, <3>2, <4>1, <4>2 DEF CopyOK, At
      <3>3. CASE ~At(q, "store")
        BY <3>1, <3>3 DEF CopyOK, At
      <3> QED
        BY <3>2, <3>3
    <2> QED
      BY <2>1, <2>2, <2>3
  <1>2. ASSUME NEW k \in Key PROVE EntryOK(k)'
    <2>0. EntryOK(k)
      BY EntriesOK DEF CampaignsInv
    <2>1. cache'[k] = IF cache[k] # None /\ cache[k].campaign = c
                      THEN [campaign |-> c, current |-> FALSE, excused |-> cache[k].excused \/ k # kept]
                      ELSE cache[k]
      BY DEF AgesCampaign, AgedEntries
    <2>2. ASSUME NEW q \in Request, At(q, "forget"), request[q].key = k
          PROVE  At(q, "forget")' /\ request'[q].key = k
      BY <2>2 DEF AgesCampaign, Ages, Storing, At
    <2>3. CASE cache[k] # None /\ cache[k].campaign = c
      <3>1. CASE k # kept
        <4>1. (cache[k].excused \/ k # kept) = TRUE
          BY <3>1
        <4>2. cache'[k] = [campaign |-> c, current |-> FALSE, excused |-> TRUE]
          BY <2>1, <2>3, <4>1
        <4> QED
          BY <4>2 DEF EntryOK
      <3>2. CASE k = kept
        <4>1. At(r, "forget")' /\ request'[r].key = k
          BY <3>2, CampaignsAssumption DEF AgesCampaign, Ages, At, CampaignsInv, CampaignsTypeOK, Key
        <4> QED
          BY <4>1 DEF EntryOK
      <3> QED
        BY <3>1, <3>2
    <2>4. CASE ~(cache[k] # None /\ cache[k].campaign = c)
      <3>1. cache'[k] = cache[k]
        BY <2>1, <2>4
      <3>2. cache[k] # None => cache[k].campaign \in Campaign
        BY DEF CampaignsInv, CampaignsTypeOK, Copy
      <3> QED
        BY <2>0, <2>2, <2>4, <3>1, <3>2 DEF EntryOK
    <2> QED
      BY <2>3, <2>4
  <1> QED
    BY <1>1, <1>2 DEF CopiesOK, EditReachesVisitors, EntryOK

(* The same for the row of a domain. *)
LEMMA AgesDomainKeeps ==
    ASSUME CampaignsInv, NEW r \in Request, NEW next \in Call, NEW d \in Domain, NEW kept \in BOOLEAN,
           At(r, "idle"), AgesDomain(r, next, d, kept),
           next.pc # "store", kept => next.pc = "forget" /\ next.key = d,
           \A k \in Key, o \in Campaign : k # d /\ Answers(k, o) => Answers(k, o)'
    PROVE  CopiesOK' /\ EditReachesVisitors'
  <1>1. ASSUME NEW q \in Request PROVE CopyOK(q)'
    <2>1. CASE q = r
      BY <2>1 DEF AgesDomain, Ages, CopyOK, At
    <2>2. CASE q # r /\ At(q, "store") /\ request[q].key = d
      <3>1. request'[q] = AgedCall(request[q])
        BY <2>2 DEF AgesDomain, Ages, Storing
      <3> QED
        BY <2>2, <3>1, StoreFields, AgedCallType DEF CampaignsInv, CopyOK
    <2>3. CASE q # r /\ ~(At(q, "store") /\ request[q].key = d)
      <3>1. request'[q] = request[q]
        BY <2>3 DEF AgesDomain, Ages, Storing
      <3>2. CASE At(q, "store")
        <4>1. request[q].key \in Key /\ request[q].copy.campaign \in Campaign
          BY <3>2, StoreFields DEF CampaignsInv, Copy
        <4>2. CopyOK(q)
          BY DEF CampaignsInv, CopiesOK
        <4> QED
          BY <2>3, <3>1, <3>2, <4>1, <4>2 DEF CopyOK, At
      <3>3. CASE ~At(q, "store")
        BY <3>1, <3>3 DEF CopyOK, At
      <3> QED
        BY <3>2, <3>3
    <2> QED
      BY <2>1, <2>2, <2>3
  <1>2. ASSUME NEW k \in Key PROVE EntryOK(k)'
    <2>0. EntryOK(k)
      BY EntriesOK DEF CampaignsInv
    <2>2. ASSUME NEW q \in Request, At(q, "forget"), request[q].key = k
          PROVE  At(q, "forget")' /\ request'[q].key = k
      BY <2>2 DEF AgesDomain, Ages, Storing, At
    <2>3. CASE k = d
      <3>1. \/ cache'[k] = None
            \/ cache'[k] = [campaign |-> cache[k].campaign, current |-> FALSE,
                             excused |-> cache[k].excused \/ ~kept]
        BY <2>3 DEF AgesDomain, CampaignsInv, CampaignsTypeOK
      <3>2. CASE kept
        <4>1. At(r, "forget")' /\ request'[r].key = k
          BY <2>3, <3>2 DEF AgesDomain, Ages, At, CampaignsInv, CampaignsTypeOK
        <4> QED
          BY <4>1 DEF EntryOK
      <3>3. CASE ~kept
        <4>1. (cache[k].excused \/ ~kept) = TRUE
          BY <3>3
        <4>2. \/ cache'[k] = None
              \/ cache'[k] = [campaign |-> cache[k].campaign, current |-> FALSE, excused |-> TRUE]
          BY <3>1, <4>1
        <4> QED
          BY <4>2 DEF EntryOK
      <3> QED
        BY <3>2, <3>3
    <2>4. CASE k # d
      <3>1. cache'[k] = cache[k]
        BY <2>4 DEF AgesDomain
      <3>2. cache[k] # None => cache[k].campaign \in Campaign
        BY DEF CampaignsInv, CampaignsTypeOK, Copy
      <3> QED
        BY <2>0, <2>2, <2>4, <3>1, <3>2 DEF EntryOK
    <2> QED
      BY <2>3, <2>4
  <1> QED
    BY <1>1, <1>2 DEF CopiesOK, EditReachesVisitors, EntryOK

(* A step of one call that leaves the entries alone and takes no answer    *)
(* away.                                                                   *)
LEMMA CallKeeps ==
    ASSUME CampaignsInv, NEW r \in Request, NEW call \in Call, Becomes(r, call), UNCHANGED cache,
           ~At(r, "forget"),
           call.pc = "store" => call.copy.excused \/ (call.copy.current /\ Answers(call.key, call.copy.campaign)'),
           \A k \in Key, o \in Campaign : Answers(k, o) => Answers(k, o)'
    PROVE  CopiesOK' /\ EditReachesVisitors'
  <1>1. ASSUME NEW q \in Request PROVE CopyOK(q)'
    <2>1. CASE q = r
      BY <2>1 DEF Becomes, CopyOK, At, CampaignsInv, CampaignsTypeOK
    <2>2. CASE q # r
      <3>1. request'[q] = request[q]
        BY <2>2 DEF Becomes, CampaignsInv, CampaignsTypeOK
      <3>2. CASE At(q, "store")
        <4>1. request[q].key \in Key /\ request[q].copy.campaign \in Campaign
          BY <3>2, StoreFields DEF CampaignsInv, Copy
        <4>2. CopyOK(q)
          BY DEF CampaignsInv, CopiesOK
        <4> QED
          BY <3>1, <3>2, <4>1, <4>2 DEF CopyOK, At
      <3>3. CASE ~At(q, "store")
        BY <3>1, <3>3 DEF CopyOK, At
      <3> QED
        BY <3>2, <3>3
    <2> QED
      BY <2>1, <2>2
  <1>2. ASSUME NEW k \in Key PROVE EntryOK(k)'
    <2>0. EntryOK(k)
      BY EntriesOK DEF CampaignsInv
    <2>1. ASSUME NEW q \in Request, At(q, "forget"), request[q].key = k
          PROVE  At(q, "forget")' /\ request'[q].key = k
      BY <2>1 DEF Becomes, At, CampaignsInv, CampaignsTypeOK
    <2>2. cache[k] # None => cache[k].campaign \in Campaign
      BY DEF CampaignsInv, CampaignsTypeOK, Copy
    <2> QED
      BY <2>0, <2>1, <2>2 DEF EntryOK
  <1> QED
    BY <1>1, <1>2 DEF CopiesOK, EditReachesVisitors, EntryOK

LEMMA EditsKeep == CampaignsInv /\ [CampaignsNext]_campaignVars => CopiesOK' /\ EditReachesVisitors'
  <1> SUFFICES ASSUME CampaignsInv, [CampaignsNext]_campaignVars PROVE CopiesOK' /\ EditReachesVisitors'
    OBVIOUS
  <1> DEFINE Goal == CopiesOK' /\ EditReachesVisitors'
  <1>0. CampaignsTypeOK
    BY DEF CampaignsInv
  <1>1. CASE UNCHANGED campaignVars
    BY <1>1 DEF CampaignsInv, CopiesOK, CopyOK, EditReachesVisitors, campaignVars, At, Answers, Exists
  <1>i. Idle.pc = "idle"
    BY DEF Idle
  <1>2. ASSUME NEW r \in Request, NEW k \in Key, Miss(r, k) PROVE Goal
    <2>1. [pc |-> "select", key |-> k] \in Call
      BY DEF Call
    <2> QED
      BY <1>2, <2>1, CallKeeps DEF Miss, At, Answers, Exists
  <1>3. ASSUME NEW r \in Request, SelectCampaign(r) PROVE Goal
    <2>1. request[r].key \in Key
      BY <1>0, <1>3 DEF SelectCampaign, At, CampaignsTypeOK, Call, Idle, Deletion
    <2>2. ~At(r, "forget")
      BY <1>3 DEF SelectCampaign, At
    <2>3. \A k \in Key, o \in Campaign : Answers(k, o) => Answers(k, o)'
      BY <1>3 DEF SelectCampaign, Answers, Exists
    <2>4. CASE Ends(r)
      BY <1>3, <1>i, <2>2, <2>3, <2>4, CallKeeps, IdleType DEF SelectCampaign, Ends
    <2>5. ASSUME NEW c \in Campaign, Answers(request[r].key, c),
                 Becomes(r, [pc |-> "store", key |-> request[r].key,
                             copy |-> [campaign |-> c, current |-> TRUE, excused |-> FALSE]])
          PROVE  Goal
      <3>0. PICK k \in Key : k = request[r].key
        BY <2>1
      <3> DEFINE call == [pc |-> "store", key |-> k,
                          copy |-> [campaign |-> c, current |-> TRUE, excused |-> FALSE]]
      <3>1. call \in Call
        BY DEF Call, Copy
      <3>2. call.copy.current /\ Answers(call.key, call.copy.campaign)'
        BY <2>3, <2>5, <3>0
      <3>3. Becomes(r, call) /\ UNCHANGED cache
        BY <1>3, <2>5, <3>0 DEF SelectCampaign
      <3> HIDE DEF call
      <3> QED
        BY <2>2, <2>3, <3>1, <3>2, <3>3, CallKeeps
    <2> QED
      BY <1>3, <2>4, <2>5 DEF SelectCampaign
  <1>4. ASSUME NEW r \in Request, StoreCopy(r) PROVE Goal
    <2>1. CASE UNCHANGED cache
      BY <1>4, <1>i, <2>1, CallKeeps, IdleType DEF StoreCopy, Ends, At, Answers, Exists
    <2>2. CASE cache' = [cache EXCEPT ![request[r].key] = request[r].copy]
      <3>1. /\ request[r].key \in Key /\ request[r].copy.campaign \in Campaign
            /\ CopyOK(r) /\ At(r, "store")
        BY <1>0, <1>4, StoreFields DEF StoreCopy, CampaignsInv, CopiesOK, Copy
      <3>2. \A q \in Request : q # r => request'[q] = request[q]
        BY <1>0, <1>4 DEF StoreCopy, Ends, Becomes, CampaignsTypeOK
      <3>3. request'[r] = Idle
        BY <1>0, <1>4 DEF StoreCopy, Ends, Becomes, CampaignsTypeOK
      <3>4. \A k \in Key, o \in Campaign : Answers(k, o) => Answers(k, o)'
        BY <1>4 DEF StoreCopy, Answers, Exists
      <3>5. ASSUME NEW q \in Request PROVE CopyOK(q)'
        <4>1. CASE q = r
          BY <3>3, <4>1 DEF CopyOK, At, Idle
        <4>2. CASE q # r /\ At(q, "store")
          <5>1. request[q].key \in Key /\ request[q].copy.campaign \in Campaign /\ CopyOK(q)
            BY <1>0, <4>2, StoreFields DEF Copy, CampaignsInv, CopiesOK
          <5> QED
            BY <3>2, <3>4, <4>2, <5>1 DEF CopyOK, At
        <4>3. CASE q # r /\ ~At(q, "store")
          BY <3>2, <4>3 DEF CopyOK, At
        <4> QED
          BY <4>1, <4>2, <4>3
      <3>6. ASSUME NEW k \in Key PROVE EntryOK(k)'
        <4>1. CASE k = request[r].key
          <5>1. cache'[k] = request[r].copy
            BY <1>0, <2>2, <4>1 DEF CampaignsTypeOK
          <5> QED
            BY <3>1, <3>4, <4>1, <5>1 DEF EntryOK, CopyOK
        <4>2. CASE k # request[r].key
          <5>1. cache'[k] = cache[k] /\ EntryOK(k)
            BY <1>0, <2>2, <4>2, EntriesOK DEF CampaignsTypeOK, CampaignsInv
          <5>2. cache[k] # None => cache[k].campaign \in Campaign
            BY <1>0 DEF CampaignsTypeOK, Copy
          <5>3. ASSUME NEW q \in Request, At(q, "forget"), request[q].key = k
                PROVE  At(q, "forget")' /\ request'[q].key = k
            BY <3>1, <3>2, <5>3 DEF At
          <5> QED
            BY <3>4, <5>1, <5>2, <5>3 DEF EntryOK
        <4> QED
          BY <4>1, <4>2
      <3> QED
        BY <3>5, <3>6 DEF CopiesOK, EditReachesVisitors, EntryOK
    <2> QED
      BY <1>4, <2>1, <2>2 DEF StoreCopy
  <1>5. ASSUME NEW r \in Request, Dashboard(r) PROVE Goal
    <2>1. ASSUME NEW p \in Project, CountCampaigns(r, p) PROVE Goal
      <3>1. [pc |-> "insert", project |-> p] \in Call
        BY DEF Call
      <3> QED
        BY <2>1, <3>1, CallKeeps DEF CountCampaigns, At, Answers, Exists
    <2>2. ASSUME NEW p \in Project, NEW c \in Campaign, NEW s \in Slug \cup {None}, NEW e \in BOOLEAN,
                 UpdateCampaign(r, c, p, s, e)
          PROVE  Goal
      <3>1. Forgets(s, Idle) \in Call /\ Forgets(s, Idle).pc = "forget" /\ Forgets(s, Idle).key = s
        BY ForgetsType DEF Key, Forgets
      <3>2. CASE c \in Of(p)
        <4>1. AgesCampaign(r, Forgets(s, Idle), c, s) /\ At(r, "idle") /\ s \in Key \cup {None}
          BY <2>2, <3>2 DEF UpdateCampaign, Key
        <4>2. \A o \in Campaign : o # c => campaigns'[o] = campaigns[o]
          BY <1>0, <2>2, <3>2 DEF UpdateCampaign, CampaignsTypeOK
        <4>3. \A k \in Key, o \in Campaign : o # c /\ Answers(k, o) => Answers(k, o)'
          BY <2>2, <4>2 DEF UpdateCampaign, Answers, Exists
        <4> QED
          BY <3>1, <4>1, <4>3, AgesCampaignKeeps
      <3>3. CASE c \notin Of(p)
        BY <2>2, <3>1, <3>3, CallKeeps DEF UpdateCampaign, At, Answers, Exists
      <3> QED
        BY <3>2, <3>3
    <2>3. ASSUME NEW p \in Project, NEW c \in Campaign, ListCampaigns(r, c, p) PROVE Goal
      <3> DEFINE next == [pc |-> "delete", campaign |-> c]
      <3>1. next \in Deletion /\ next.pc = "delete"
        BY DEF Deletion
      <3>2. Exists(c) => campaigns[c].slug \in Key \cup {None}
        BY <1>0 DEF Exists, CampaignsTypeOK, Row, Key
      <3>3. Exists(c) => Forgets(campaigns[c].slug, next) \in Call /\ Forgets(campaigns[c].slug, next).pc = "forget"
        BY <3>1, <3>2, ForgetsType DEF Forgets
      <3>4. ~At(r, "forget") /\ \A k \in Key, o \in Campaign : Answers(k, o) => Answers(k, o)'
        BY <2>3 DEF ListCampaigns, At, Answers, Exists
      <3>5. (Exists(c) /\ Becomes(r, Forgets(campaigns[c].slug, next))) \/ Becomes(r, next)
        BY <2>3 DEF ListCampaigns
      <3>6. next \in Call /\ UNCHANGED cache
        BY <2>3, <3>1 DEF ListCampaigns, Call
      <3> HIDE DEF next
      <3> QED
        BY <3>1, <3>3, <3>4, <3>5, <3>6, CallKeeps
    <2>4. ASSUME NEW p \in Project, NEW c \in Campaign, NEW d \in Domain, CreateDomain(r, p, d, c)
          PROVE  Goal
      <3>1. Forgets(d, Idle) \in Call /\ Forgets(d, Idle).pc = "forget" /\ Forgets(d, Idle).key = d
        BY ForgetsType DEF Key, Forgets
      <3>2. \A x \in Domain : x # d => domains'[x] = domains[x]
        BY <1>0, <2>4 DEF CreateDomain, CampaignsTypeOK
      <3>3. \A k \in Key, o \in Campaign : k # d /\ Answers(k, o) => Answers(k, o)'
        BY <2>4, <3>2 DEF CreateDomain, Answers, Exists, Key
      <3> QED
        BY <2>4, <3>1, <3>3, AgesDomainKeeps DEF CreateDomain
    <2>5. ASSUME NEW p \in Project, NEW d \in Domain, DeleteDomain(r, p, d) PROVE Goal
      <3>1. Forgets(d, Idle) \in Call /\ Forgets(d, Idle).pc = "forget" /\ Forgets(d, Idle).key = d
        BY ForgetsType DEF Key, Forgets
      <3>2. \A x \in Domain : x # d => domains'[x] = domains[x]
        BY <1>0, <2>5 DEF DeleteDomain, CampaignsTypeOK
      <3>3. \A k \in Key, o \in Campaign : k # d /\ Answers(k, o) => Answers(k, o)'
        BY <2>5, <3>2 DEF DeleteDomain, Answers, Exists, Key
      <3> QED
        BY <1>i, <2>5, <3>1, <3>3, AgesDomainKeeps, IdleType DEF DeleteDomain
    <2> QED
      BY <1>5, <2>1, <2>2, <2>3, <2>4, <2>5 DEF Dashboard
  <1>6. ASSUME NEW r \in Request, Forget(r) PROVE Goal
    <2> DEFINE key == request[r].key
    <2>1. key \in Key \cup {None} /\ request[r].next \in {Idle} \cup Deletion
      BY <1>0, <1>6, ForgetFields DEF Forget
    <2>2. \A q \in Request : request'[q] = IF q = r THEN request[r].next ELSE request[q]
      BY <1>0, <1>6 DEF Forget, Becomes, CampaignsTypeOK
    <2>3. \A k \in Key, o \in Campaign : Answers(k, o) => Answers(k, o)'
      BY <1>6 DEF Forget, Answers, Exists
    <2>4. ASSUME NEW q \in Request PROVE CopyOK(q)'
      <3>1. CASE q = r
        BY <2>1, <2>2, <3>1 DEF CopyOK, At, Idle, Deletion
      <3>2. CASE q # r /\ At(q, "store")
        <4>1. request[q].key \in Key /\ request[q].copy.campaign \in Campaign /\ CopyOK(q)
          BY <1>0, <3>2, StoreFields DEF Copy, CampaignsInv, CopiesOK
        <4> QED
          BY <2>2, <2>3, <3>2, <4>1 DEF CopyOK, At
      <3>3. CASE q # r /\ ~At(q, "store")
        BY <2>2, <3>3 DEF CopyOK, At
      <3> QED
        BY <3>1, <3>2, <3>3
    <2>5. ASSUME NEW k \in Key PROVE EntryOK(k)'
      <3>1. CASE k = key /\ key # None
        <4>1. cache' \in {Forgotten(key), Failed(key)}
          BY <1>6, <3>1 DEF Forget
        <4>2. cache'[k] = None \/ cache'[k].excused
          BY <1>0, <3>1, <4>1 DEF Forgotten, Failed, CampaignsTypeOK
        <4> QED
          BY <4>2 DEF EntryOK
      <3>2. CASE k # key
        <4>1. cache'[k] = cache[k]
          BY <1>0, <1>6, <3>2 DEF Forget, Forgotten, Failed, CampaignsTypeOK
        <4>2. EntryOK(k)
          BY EntriesOK DEF CampaignsInv
        <4>3. cache[k] # None => cache[k].campaign \in Campaign
          BY <1>0 DEF CampaignsTypeOK, Copy
        <4>4. ASSUME NEW q \in Request, At(q, "forget"), request[q].key = k
              PROVE  At(q, "forget")' /\ request'[q].key = k
          BY <2>2, <3>2, <4>4 DEF At
        <4> QED
          BY <2>3, <4>1, <4>2, <4>3, <4>4 DEF EntryOK
      <3>3. k # None
        BY CampaignsAssumption DEF Key
      <3> QED
        BY <3>1, <3>2, <3>3
    <2> QED
      BY <2>4, <2>5 DEF CopiesOK, EditReachesVisitors, EntryOK
  <1>7. ASSUME NEW r \in Request, InsertCampaign(r) PROVE Goal
    <2>1. \A k \in Key, o \in Campaign : Answers(k, o) => Answers(k, o)'
      <3>1. CASE UNCHANGED campaigns
        BY <1>7, <3>1 DEF InsertCampaign, Answers, Exists
      <3>2. ASSUME NEW c \in Campaign, NEW row, ~Exists(c), campaigns' = [campaigns EXCEPT ![c] = row]
            PROVE  \A k \in Key, o \in Campaign : Answers(k, o) => Answers(k, o)'
        <4>1. \A o \in Campaign : o # c => campaigns'[o] = campaigns[o]
          BY <1>0, <3>2 DEF CampaignsTypeOK
        <4> QED
          BY <1>7, <3>2, <4>1 DEF InsertCampaign, Answers, Exists
      <3> QED
        BY <1>7, <3>1, <3>2 DEF InsertCampaign, Unused
    <2> QED
      BY <1>7, <1>i, <2>1, CallKeeps, IdleType DEF InsertCampaign, Ends, At
  <1>8. ASSUME NEW r \in Request, DeleteCampaign(r) PROVE Goal
    <2> DEFINE c == request[r].campaign
    <2>1. c \in Campaign /\ At(r, "delete") /\ ~At(r, "forget")
      BY <1>0, <1>8 DEF DeleteCampaign, At, CampaignsTypeOK, Call, Idle, Deletion
    <2>2. CASE Ends(r) /\ UNCHANGED <<campaigns, domains, cache>>
      BY <1>i, <2>1, <2>2, CallKeeps, IdleType DEF Ends, Answers, Exists
    <2>3. CASE /\ campaigns' = [campaigns EXCEPT ![c] = None]
               /\ domains' = [d \in Domain |-> IF domains[d] # None /\ domains[d].campaign = c
                                               THEN None ELSE domains[d]]
               /\ AgesCampaign(r, Idle, c, None)
      <3>1. \A o \in Campaign : o # c => campaigns'[o] = campaigns[o]
        BY <1>0, <2>3 DEF CampaignsTypeOK
      <3>2. \A d \in Domain : ~(domains[d] # None /\ domains[d].campaign = c) => domains'[d] = domains[d]
        BY <2>3
      <3> HIDE DEF c
      <3>3. \A k \in Key, o \in Campaign : o # c /\ Answers(k, o) => Answers(k, o)'
        BY <3>1, <3>2 DEF Answers, Exists, Key
      <3> QED
        BY <1>i, <2>1, <2>3, <3>3, AgesCampaignKeeps, IdleType
    <2> QED
      BY <1>8, <2>2, <2>3 DEF DeleteCampaign
  <1>9. ASSUME NEW k \in Key, Expire(k) PROVE Goal
    <2>1. CopiesOK'
      BY <1>9 DEF Expire, CampaignsInv, CopiesOK, CopyOK, At, Answers, Exists
    <2>2. ASSUME NEW x \in Key PROVE EntryOK(x)'
      <3>1. cache'[x] = None \/ cache'[x] = cache[x]
        BY <1>0, <1>9 DEF Expire, CampaignsTypeOK
      <3>2. EntryOK(x)
        BY EntriesOK DEF CampaignsInv
      <3> QED
        BY <1>9, <3>1, <3>2 DEF Expire, EntryOK, At, Answers, Exists
    <2> QED
      BY <2>1, <2>2 DEF EditReachesVisitors, EntryOK
  <1> QED
    BY <1>1, <1>2, <1>3, <1>4, <1>5, <1>6, <1>7, <1>8, <1>9 DEF CampaignsNext, Visit

(* The invariant of the campaigns and their caches. *)
THEOREM CampaignsInvariance == CampaignsSpec => []CampaignsInv
  <1>1. CampaignsInv /\ [CampaignsNext]_campaignVars => CampaignsInv'
    BY CampaignsTypes, EditsKeep DEF CampaignsInv
  <1> QED
    BY CampaignsStart, <1>1, PTL DEF CampaignsSpec

(* An edit of a campaign or a domain reaches the visitors unless something *)
(* that the code cannot prevent, or that it forgets, kept the cached copy  *)
(* alive.                                                                  *)
THEOREM EditsReach == CampaignsSpec => []EditReachesVisitors
  BY CampaignsInvariance, PTL DEF CampaignsInv

-----------------------------------------------------------------------------
(* The quota.                                                              *)

Inserting(p) == {r \in Request : At(r, "insert") /\ request[r].project = p}

(* One project's part of QuotaNearlyKept. *)
WithinQuota(p) ==
    ~misread => Cardinality(Of(p)) + Cardinality(Inserting(p)) < MaxCampaigns + Cardinality(Request)

LEMMA Finite ==
    ASSUME NEW p
    PROVE  /\ IsFiniteSet(Of(p)) /\ Cardinality(Of(p)) \in Nat
           /\ IsFiniteSet(Inserting(p)) /\ Cardinality(Inserting(p)) \in Nat
           /\ Cardinality(Inserting(p)) <= Cardinality(Request)
           /\ Cardinality(Request) \in Nat /\ MaxCampaigns \in Nat \ {0}
  <1>1. Of(p) \in SUBSET Campaign /\ Inserting(p) \in SUBSET Request
    BY DEF Of, Inserting
  <1> QED
    BY <1>1, CampaignsAssumption, FS_Subset, FS_CardinalityType

LEMMA FiniteNext ==
    ASSUME NEW p
    PROVE  /\ Cardinality(Of(p)') \in Nat /\ Cardinality(Inserting(p)') \in Nat
           /\ Cardinality(Inserting(p)') <= Cardinality(Request)
  <1>1. Of(p)' \in SUBSET Campaign /\ Inserting(p)' \in SUBSET Request
    BY DEF Of, Inserting
  <1> QED
    BY <1>1, CampaignsAssumption, FS_Subset, FS_CardinalityType

(* Fewer campaigns and fewer inserts stay within the quota. *)
LEMMA FewerKept ==
    ASSUME NEW p, WithinQuota(p), misread => misread',
           Of(p)' \subseteq Of(p), Inserting(p)' \subseteq Inserting(p)
    PROVE  WithinQuota(p)'
  <1>1. Cardinality(Of(p)') <= Cardinality(Of(p)) /\ Cardinality(Inserting(p)') <= Cardinality(Inserting(p))
    BY Finite, FS_Subset
  <1> QED
    BY <1>1, Finite, FiniteNext DEF WithinQuota

(* Calls that are no insert afterwards unless they were one before. *)
LEMMA NoNewInsert ==
    ASSUME NEW p, \A q \in Request : request'[q] = request[q] \/ request'[q].pc # "insert"
    PROVE  Inserting(p)' \subseteq Inserting(p)
  BY DEF Inserting, At

LEMMA QuotaStep ==
    ASSUME CampaignsTypeOK, [CampaignsNext]_campaignVars, NEW p \in Project, WithinQuota(p)
    PROVE  WithinQuota(p)'
  <1> DEFINE Goal == WithinQuota(p)'
             Quiet == \A q \in Request : request'[q] = request[q] \/ request'[q].pc # "insert"
  <1>a. Quiet /\ UNCHANGED misread /\ Of(p)' \subseteq Of(p) => Goal
    BY FewerKept, NoNewInsert
  <1>b. UNCHANGED campaigns => Of(p)' \subseteq Of(p)
    BY DEF Of, Exists
  <1>c. ASSUME NEW r \in Request, NEW call, Becomes(r, call), call.pc # "insert" PROVE Quiet
    BY <1>c DEF Becomes, CampaignsTypeOK
  <1>d. ASSUME NEW r \in Request, NEW next, NEW overtaken, Ages(r, next, overtaken), next.pc # "insert" PROVE Quiet
    BY <1>d DEF Ages, AgedCall
  <1>e. Idle.pc # "insert" /\ \A k, next : Forgets(k, next).pc # "insert"
    BY DEF Idle, Forgets
  <1>1. CASE UNCHANGED campaignVars
    BY <1>1, <1>a, <1>b DEF campaignVars
  <1>2. ASSUME NEW r \in Request, Visit(r) PROVE Goal
    BY <1>2, <1>a, <1>b, <1>c, <1>e DEF Visit, Miss, SelectCampaign, StoreCopy, Ends
  <1>3. ASSUME NEW r \in Request, NEW x \in Project, CountCampaigns(r, x) PROVE Goal
    <2>1. \A q \in Request : request'[q] = IF q = r THEN [pc |-> "insert", project |-> x] ELSE request[q]
      BY <1>3 DEF CountCampaigns, Becomes, CampaignsTypeOK
    <2>2. CASE misread'
      BY <2>2 DEF WithinQuota
    <2>3. CASE QuotaLeft(x) /\ UNCHANGED misread /\ x = p
      <3>1. Of(p)' = Of(p)
        BY <1>3 DEF CountCampaigns, Of, Exists
      <3> QED
        BY <2>3, <3>1, Finite, FiniteNext DEF QuotaLeft, WithinQuota
    <2>4. CASE QuotaLeft(x) /\ UNCHANGED misread /\ x # p
      <3>1. Inserting(p)' \subseteq Inserting(p)
        BY <2>1, <2>4 DEF Inserting, At
      <3> QED
        BY <1>3, <1>b, <2>4, <3>1, FewerKept DEF CountCampaigns
    <2> QED
      BY <1>3, <2>2, <2>3, <2>4 DEF CountCampaigns
  <1>4. ASSUME NEW r \in Request, NEW x \in Project, NEW c \in Campaign, NEW s, NEW e,
               UpdateCampaign(r, c, x, s, e)
        PROVE  Goal
    <2>1. CASE c \in Of(x)
      <3>1. campaigns[c] \in Row
        BY <2>1 DEF Of, Exists, CampaignsTypeOK
      <3>2. Of(p)' \subseteq Of(p)
        BY <1>4, <2>1, <3>1 DEF UpdateCampaign, Of, Exists, CampaignsTypeOK, Row
      <3> QED
        BY <1>4, <1>a, <1>d, <1>e, <2>1, <3>2 DEF UpdateCampaign, AgesCampaign
    <2>2. CASE c \notin Of(x)
      BY <1>4, <1>a, <1>b, <1>c, <1>e, <2>2 DEF UpdateCampaign
    <2> QED
      BY <2>1, <2>2
  <1>5. ASSUME NEW r \in Request, NEW x \in Project, NEW c \in Campaign, ListCampaigns(r, c, x) PROVE Goal
    BY <1>5, <1>a, <1>b, <1>c, <1>e DEF ListCampaigns
  <1>6. ASSUME NEW r \in Request, NEW x \in Project, NEW d \in Domain,
               (\E c \in Campaign : CreateDomain(r, x, d, c)) \/ DeleteDomain(r, x, d)
        PROVE  Goal
    BY <1>6, <1>a, <1>b, <1>d, <1>e DEF CreateDomain, DeleteDomain, AgesDomain
  <1>7. ASSUME NEW r \in Request, Forget(r) PROVE Goal
    <2>1. request[r].next.pc # "insert"
      BY <1>7, ForgetFields DEF Forget, Idle, Deletion
    <2> QED
      BY <1>7, <1>a, <1>b, <1>c, <2>1 DEF Forget
  <1>8. ASSUME NEW r \in Request, InsertCampaign(r) PROVE Goal
    <2>1. Quiet /\ UNCHANGED misread
      BY <1>8, <1>c, <1>e DEF InsertCampaign, Ends
    <2>2. CASE UNCHANGED campaigns
      BY <1>a, <1>b, <2>1, <2>2
    <2>3. ASSUME NEW c \in Campaign, NEW s, NEW e,
                 campaigns' = [campaigns EXCEPT ![c] =
                     [project |-> request[r].project, slug |-> s, enabled |-> e]]
          PROVE  Goal
      <3>1. CASE request[r].project # p
        <4>1. Of(p)' \subseteq Of(p)
          BY <2>3, <3>1 DEF Of, Exists, CampaignsTypeOK
        <4> QED
          BY <1>a, <2>1, <4>1
      <3>2. CASE request[r].project = p
        <4>1. Of(p)' \subseteq Of(p) \cup {c}
          BY <2>3 DEF Of, Exists, CampaignsTypeOK
        <4>2. Cardinality(Of(p)') <= Cardinality(Of(p)) + 1
          <5>1. /\ IsFiniteSet(Of(p) \cup {c})
                /\ Cardinality(Of(p) \cup {c}) <= Cardinality(Of(p)) + 1
            <6>1. Cardinality(Of(p) \cup {c}) = IF c \in Of(p) THEN Cardinality(Of(p)) ELSE Cardinality(Of(p)) + 1
              BY Finite, FS_AddElement
            <6> QED
              BY <6>1, Finite, FS_AddElement
          <5>2. Cardinality(Of(p)') <= Cardinality(Of(p) \cup {c}) /\ Cardinality(Of(p) \cup {c}) \in Nat
            BY <4>1, <5>1, FS_Subset, FS_CardinalityType
          <5> QED
            BY <5>1, <5>2, Finite, FiniteNext
        <4>3. r \in Inserting(p)
          BY <1>8, <3>2 DEF InsertCampaign, Inserting
        <4>4. Inserting(p)' = Inserting(p) \ {r}
          BY <1>8, <1>e DEF InsertCampaign, Ends, Becomes, CampaignsTypeOK, Inserting, At
        <4>5. Cardinality(Inserting(p)') = Cardinality(Inserting(p)) - 1
          BY <4>3, <4>4, Finite, FS_RemoveElement
        <4> QED
          BY <2>1, <4>2, <4>5, Finite, FiniteNext DEF WithinQuota
      <3> QED
        BY <3>1, <3>2
    <2> QED
      BY <1>8, <2>2, <2>3 DEF InsertCampaign
  <1>9. ASSUME NEW r \in Request, DeleteCampaign(r) PROVE Goal
    <2>1. CASE Ends(r) /\ UNCHANGED campaigns
      BY <1>9, <1>a, <1>b, <1>c, <1>e, <2>1 DEF DeleteCampaign, Ends
    <2>2. CASE campaigns' = [campaigns EXCEPT ![request[r].campaign] = None] /\ AgesCampaign(r, Idle, request[r].campaign, None)
      <3>1. Of(p)' \subseteq Of(p)
        BY <2>2 DEF Of, Exists, CampaignsTypeOK
      <3> QED
        BY <1>9, <1>a, <1>d, <1>e, <2>2, <3>1 DEF DeleteCampaign, AgesCampaign
    <2> QED
      BY <1>9, <2>1, <2>2 DEF DeleteCampaign
  <1>10. ASSUME NEW k \in Key, Expire(k) PROVE Goal
    BY <1>10, <1>a, <1>b DEF Expire
  <1>11. ASSUME NEW r \in Request, Dashboard(r) PROVE Goal
    <2>1. PICK x \in Project :
              \/ CountCampaigns(r, x)
              \/ \E c \in Campaign :
                    \/ \E s \in Slug \cup {None}, e \in BOOLEAN : UpdateCampaign(r, c, x, s, e)
                    \/ ListCampaigns(r, c, x)
                    \/ \E d \in Domain : CreateDomain(r, x, d, c)
              \/ \E d \in Domain : DeleteDomain(r, x, d)
      BY <1>11 DEF Dashboard
    <2>2. CASE \E c \in Campaign, s \in Slug \cup {None}, e \in BOOLEAN : UpdateCampaign(r, c, x, s, e)
      BY <1>4, <2>2
    <2>3. CASE \E c \in Campaign : ListCampaigns(r, c, x)
      BY <1>5, <2>3
    <2>4. CASE \E c \in Campaign, d \in Domain : CreateDomain(r, x, d, c)
      BY <1>6, <2>4
    <2>5. CASE \E d \in Domain : DeleteDomain(r, x, d)
      BY <1>6, <2>5
    <2> QED
      BY <1>3, <2>1, <2>2, <2>3, <2>4, <2>5
  <1>12. CASE CampaignsNext
    BY <1>2, <1>7, <1>8, <1>9, <1>10, <1>11, <1>12 DEF CampaignsNext
  <1> QED
    BY <1>1, <1>12

(* However many calls create campaigns at once, a project has fewer of     *)
(* them than its quota and the connections together, as long as the COUNT  *)
(* works.                                                                  *)
THEOREM QuotaHolds == CampaignsSpec => []QuotaNearlyKept
  <1> DEFINE All == \A p \in Project : WithinQuota(p)
  <1>1. CampaignsInit => All
    <2> SUFFICES ASSUME CampaignsInit, NEW p \in Project PROVE WithinQuota(p)
      OBVIOUS
    <2>1. Of(p) = {} /\ Inserting(p) = {}
      BY DEF CampaignsInit, Of, Exists, Inserting, At, Idle
    <2> QED
      BY <2>1, Finite, FS_EmptySet DEF WithinQuota
  <1>2. CampaignsInv /\ All /\ [CampaignsNext]_campaignVars => All'
    BY QuotaStep DEF CampaignsInv
  <1>3. All => QuotaNearlyKept
    BY DEF WithinQuota, QuotaNearlyKept, Inserting
  <1> HIDE DEF All
  <1> QED
    BY <1>1, <1>2, <1>3, CampaignsInvariance, PTL DEF CampaignsSpec

-----------------------------------------------------------------------------
(* One story.                                                              *)

(* The records that are in use somewhere have been decided. *)
Heard == logs \cup cleared \cup visits \cup prints \cup feed.shown \cup {x[2] : x \in told}
HeardDecided == Heard \subseteq decided /\ \A t \in tasks : t.record \in decided

(* Where a decision leaves the request or the fingerprint it is about. *)
PlacesOK ==
    \A r \in decided :
        /\ r.at = "filter" => pc[r.visit].at = "over"
        /\ r.at = "check" => pc[r.visit].at \in {"over", "away"}
        /\ r.at = "fingerprint" => print[r.visit].at = "over"

(* A visit that has no page has sent no fingerprint. *)
UnsentOK == \A v \in Visitor : HasPage(v) \/ print[v].at = "unsent"

DecidedOnce == \A r, s \in decided : r.visit = s.visit /\ r.at = s.at => r = s

VisitsInv == VisitsTypeOK /\ HeardDecided /\ PlacesOK /\ UnsentOK /\ DecidedOnce

LEMMA VisitsStart == VisitsInit => VisitsInv
  <1> SUFFICES ASSUME VisitsInit PROVE VisitsInv
    OBVIOUS
  <1>1. VisitsTypeOK
    BY DEF VisitsInit, VisitsTypeOK, Closed, Stage, Sending
  <1>2. HeardDecided
    BY DEF VisitsInit, HeardDecided, Heard, Closed
  <1>3. PlacesOK /\ UnsentOK /\ DecidedOnce
    BY DEF VisitsInit, PlacesOK, UnsentOK, DecidedOnce
  <1> QED
    BY <1>1, <1>2, <1>3 DEF VisitsInv

LEMMA StageTypes ==
    /\ \A x \in {"new", "loaded", "page", "away", "over"} : [at |-> x] \in Stage
    /\ \A c \in Config, skip \in BOOLEAN : [at |-> "check", skip |-> skip, config |-> c] \in Stage
    /\ [at |-> "over"] \in Sending /\ \A c \in Config : [at |-> "read", config |-> c] \in Sending
    /\ \A c : Refusal(c) \in Verdict /\ "money" \in Verdict
  BY DEF Stage, Sending, Refusal, Verdict

LEMMA ConfigsType == ASSUME VisitsTypeOK PROVE ConfigRead \subseteq Config
  BY DEF VisitsTypeOK, ConfigRead, Config

LEMMA CheckFields ==
    ASSUME VisitsTypeOK, NEW v \in Visitor, Is(v, "check")
    PROVE  pc[v] \in [at : {"check"}, skip : BOOLEAN, config : Config]
  BY DEF VisitsTypeOK, Is, Stage

LEMMA GoesType ==
    ASSUME VisitsTypeOK, NEW v \in Visitor, NEW to, Goes(v, to)
    PROVE  /\ to \in Stage => pc' \in [Visitor -> Stage]
           /\ pc'[v] = to /\ \A u \in Visitor : u # v => pc'[u] = pc[u]
  BY DEF VisitsTypeOK, Goes

LEMMA SendsType ==
    ASSUME VisitsTypeOK, NEW v \in Visitor, NEW to, Sends(v, to)
    PROVE  /\ to \in Sending => print' \in [Visitor -> Sending]
           /\ print'[v] = to /\ \A u \in Visitor : u # v => print'[u] = print[u]
  BY DEF VisitsTypeOK, Sends

LEMMA RecordsType ==
    ASSUME NEW record \in Record
    PROVE  Records(record) \subseteq Task /\ \A t \in Records(record) : t.record = record
  BY DEF Records, Task

(* What a decision adds to the goroutines. *)
LEMMA DecidesType ==
    ASSUME VisitsTypeOK, NEW record \in Record, NEW more \in SUBSET Task, Decides(record, more),
           \A t \in more : t.record = record
    PROVE  /\ tasks' \subseteq Task /\ decided' \subseteq Record /\ decided' = decided \cup {record}
           /\ \A t \in tasks' : t \in tasks \/ t.record = record
  BY RecordsType DEF VisitsTypeOK, Decides

(* A step that decides nothing, and whose visits go on as the invariant    *)
(* wants it.                                                               *)
LEMMA Undecided ==
    ASSUME VisitsInv, VisitsTypeOK', decided' = decided, UNCHANGED <<tasks, Stored>>,
           \A r \in decided : /\ pc[r.visit].at \in {"over", "away"} => pc'[r.visit] = pc[r.visit]
                              /\ print[r.visit].at = "over" => print'[r.visit] = print[r.visit],
           UnsentOK'
    PROVE  VisitsInv'
  <1>1. HeardDecided'
    BY DEF VisitsInv, HeardDecided, Heard, Stored
  <1>2. PlacesOK'
    BY DEF VisitsInv, PlacesOK
  <1>3. DecidedOnce'
    BY DEF VisitsInv, DecidedOnce
  <1> QED
    BY <1>1, <1>2, <1>3 DEF VisitsInv

(* A step of a goroutine or of the dashboard: no request goes on.          *)
LEMMA NothingNew ==
    ASSUME VisitsInv, VisitsTypeOK', UNCHANGED <<decided, pc, print>>,
           Heard' \subseteq Heard \cup {t.record : t \in tasks},
           \A t \in tasks' : \E u \in tasks : t.record = u.record
    PROVE  VisitsInv'
  <1>1. HeardDecided'
    BY DEF VisitsInv, HeardDecided
  <1>2. PlacesOK' /\ UnsentOK' /\ DecidedOnce'
    BY DEF VisitsInv, PlacesOK, UnsentOK, DecidedOnce, HasPage, Is
  <1> QED
    BY <1>1, <1>2 DEF VisitsInv

(* A visit is decided about at one place.                                  *)
LEMMA OneDecided ==
    ASSUME VisitsInv, VisitsTypeOK', NEW record \in Record, UNCHANGED Stored,
           decided' = decided \cup {record}, \A t \in tasks' : t \in tasks \/ t.record = record,
           \A r \in decided : /\ pc[r.visit].at \in {"over", "away"} => pc'[r.visit] = pc[r.visit]
                              /\ print[r.visit].at = "over" => print'[r.visit] = print[r.visit],
           \A r \in decided : ~(r.visit = record.visit /\ r.at = record.at),
           record.at = "filter" => pc'[record.visit].at = "over",
           record.at = "check" => pc'[record.visit].at \in {"over", "away"},
           record.at = "fingerprint" => print'[record.visit].at = "over",
           UnsentOK'
    PROVE  VisitsInv'
  <1>1. HeardDecided'
    BY DEF VisitsInv, HeardDecided, Heard, Stored
  <1>2. PlacesOK'
    BY DEF VisitsInv, PlacesOK
  <1>3. DecidedOnce'
    BY DEF VisitsInv, DecidedOnce
  <1> QED
    BY <1>1, <1>2, <1>3 DEF VisitsInv

(* How Check ends: whoever is recorded about gets no page of the smart     *)
(* redirect, and only its visitors are sent away.                          *)
LEMMA CheckOutcome ==
    ASSUME VisitsTypeOK, NEW v \in Visitor, CheckDecides(v)
    PROVE  \E to \in {"over", "away", "page"} :
              /\ Goes(v, [at |-> to]) /\ (to = "away" => pc[v].skip)
              /\ \/ UNCHANGED <<tasks, decided>>
                 \/ /\ to # "page"
                    /\ \E verdict \in Verdict :
                          Decides([visit |-> v, verdict |-> verdict, at |-> "check"], {})
  <1>1. pc[v].skip \in BOOLEAN
    BY CheckFields DEF CheckDecides
  <1>2. CASE pc[v].skip
    <2>1. CASE /\ Goes(v, [at |-> "away"])
               /\ Decides([visit |-> v, verdict |-> Refusal(pc[v].config), at |-> "check"], {})
      BY <1>2, <2>1, StageTypes
    <2>2. CASE Goes(v, [at |-> "page"]) /\ UNCHANGED <<tasks, decided>>
      BY <2>2
    <2> QED
      BY <1>2, <2>1, <2>2 DEF CheckDecides, Unskipped
  <1>3. CASE ~pc[v].skip
    <2>1. ASSUME NEW verdict \in Verdict, Goes(v, [at |-> "over"]),
                 Decides([visit |-> v, verdict |-> verdict, at |-> "check"], {})
          PROVE  \E to \in {"over", "away", "page"} :
                    /\ Goes(v, [at |-> to]) /\ (to = "away" => pc[v].skip)
                    /\ \/ UNCHANGED <<tasks, decided>>
                       \/ /\ to # "page"
                          /\ \E x \in Verdict : Decides([visit |-> v, verdict |-> x, at |-> "check"], {})
      BY <2>1
    <2>2. CASE Goes(v, [at |-> "over"]) /\ UNCHANGED <<tasks, decided>>
      BY <2>2
    <2> QED
      BY <1>3, <2>1, <2>2, StageTypes DEF CheckDecides, Unskipped
  <1> QED
    BY <1>1, <1>2, <1>3

LEMMA VisitsTypes == VisitsTypeOK /\ [VisitsNext]_visitVars => VisitsTypeOK'
  <1> SUFFICES ASSUME VisitsTypeOK, [VisitsNext]_visitVars PROVE VisitsTypeOK'
    OBVIOUS
  <1>1. CASE UNCHANGED visitVars
    BY <1>1 DEF visitVars, VisitsTypeOK
  <1>2. ASSUME NEW v \in Visitor, SlugFiltered(v) PROVE VisitsTypeOK'
    <2>1. [visit |-> v, verdict |-> "redirected", at |-> "filter"] \in Record
      BY DEF Record, Verdict
    <2>2. tasks' \subseteq Task /\ decided' \subseteq Record
      BY <1>2, <2>1, DecidesType DEF SlugFiltered
    <2> QED
      BY <1>2, <2>2, GoesType, StageTypes DEF SlugFiltered, Settings, Stored, VisitsTypeOK
  <1>3. ASSUME NEW v \in Visitor, NEW skip \in BOOLEAN, Check(v, skip) PROVE VisitsTypeOK'
    <2>1. pc' \in [Visitor -> Stage]
      BY <1>3, GoesType, StageTypes, ConfigsType DEF Check
    <2> QED
      BY <1>3, <2>1 DEF Check, Settings, Stored, VisitsTypeOK
  <1>4. ASSUME NEW v \in Visitor, DomainProxyMiddleware(v) \/ LoadPage(v) PROVE VisitsTypeOK'
    <2>1. CASE Check(v, FALSE)
      BY <1>3, <2>1
    <2>2. ASSUME NEW x \in {"over", "loaded"}, Goes(v, [at |-> x]),
                 UNCHANGED <<Settings, print, tasks, decided, Stored>>
          PROVE  VisitsTypeOK'
      <3>1. pc' \in [Visitor -> Stage]
        BY <2>2, GoesType, StageTypes
      <3> QED
        BY <2>2, <3>1 DEF Settings, Stored, VisitsTypeOK
    <2> QED
      BY <1>4, <2>1, <2>2 DEF DomainProxyMiddleware, LoadPage
  <1>5. ASSUME NEW v \in Visitor, CheckDecides(v) PROVE VisitsTypeOK'
    <2>1. pc' \in [Visitor -> Stage]
      BY <1>5, CheckOutcome, GoesType, StageTypes
    <2>2. \A verdict \in Verdict : [visit |-> v, verdict |-> verdict, at |-> "check"] \in Record
      BY DEF Record
    <2>3. tasks' \subseteq Task /\ decided' \subseteq Record
      <3>1. CASE UNCHANGED <<tasks, decided>>
        BY <3>1 DEF VisitsTypeOK
      <3>2. ASSUME NEW record \in Record, Decides(record, {})
            PROVE  tasks' \subseteq Task /\ decided' \subseteq Record
        BY <3>2, DecidesType
      <3> QED
        BY <1>5, <2>2, <3>1, <3>2, CheckOutcome
    <2> QED
      BY <1>5, <2>1, <2>3 DEF CheckDecides, Settings, Stored, VisitsTypeOK
  <1>6. ASSUME NEW v \in Visitor, Fingerprint(v) PROVE VisitsTypeOK'
    <2>1. print' \in [Visitor -> Sending]
      BY <1>6, SendsType, StageTypes, ConfigsType DEF Fingerprint
    <2> QED
      BY <1>6, <2>1 DEF Fingerprint, Settings, Stored, VisitsTypeOK
  <1>7. ASSUME NEW v \in Visitor, ProcessFingerprint(v) PROVE VisitsTypeOK'
    <2>1. print' \in [Visitor -> Sending]
      BY <1>7, SendsType, StageTypes DEF ProcessFingerprint
    <2>2. tasks' \subseteq Task /\ decided' \subseteq Record
      <3>1. CASE UNCHANGED <<tasks, decided>>
        BY <3>1 DEF VisitsTypeOK
      <3>2. ASSUME NEW verdict \in Verdict, NEW record, record = [visit |-> v, verdict |-> verdict, at |-> "fingerprint"],
                   Decides(record, {[does |-> "print", record |-> record]})
            PROVE  tasks' \subseteq Task /\ decided' \subseteq Record
        <4>1. record \in Record
          BY <3>2 DEF Record
        <4>2. {[does |-> "print", record |-> record]} \in SUBSET Task
          BY <4>1 DEF Task
        <4> QED
          BY <3>2, <4>1, <4>2, DecidesType
      <3> QED
        BY <1>7, <3>1, <3>2, StageTypes DEF ProcessFingerprint, Judgements
    <2> QED
      BY <1>7, <2>1, <2>2 DEF ProcessFingerprint, Settings, Stored, VisitsTypeOK
  <1>8. ASSUME NEW t \in tasks, Run(t) PROVE VisitsTypeOK'
    <2>1. t \in Task /\ t.record \in Record
      BY DEF VisitsTypeOK, Task
    <2>2. CASE InsertLog(t)
      <3>1. [t EXCEPT !.does = "publish"] \in Task
        BY <2>1, <2>2 DEF InsertLog, Task
      <3> QED
        BY <2>1, <2>2, <3>1 DEF InsertLog, Losing, Settings, VisitsTypeOK
    <2>3. CASE Publish(t)
      BY <2>1, <2>3 DEF Publish, Settings, VisitsTypeOK
    <2>4. CASE InsertVisit(t)
      BY <2>1, <2>4 DEF InsertVisit, Losing, Settings, VisitsTypeOK
    <2>5. CASE StoreFingerprint(t)
      BY <2>1, <2>5 DEF StoreFingerprint, Settings, VisitsTypeOK
    <2>6. CASE FireWebhooks(t)
      <3>1. PICK to \in {{}, {h \in Hook : EventOf(t.record) \in hooks[h]}} :
                tasks' = (tasks \ {t}) \cup {[does |-> "dispatch", record |-> t.record, hook |-> h] : h \in to}
        BY <2>6 DEF FireWebhooks
      <3>2. \A h \in Hook : [does |-> "dispatch", record |-> t.record, hook |-> h] \in Task
        BY <2>1 DEF Task
      <3>3. tasks' \subseteq Task
        BY <3>1, <3>2 DEF VisitsTypeOK
      <3> QED
        BY <2>6, <3>3 DEF FireWebhooks, Settings, Stored, VisitsTypeOK
    <2>7. CASE Dispatch(t)
      <3>1. t.hook \in Hook
        BY <2>1, <2>7 DEF Dispatch, Task
      <3>2. <<t.hook, t.record>> \in Hook \X Record
        BY <2>1, <3>1
      <3> QED
        BY <2>7, <3>2 DEF Dispatch, Settings, VisitsTypeOK
    <2> QED
      BY <1>8, <2>2, <2>3, <2>4, <2>5, <2>6, <2>7 DEF Run
  <1>9. CASE Exit
    <2>1. pc' \in [Visitor -> Stage]
      BY <1>9, StageTypes DEF Exit, VisitsTypeOK
    <2>2. lost' \subseteq Record
      BY <1>9 DEF Exit, VisitsTypeOK, Task
    <2>3. print' \in [Visitor -> Sending]
      BY <1>9, StageTypes DEF Exit, VisitsTypeOK
    <2> QED
      BY <1>9, <2>1, <2>2, <2>3 DEF Exit, Closed, Settings, VisitsTypeOK
  <1>10. CASE UpsertConfig
    BY <1>10 DEF UpsertConfig, Stored, VisitsTypeOK
  <1>11. ASSUME NEW h \in Hook, CreateWebhook(h) \/ DeleteWebhook(h) PROVE VisitsTypeOK'
    <2>1. hooks' \in [Hook -> SUBSET Event]
      BY <1>11 DEF CreateWebhook, DeleteWebhook, VisitsTypeOK, Event
    <2> QED
      BY <1>11, <2>1 DEF CreateWebhook, DeleteWebhook, Stored, VisitsTypeOK
  <1>12. CASE ClearLogs
    BY <1>12 DEF ClearLogs, Settings, VisitsTypeOK
  <1>13. CASE StreamLogs
    BY <1>13 DEF StreamLogs, Closed, Settings, VisitsTypeOK
  <1> QED
    BY <1>1, <1>2, <1>3, <1>4, <1>5, <1>6, <1>7, <1>8, <1>9, <1>10, <1>11, <1>12, <1>13
    DEF VisitsNext, SlugCloak, CheckOfTracker, SmartRedirectAdvanced

LEMMA StoryStep == VisitsInv /\ [VisitsNext]_visitVars => VisitsInv'
  <1> SUFFICES ASSUME VisitsInv, [VisitsNext]_visitVars PROVE VisitsInv'
    OBVIOUS
  <1>0. VisitsTypeOK /\ VisitsTypeOK'
    BY VisitsTypes DEF VisitsInv
  <1>1. CASE UNCHANGED visitVars
    BY <1>0, <1>1, NothingNew DEF visitVars, Heard
  <1>r. \A r \in decided : r \in Record /\ r.visit \in Visitor
    BY <1>0 DEF VisitsTypeOK, Record
  <1>a. ASSUME NEW v \in Visitor, pc[v].at \notin {"over", "away"}, UNCHANGED print,
               NEW to, Goes(v, to), HasPage(v)' \/ print[v].at = "unsent"
        PROVE  /\ UnsentOK'
               /\ \A r \in decided : /\ pc[r.visit].at \in {"over", "away"} => pc'[r.visit] = pc[r.visit]
                                     /\ print[r.visit].at = "over" => print'[r.visit] = print[r.visit]
               /\ \A r \in decided : r.visit = v => r.at = "fingerprint"
    <2>1. pc'[v] = to /\ \A u \in Visitor : u # v => pc'[u] = pc[u]
      BY <1>0, <1>a, GoesType
    <2>2. UnsentOK'
      BY <1>a, <2>1 DEF VisitsInv, UnsentOK, HasPage, Is
    <2>3. \A r \in decided : r.visit = v => r.at = "fingerprint"
      BY <1>a, <1>r DEF VisitsInv, PlacesOK, Record
    <2> QED
      BY <1>a, <1>r, <2>1, <2>2, <2>3
  <1>b. ASSUME NEW v \in Visitor, pc[v].at \notin {"over", "away"}, UNCHANGED <<print, tasks, decided, Stored>>,
               NEW to, Goes(v, to), HasPage(v)' \/ print[v].at = "unsent"
        PROVE  VisitsInv'
    BY <1>0, <1>a, <1>b, Undecided
  <1>2. ASSUME NEW v \in Visitor, SlugFiltered(v) PROVE VisitsInv'
    <2> DEFINE record == [visit |-> v, verdict |-> "redirected", at |-> "filter"]
    <2>1. record \in Record /\ record.visit = v /\ record.at = "filter"
      BY DEF Record, Verdict
    <2>2. decided' = decided \cup {record} /\ \A t \in tasks' : t \in tasks \/ t.record = record
      BY <1>0, <1>2, <2>1, DecidesType DEF SlugFiltered
    <2>3. pc'[v] = [at |-> "over"]
      BY <1>0, <1>2, GoesType DEF SlugFiltered
    <2>4. HasPage(v)' /\ pc[v].at \notin {"over", "away"} /\ UNCHANGED <<print, Stored>> /\ Goes(v, [at |-> "over"])
      BY <1>2, <2>3 DEF HasPage, SlugFiltered, Is
    <2> HIDE DEF record
    <2> QED
      BY <1>0, <1>a, <2>1, <2>2, <2>3, <2>4, OneDecided
  <1>3. ASSUME NEW v \in Visitor, NEW skip \in BOOLEAN, Check(v, skip), Is(v, "new") \/ (Is(v, "loaded") /\ ~skip)
        PROVE  VisitsInv'
    <2>1. PICK c \in ConfigRead : Goes(v, [at |-> "check", skip |-> skip, config |-> c])
      BY <1>3 DEF Check
    <2>2. pc'[v] = [at |-> "check", skip |-> skip, config |-> c]
      BY <1>0, <2>1, GoesType
    <2>3. HasPage(v)' \/ print[v].at = "unsent"
      BY <1>3, <2>2 DEF VisitsInv, UnsentOK, HasPage, Is
    <2> QED
      BY <1>3, <1>b, <2>1, <2>3 DEF Check, Is
  <1>4. ASSUME NEW v \in Visitor, DomainProxyMiddleware(v) \/ LoadPage(v) PROVE VisitsInv'
    <2>1. CASE Is(v, "new") /\ Check(v, FALSE)
      BY <1>3, <2>1
    <2>2. ASSUME NEW x \in {"over", "loaded"}, Goes(v, [at |-> x]), Is(v, "new"),
                 UNCHANGED <<Settings, print, tasks, decided, Stored>>
          PROVE  VisitsInv'
      <3>1. HasPage(v)'
        BY <1>0, <2>2, GoesType DEF HasPage
      <3> QED
        BY <1>b, <2>2, <3>1 DEF Is
    <2> QED
      BY <1>4, <2>1, <2>2 DEF DomainProxyMiddleware, LoadPage
  <1>5. ASSUME NEW v \in Visitor, CheckDecides(v) PROVE VisitsInv'
    <2>1. PICK to \in {"over", "away", "page"} :
              /\ Goes(v, [at |-> to]) /\ (to = "away" => pc[v].skip)
              /\ \/ UNCHANGED <<tasks, decided>>
                 \/ /\ to # "page"
                    /\ \E verdict \in Verdict :
                          Decides([visit |-> v, verdict |-> verdict, at |-> "check"], {})
      BY <1>0, <1>5, CheckOutcome
    <2>2. pc'[v] = [at |-> to] /\ Is(v, "check") /\ UNCHANGED <<print, Stored>>
      BY <1>0, <1>5, <2>1, GoesType DEF CheckDecides
    <2>3. HasPage(v)' \/ print[v].at = "unsent"
      BY <2>1, <2>2 DEF VisitsInv, UnsentOK, HasPage, Is
    <2>4. pc[v].at \notin {"over", "away"}
      BY <2>2 DEF Is
    <2>5. CASE UNCHANGED <<tasks, decided>>
      BY <1>b, <2>1, <2>2, <2>3, <2>4, <2>5
    <2>6. ASSUME to # "page", NEW verdict \in Verdict,
                 Decides([visit |-> v, verdict |-> verdict, at |-> "check"], {})
          PROVE  VisitsInv'
      <3> DEFINE record == [visit |-> v, verdict |-> verdict, at |-> "check"]
      <3>1. record \in Record /\ record.visit = v /\ record.at = "check"
        BY DEF Record
      <3>2. decided' = decided \cup {record} /\ \A t \in tasks' : t \in tasks \/ t.record = record
        BY <1>0, <2>6, <3>1, DecidesType
      <3>3. pc'[v].at \in {"over", "away"}
        BY <2>2, <2>6
      <3> HIDE DEF record
      <3> QED
        BY <1>0, <1>a, <2>1, <2>2, <2>3, <2>4, <3>1, <3>2, <3>3, OneDecided
    <2> QED
      BY <2>1, <2>5, <2>6
  <1>c. ASSUME NEW v \in Visitor, HasPage(v), UNCHANGED pc, print[v].at # "over", NEW to, Sends(v, to)
        PROVE  /\ UnsentOK'
               /\ \A r \in decided : /\ pc[r.visit].at \in {"over", "away"} => pc'[r.visit] = pc[r.visit]
                                     /\ print[r.visit].at = "over" => print'[r.visit] = print[r.visit]
               /\ \A r \in decided : r.visit = v => r.at # "fingerprint"
    <2>1. \A u \in Visitor : u # v => print'[u] = print[u]
      BY <1>0, <1>c, SendsType
    <2>2. UnsentOK'
      BY <1>c, <2>1 DEF VisitsInv, UnsentOK, HasPage, Is
    <2>3. \A r \in decided : r.visit = v => r.at # "fingerprint"
      BY <1>c DEF VisitsInv, PlacesOK
    <2> QED
      BY <1>c, <1>r, <2>1, <2>2, <2>3
  <1>6. ASSUME NEW v \in Visitor, Fingerprint(v) PROVE VisitsInv'
    BY <1>0, <1>6, <1>c, Undecided DEF Fingerprint
  <1>7. ASSUME NEW v \in Visitor, ProcessFingerprint(v) PROVE VisitsInv'
    <2>1. HasPage(v) /\ UNCHANGED <<pc, Stored>> /\ print[v].at # "over" /\ Sends(v, [at |-> "over"])
      BY <1>7 DEF ProcessFingerprint, VisitsInv, UnsentOK
    <2>2. CASE UNCHANGED <<tasks, decided>>
      BY <1>0, <1>c, <2>1, <2>2, Undecided
    <2>3. ASSUME NEW verdict \in Verdict, NEW record, record = [visit |-> v, verdict |-> verdict, at |-> "fingerprint"],
                 Decides(record, {[does |-> "print", record |-> record]})
          PROVE  VisitsInv'
      <3>1. record \in Record /\ record.visit = v /\ record.at = "fingerprint"
        BY <2>3 DEF Record
      <3>2. {[does |-> "print", record |-> record]} \in SUBSET Task
        BY <3>1 DEF Task
      <3>3. decided' = decided \cup {record} /\ \A t \in tasks' : t \in tasks \/ t.record = record
        BY <1>0, <2>3, <3>1, <3>2, DecidesType
      <3>4. print'[v].at = "over"
        BY <1>0, <2>1, SendsType
      <3> QED
        BY <1>0, <1>c, <2>1, <3>1, <3>3, <3>4, OneDecided
    <2> QED
      BY <1>7, <2>2, <2>3, StageTypes DEF ProcessFingerprint, Judgements
  <1>8. ASSUME NEW t \in tasks, Run(t) PROVE VisitsInv'
    <2> DEFINE Records_ == {u.record : u \in tasks}
    <2>0. t.record \in Records_
      OBVIOUS
    <2>2. CASE InsertLog(t)
      <3>1. [t EXCEPT !.does = "publish"].record = t.record
        BY <1>0, <2>2 DEF VisitsTypeOK, Task, InsertLog
      <3>2. Heard' \subseteq Heard \cup Records_
        BY <2>0, <2>2 DEF InsertLog, Heard
      <3>3. \A u \in tasks' : \E w \in tasks : u.record = w.record
        BY <2>2, <3>1 DEF InsertLog
      <3> QED
        BY <1>0, <2>2, <3>2, <3>3, NothingNew DEF InsertLog
    <2>3. CASE Publish(t)
      <3>1. feed'.shown \subseteq feed.shown \cup {t.record}
        BY <1>0, <2>3 DEF Publish, VisitsTypeOK
      <3>2. Heard' \subseteq Heard \cup Records_
        BY <2>0, <2>3, <3>1 DEF Publish, Heard
      <3> QED
        BY <1>0, <2>3, <3>2, NothingNew DEF Publish
    <2>4. CASE InsertVisit(t)
      <3>1. Heard' \subseteq Heard \cup Records_
        BY <2>0, <2>4 DEF InsertVisit, Heard
      <3> QED
        BY <1>0, <2>4, <3>1, NothingNew DEF InsertVisit
    <2>5. CASE StoreFingerprint(t)
      <3>1. Heard' \subseteq Heard \cup Records_
        BY <2>0, <2>5 DEF StoreFingerprint, Heard
      <3> QED
        BY <1>0, <2>5, <3>1, NothingNew DEF StoreFingerprint
    <2>6. CASE FireWebhooks(t)
      <3>1. \A u \in tasks' : u \in tasks \/ u.record = t.record
        BY <2>6 DEF FireWebhooks
      <3>2. Heard' = Heard /\ UNCHANGED <<decided, pc, print>>
        BY <2>6 DEF FireWebhooks, Stored, Heard
      <3> QED
        BY <1>0, <3>1, <3>2, NothingNew
    <2>7. CASE Dispatch(t)
      <3>1. told' \subseteq told \cup {<<t.hook, t.record>>}
        BY <2>7 DEF Dispatch
      <3>2. Heard' \subseteq Heard \cup Records_
        BY <2>0, <2>7, <3>1 DEF Dispatch, Heard
      <3> QED
        BY <1>0, <2>7, <3>2, NothingNew DEF Dispatch
    <2> QED
      BY <1>8, <2>2, <2>3, <2>4, <2>5, <2>6, <2>7 DEF Run
  <1>9. CASE Exit
    <2>1. /\ tasks' = {} /\ decided' = decided /\ Heard' \subseteq Heard
          /\ \A v \in Visitor : /\ pc[v].at # "check" => pc'[v] = pc[v]
                                /\ pc[v].at = "check" => pc'[v] = [at |-> IF pc[v].skip THEN "away" ELSE "over"]
                                /\ print[v].at # "read" => print'[v] = print[v]
                                /\ print[v].at = "read" => print'[v] = [at |-> "over"]
      BY <1>9 DEF Exit, Closed, Heard, Is
    <2>2. HeardDecided'
      BY <2>1 DEF VisitsInv, HeardDecided
    <2>3. PlacesOK' /\ DecidedOnce'
      BY <1>r, <2>1 DEF VisitsInv, PlacesOK, DecidedOnce
    <2>4. ASSUME NEW v \in Visitor PROVE HasPage(v)' \/ print'[v].at = "unsent"
      <3>1. CASE HasPage(v)
        <4>1. CASE pc[v].at = "check"
          <5>1. ~pc[v].skip
            BY <3>1, <4>1 DEF HasPage, Is
          <5>2. pc'[v] = [at |-> IF pc[v].skip THEN "away" ELSE "over"]
            BY <2>1, <4>1
          <5>3. (IF pc[v].skip THEN "away" ELSE "over") = "over"
            BY <5>1
          <5>4. pc'[v].at = "over"
            BY <5>2, <5>3
          <5> QED
            BY <5>4 DEF HasPage
        <4>2. CASE pc[v].at # "check"
          <5>1. pc'[v] = pc[v]
            BY <2>1, <4>2
          <5> QED
            BY <3>1, <5>1 DEF HasPage, Is
        <4> QED
          BY <4>1, <4>2
      <3>2. CASE ~HasPage(v)
        <4>1. print[v].at = "unsent"
          BY <3>2 DEF VisitsInv, UnsentOK
        <4> QED
          BY <2>1, <4>1
      <3> QED
        BY <3>1, <3>2
    <2>5. UnsentOK'
      BY <2>4 DEF UnsentOK
    <2> QED
      BY <1>0, <2>2, <2>3, <2>5, <2>4 DEF VisitsInv
  <1>10. CASE UpsertConfig \/ \E h \in Hook : CreateWebhook(h) \/ DeleteWebhook(h)
    <2>1. UNCHANGED <<pc, print, tasks, decided, Stored>>
      BY <1>10 DEF UpsertConfig, CreateWebhook, DeleteWebhook
    <2> QED
      BY <1>0, <2>1, NothingNew DEF Stored, Heard
  <1>11. CASE ClearLogs \/ StreamLogs
    <2>1. Heard' \subseteq Heard /\ UNCHANGED <<pc, print, tasks, decided>>
      BY <1>11 DEF ClearLogs, StreamLogs, Closed, Heard
    <2> QED
      BY <1>0, <2>1, NothingNew
  <1> QED
    BY <1>1, <1>2, <1>3, <1>4, <1>5, <1>6, <1>7, <1>8, <1>9, <1>10, <1>11
    DEF VisitsNext, SlugCloak, CheckOfTracker, SmartRedirectAdvanced

(* The invariant of the visits and what is recorded of them. *)
THEOREM VisitsInvariance == VisitsSpec => []VisitsInv
  BY VisitsStart, StoryStep, PTL DEF VisitsSpec

(* Whatever is recorded, shown or told of a visit comes from one decision  *)
(* at each place it passes, and of the smart redirect from one at all:     *)
(* whoever gets its page was not recorded by Check, and whoever was sent   *)
(* away sends no fingerprint.                                              *)
THEOREM StoryHolds == VisitsSpec => []OneStory
  <1>1. VisitsInv => OneStory
    <2> SUFFICES ASSUME VisitsInv, NEW r \in Heard, NEW s \in Heard, r.visit = s.visit,
                        r.at = s.at \/ pc[r.visit].at \in {"page", "away"}
                 PROVE  r = s
      BY DEF OneStory, Heard
    <2>1. r \in decided /\ s \in decided /\ {r, s} \subseteq Record
      BY DEF VisitsInv, HeardDecided, VisitsTypeOK
    <2>2. r.at = s.at
      <3>1. /\ r.at \in {"filter", "check", "fingerprint"} /\ s.at \in {"filter", "check", "fingerprint"}
        BY <2>1 DEF Record
      <3>2. CASE pc[r.visit].at = "page"
        <4>1. r.at = "fingerprint" /\ s.at = "fingerprint"
          BY <2>1, <3>1, <3>2 DEF VisitsInv, PlacesOK
        <4> QED
          BY <4>1
      <3>3. CASE pc[r.visit].at = "away"
        <4>1. r.visit \in Visitor
          BY <2>1 DEF Record
        <4>2. print[r.visit].at = "unsent"
          BY <3>3, <4>1 DEF VisitsInv, UnsentOK, HasPage, Is
        <4>3. r.at = "check" /\ s.at = "check"
          BY <2>1, <3>1, <3>3, <4>2 DEF VisitsInv, PlacesOK
        <4> QED
          BY <4>3
      <3> QED
        BY <3>2, <3>3
    <2> QED
      BY <2>1, <2>2 DEF VisitsInv, DecidedOnce
  <1> QED
    BY <1>1, VisitsInvariance, PTL
=============================================================================
