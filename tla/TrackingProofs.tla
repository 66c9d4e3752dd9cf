--------------------------- MODULE TrackingProofs ---------------------------
(***************************************************************************)
(* Proofs about Tracking, for any number of visitors, sessions, contacts,  *)
(* connections, requests and platforms and any bound.                      *)
(***************************************************************************)
EXTENDS Tracking, TLAPS

(* What the upsert of a session does to the rows of sessions. *)
LEMMA InsertOrTouchFacts ==
    ASSUME TypeOK, NEW s \in SessionId, NEW v \in VisitorId, InsertOrTouch(s, v)
    PROVE  /\ Live' = Live \cup {s}
           /\ \A x \in Live : sessions'[x] = sessions[x]
           /\ s \notin Live => sessions'[s] = NewSession(v)
           /\ \A x \in Live' : sessions'[x] \in SessionRow
           /\ now' \in 0 .. MaxStarts /\ now <= now'
  <1> USE TrackingAssumption DEF Live
  <1>1. CASE s \in Live
    <2>1. sessions' = sessions /\ now' = now
      BY <1>1 DEF InsertOrTouch
    <2>2. DOMAIN sessions' = DOMAIN sessions \cup {s}
      BY <1>1, <2>1
    <2>3. now' \in 0 .. MaxStarts /\ now <= now'
      BY <2>1 DEF TypeOK
    <2> QED
      BY <1>1, <2>1, <2>2, <2>3 DEF TypeOK
  <1>2. CASE s \notin Live
    <2>1. /\ now < MaxStarts /\ now' = now + 1
          /\ sessions' = [x \in Live \cup {s} |-> IF x = s THEN NewSession(v) ELSE sessions[x]]
      BY <1>2 DEF InsertOrTouch
    <2>2. now \in 0 .. MaxStarts - 1 /\ 0 \in 0 .. MaxBeat
      BY <2>1 DEF TypeOK
    <2>3. NewSession(v) \in SessionRow
      BY <2>2 DEF NewSession, SessionRow
    <2> QED
      BY <1>2, <2>1, <2>2, <2>3 DEF TypeOK
  <1> QED
    BY <1>1, <1>2

(* The upsert keeps the types when nothing else changes with it. *)
LEMMA InsertOrTouchTypes ==
    ASSUME TypeOK, NEW s \in SessionId, NEW v \in VisitorId, InsertOrTouch(s, v),
           UNCHANGED <<visitors, attributions, identifiers, conversions, jobs, cutoff>>
    PROVE  TypeOK'
  <1> USE TrackingAssumption DEF Live, Stored
  <1>1. /\ Live' = Live \cup {s} /\ Live \subseteq Live' /\ Live' \subseteq SessionId
        /\ \A x \in Live' : sessions'[x] \in SessionRow
    <2>1. /\ DOMAIN sessions' = Live \cup {s}
          /\ \A x \in Live \cup {s} : sessions'[x] \in SessionRow
      BY InsertOrTouchFacts
    <2>2. Live \subseteq SessionId
      BY DEF TypeOK
    <2> QED
      BY <2>1, <2>2
  <1>2. now' \in 0 .. MaxStarts /\ cutoff' \in 0 .. now'
    <2>1. now' \in 0 .. MaxStarts /\ now <= now'
      BY InsertOrTouchFacts
    <2> QED
      BY <2>1 DEF TypeOK
  <1>3. \A c \in Stored : conversions[c] \in [session : Live' \cup {None}, attributed : BOOLEAN]
    BY <1>1 DEF TypeOK
  <1> QED
    BY <1>1, <1>2, <1>3 DEF TypeOK

(* Every step keeps the types, those of the handlers included. *)
LEMMA TypeStep == TypeOK /\ HandlersOK /\ [Next]_vars => TypeOK' /\ HandlersOK'
  <1> SUFFICES ASSUME TypeOK, HandlersOK, [Next]_vars PROVE TypeOK' /\ HandlersOK'
    OBVIOUS
  <1> USE TrackingAssumption DEF vars, rows, Live, Stored
  <1>1. ASSUME NEW q \in Visit, GetOrCreateVisitor(q) PROVE TypeOK' /\ HandlersOK'
    <2>1. \A id \in ClientIds : id[1] \in VisitorId /\ id[2] \in SessionId
      BY DEF ClientIds
    <2>2. visitors' \subseteq VisitorId /\ visitors \subseteq visitors'
      BY <1>1, <2>1 DEF GetOrCreateVisitor, TypeOK
    <2>3. visit' \in [Visit -> VisitState]
      BY <1>1, <2>1 DEF GetOrCreateVisitor, VisitDone, HandlersOK, VisitState
    <2> QED
      BY <1>1, <2>2, <2>3 DEF GetOrCreateVisitor, TypeOK, HandlersOK
  <1>2. ASSUME NEW q \in Visit, UpsertSession(q) PROVE TypeOK' /\ HandlersOK'
    <2>1. visit[q].session \in SessionId /\ visit[q].visitor \in VisitorId
      BY <1>2 DEF UpsertSession, HandlersOK, VisitState
    <2>2. visit' \in [Visit -> VisitState]
      BY <1>2 DEF UpsertSession, VisitDone, HandlersOK, VisitState
    <2>3. CASE UNCHANGED <<sessions, now>>
      BY <1>2, <2>2, <2>3 DEF UpsertSession, TypeOK, HandlersOK
    <2>4. CASE InsertOrTouch(visit[q].session, visit[q].visitor)
      BY <1>2, <2>1, <2>2, <2>4, InsertOrTouchTypes DEF UpsertSession, HandlersOK
    <2> QED
      BY <1>2, <2>3, <2>4 DEF UpsertSession
  <1>3. ASSUME NEW q \in Visit, UpsertAttribution(q) PROVE TypeOK' /\ HandlersOK'
    <2>1. visit' \in [Visit -> VisitState]
      BY <1>3 DEF UpsertAttribution, VisitDone, HandlersOK, VisitState
    <2>2. /\ DOMAIN attributions' \subseteq Live
          /\ \A s \in DOMAIN attributions' : attributions'[s] \in Fields
      <3>1. \A s : Attribution(s) \in Fields
        BY DEF Attribution, Fields, TypeOK
      <3>2. \A old, F \in Fields : Merged(old, F) \in Fields
        BY DEF Merged, Fields
      <3> QED
        BY <1>3, <3>1, <3>2 DEF UpsertAttribution, TypeOK
    <2> QED
      BY <1>3, <2>1, <2>2 DEF UpsertAttribution, TypeOK, HandlersOK
  <1>4. ASSUME NEW v \in VisitorId, NEW c \in Contact, Identify(v, c) PROVE TypeOK' /\ HandlersOK'
    BY <1>4 DEF Identify, TypeOK, HandlersOK
  <1>5. ASSUME NEW s \in SessionId, Heartbeat(s) PROVE TypeOK' /\ HandlersOK'
    <2>1. PICK n \in 0 .. MaxBeat, page \in Page \cup {Empty} :
             sessions' = [sessions EXCEPT ![s].metric = Greatest(@, n),
                                          ![s].exit = LastNamed(@, page)]
      BY <1>5 DEF Heartbeat
    <2>2. /\ DOMAIN sessions' = DOMAIN sessions
          /\ \A x \in DOMAIN sessions : sessions'[x] \in SessionRow
      BY <2>1 DEF TypeOK, Greatest, LastNamed, SessionRow
    <2> QED
      BY <1>5, <2>2 DEF Heartbeat, TypeOK, HandlersOK
  <1>6. ASSUME NEW r \in Request, WebhookStart(r) PROVE TypeOK' /\ HandlersOK'
    <2>1. request' \in [Request -> RequestState]
      BY <1>6 DEF WebhookStart, PayloadOf, NamedSession, HandlersOK, RequestState
    <2> QED
      BY <1>6, <2>1 DEF WebhookStart, PayloadOf, NamedSession, TypeOK, HandlersOK
  <1>7. ASSUME NEW r \in Request, ResolveDirect(r) PROVE TypeOK' /\ HandlersOK'
    <2>1. request' \in [Request -> RequestState]
      BY <1>7 DEF ResolveDirect, RequestAt, HandlersOK, RequestState
    <2> QED
      BY <1>7, <2>1 DEF ResolveDirect, TypeOK, HandlersOK
  <1>8. ASSUME NEW r \in Request, ResolveTouch(r) PROVE TypeOK' /\ HandlersOK'
    <2>1. request[r].sid \in SessionId
      BY <1>8 DEF ResolveTouch, HandlersOK, RequestState
    <2>2. request' \in [Request -> RequestState]
      BY <1>8, <2>1 DEF ResolveTouch, Goes, HandlersOK, RequestState, SessionId
    <2>3. CASE UNCHANGED <<sessions, now>>
      BY <1>8, <2>2, <2>3 DEF ResolveTouch, TypeOK, HandlersOK
    <2>4. CASE InsertOrTouch(request[r].sid, Nil)
      BY <1>8, <2>1, <2>2, <2>4, InsertOrTouchTypes
      DEF ResolveTouch, HandlersOK, SessionId, VisitorId
    <2> QED
      BY <1>8, <2>3, <2>4 DEF ResolveTouch
  <1>9. ASSUME NEW r \in Request, ResolveEmail(r) PROVE TypeOK' /\ HandlersOK'
    <2>1. request' \in [Request -> RequestState]
      BY <1>9 DEF ResolveEmail, Resolve, Latest, SessionsOf, Goes, RequestAt, HandlersOK, RequestState, TypeOK
    <2> QED
      BY <1>9, <2>1 DEF ResolveEmail, TypeOK, HandlersOK
  <1>10. ASSUME NEW r \in Request, ResolvePhone(r) PROVE TypeOK' /\ HandlersOK'
    <2>1. request' \in [Request -> RequestState]
      BY <1>10 DEF ResolvePhone, Resolve, Latest, SessionsOf, Goes, HandlersOK, RequestState, TypeOK
    <2> QED
      BY <1>10, <2>1 DEF ResolvePhone, TypeOK, HandlersOK
  <1>11. ASSUME NEW r \in Request, CreateConversion(r) PROVE TypeOK' /\ HandlersOK'
    <2>1. request' \in [Request -> RequestState]
      BY <1>11 DEF CreateConversion, EnqueueUnattributed, RequestAt, HandlersOK, RequestState
    <2>2. /\ DOMAIN conversions' \subseteq Request
          /\ \A c \in DOMAIN conversions' :
                conversions'[c] \in [session : Live \cup {None}, attributed : BOOLEAN]
      <3>1. CASE UNCHANGED conversions
        BY <3>1 DEF TypeOK
      <3>2. CASE Insert(r, None)
        BY <3>2 DEF Insert, TypeOK
      <3> QED
        BY <1>11, <3>1, <3>2 DEF CreateConversion
    <2> QED
      BY <1>11, <2>1, <2>2 DEF CreateConversion, TypeOK, HandlersOK
  <1>12. ASSUME NEW r \in Request, MarkAttributed(r) PROVE TypeOK' /\ HandlersOK'
    <2>1. request' \in [Request -> RequestState]
      BY <1>12 DEF MarkAttributed, Enqueue, EnqueueUnattributed, HandlersOK, RequestState
    <2>2. /\ DOMAIN conversions' \subseteq Request
          /\ \A c \in DOMAIN conversions' :
                conversions'[c] \in [session : Live \cup {None}, attributed : BOOLEAN]
      <3> DEFINE s == request[r].found
      <3>1. CASE UNCHANGED conversions
        BY <3>1 DEF TypeOK
      <3>2. ASSUME s \in Live,
                   conversions' = [conversions EXCEPT ![r] = [session |-> s, attributed |-> TRUE]]
            PROVE  /\ DOMAIN conversions' \subseteq Request
                   /\ \A c \in DOMAIN conversions' :
                         conversions'[c] \in [session : Live \cup {None}, attributed : BOOLEAN]
        <4>1. DOMAIN conversions' = Stored
          BY <3>2
        <4>2. \A c \in Stored : conversions'[c] \in [session : Live \cup {None}, attributed : BOOLEAN]
          BY <3>2 DEF TypeOK
        <4> QED
          BY <4>1, <4>2 DEF TypeOK
      <3> QED
        BY <1>12, <3>1, <3>2 DEF MarkAttributed
    <2> QED
      BY <1>12, <2>1, <2>2 DEF MarkAttributed, TypeOK, HandlersOK
  <1>13. ASSUME NEW r \in Request, RuleFires(r) PROVE TypeOK' /\ HandlersOK'
    <2>1. request' \in [Request -> RequestState]
      BY <1>13 DEF RuleFires, EnqueueUnattributed, HandlersOK, RequestState
    <2>2. /\ DOMAIN conversions' \subseteq Request
          /\ \A c \in DOMAIN conversions' :
                conversions'[c] \in [session : Live \cup {None}, attributed : BOOLEAN]
      BY <1>13 DEF RuleFires, Insert, TypeOK
    <2> QED
      BY <1>13, <2>1, <2>2 DEF RuleFires, TypeOK, HandlersOK
  <1>14. ASSUME NEW r \in Request, EnqueueIntegrations(r) PROVE TypeOK' /\ HandlersOK'
    <2>1. request' \in [Request -> RequestState]
      BY <1>14 DEF EnqueueIntegrations, RequestAt, HandlersOK, RequestState
    <2> QED
      BY <1>14, <2>1 DEF EnqueueIntegrations, TypeOK, HandlersOK
  <1>15. ASSUME Age PROVE TypeOK' /\ HandlersOK'
    BY <1>15 DEF Age, TypeOK, HandlersOK
  <1>16. ASSUME Retention PROVE TypeOK' /\ HandlersOK'
    <2> DEFINE kept == Live \ Expired
    <2>1. /\ DOMAIN sessions' = kept
          /\ \A s \in kept : sessions'[s] = sessions[s]
          /\ DOMAIN attributions' \subseteq kept
          /\ \A s \in DOMAIN attributions' : s \in DOMAIN attributions /\ attributions'[s] = attributions[s]
      BY <1>16 DEF Retention
    <2>2. \A c \in Stored : conversions[c].session \in kept \cup {None}
      BY <1>16 DEF Retention, Converted, TypeOK
    <2>3. \A c \in Stored : conversions[c] \in [session : kept \cup {None}, attributed : BOOLEAN]
      BY <2>2 DEF TypeOK
    <2> QED
      BY <1>16, <2>1, <2>3 DEF Retention, TypeOK, HandlersOK
  <1>17. CASE UNCHANGED vars
    BY <1>17 DEF TypeOK, HandlersOK
  <1> QED
    BY <1>1, <1>2, <1>3, <1>4, <1>5, <1>6, <1>7, <1>8, <1>9, <1>10, <1>11, <1>12,
       <1>13, <1>14, <1>15, <1>16, <1>17 DEF Next, Collect, VisitStep, RequestStep
-----------------------------------------------------------------------------
(* The row of a conversion and its jobs follow the handler. *)
LEMMA RowStep == IInv /\ [Next]_vars => RowFollowsHandler'
  <1> SUFFICES ASSUME IInv, [Next]_vars PROVE RowFollowsHandler'
    OBVIOUS
  <1> USE DEF IInv, vars, rows, Stored
  <1> DEFINE Same == UNCHANGED <<conversions, jobs, request>>
  <1>0. ASSUME Same PROVE RowFollowsHandler'
    BY <1>0 DEF RowFollowsHandler
  (* A handler that moves from a place without a row to another one. *)
  <1>a. ASSUME NEW r \in Request, UNCHANGED <<conversions, jobs>>,
               request[r].pc \in {"idle", "direct", "touch", "email", "phone"},
               request'[r].pc \in {"direct", "touch", "email", "phone", "create"},
               \A x \in Request \ {r} : request'[x] = request[x]
        PROVE  RowFollowsHandler'
    <2>1. r \notin Stored /\ \A j \in jobs : j[1] # r
      BY <1>a DEF RowFollowsHandler
    <2>2. \A j \in jobs : j[1] \in Request
      BY DEF TypeOK
    <2> QED
      BY <1>a, <2>1, <2>2 DEF RowFollowsHandler
  <1>1. ASSUME NEW r \in Request, WebhookStart(r) PROVE RowFollowsHandler'
    BY <1>1, <1>a DEF WebhookStart, PayloadOf, NamedSession, HandlersOK
  <1>2. ASSUME NEW r \in Request, ResolveDirect(r) PROVE RowFollowsHandler'
    BY <1>2, <1>a DEF ResolveDirect, RequestAt, HandlersOK, RequestState
  <1>3. ASSUME NEW r \in Request, ResolveTouch(r) PROVE RowFollowsHandler'
    BY <1>3, <1>a DEF ResolveTouch, Goes, HandlersOK
  <1>4. ASSUME NEW r \in Request, ResolveEmail(r) PROVE RowFollowsHandler'
    BY <1>4, <1>a DEF ResolveEmail, Resolve, Goes, RequestAt, HandlersOK, RequestState
  <1>5. ASSUME NEW r \in Request, ResolvePhone(r) PROVE RowFollowsHandler'
    BY <1>5, <1>a DEF ResolvePhone, Resolve, Goes, HandlersOK
  <1>6. ASSUME NEW r \in Request, CreateConversion(r) PROVE RowFollowsHandler'
    <2>1. r \notin Stored /\ \A j \in jobs : j[1] \in Request \ {r}
      BY <1>6 DEF CreateConversion, RowFollowsHandler, TypeOK
    <2>2. /\ \A x \in Request \ {r} : request'[x] = request[x]
          /\ jobs' = jobs
      BY <1>6 DEF CreateConversion, EnqueueUnattributed, RequestAt, HandlersOK
    <2>3. CASE /\ UNCHANGED conversions
               /\ request' = [request EXCEPT ![r] = [pc |-> "done", sid |-> None, via |-> None]]
      <3>1. request'[r].pc = "done"
        BY <1>6, <2>3 DEF CreateConversion, HandlersOK
      <3> QED
        BY <2>1, <2>2, <2>3, <3>1 DEF RowFollowsHandler
    <2>4. CASE /\ Insert(r, None)
               /\ IF request[r].found = None THEN EnqueueUnattributed(r) ELSE RequestAt(r, "mark")
      <3>1. request'[r].pc \in {"mark", "enqueue"}
        BY <1>6, <2>4 DEF CreateConversion, EnqueueUnattributed, RequestAt, HandlersOK, RequestState
      <3>2. /\ Stored' = Stored \cup {r} /\ ~conversions'[r].attributed
            /\ \A x \in Stored \ {r} : conversions'[x] = conversions[x]
        BY <2>4 DEF Insert
      <3> QED
        BY <2>1, <2>2, <3>1, <3>2 DEF RowFollowsHandler
    <2> QED
      BY <1>6, <2>3, <2>4 DEF CreateConversion
  <1>7. ASSUME NEW r \in Request, MarkAttributed(r) PROVE RowFollowsHandler'
    <2>1. r \in Stored /\ \A j \in jobs : j[1] \in Request \ {r}
      BY <1>7 DEF MarkAttributed, RowFollowsHandler, TypeOK
    <2>2. /\ \A x \in Request \ {r} : request'[x] = request[x]
          /\ request'[r].pc = "enqueue"
          /\ jobs' = jobs
      BY <1>7 DEF MarkAttributed, Enqueue, EnqueueUnattributed, HandlersOK
    <2>3. Stored' = Stored /\ \A x \in Stored \ {r} : conversions'[x] = conversions[x]
      BY <1>7 DEF MarkAttributed
    <2> QED
      BY <2>1, <2>2, <2>3 DEF RowFollowsHandler
  <1>8. ASSUME NEW r \in Request, RuleFires(r) PROVE RowFollowsHandler'
    <2>1. r \notin Stored /\ \A j \in jobs : j[1] \in Request \ {r}
      BY <1>8 DEF RuleFires, RowFollowsHandler, TypeOK
    <2>2. /\ \A x \in Request \ {r} : request'[x] = request[x]
          /\ request'[r].pc = "enqueue"
          /\ jobs' = jobs
      BY <1>8 DEF RuleFires, EnqueueUnattributed, HandlersOK
    <2>3. /\ Stored' = Stored \cup {r}
          /\ \A x \in Stored \ {r} : conversions'[x] = conversions[x]
      BY <1>8 DEF RuleFires, Insert
    <2> QED
      BY <2>1, <2>2, <2>3 DEF RowFollowsHandler
  <1>9. ASSUME NEW r \in Request, EnqueueIntegrations(r) PROVE RowFollowsHandler'
    <2>1. /\ \A x \in Request \ {r} : request'[x] = request[x]
          /\ request'[r].pc = "done"
          /\ conversions' = conversions /\ r \in Stored
      BY <1>9 DEF EnqueueIntegrations, RequestAt, HandlersOK, RequestState, RowFollowsHandler
    <2>2. \A j \in jobs' : j \in jobs \/ j[1] = r
      BY <1>9 DEF EnqueueIntegrations
    <2>3. \A j \in jobs : j[1] \in Request
      BY DEF TypeOK
    <2> QED
      BY <2>1, <2>2, <2>3 DEF RowFollowsHandler
  <1>10. ASSUME NEW q \in Visit, VisitStep(q) PROVE RowFollowsHandler'
    BY <1>10, <1>0 DEF VisitStep, GetOrCreateVisitor, UpsertSession, UpsertAttribution
  <1>11. ASSUME NEW v \in VisitorId, NEW c \in Contact, Identify(v, c) PROVE RowFollowsHandler'
    BY <1>11, <1>0 DEF Identify
  <1>12. ASSUME NEW s \in SessionId, Heartbeat(s) PROVE RowFollowsHandler'
    BY <1>12, <1>0 DEF Heartbeat
  <1>13. ASSUME Age \/ Retention \/ UNCHANGED vars PROVE RowFollowsHandler'
    BY <1>13, <1>0 DEF Age, Retention
  <1> QED
    BY <1>1, <1>2, <1>3, <1>4, <1>5, <1>6, <1>7, <1>8, <1>9, <1>10, <1>11, <1>12, <1>13
    DEF Next, Collect, RequestStep

(* In every reachable state the rows and the handlers fit together. *)
THEOREM TrackingInvariance == Spec => []IInv
  <1>1. Init => IInv
    <2>1. Init => TypeOK
      BY TrackingAssumption DEF Init, TypeOK, Live, Stored
    <2>2. Init => HandlersOK
      BY DEF Init, HandlersOK, VisitState, RequestState
    <2>3. Init => RowFollowsHandler
      BY DEF Init, RowFollowsHandler, Stored
    <2> QED
      BY <2>1, <2>2, <2>3 DEF IInv
  <1>2. IInv /\ [Next]_vars => IInv'
    BY TypeStep, RowStep DEF IInv
  <1> QED
    BY <1>1, <1>2, PTL DEF Spec

(* Every variable keeps its type; in particular attributions and           *)
(* conversions never refer to a session that is gone.                      *)
THEOREM TrackingTypes == Spec => []TypeOK
  BY TrackingInvariance, PTL DEF IInv
-----------------------------------------------------------------------------
(* A job in the queue refers to a conversion that no later step changes:   *)
(* the handlers enqueue last.                                              *)
THEOREM QueuedRowsSettled == Spec => QueuedRowIsFinal
  <1> DEFINE Step == \A c \in Request : (\E p \in Platform : <<c, p>> \in jobs')
                        => c \in Stored /\ conversions'[c] = conversions[c]
  <1>1. ASSUME IInv, [Next]_vars PROVE Step
    <2> SUFFICES ASSUME NEW c \in Request, NEW p \in Platform, <<c, p>> \in jobs'
                 PROVE  c \in Stored /\ conversions'[c] = conversions[c]
      OBVIOUS
    <2> USE <1>1 DEF IInv, vars, rows, Stored
    <2>1. ASSUME <<c, p>> \in jobs
          PROVE  c \in Stored /\ request[c].pc = "done"
      BY <2>1 DEF RowFollowsHandler
    <2>2. ASSUME NEW r \in Request, CreateConversion(r) \/ RuleFires(r)
          PROVE  c \in Stored /\ conversions'[c] = conversions[c]
      <3>1. <<c, p>> \in jobs /\ request[r].pc # "done"
        BY <2>2 DEF CreateConversion, RuleFires
      <3>2. c \in Stored /\ c # r
        BY <2>1, <3>1
      <3> QED
        BY <2>2, <3>2 DEF CreateConversion, RuleFires, Insert
    <2>3. ASSUME NEW r \in Request, MarkAttributed(r)
          PROVE  c \in Stored /\ conversions'[c] = conversions[c]
      <3>1. <<c, p>> \in jobs /\ request[r].pc # "done"
        BY <2>3 DEF MarkAttributed
      <3>2. c \in Stored /\ c # r
        BY <2>1, <3>1
      <3> QED
        BY <2>3, <3>2 DEF MarkAttributed
    <2>4. ASSUME NEW r \in Request, EnqueueIntegrations(r)
          PROVE  c \in Stored /\ conversions'[c] = conversions[c]
      <3>1. <<c, p>> \in jobs \/ c = r
        BY <2>4 DEF EnqueueIntegrations
      <3>2. r \in Stored
        BY <2>4 DEF EnqueueIntegrations, RowFollowsHandler
      <3> QED
        BY <2>1, <2>4, <3>1, <3>2 DEF EnqueueIntegrations
    <2>5. CASE UNCHANGED <<conversions, jobs>>
      BY <2>1, <2>5
    <2>6. ASSUME NEW r \in Request,
                 WebhookStart(r) \/ ResolveDirect(r) \/ ResolveTouch(r) \/ ResolveEmail(r) \/ ResolvePhone(r)
          PROVE  UNCHANGED <<conversions, jobs>>
      BY <2>6 DEF WebhookStart, PayloadOf, NamedSession, ResolveDirect, ResolveTouch, ResolveEmail, ResolvePhone
    <2>7. ASSUME NEW q \in Visit, VisitStep(q) PROVE UNCHANGED <<conversions, jobs>>
      BY <2>7 DEF VisitStep, GetOrCreateVisitor, UpsertSession, UpsertAttribution
    <2>8. ASSUME NEW v \in VisitorId, NEW x \in Contact, Identify(v, x) PROVE UNCHANGED <<conversions, jobs>>
      BY <2>8 DEF Identify
    <2>9. ASSUME NEW s \in SessionId, Heartbeat(s) PROVE UNCHANGED <<conversions, jobs>>
      BY <2>9 DEF Heartbeat
    <2>10. ASSUME Age \/ Retention \/ UNCHANGED vars PROVE UNCHANGED <<conversions, jobs>>
      BY <2>10 DEF Age, Retention
    <2> QED
      BY <2>2, <2>3, <2>4, <2>5, <2>6, <2>7, <2>8, <2>9, <2>10 DEF Next, Collect, RequestStep
  <1> QED
    BY <1>1, TrackingInvariance, PTL DEF Spec, QueuedRowIsFinal

-----------------------------------------------------------------------------
(* Nothing that is known of a session is ever erased while its row exists: *)
(* late heartbeats and repeated visits replace values, never empty them.   *)
THEOREM NothingIsErased == Spec => NothingErased
  <1> DEFINE Grows(s) ==
        /\ sessions'[s].visitor = sessions[s].visitor
        /\ sessions'[s].started = sessions[s].started
        /\ sessions'[s].metric >= sessions[s].metric
        /\ sessions[s].exit # Empty => sessions'[s].exit # Empty
        /\ s \in DOMAIN attributions =>
              /\ s \in DOMAIN attributions'
              /\ \A f \in Field : attributions[s][f] # Empty => attributions'[s][f] # Empty
  <1> DEFINE Step == \A s \in Live \cap Live' : Grows(s)
  <1>1. ASSUME IInv, [Next]_vars PROVE Step
    <2> SUFFICES ASSUME NEW s \in Live, s \in Live' PROVE Grows(s)
      OBVIOUS
    <2> USE <1>1, TrackingAssumption DEF IInv, vars, rows, Live
    <2>1. sessions[s].metric \in 0 .. MaxBeat /\ s \in SessionId
      BY DEF TypeOK, SessionRow
    <2>2. CASE UNCHANGED <<sessions, attributions>>
      BY <2>1, <2>2
    <2>3. ASSUME NEW x \in SessionId, NEW v \in VisitorId, InsertOrTouch(x, v), UNCHANGED attributions
          PROVE  Grows(s)
      <3>1. sessions'[s] = sessions[s]
        BY <2>3, InsertOrTouchFacts
      <3> QED
        BY <2>1, <2>3, <3>1
    <2>4. ASSUME NEW q \in Visit, VisitStep(q) PROVE Grows(s)
      <3>1. CASE GetOrCreateVisitor(q)
        BY <2>2, <3>1 DEF GetOrCreateVisitor
      <3>2. CASE UpsertSession(q)
        <4>1. visit[q].session \in SessionId /\ visit[q].visitor \in VisitorId
          BY <3>2 DEF UpsertSession, HandlersOK, VisitState
        <4> QED
          BY <2>2, <2>3, <3>2, <4>1 DEF UpsertSession
      <3>3. CASE UpsertAttribution(q)
        <4>1. s \in DOMAIN attributions => Attribution(s) = attributions[s]
          BY DEF Attribution
        <4>2. \A F \in Fields, f \in Field :
                 Attribution(s)[f] # Empty => Merged(Attribution(s), F)[f] # Empty
          BY DEF Merged
        <4> QED
          BY <2>1, <3>3, <4>1, <4>2 DEF UpsertAttribution
      <3> QED
        BY <2>4, <3>1, <3>2, <3>3 DEF VisitStep
    <2>5. ASSUME NEW r \in Request, ResolveTouch(r) PROVE Grows(s)
      <3>1. request[r].sid \in SessionId /\ Nil \in VisitorId
        BY <2>5 DEF ResolveTouch, HandlersOK, RequestState, SessionId, VisitorId
      <3> QED
        BY <2>2, <2>3, <2>5, <3>1 DEF ResolveTouch
    <2>6. ASSUME NEW r \in Request, RequestStep(r), ~ResolveTouch(r) PROVE Grows(s)
      BY <2>2, <2>6 DEF RequestStep, WebhookStart, PayloadOf, NamedSession, ResolveDirect, ResolveEmail, ResolvePhone,
         CreateConversion, MarkAttributed, RuleFires, EnqueueIntegrations
    <2>7. ASSUME NEW v \in VisitorId, NEW c \in Contact, Identify(v, c) PROVE Grows(s)
      BY <2>2, <2>7 DEF Identify
    <2>8. ASSUME NEW x \in SessionId, Heartbeat(x) PROVE Grows(s)
      <3>1. PICK n \in 0 .. MaxBeat, page \in Page \cup {Empty} :
               sessions' = [sessions EXCEPT ![x].metric = Greatest(@, n),
                                            ![x].exit = LastNamed(@, page)]
        BY <2>8 DEF Heartbeat
      <3>2. /\ sessions'[s].visitor = sessions[s].visitor
            /\ sessions'[s].started = sessions[s].started
            /\ sessions'[s].metric >= sessions[s].metric
            /\ sessions[s].exit # Empty => sessions'[s].exit # Empty
        BY <2>1, <3>1 DEF Greatest, LastNamed, TypeOK, SessionRow
      <3> QED
        BY <2>8, <3>2 DEF Heartbeat
    <2>9. CASE Age \/ UNCHANGED vars
      BY <2>2, <2>9 DEF Age
    <2>10. CASE Retention
      <3>1. s \in Live \ Expired
        BY <2>10 DEF Retention
      <3> QED
        BY <2>1, <2>10, <3>1 DEF Retention
    <2> QED
      BY <2>4, <2>5, <2>6, <2>7, <2>8, <2>9, <2>10 DEF Next, Collect
  <1> QED
    BY <1>1, TrackingInvariance, PTL DEF Spec, NothingErased
-----------------------------------------------------------------------------
(* Whatever clients leave out, no row of a session is ever recorded as     *)
(* another visitor's than the one whose tracker made it or the zero one.   *)
LEMMA OwnersStep ==
    ASSUME IInv, OwnersKept, [Next]_vars
    PROVE  OwnersKept'
  <1> USE TrackingAssumption DEF IInv, vars, rows, Live
  <1>0. ASSUME UNCHANGED <<sessions, visit>> PROVE OwnersKept'
    BY <1>0 DEF OwnersKept
  (* The upsert of a session inserts a row or leaves all as they are. *)
  <1>a. ASSUME NEW s \in SessionId, NEW v \in VisitorId, <<v, s>> \in ClientIds, InsertOrTouch(s, v)
        PROVE  \A x \in Live' : <<sessions'[x].visitor, x>> \in ClientIds
    <2>1. CASE s \in Live
      BY <1>a, <2>1 DEF InsertOrTouch, OwnersKept
    <2>2. CASE s \notin Live
      <3>1. sessions' = [x \in Live \cup {s} |-> IF x = s THEN NewSession(v) ELSE sessions[x]]
        BY <1>a, <2>2 DEF InsertOrTouch
      <3>2. sessions'[s].visitor = v
        BY <3>1 DEF NewSession
      <3> QED
        BY <1>a, <3>1, <3>2 DEF OwnersKept
    <2> QED
      BY <2>1, <2>2
  <1>1. ASSUME NEW q \in Visit, GetOrCreateVisitor(q) PROVE OwnersKept'
    <2>1. CASE VisitDone(q)
      BY <1>1, <2>1 DEF GetOrCreateVisitor, VisitDone, OwnersKept, HandlersOK
    <2>2. ASSUME NEW id \in ClientIds,
                 visit' = [visit EXCEPT ![q] =
                             [pc |-> "session", visitor |-> id[1], session |-> id[2]]]
          PROVE  OwnersKept'
      <3>1. <<id[1], id[2]>> = id
        BY DEF ClientIds
      <3> QED
        BY <1>1, <2>2, <3>1 DEF GetOrCreateVisitor, OwnersKept, HandlersOK
    <2> QED
      BY <1>1, <2>1, <2>2 DEF GetOrCreateVisitor
  <1>2. ASSUME NEW q \in Visit, UpsertSession(q) PROVE OwnersKept'
    <2>1. /\ visit[q].session \in SessionId /\ visit[q].visitor \in VisitorId
          /\ <<visit[q].visitor, visit[q].session>> \in ClientIds
      BY <1>2 DEF UpsertSession, OwnersKept, HandlersOK, VisitState
    <2>2. \A x \in Visit : visit'[x].pc # "idle" =>
             <<visit'[x].visitor, visit'[x].session>> \in ClientIds
      BY <1>2, <2>1 DEF UpsertSession, VisitDone, OwnersKept, HandlersOK, VisitState
    <2>3. CASE UNCHANGED sessions
      BY <1>2, <2>2, <2>3 DEF UpsertSession, OwnersKept
    <2>4. CASE InsertOrTouch(visit[q].session, visit[q].visitor)
      BY <1>a, <2>1, <2>2, <2>4 DEF OwnersKept
    <2> QED
      BY <1>2, <2>3, <2>4 DEF UpsertSession
  <1>3. ASSUME NEW q \in Visit, UpsertAttribution(q) PROVE OwnersKept'
    BY <1>3 DEF UpsertAttribution, VisitDone, OwnersKept, HandlersOK
  <1>4. ASSUME NEW s \in SessionId, Heartbeat(s) PROVE OwnersKept'
    <2>1. /\ DOMAIN sessions' = DOMAIN sessions
          /\ \A x \in DOMAIN sessions : sessions'[x].visitor = sessions[x].visitor
      BY <1>4 DEF Heartbeat, TypeOK, SessionRow
    <2> QED
      BY <1>4, <2>1 DEF Heartbeat, OwnersKept
  <1>5. ASSUME NEW r \in Request, ResolveTouch(r) PROVE OwnersKept'
    <2>1. /\ request[r].sid \in SessionId /\ Nil \in VisitorId
          /\ <<Nil, request[r].sid>> \in ClientIds
      BY <1>5 DEF ResolveTouch, HandlersOK, RequestState, VisitorId, ClientIds
    <2>2. CASE UNCHANGED sessions
      BY <1>0, <1>5, <2>2 DEF ResolveTouch
    <2>3. CASE InsertOrTouch(request[r].sid, Nil)
      BY <1>5, <1>a, <2>1, <2>3 DEF ResolveTouch, OwnersKept
    <2> QED
      BY <1>5, <2>2, <2>3 DEF ResolveTouch
  <1>6. ASSUME NEW r \in Request, RequestStep(r), ~ResolveTouch(r) PROVE OwnersKept'
    BY <1>0, <1>6 DEF RequestStep, WebhookStart, PayloadOf, NamedSession, ResolveDirect, ResolveEmail, ResolvePhone,
       CreateConversion, MarkAttributed, RuleFires, EnqueueIntegrations
  <1>7. ASSUME NEW v \in VisitorId, NEW c \in Contact, Identify(v, c) PROVE OwnersKept'
    BY <1>0, <1>7 DEF Identify
  <1>8. CASE Retention
    <2>1. /\ DOMAIN sessions' \subseteq Live
          /\ \A x \in DOMAIN sessions' : sessions'[x] = sessions[x]
      BY <1>8 DEF Retention
    <2> QED
      BY <1>8, <2>1 DEF Retention, OwnersKept
  <1>9. CASE Age \/ UNCHANGED vars
    BY <1>0, <1>9 DEF Age
  <1> QED
    BY <1>1, <1>2, <1>3, <1>4, <1>5, <1>6, <1>7, <1>8, <1>9 DEF Next, Collect, VisitStep

(* A found session stays one the handler may use, between the statement    *)
(* that finds it and the one that marks it, and ever after.                *)
LEMMA FoundStep ==
    ASSUME IInv, OwnersKept, FoundIsNamed, [Next]_vars
    PROVE  FoundIsNamed'
  <1> USE TrackingAssumption DEF IInv, vars, rows, Live, Stored
  <1>0. ASSUME UNCHANGED <<identifiers, conversions, request>> PROVE FoundIsNamed'
    BY <1>0 DEF FoundIsNamed, AttributionTruthful, BelongsTo
  <1>a. \A c \in Stored : c \in Request
    BY DEF TypeOK
  (* Other requests are not disturbed by a step of r. *)
  <1>b. ASSUME NEW r \in Request, UNCHANGED identifiers,
               \A x \in Request \ {r} : request'[x] = request[x],
               \A x \in Stored' \ {r} : x \in Stored /\ conversions'[x] = conversions[x],
               (request[r].pc \in {"create", "mark"} /\ request[r].found # None
                   => BelongsTo(r, request[r].found))',
               (r \in Stored /\ conversions[r].attributed => BelongsTo(r, conversions[r].session))'
        PROVE  FoundIsNamed'
    <2>1. \A x \in Request \ {r}, s \in SessionId \cup {None} : BelongsTo(x, s) <=> BelongsTo(x, s)'
      BY <1>b DEF BelongsTo
    <2>2. \A x \in Request : request[x].pc \in {"create", "mark"} => request[x].found \in SessionId \cup {None}
      BY DEF HandlersOK, RequestState
    <2>3. \A c \in Stored : conversions[c].session \in SessionId \cup {None}
      BY DEF TypeOK
    <2> QED
      BY <1>a, <1>b, <2>1, <2>2, <2>3 DEF FoundIsNamed, AttributionTruthful
  (* A handler without a row goes to a place where it has found nothing. *)
  <1>c. ASSUME NEW r \in Request, r \notin Stored, UNCHANGED <<identifiers, conversions>>,
               request'[r].pc \notin {"create", "mark"},
               \A x \in Request \ {r} : request'[x] = request[x]
        PROVE  FoundIsNamed'
    BY <1>b, <1>c
  <1>1. ASSUME NEW r \in Request, WebhookStart(r) PROVE FoundIsNamed'
    BY <1>1, <1>c DEF WebhookStart, PayloadOf, NamedSession, RowFollowsHandler, HandlersOK
  <1>2. ASSUME NEW r \in Request, ResolveDirect(r) PROVE FoundIsNamed'
    BY <1>2, <1>c DEF ResolveDirect, RequestAt, RowFollowsHandler, HandlersOK, RequestState
  <1>3. ASSUME NEW r \in Request, ResolveTouch(r) PROVE FoundIsNamed'
    <2>1. r \notin Stored /\ request[r].sid # None
      BY <1>3 DEF ResolveTouch, RowFollowsHandler, HandlersOK, RequestState, SessionId
    <2>2. /\ request'[r].sid = request[r].sid
          /\ request'[r].found = request[r].sid \/ request'[r].found = Nil
          /\ \A x \in Request \ {r} : request'[x] = request[x]
      BY <1>3 DEF ResolveTouch, Goes, HandlersOK
    <2> QED
      BY <1>3, <1>b, <2>1, <2>2 DEF ResolveTouch, BelongsTo
  <1>4. ASSUME NEW r \in Request, Resolve(r), r \notin Stored, UNCHANGED <<identifiers, conversions>>
        PROVE  FoundIsNamed'
    <2>1. PICK c \in Contact, s \in Live : Latest(c, s) /\ Goes(r, s, c)
      BY <1>4 DEF Resolve
    <2>2. s \in SessionId /\ identifiers[c] \in VisitorId /\ identifiers[c] # None
      BY <2>1 DEF Latest, SessionsOf, TypeOK, SessionRow, VisitorId
    <2>3. s \in Session => identifiers[c] \in {Nil, Owner[s]}
      BY <2>1 DEF Latest, SessionsOf, OwnersKept, ClientIds
    <2>4. /\ request'[r].found = s /\ request'[r].via = c /\ c # None
          /\ \A x \in Request \ {r} : request'[x] = request[x]
      BY <2>1 DEF Goes, HandlersOK
    <2>5. BelongsTo(r, s)'
      BY <1>4, <2>2, <2>3, <2>4 DEF BelongsTo, SessionId
    <2> QED
      BY <1>4, <1>b, <2>4, <2>5
  <1>5. ASSUME NEW r \in Request, ResolveEmail(r) PROVE FoundIsNamed'
    <2>1. r \notin Stored
      BY <1>5 DEF ResolveEmail, RowFollowsHandler
    <2>2. CASE RequestAt(r, "phone")
      BY <1>5, <1>c, <2>1, <2>2 DEF ResolveEmail, RequestAt, HandlersOK, RequestState
    <2> QED
      BY <1>4, <1>5, <2>1, <2>2 DEF ResolveEmail
  <1>6. ASSUME NEW r \in Request, ResolvePhone(r) PROVE FoundIsNamed'
    <2>1. r \notin Stored
      BY <1>6 DEF ResolvePhone, RowFollowsHandler
    <2>2. CASE Goes(r, None, None)
      <3>1. request'[r].found = None /\ \A x \in Request \ {r} : request'[x] = request[x]
        BY <2>2 DEF Goes, HandlersOK
      <3> QED
        BY <1>6, <1>b, <2>1, <3>1 DEF ResolvePhone
    <2> QED
      BY <1>4, <1>6, <2>1, <2>2 DEF ResolvePhone
  <1>7. ASSUME NEW r \in Request, CreateConversion(r) PROVE FoundIsNamed'
    <2>1. r \notin Stored
      BY <1>7 DEF CreateConversion, RowFollowsHandler
    <2>2. /\ request'[r].pc # "create"
          /\ \A x \in Request \ {r} : request'[x] = request[x]
      BY <1>7 DEF CreateConversion, EnqueueUnattributed, RequestAt, HandlersOK, RequestState
    <2>3. request'[r].pc = "mark" =>
             /\ request'[r].sid = request[r].sid /\ request'[r].via = request[r].via
             /\ request'[r].found = request[r].found
      BY <1>7 DEF CreateConversion, EnqueueUnattributed, RequestAt, HandlersOK, RequestState
    <2>4. request[r].found # None => BelongsTo(r, request[r].found)
      BY <1>7 DEF CreateConversion, FoundIsNamed
    <2>5. (request[r].pc \in {"create", "mark"} /\ request[r].found # None
               => BelongsTo(r, request[r].found))'
      BY <1>7, <2>2, <2>3, <2>4 DEF CreateConversion, BelongsTo
    <2>6. /\ \A x \in Stored' \ {r} : x \in Stored /\ conversions'[x] = conversions[x]
          /\ r \in Stored' => ~conversions'[r].attributed
      BY <1>7, <2>1 DEF CreateConversion, Insert
    <2> QED
      BY <1>7, <1>b, <2>2, <2>5, <2>6 DEF CreateConversion
  <1>8. ASSUME NEW r \in Request, MarkAttributed(r) PROVE FoundIsNamed'
    <2>1. /\ request'[r].pc = "enqueue"
          /\ \A x \in Request \ {r} : request'[x] = request[x]
      BY <1>8 DEF MarkAttributed, Enqueue, EnqueueUnattributed, HandlersOK
    <2>2. r \in Stored
      BY <1>8 DEF MarkAttributed, RowFollowsHandler
    <2>3. CASE UNCHANGED conversions /\ EnqueueUnattributed(r)
      <3>1. ~conversions[r].attributed
        BY <1>8, <2>2 DEF MarkAttributed, RowFollowsHandler
      <3> QED
        BY <1>8, <1>b, <2>1, <2>3, <3>1 DEF MarkAttributed
    <2>4. ASSUME request[r].found \in Live, Enqueue(r),
                 conversions' = [conversions EXCEPT ![r] =
                                   [session |-> request[r].found, attributed |-> TRUE]]
          PROVE  FoundIsNamed'
      <3>1. BelongsTo(r, request[r].found)
        BY <1>8, <2>4 DEF MarkAttributed, FoundIsNamed, TypeOK, SessionId
      <3>2. request'[r].sid = request[r].sid /\ request'[r].via = request[r].via
        BY <2>4 DEF Enqueue, HandlersOK
      <3>3. BelongsTo(r, conversions[r].session)'
        BY <1>8, <2>2, <2>4, <3>1, <3>2 DEF MarkAttributed, BelongsTo
      <3>4. \A x \in Stored' \ {r} : x \in Stored /\ conversions'[x] = conversions[x]
        BY <2>4
      <3> QED
        BY <1>8, <1>b, <2>1, <3>3, <3>4 DEF MarkAttributed
    <2> QED
      BY <1>8, <2>3, <2>4 DEF MarkAttributed
  <1>9. ASSUME NEW r \in Request, RuleFires(r) PROVE FoundIsNamed'
    <2>1. /\ request'[r].pc = "enqueue"
          /\ \A x \in Request \ {r} : request'[x] = request[x]
      BY <1>9 DEF RuleFires, EnqueueUnattributed, HandlersOK
    <2>2. /\ \A x \in Stored' \ {r} : x \in Stored /\ conversions'[x] = conversions[x]
          /\ ~conversions'[r].attributed
      BY <1>9 DEF RuleFires, Insert
    <2> QED
      BY <1>9, <1>b, <2>1, <2>2 DEF RuleFires
  <1>10. ASSUME NEW r \in Request, EnqueueIntegrations(r) PROVE FoundIsNamed'
    <2>1. /\ request'[r].sid = request[r].sid /\ request'[r].via = request[r].via
          /\ request'[r].pc = "done"
          /\ \A x \in Request \ {r} : request'[x] = request[x]
      BY <1>10 DEF EnqueueIntegrations, RequestAt, HandlersOK, RequestState
    <2> QED
      BY <1>10, <1>b, <2>1 DEF EnqueueIntegrations, FoundIsNamed, AttributionTruthful, BelongsTo
  <1>11. ASSUME NEW v \in VisitorId, NEW c \in Contact, Identify(v, c) PROVE FoundIsNamed'
    <2>1. ASSUME NEW r \in Request, NEW s \in SessionId \cup {None}, BelongsTo(r, s), request[r].pc # "idle"
          PROVE  BelongsTo(r, s)'
      <3>1. request[r].via # None => request[r].via \in Contact
        BY <2>1 DEF HandlersOK, RequestState
      <3>2. identifiers[c] = None /\ \A x \in Contact \ {c} : identifiers'[x] = identifiers[x]
        BY <1>11 DEF Identify, TypeOK
      <3> QED
        BY <1>11, <2>1, <3>1, <3>2 DEF Identify, BelongsTo
    <2>2. UNCHANGED <<conversions, request>>
      BY <1>11 DEF Identify
    <2>3. \A r \in Stored : request[r].pc # "idle"
      BY <1>a DEF RowFollowsHandler
    <2>4. \A x \in Request : request[x].pc \in {"create", "mark"} => request[x].found \in SessionId \cup {None}
      BY DEF HandlersOK, RequestState
    <2>5. \A x \in Stored : conversions[x].session \in SessionId \cup {None}
      BY DEF TypeOK
    <2> QED
      BY <1>a, <2>1, <2>2, <2>3, <2>4, <2>5 DEF FoundIsNamed, AttributionTruthful
  <1>12. ASSUME NEW q \in Visit, VisitStep(q) PROVE FoundIsNamed'
    BY <1>0, <1>12 DEF VisitStep, GetOrCreateVisitor, UpsertSession, UpsertAttribution
  <1>13. ASSUME NEW s \in SessionId, Heartbeat(s) PROVE FoundIsNamed'
    BY <1>0, <1>13 DEF Heartbeat
  <1>14. CASE Age \/ Retention \/ UNCHANGED vars
    BY <1>0, <1>14 DEF Age, Retention
  <1> QED
    BY <1>1, <1>2, <1>3, <1>5, <1>6, <1>7, <1>8, <1>9, <1>10, <1>11, <1>12, <1>13, <1>14
    DEF Next, Collect, RequestStep

(* Whatever ids the clients leave out, a conversion is attributed only to  *)
(* the session its webhook named, to one of its buyer's own tracker or to  *)
(* one the zero ids share, whatever the retention job, other visits and    *)
(* other webhooks do between the statements of the handler.                *)
THEOREM AttributionCorrect == Spec => []AttributionTruthful
  <1>1. Init => OwnersKept /\ FoundIsNamed
    BY DEF Init, OwnersKept, FoundIsNamed, AttributionTruthful, Live, Stored
  <1>2. IInv /\ OwnersKept /\ FoundIsNamed /\ [Next]_vars => OwnersKept' /\ FoundIsNamed'
    BY OwnersStep, FoundStep
  <1>3. FoundIsNamed => AttributionTruthful
    BY DEF FoundIsNamed
  <1> QED
    BY <1>1, <1>2, <1>3, TrackingInvariance, PTL DEF Spec
=============================================================================
