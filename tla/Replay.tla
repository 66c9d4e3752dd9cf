------------------------------- MODULE Replay -------------------------------
(***************************************************************************)
(* The recording of one session: the recorder in public/tracker.js, the    *)
(* Redis list it fills (replay/service.go, AppendEvents), the flushes that *)
(* copy the list to one S3 object (FlushToS3) and the row of replays that  *)
(* makes it visible to the dashboard.                                      *)
(*                                                                         *)
(* The page does not wait for its requests: they reach the server in any   *)
(* order, or never.  Events are the numbers 1, 2, ... in the order they    *)
(* were recorded; a Redis command, an upload and an SQL statement are one  *)
(* step each.  Compression and the JSON around the events are left out.    *)
(***************************************************************************)
EXTENDS SequencesExt

CONSTANTS
    Flusher,   \* connections that serve POST /v1/replay/flush
    BatchSize, \* BATCH_SIZE: events that make the page send at once
    TTL,       \* bufferTTL, in ticks
    MaxEvents  \* bound: events one page records

ASSUME ReplayAssumption ==
    BatchSize \in Nat \ {0} /\ TTL \in Nat \ {0} /\ MaxEvents \in Nat

Forever == TTL + 1                        \* the time left of a list that was given none
NoObject == [raw |-> <<>>, epoch |-> 0]   \* no upload is of an empty list

VARIABLES
    recorded, \* how many events rrweb has emitted
    pushed,   \* how many of them have left replayBatch
    closed,   \* the page is gone
    posts,    \* requests to /v1/replay/events: events next..to are to be pushed
    buffer,   \* the Redis list
    ttl,      \* ticks until it expires; 0 when there is no list
    epoch,    \* history: how many lists have expired
    torn,     \* history: the list was left by a pipeline that was cut
    flush,    \* per connection: [pc, raw, epoch] of its request
    object,   \* the S3 object: [raw, epoch]
    session,  \* the row of sessions: "absent", "live" or "gone"
    record    \* whether replays has the row of the session

page == <<recorded, pushed, closed>>
redis == <<buffer, ttl, epoch, torn>>
stored == <<object, session, record>>
replayVars == <<page, posts, redis, flush, stored>>

ReplayInit ==
    /\ recorded = 0 /\ pushed = 0 /\ closed = FALSE
    /\ posts = {}
    /\ buffer = <<>> /\ ttl = 0 /\ epoch = 0 /\ torn = FALSE
    /\ flush = [f \in Flusher |-> [pc |-> "idle"]]
    /\ object = NoObject /\ session = "absent" /\ record = FALSE

-----------------------------------------------------------------------------
(* The page.                                                               *)

(* A faulty batch that is sent and kept. *)
PushKeeping(n) ==
    /\ posts' = posts \cup (IF n > pushed THEN {[next |-> pushed + 1, to |-> n]} ELSE {})
    /\ UNCHANGED pushed

(* pushToRedis: the batch is emptied before it is sent. *)
PushToRedis(n) ==
    /\ posts' = posts \cup (IF n > pushed THEN {[next |-> pushed + 1, to |-> n]} ELSE {})
    /\ pushed' = n

(* emit *)
Emit ==
    /\ ~closed /\ recorded < MaxEvents
    /\ recorded' = recorded + 1
    /\ IF recorded' - pushed >= BatchSize THEN PushToRedis(recorded')
                                          ELSE UNCHANGED <<pushed, posts>>
    /\ UNCHANGED <<closed, redis, flush, stored>>

BatchTimer ==
    /\ ~closed
    /\ PushToRedis(recorded)
    /\ UNCHANGED <<recorded, closed, redis, flush, stored>>

(* flushToS3: the periodic timer, a manual flush, or, as the last thing the *)
(* page does, beforeunload.  Its two requests race.                         *)
SendFlush(f, last) ==
    /\ ~closed /\ closed' = last
    /\ PushToRedis(recorded)
    /\ flush[f].pc = "idle"
    /\ flush' = [flush EXCEPT ![f] = [pc |-> "sent"]]
    /\ UNCHANGED <<recorded, redis, stored>>

(* The request does not arrive, or its pipeline is cut with the server. *)
LosePost(p) ==
    /\ posts' = posts \ {p}
    /\ torn' = (torn \/ ttl = Forever)
    /\ UNCHANGED <<page, buffer, ttl, epoch, flush, stored>>

-----------------------------------------------------------------------------
(* AppendEvents: a pipeline of RPUSH and one EXPIRE.                        *)

(* RPUSH makes a list that never expires, or leaves the time of an old one. *)
RPush(p) ==
    /\ p.next <= p.to
    /\ buffer' = Append(buffer, p.next)
    /\ ttl' = IF buffer = <<>> THEN Forever ELSE ttl
    /\ posts' = (posts \ {p}) \cup {[p EXCEPT !.next = @ + 1]}
    /\ UNCHANGED <<page, epoch, torn, flush, stored>>

(* EXPIRE does nothing to a list that is gone. *)
Renewed == IF buffer = <<>> THEN 0 ELSE TTL

(* A faulty pipeline without EXPIRE. *)
EndWithoutExpire(p) ==
    /\ p.next > p.to
    /\ posts' = posts \ {p}
    /\ UNCHANGED <<page, redis, flush, stored>>

ExpireAndEnd(p) ==
    /\ p.next > p.to
    /\ posts' = posts \ {p}
    /\ ttl' = Renewed /\ torn' = FALSE
    /\ UNCHANGED <<page, buffer, epoch, flush, stored>>

(* Redis removes a list whose time has come. *)
BufferTick ==
    /\ ttl \in 1 .. TTL
    /\ ttl' = ttl - 1
    /\ IF ttl = 1 THEN buffer' = <<>> /\ epoch' = epoch + 1
                  ELSE UNCHANGED <<buffer, epoch>>
    /\ UNCHANGED <<page, posts, torn, flush, stored>>

-----------------------------------------------------------------------------
(* FlushToS3                                                               *)

Done(f) == flush' = [flush EXCEPT ![f] = [pc |-> "idle"]]
Goto(f, label) == flush' = [flush EXCEPT ![f].pc = label]

LoseFlush(f) ==
    /\ flush[f].pc = "sent" /\ Done(f)
    /\ UNCHANGED <<page, posts, redis, stored>>

(* LRANGE; an error or an empty list ends the request with success. *)
LRange(f) ==
    /\ flush[f].pc = "sent"
    /\ \/ /\ buffer # <<>>
          /\ flush' = [flush EXCEPT ![f] =
                         [pc |-> "renew", raw |-> buffer, epoch |-> epoch]]
       \/ Done(f)
    /\ UNCHANGED <<page, posts, redis, stored>>

(* A faulty flush that deletes the list it has read. *)
RenewByDelete(f) ==
    /\ flush[f].pc = "renew" /\ Goto(f, "upload")
    /\ buffer' = <<>> /\ ttl' = 0 /\ torn' = FALSE
    /\ UNCHANGED <<page, posts, epoch, stored>>

(* EXPIRE; its error is ignored. *)
Renew(f) ==
    /\ flush[f].pc = "renew" /\ Goto(f, "upload")
    /\ \/ ttl' = Renewed /\ torn' = FALSE
       \/ UNCHANGED <<ttl, torn>>
    /\ UNCHANGED <<page, posts, buffer, epoch, stored>>

(* A faulty flush that goes on when the upload fails. *)
UploadUnchecked(f) ==
    /\ flush[f].pc = "upload" /\ Goto(f, "upsert")
    /\ \/ object' = [raw |-> flush[f].raw, epoch |-> flush[f].epoch]
       \/ UNCHANGED object
    /\ UNCHANGED <<page, posts, redis, session, record>>

(* UploadReplay: the whole object is replaced, or the request fails. *)
Upload(f) ==
    /\ flush[f].pc = "upload"
    /\ \/ /\ object' = [raw |-> flush[f].raw, epoch |-> flush[f].epoch]
          /\ Goto(f, "upsert")
       \/ UNCHANGED object /\ Done(f)
    /\ UNCHANGED <<page, posts, redis, session, record>>

(* upsertReplayRecord: without the session the foreign key refuses the row; *)
(* an error is only printed.                                                *)
UpsertReplayRecord(f) ==
    /\ flush[f].pc = "upsert" /\ Done(f)
    /\ record' \in {record, record \/ session = "live"}
    /\ UNCHANGED <<page, posts, redis, object, session>>

-----------------------------------------------------------------------------
(* The session: POST /v1/collect/session makes its row, the retention job   *)
(* deletes it, and the row of replays with it, long after the last request. *)

CreateSession ==
    /\ session = "absent" /\ session' = "live"
    /\ UNCHANGED <<page, posts, redis, flush, object, record>>

RetentionDeletes ==
    /\ session = "live" /\ session' = "gone"
    /\ closed /\ posts = {} /\ buffer = <<>> /\ \A f \in Flusher : flush[f].pc = "idle"
    /\ record' = FALSE
    /\ UNCHANGED <<page, posts, redis, flush, object>>

-----------------------------------------------------------------------------
PostStep == \E p \in posts : RPush(p) \/ ExpireAndEnd(p) \/ LosePost(p)

FlushStep(f) ==
    LoseFlush(f) \/ LRange(f) \/ Renew(f) \/ Upload(f) \/ UpsertReplayRecord(f)

ReplayNext ==
    \/ Emit \/ BatchTimer
    \/ \E f \in Flusher, last \in BOOLEAN : SendFlush(f, last)
    \/ PostStep
    \/ \E f \in Flusher : FlushStep(f)
    \/ BufferTick \/ CreateSession \/ RetentionDeletes

ReplaySpec == ReplayInit /\ [][ReplayNext]_replayVars

(* Time passes and the server ends the requests it has.  Nothing is asked   *)
(* of the page, which need not record, send or close.                       *)
FairReplaySpec ==
    /\ ReplaySpec
    /\ WF_replayVars(BufferTick) /\ WF_replayVars(PostStep)
    /\ \A f \in Flusher : WF_replayVars(FlushStep(f))

-----------------------------------------------------------------------------
Copy == [raw : Seq(Nat), epoch : Nat]

Post == [next : Nat, to : Nat]

FlushState ==
    [pc : {"idle", "sent"}] \cup [pc : {"renew", "upload", "upsert"}, raw : Seq(Nat), epoch : Nat]

(* The types, and that a list without events is no list. *)
ReplayTypeOK ==
    /\ recorded \in Nat /\ pushed \in 0 .. recorded /\ closed \in BOOLEAN
    /\ posts \subseteq Post
    /\ buffer \in Seq(Nat) /\ ttl \in 0 .. Forever /\ (ttl = 0 <=> buffer = <<>>)
    /\ epoch \in Nat /\ torn \in BOOLEAN
    /\ flush \in [Flusher -> FlushState]
    /\ object \in Copy
    /\ session \in {"absent", "live", "gone"} /\ record \in BOOLEAN

(* The copies of the buffer: in flushes that have read it, and in S3. *)
Copies ==
    {flush[f] : f \in {g \in Flusher : flush[g].pc \in {"renew", "upload", "upsert"}}}
        \cup {object}

(* As long as the Redis list lives, no flush takes an event from it: every  *)
(* copy made of it is its beginning, so that the next flush uploads         *)
(* everything again (FlushToS3, "NAO apaga o buffer").                      *)
RecordingKept == \A c \in Copies : c.epoch = epoch => IsPrefix(c.raw, buffer)

(* What has not yet been pushed and what is in the list do not overlap, and *)
(* no event is in the list twice, however the requests of the page overtake *)
(* one another (pushToRedis empties the batch before it sends it).          *)
NoEventTwice ==
    /\ IsInjective(buffer)
    /\ \A p \in posts, i \in DOMAIN buffer : buffer[i] \notin p.next .. p.to
    /\ \A p, q \in posts : p # q => (p.next .. p.to) \cap (q.next .. q.to) = {}
    /\ \A i \in DOMAIN buffer : buffer[i] <= pushed

(* A session the dashboard shows with a recording has an object in S3: the  *)
(* row is written after an upload that succeeded (HasReplay, GetPresignedURL).*)
ListedReplayExists == record => object # NoObject

(* The buffer of a page that is gone expires, unless a pipeline was cut     *)
(* before its EXPIRE and nothing came after it (the comment on bufferTTL).  *)
AbandonedBufferExpires == closed ~> (buffer = <<>> \/ torn)

(* What the comment on FlushToS3 promises: the recording in S3 always holds *)
(* the whole session, so an upload never takes back an event.  It does:     *)
(* flushes overtake one another, and a new list starts from nothing.        *)
UploadLosesNothing ==
    [][Range(object.raw) \subseteq Range(object'.raw)]_replayVars
=============================================================================
