----------------------------- MODULE ReplayProofs -----------------------------
(***************************************************************************)
(* Proofs about Replay, for any number of connections, any size of a batch, *)
(* any time to live and any number of events.                               *)
(***************************************************************************)
EXTENDS Replay, TLAPS

-----------------------------------------------------------------------------
(* Prefixes.                                                               *)

LEMMA PrefixOfItself ==
    ASSUME NEW s \in Seq(Nat)
    PROVE  IsPrefix(s, s)
  BY DEF IsPrefix

LEMMA EmptyIsPrefix ==
    ASSUME NEW s \in Seq(Nat)
    PROVE  IsPrefix(<<>>, s)
  <1>1. SubSeq(<<>>, 1, 0) = <<>> /\ SubSeq(s, 1, 0) = <<>> /\ Len(<<>>) = 0
    OBVIOUS
  <1> QED
    BY <1>1 DEF IsPrefix

(* A list that grows at its end keeps its beginnings. *)
LEMMA PrefixOfLonger ==
    ASSUME NEW s \in Seq(Nat), NEW t \in Seq(Nat), NEW e \in Nat, IsPrefix(s, t)
    PROVE  IsPrefix(s, Append(t, e))
  <1>1. /\ Append(t, e) \in Seq(Nat) /\ Len(Append(t, e)) = Len(t) + 1
        /\ \A i \in 1 .. Len(t) : Append(t, e)[i] = t[i]
    OBVIOUS
  <1>2. Len(s) \in Nat /\ Len(t) \in Nat /\ Len(s) <= Len(t)
    BY DEF IsPrefix
  <1>3. SubSeq(t, 1, Len(s)) = [i \in 1 .. Len(s) |-> t[i]]
    BY <1>2
  <1>4. SubSeq(Append(t, e), 1, Len(s)) = [i \in 1 .. Len(s) |-> Append(t, e)[i]]
    BY <1>1, <1>2
  <1>5. [i \in 1 .. Len(s) |-> Append(t, e)[i]] = [i \in 1 .. Len(s) |-> t[i]]
    BY <1>1, <1>2
  <1> QED
    BY <1>1, <1>2, <1>3, <1>4, <1>5 DEF IsPrefix

-----------------------------------------------------------------------------
(* The invariant.                                                          *)

Holds(f) == flush[f].pc \in {"renew", "upload", "upsert"}

(* What is on the way left the page, in ranges that are apart. *)
PostsOK ==
    \A p \in posts : p.next >= 1 /\ p.next <= p.to + 1 /\ p.to <= pushed

(* No copy is of a list to come, and flushes hold lists with events. *)
CopiesOK ==
    /\ object.epoch <= epoch
    /\ \A f \in Flusher : Holds(f) => flush[f].epoch <= epoch /\ flush[f].raw # <<>>

(* The two places a copy can be in, one by one. *)
FlushKept == \A f \in Flusher : Holds(f) /\ flush[f].epoch = epoch => IsPrefix(flush[f].raw, buffer)
ObjectKept == object.epoch = epoch => IsPrefix(object.raw, buffer)

(* A flush that is about to write the row has uploaded. *)
UploadedFirst ==
    /\ record => object # NoObject
    /\ \A f \in Flusher : flush[f].pc = "upsert" => object # NoObject

IInv ==
    /\ ReplayTypeOK /\ PostsOK /\ NoEventTwice
    /\ CopiesOK /\ FlushKept /\ ObjectKept /\ UploadedFirst

LEMMA Start == ReplayInit => IInv
  <1> SUFFICES ASSUME ReplayInit PROVE IInv
    OBVIOUS
  <1> USE ReplayAssumption
  <1>1. ReplayTypeOK
    <2>1. flush \in [Flusher -> FlushState] /\ object \in Copy
      BY DEF ReplayInit, FlushState, Copy, NoObject
    <2>2. ttl \in 0 .. Forever /\ buffer \in Seq(Nat) /\ (ttl = 0 <=> buffer = <<>>)
      BY DEF ReplayInit, Forever
    <2>3. recorded \in Nat /\ pushed \in 0 .. recorded /\ posts \subseteq Post /\ epoch \in Nat
      BY DEF ReplayInit
    <2>4. /\ closed \in BOOLEAN /\ torn \in BOOLEAN /\ record \in BOOLEAN
          /\ session \in {"absent", "live", "gone"}
      BY DEF ReplayInit
    <2> QED
      BY <2>1, <2>2, <2>3, <2>4 DEF ReplayTypeOK
  <1>2. PostsOK /\ NoEventTwice
    BY DEF ReplayInit, PostsOK, NoEventTwice, IsInjective
  <1>3. CopiesOK /\ FlushKept /\ UploadedFirst
    BY DEF ReplayInit, CopiesOK, FlushKept, UploadedFirst, Holds, NoObject
  <1>4. ObjectKept
    <2>1. buffer \in Seq(Nat) /\ object.raw = <<>>
      BY DEF ReplayInit, NoObject
    <2> QED
      BY <2>1, EmptyIsPrefix DEF ObjectKept
  <1> QED
    BY <1>1, <1>2, <1>3, <1>4 DEF IInv

-----------------------------------------------------------------------------
(* Types.                                                                  *)

LEMMA PushTypes ==
    ASSUME ReplayTypeOK, NEW n \in Nat, PushToRedis(n), pushed <= n
    PROVE  posts' \subseteq Post /\ pushed' = n
  BY DEF PushToRedis, ReplayTypeOK, Post

LEMMA TypeStep == ReplayTypeOK /\ [ReplayNext]_replayVars => ReplayTypeOK'
  <1> SUFFICES ASSUME ReplayTypeOK, [ReplayNext]_replayVars PROVE ReplayTypeOK'
    OBVIOUS
  <1> USE ReplayAssumption DEF page, redis, stored
  <1>1. ASSUME Emit PROVE ReplayTypeOK'
    <2>1. recorded' = recorded + 1 /\ recorded' \in Nat /\ pushed <= recorded'
      BY <1>1 DEF Emit, ReplayTypeOK
    <2>2. CASE PushToRedis(recorded')
      BY <1>1, <2>1, <2>2, PushTypes DEF Emit, ReplayTypeOK
    <2>3. CASE UNCHANGED <<pushed, posts>>
      BY <1>1, <2>1, <2>3 DEF Emit, ReplayTypeOK
    <2> QED
      BY <1>1, <2>2, <2>3 DEF Emit
  <1>2. ASSUME BatchTimer PROVE ReplayTypeOK'
    <2>1. pushed <= recorded /\ recorded \in Nat
      BY DEF ReplayTypeOK
    <2> QED
      BY <1>2, <2>1, PushTypes DEF BatchTimer, ReplayTypeOK
  <1>3. ASSUME NEW f \in Flusher, NEW last \in BOOLEAN, SendFlush(f, last) PROVE ReplayTypeOK'
    <2>1. pushed <= recorded /\ recorded \in Nat
      BY DEF ReplayTypeOK
    <2>2. flush' \in [Flusher -> FlushState]
      BY <1>3 DEF SendFlush, ReplayTypeOK, FlushState
    <2> QED
      BY <1>3, <2>1, <2>2, PushTypes DEF SendFlush, ReplayTypeOK
  <1>4. ASSUME NEW p \in posts, LosePost(p) PROVE ReplayTypeOK'
    BY <1>4 DEF LosePost, ReplayTypeOK
  <1>5. ASSUME NEW p \in posts, RPush(p) PROVE ReplayTypeOK'
    <2>1. p \in Post
      BY DEF ReplayTypeOK
    <2>2. posts' \subseteq Post
      BY <1>5, <2>1 DEF RPush, ReplayTypeOK, Post
    <2>3. buffer' \in Seq(Nat) /\ buffer' # <<>>
      BY <1>5, <2>1 DEF RPush, ReplayTypeOK, Post
    <2>4. ttl' \in 0 .. Forever /\ ttl' # 0
      BY <1>5 DEF RPush, ReplayTypeOK, Forever
    <2> QED
      BY <1>5, <2>2, <2>3, <2>4 DEF RPush, ReplayTypeOK
  <1>6. ASSUME NEW p \in posts, ExpireAndEnd(p) PROVE ReplayTypeOK'
    <2>1. ttl' \in 0 .. Forever /\ (ttl' = 0 <=> buffer = <<>>)
      BY <1>6 DEF ExpireAndEnd, Renewed, Forever
    <2> QED
      BY <1>6, <2>1 DEF ExpireAndEnd, ReplayTypeOK
  <1>7. ASSUME BufferTick PROVE ReplayTypeOK'
    <2>1. ttl' \in 0 .. Forever /\ ttl' = ttl - 1
      BY <1>7 DEF BufferTick, Forever
    <2>2. CASE ttl = 1
      <3>1. buffer' = <<>> /\ epoch' = epoch + 1
        BY <1>7, <2>2 DEF BufferTick
      <3>2. <<>> \in Seq(Nat) /\ epoch' \in Nat
        BY <3>1 DEF ReplayTypeOK
      <3> QED
        BY <1>7, <2>1, <2>2, <3>1, <3>2 DEF BufferTick, ReplayTypeOK
    <2>3. CASE ttl # 1
      BY <1>7, <2>1, <2>3 DEF BufferTick, ReplayTypeOK
    <2> QED
      BY <2>2, <2>3
  <1>8. ASSUME NEW f \in Flusher, LoseFlush(f) PROVE ReplayTypeOK'
    BY <1>8 DEF LoseFlush, Done, ReplayTypeOK, FlushState
  <1>9. ASSUME NEW f \in Flusher, LRange(f) PROVE ReplayTypeOK'
    <2>1. flush' \in [Flusher -> FlushState]
      BY <1>9 DEF LRange, Done, ReplayTypeOK, FlushState
    <2> QED
      BY <1>9, <2>1 DEF LRange, ReplayTypeOK
  <1>10. ASSUME NEW f \in Flusher, Renew(f) PROVE ReplayTypeOK'
    <2>1. flush' \in [Flusher -> FlushState]
      BY <1>10 DEF Renew, Goto, ReplayTypeOK, FlushState
    <2>2. (ttl' = Renewed /\ torn' = FALSE) \/ UNCHANGED <<ttl, torn>>
      BY <1>10 DEF Renew
    <2>3. ttl' \in 0 .. Forever /\ (ttl' = 0 <=> buffer = <<>>) /\ torn' \in BOOLEAN
      <3>1. CASE ttl' = Renewed /\ torn' = FALSE
        <4>1. ttl' \in 0 .. Forever /\ (ttl' = 0 <=> buffer = <<>>)
          BY <3>1 DEF Renewed, Forever
        <4> QED
          BY <3>1, <4>1
      <3>2. CASE UNCHANGED <<ttl, torn>>
        BY <3>2 DEF ReplayTypeOK
      <3> QED
        BY <2>2, <3>1, <3>2
    <2> QED
      BY <1>10, <2>1, <2>3 DEF Renew, ReplayTypeOK
  <1>11. ASSUME NEW f \in Flusher, Upload(f) PROVE ReplayTypeOK'
    <2>1. flush[f] \in [pc : {"renew", "upload", "upsert"}, raw : Seq(Nat), epoch : Nat]
      BY <1>11 DEF Upload, ReplayTypeOK, FlushState
    <2>2. flush' \in [Flusher -> FlushState]
      <3>1. CASE Done(f)
        BY <3>1 DEF Done, ReplayTypeOK, FlushState
      <3>2. CASE Goto(f, "upsert")
        <4>1. [flush[f] EXCEPT !.pc = "upsert"] \in FlushState
          BY <2>1 DEF FlushState
        <4> QED
          BY <3>2, <4>1 DEF Goto, ReplayTypeOK
      <3> QED
        BY <1>11, <3>1, <3>2 DEF Upload
    <2>3. object' \in Copy
      BY <1>11, <2>1 DEF Upload, ReplayTypeOK, Copy
    <2> QED
      BY <1>11, <2>2, <2>3 DEF Upload, ReplayTypeOK
  <1>12. ASSUME NEW f \in Flusher, UpsertReplayRecord(f) PROVE ReplayTypeOK'
    <2>1. flush' \in [Flusher -> FlushState]
      BY <1>12 DEF UpsertReplayRecord, Done, ReplayTypeOK, FlushState
    <2>2. record' \in BOOLEAN
      BY <1>12 DEF UpsertReplayRecord, ReplayTypeOK
    <2> QED
      BY <1>12, <2>1, <2>2 DEF UpsertReplayRecord, ReplayTypeOK
  <1>13. ASSUME CreateSession \/ RetentionDeletes PROVE ReplayTypeOK'
    BY <1>13 DEF CreateSession, RetentionDeletes, ReplayTypeOK
  <1>14. ASSUME UNCHANGED replayVars PROVE ReplayTypeOK'
    BY <1>14 DEF replayVars, ReplayTypeOK
  <1> QED
    BY <1>1, <1>2, <1>3, <1>4, <1>5, <1>6, <1>7, <1>8, <1>9, <1>10, <1>11, <1>12, <1>13, <1>14
       DEF ReplayNext, PostStep, FlushStep

-----------------------------------------------------------------------------
(* No event twice.                                                         *)

LEMMA PushKeepsApart ==
    ASSUME ReplayTypeOK, PostsOK, NoEventTwice, NEW n \in Nat, pushed <= n, PushToRedis(n),
           UNCHANGED buffer
    PROVE  PostsOK' /\ NoEventTwice'
  <1> DEFINE new == [next |-> pushed + 1, to |-> n]
  <1>1. pushed \in Nat /\ pushed' = n /\ posts' \subseteq posts \cup {new}
    BY DEF PushToRedis, ReplayTypeOK
  <1>2. new.next = pushed + 1 /\ new.to = n
    OBVIOUS
  <1>3. \A p \in posts : p.next \in Nat /\ p.to \in Nat
    BY DEF ReplayTypeOK, Post
  <1>4. \A i \in DOMAIN buffer : buffer[i] \in Nat /\ buffer[i] <= pushed
    BY DEF ReplayTypeOK, NoEventTwice
  <1>5. PostsOK'
    BY <1>1, <1>2, <1>3 DEF PostsOK
  <1>6. \A p \in posts', i \in DOMAIN buffer : buffer[i] \notin p.next .. p.to
    BY <1>1, <1>2, <1>4 DEF NoEventTwice
  <1>7. \A p \in posts : (p.next .. p.to) \cap (new.next .. new.to) = {}
    BY <1>1, <1>2, <1>3 DEF PostsOK
  <1>8. \A p, q \in posts' : p # q => (p.next .. p.to) \cap (q.next .. q.to) = {}
    BY <1>1, <1>7 DEF NoEventTwice
  <1>9. \A i \in DOMAIN buffer : buffer[i] <= pushed'
    BY <1>1, <1>4
  <1> QED
    BY <1>5, <1>6, <1>8, <1>9 DEF NoEventTwice

(* Requests that end, and lists that expire, only take away. *)
LEMMA FewerKeepApart ==
    ASSUME PostsOK, NoEventTwice, posts' \subseteq posts, UNCHANGED pushed,
           buffer' = buffer \/ buffer' = <<>>
    PROVE  PostsOK' /\ NoEventTwice'
  BY DEF PostsOK, NoEventTwice, IsInjective

LEMMA RPushKeepsApart ==
    ASSUME ReplayTypeOK, PostsOK, NoEventTwice, NEW p \in posts, RPush(p)
    PROVE  PostsOK' /\ NoEventTwice'
  <1> DEFINE rest == [p EXCEPT !.next = @ + 1]
  <1>1. /\ p.next \in Nat /\ p.to \in Nat /\ pushed \in Nat
        /\ p.next <= p.to /\ p.to <= pushed /\ p.next >= 1
    BY DEF RPush, ReplayTypeOK, Post, PostsOK
  <1>2. rest.next = p.next + 1 /\ rest.to = p.to
    BY DEF ReplayTypeOK, Post
  <1>3. posts' = (posts \ {p}) \cup {rest} /\ pushed' = pushed /\ buffer' = Append(buffer, p.next)
    BY DEF RPush, page
  <1>4. \A q \in posts : q.next \in Nat /\ q.to \in Nat
    BY DEF ReplayTypeOK, Post
  <1>5. PostsOK'
    <2>1. rest.next >= 1 /\ rest.next <= rest.to + 1 /\ rest.to <= pushed
      BY <1>1, <1>2
    <2>2. \A q \in posts' : q = rest \/ q \in posts
      BY <1>3
    <2> HIDE DEF rest
    <2> QED
      BY <1>3, <2>1, <2>2 DEF PostsOK
  <1>6. /\ DOMAIN buffer' = DOMAIN buffer \cup {Len(buffer) + 1}
        /\ \A i \in DOMAIN buffer : buffer'[i] = buffer[i] /\ i # Len(buffer) + 1
        /\ buffer'[Len(buffer) + 1] = p.next
    BY <1>1, <1>3 DEF ReplayTypeOK
  <1>7. p.next \in p.next .. p.to
    BY <1>1
  <1>8. IsInjective(buffer')
    <2>1. \A i \in DOMAIN buffer : buffer[i] # p.next
      BY <1>7 DEF NoEventTwice
    <2> QED
      BY <1>6, <2>1 DEF NoEventTwice, IsInjective
  <1>9. rest.next .. rest.to \subseteq p.next .. p.to /\ p.next \notin rest.next .. rest.to
    BY <1>1, <1>2
  <1>10. \A q \in posts \ {p} : /\ (q.next .. q.to) \cap (rest.next .. rest.to) = {}
                               /\ p.next \notin q.next .. q.to
    <2> TAKE q \in posts \ {p}
    <2>1. (q.next .. q.to) \cap (p.next .. p.to) = {}
      BY DEF NoEventTwice
    <2> QED
      BY <1>7, <1>9, <2>1
  <1>11. \A q \in posts', i \in DOMAIN buffer' : buffer'[i] \notin q.next .. q.to
    <2>1. \A i \in DOMAIN buffer : buffer[i] \notin rest.next .. rest.to
      BY <1>9 DEF NoEventTwice
    <2> QED
      BY <1>3, <1>6, <1>9, <1>10, <2>1 DEF NoEventTwice
  <1>12. \A q, r \in posts' : q # r => (q.next .. q.to) \cap (r.next .. r.to) = {}
    <2>1. \A q \in posts \ {p} : (rest.next .. rest.to) \cap (q.next .. q.to) = {}
      BY <1>10
    <2>2. \A q, r \in posts \ {p} : q # r => (q.next .. q.to) \cap (r.next .. r.to) = {}
      BY DEF NoEventTwice
    <2> QED
      BY <1>3, <1>10, <2>1, <2>2
  <1>13. \A i \in DOMAIN buffer' : buffer'[i] <= pushed'
    BY <1>1, <1>3, <1>6 DEF NoEventTwice
  <1> QED
    BY <1>5, <1>8, <1>11, <1>12, <1>13 DEF NoEventTwice

LEMMA EventStep == ReplayTypeOK /\ PostsOK /\ NoEventTwice /\ [ReplayNext]_replayVars => PostsOK' /\ NoEventTwice'
  <1> SUFFICES ASSUME ReplayTypeOK, PostsOK, NoEventTwice, [ReplayNext]_replayVars PROVE PostsOK' /\ NoEventTwice'
    OBVIOUS
  <1> USE DEF page, redis, stored
  <1>1. ASSUME Emit PROVE PostsOK' /\ NoEventTwice'
    <2>1. recorded' \in Nat /\ pushed <= recorded' /\ UNCHANGED buffer
      BY <1>1 DEF Emit, ReplayTypeOK
    <2>2. CASE PushToRedis(recorded')
      BY <2>1, <2>2, PushKeepsApart
    <2>3. CASE UNCHANGED <<pushed, posts>>
      BY <2>1, <2>3, FewerKeepApart
    <2> QED
      BY <1>1, <2>2, <2>3 DEF Emit
  <1>2. ASSUME BatchTimer \/ \E f \in Flusher, last \in BOOLEAN : SendFlush(f, last)
        PROVE  PostsOK' /\ NoEventTwice'
    <2>1. recorded \in Nat /\ pushed <= recorded
      BY DEF ReplayTypeOK
    <2>2. PushToRedis(recorded) /\ UNCHANGED buffer
      BY <1>2 DEF BatchTimer, SendFlush
    <2> QED
      BY <2>1, <2>2, PushKeepsApart
  <1>3. ASSUME NEW p \in posts, LosePost(p) \/ ExpireAndEnd(p) PROVE PostsOK' /\ NoEventTwice'
    BY <1>3, FewerKeepApart DEF LosePost, ExpireAndEnd
  <1>4. ASSUME NEW p \in posts, RPush(p) PROVE PostsOK' /\ NoEventTwice'
    BY <1>4, RPushKeepsApart
  <1>5. ASSUME BufferTick PROVE PostsOK' /\ NoEventTwice'
    BY <1>5, FewerKeepApart DEF BufferTick
  <1>6. ASSUME NEW f \in Flusher, FlushStep(f) PROVE PostsOK' /\ NoEventTwice'
    <2>1. UNCHANGED <<posts, pushed, buffer>>
      BY <1>6 DEF FlushStep, LoseFlush, LRange, Renew, Upload, UpsertReplayRecord
    <2> QED
      BY <2>1, FewerKeepApart
  <1>7. ASSUME CreateSession \/ RetentionDeletes \/ UNCHANGED replayVars PROVE PostsOK' /\ NoEventTwice'
    <2>1. UNCHANGED <<posts, pushed, buffer>>
      BY <1>7 DEF CreateSession, RetentionDeletes, replayVars
    <2> QED
      BY <2>1, FewerKeepApart
  <1> QED
    BY <1>1, <1>2, <1>3, <1>4, <1>5, <1>6, <1>7 DEF ReplayNext, PostStep

-----------------------------------------------------------------------------
(* Copies.                                                                 *)

(* A step that leaves the copies alone and lets the list grow, or end with  *)
(* its epoch, keeps what is known of them.                                  *)
LEMMA ListChanges ==
    ASSUME ReplayTypeOK, CopiesOK, FlushKept, ObjectKept, UNCHANGED <<flush, object>>,
           \/ UNCHANGED <<buffer, epoch>>
           \/ epoch' = epoch + 1
           \/ epoch' = epoch /\ \E e \in Nat : buffer' = Append(buffer, e)
    PROVE  CopiesOK' /\ FlushKept' /\ ObjectKept'
  <1>1. /\ epoch \in Nat /\ object.epoch \in Nat /\ object.raw \in Seq(Nat) /\ buffer \in Seq(Nat)
        /\ \A f \in Flusher : Holds(f) => flush[f].epoch \in Nat /\ flush[f].raw \in Seq(Nat)
    BY DEF ReplayTypeOK, Copy, FlushState, Holds
  <1>2. CASE UNCHANGED <<buffer, epoch>>
    BY <1>2 DEF CopiesOK, FlushKept, ObjectKept, Holds
  <1>3. CASE epoch' = epoch + 1
    <2>1. object.epoch # epoch' /\ \A f \in Flusher : Holds(f) => flush[f].epoch # epoch'
      BY <1>1, <1>3 DEF CopiesOK
    <2>2. CopiesOK'
      BY <1>1, <1>3 DEF CopiesOK, Holds
    <2> QED
      BY <2>1, <2>2 DEF FlushKept, ObjectKept, Holds
  <1>4. CASE epoch' = epoch /\ \E e \in Nat : buffer' = Append(buffer, e)
    <2>1. PICK e \in Nat : buffer' = Append(buffer, e)
      BY <1>4
    <2>2. ObjectKept'
      BY <1>1, <1>4, <2>1, PrefixOfLonger DEF ObjectKept
    <2>3. FlushKept'
      BY <1>1, <1>4, <2>1, PrefixOfLonger DEF FlushKept, Holds
    <2>4. CopiesOK'
      BY <1>4 DEF CopiesOK, Holds
    <2> QED
      BY <2>2, <2>3, <2>4
  <1> QED
    BY <1>2, <1>3, <1>4

(* A flush that moves on with the copy it has, or ends, keeps it too. *)
LEMMA FlushMoves ==
    ASSUME ReplayTypeOK, CopiesOK, FlushKept, ObjectKept, UNCHANGED <<buffer, epoch, object>>,
           NEW f \in Flusher,
           \/ Done(f)
           \/ Holds(f) /\ \E label \in {"upload", "upsert"} : Goto(f, label)
           \/ flush' = [flush EXCEPT ![f] = [pc |-> "sent"]]
    PROVE  CopiesOK' /\ FlushKept' /\ ObjectKept'
  <1>1. /\ \A g \in Flusher \ {f} : flush'[g] = flush[g]
        /\ \/ flush'[f].pc \in {"idle", "sent"}
           \/ Holds(f) /\ flush'[f].raw = flush[f].raw /\ flush'[f].epoch = flush[f].epoch
    BY DEF Done, Goto, ReplayTypeOK, FlushState, Holds
  <1>2. \A g \in Flusher : Holds(g)' => /\ Holds(g) /\ flush'[g].raw = flush[g].raw
                                        /\ flush'[g].epoch = flush[g].epoch
    BY <1>1 DEF Holds
  <1> QED
    BY <1>2 DEF CopiesOK, FlushKept, ObjectKept

LEMMA CopyStep ==
    ReplayTypeOK /\ CopiesOK /\ FlushKept /\ ObjectKept /\ [ReplayNext]_replayVars
        => CopiesOK' /\ FlushKept' /\ ObjectKept'
  <1> SUFFICES ASSUME ReplayTypeOK, CopiesOK, FlushKept, ObjectKept, [ReplayNext]_replayVars
               PROVE  CopiesOK' /\ FlushKept' /\ ObjectKept'
    OBVIOUS
  <1> DEFINE Goal == CopiesOK' /\ FlushKept' /\ ObjectKept'
  <1> USE DEF page, redis, stored
  <1>1. ASSUME Emit \/ BatchTimer PROVE Goal
    <2>1. UNCHANGED <<buffer, epoch, flush, object>>
      BY <1>1 DEF Emit, BatchTimer
    <2> QED
      BY <2>1, ListChanges
  <1>2. ASSUME NEW f \in Flusher, NEW last \in BOOLEAN, SendFlush(f, last) PROVE Goal
    BY <1>2, FlushMoves DEF SendFlush
  <1>3. ASSUME NEW p \in posts, LosePost(p) \/ ExpireAndEnd(p) PROVE Goal
    <2>1. UNCHANGED <<buffer, epoch, flush, object>>
      BY <1>3 DEF LosePost, ExpireAndEnd
    <2> QED
      BY <2>1, ListChanges
  <1>4. ASSUME NEW p \in posts, RPush(p) PROVE Goal
    <2>1. p.next \in Nat
      BY DEF ReplayTypeOK, Post
    <2>2. UNCHANGED <<flush, object, epoch>> /\ buffer' = Append(buffer, p.next)
      BY <1>4 DEF RPush
    <2> QED
      BY <2>1, <2>2, ListChanges
  <1>5. ASSUME BufferTick PROVE Goal
    <2>1. UNCHANGED <<flush, object>> /\ (UNCHANGED <<buffer, epoch>> \/ epoch' = epoch + 1)
      BY <1>5 DEF BufferTick
    <2> QED
      BY <2>1, ListChanges
  <1>6. ASSUME NEW f \in Flusher, LoseFlush(f) PROVE Goal
    BY <1>6, FlushMoves DEF LoseFlush
  <1>7. ASSUME NEW f \in Flusher, LRange(f) PROVE Goal
    <2>1. CASE Done(f)
      BY <1>7, <2>1, FlushMoves DEF LRange
    <2>2. CASE /\ buffer # <<>>
               /\ flush' = [flush EXCEPT ![f] = [pc |-> "renew", raw |-> buffer, epoch |-> epoch]]
      <3>1. UNCHANGED <<buffer, epoch, object>>
        BY <1>7 DEF LRange
      <3>2. /\ \A g \in Flusher \ {f} : flush'[g] = flush[g]
            /\ flush'[f] = [pc |-> "renew", raw |-> buffer, epoch |-> epoch]
        BY <2>2 DEF ReplayTypeOK
      <3>3. epoch \in Nat /\ IsPrefix(buffer, buffer)
        BY PrefixOfItself DEF ReplayTypeOK
      <3>4. CopiesOK'
        BY <2>2, <3>1, <3>2, <3>3 DEF CopiesOK, Holds
      <3>5. FlushKept' /\ ObjectKept'
        BY <3>1, <3>2, <3>3 DEF FlushKept, ObjectKept, Holds
      <3> QED
        BY <3>4, <3>5
    <2> QED
      BY <1>7, <2>1, <2>2 DEF LRange
  <1>8. ASSUME NEW f \in Flusher, Renew(f) PROVE Goal
    BY <1>8, FlushMoves DEF Renew, Holds
  <1>9. ASSUME NEW f \in Flusher, Upload(f) PROVE Goal
    <2>1. Holds(f) /\ UNCHANGED <<buffer, epoch>>
      BY <1>9 DEF Upload, Holds
    <2>2. CASE UNCHANGED object /\ Done(f)
      BY <2>1, <2>2, FlushMoves
    <2>3. CASE object' = [raw |-> flush[f].raw, epoch |-> flush[f].epoch] /\ Goto(f, "upsert")
      <3>1. \A g \in Flusher : Holds(g)' => /\ Holds(g) /\ flush'[g].raw = flush[g].raw
                                           /\ flush'[g].epoch = flush[g].epoch
        BY <2>1, <2>3 DEF Goto, Holds, ReplayTypeOK, FlushState
      <3>2. FlushKept' /\ CopiesOK'
        BY <2>1, <2>3, <3>1 DEF FlushKept, CopiesOK
      <3>3. ObjectKept'
        BY <2>1, <2>3 DEF FlushKept, ObjectKept
      <3> QED
        BY <3>2, <3>3
    <2> QED
      BY <1>9, <2>2, <2>3 DEF Upload
  <1>10. ASSUME NEW f \in Flusher, UpsertReplayRecord(f) PROVE Goal
    BY <1>10, FlushMoves DEF UpsertReplayRecord
  <1>11. ASSUME CreateSession \/ RetentionDeletes \/ UNCHANGED replayVars PROVE Goal
    <2>1. UNCHANGED <<buffer, epoch, flush, object>>
      BY <1>11 DEF CreateSession, RetentionDeletes, replayVars
    <2> QED
      BY <2>1, ListChanges
  <1> QED
    BY <1>1, <1>2, <1>3, <1>4, <1>5, <1>6, <1>7, <1>8, <1>9, <1>10, <1>11
       DEF ReplayNext, PostStep, FlushStep

-----------------------------------------------------------------------------
(* The object behind a listed recording.                                   *)

LEMMA UploadStep == ReplayTypeOK /\ CopiesOK /\ UploadedFirst /\ [ReplayNext]_replayVars => UploadedFirst'
  <1> SUFFICES ASSUME ReplayTypeOK, CopiesOK, UploadedFirst, [ReplayNext]_replayVars PROVE UploadedFirst'
    OBVIOUS
  <1> USE DEF page, redis, stored
  <1>1. ASSUME \/ Emit \/ BatchTimer \/ BufferTick \/ CreateSession \/ RetentionDeletes
               \/ PostStep \/ UNCHANGED replayVars
        PROVE  UploadedFirst'
    <2>1. UNCHANGED <<flush, object>> /\ (record' => record)
      BY <1>1 DEF Emit, BatchTimer, BufferTick, CreateSession, RetentionDeletes,
                  PostStep, LosePost, RPush, ExpireAndEnd, replayVars
    <2> QED
      BY <2>1 DEF UploadedFirst
  <1>2. ASSUME NEW f \in Flusher,
               (\E last \in BOOLEAN : SendFlush(f, last)) \/ LoseFlush(f) \/ LRange(f) \/ Renew(f)
        PROVE  UploadedFirst'
    <2>1. UNCHANGED <<object, record>>
      BY <1>2 DEF SendFlush, LoseFlush, LRange, Renew
    <2>2. \A g \in Flusher \ {f} : flush'[g] = flush[g]
      BY <1>2 DEF SendFlush, LoseFlush, LRange, Renew, Done, Goto, ReplayTypeOK
    <2>3. flush'[f].pc # "upsert"
      <3>1. CASE Renew(f)
        BY <3>1 DEF Renew, Goto, ReplayTypeOK, FlushState
      <3>2. CASE LoseFlush(f) \/ LRange(f)
        BY <3>2 DEF LoseFlush, LRange, Done, ReplayTypeOK
      <3>3. CASE \E last \in BOOLEAN : SendFlush(f, last)
        BY <3>3 DEF SendFlush, ReplayTypeOK
      <3> QED
        BY <1>2, <3>1, <3>2, <3>3
    <2> QED
      BY <2>1, <2>2, <2>3 DEF UploadedFirst
  <1>3. ASSUME NEW f \in Flusher, Upload(f) PROVE UploadedFirst'
    <2>1. record' = record
      BY <1>3 DEF Upload
    <2>2. CASE UNCHANGED object /\ Done(f)
      <3>1. \A g \in Flusher : flush'[g].pc = "upsert" => flush[g].pc = "upsert"
        BY <2>2 DEF Done, ReplayTypeOK, FlushState
      <3> QED
        BY <2>1, <2>2, <3>1 DEF UploadedFirst
    <2>3. CASE object' = [raw |-> flush[f].raw, epoch |-> flush[f].epoch]
      <3>1. flush[f].raw # <<>>
        BY <1>3 DEF Upload, CopiesOK, Holds
      <3>2. object' # NoObject
        BY <2>3, <3>1 DEF NoObject
      <3> QED
        BY <3>2 DEF UploadedFirst, NoObject
    <2> QED
      BY <1>3, <2>2, <2>3 DEF Upload
  <1>4. ASSUME NEW f \in Flusher, UpsertReplayRecord(f) PROVE UploadedFirst'
    <2>1. object # NoObject /\ object' = object
      BY <1>4 DEF UpsertReplayRecord, UploadedFirst
    <2> QED
      BY <2>1 DEF UploadedFirst, NoObject
  <1> QED
    BY <1>1, <1>2, <1>3, <1>4 DEF ReplayNext, FlushStep

LEMMA Step == IInv /\ [ReplayNext]_replayVars => IInv'
  BY TypeStep, EventStep, CopyStep, UploadStep DEF IInv

-----------------------------------------------------------------------------
(* The results.                                                            *)

(* The inductive invariant holds in every reachable state. *)
THEOREM ReplayInvariance == ReplaySpec => []IInv
  <1> QED
    BY Start, Step, PTL DEF ReplaySpec

(* Every variable keeps its type, and a list without events is no list, so  *)
(* that the EXPIRE of a flush never acts on nothing (Renew, ExpireAndEnd).  *)
THEOREM ReplayTypes == ReplaySpec => []ReplayTypeOK
  <1>1. IInv => ReplayTypeOK
    BY DEF IInv
  <1> QED
    BY <1>1, ReplayInvariance, PTL

(* Every copy of a list that lives is a beginning of it, whatever flushes   *)
(* and requests of the page overtake one another (FlushToS3).               *)
THEOREM RecordingSafe == ReplaySpec => []RecordingKept
  <1>1. IInv => RecordingKept
    <2> SUFFICES ASSUME IInv, NEW c \in Copies, c.epoch = epoch PROVE IsPrefix(c.raw, buffer)
      BY DEF RecordingKept
    <2>1. CASE c = object
      BY <2>1 DEF IInv, ObjectKept
    <2>2. CASE \E f \in Flusher : Holds(f) /\ c = flush[f]
      BY <2>2 DEF IInv, FlushKept
    <2> QED
      BY <2>1, <2>2 DEF Copies, Holds
  <1> QED
    BY <1>1, ReplayInvariance, PTL

(* No event of the page is on its way twice, in the list twice, or both     *)
(* (pushToRedis, AppendEvents).                                             *)
THEOREM EventsOnce == ReplaySpec => []NoEventTwice
  <1>1. IInv => NoEventTwice
    BY DEF IInv
  <1> QED
    BY <1>1, ReplayInvariance, PTL

(* A session listed with a recording has an object in the store             *)
(* (FlushToS3, upsertReplayRecord).                                         *)
THEOREM ListedCorrect == ReplaySpec => []ListedReplayExists
  <1>1. IInv => ListedReplayExists
    BY DEF IInv, UploadedFirst, ListedReplayExists
  <1> QED
    BY <1>1, ReplayInvariance, PTL

-----------------------------------------------------------------------------
(* What an upload takes back.  In general it does (UploadLosesNothing fails *)
(* in a run): a flush can carry an older copy than the one uploaded last.   *)
(* When the flushes of a session never overlap, only a list that expired    *)
(* between two uploads is left as a cause.                                  *)

(* Before its upload, a flush carries at least what is stored of its list. *)
FlushAhead ==
    \A f \in Flusher :
        flush[f].pc \in {"renew", "upload"} /\ flush[f].epoch = object.epoch
            => IsPrefix(object.raw, flush[f].raw)

(* An upload made of the same list as the last one takes no event back. *)
SameListLosesNothing ==
    object'.epoch = object.epoch => Range(object.raw) \subseteq Range(object'.raw)

LEMMA RangeOfPrefix ==
    ASSUME NEW s \in Seq(Nat), NEW t \in Seq(Nat), IsPrefix(s, t)
    PROVE  Range(s) \subseteq Range(t)
  <1>1. Len(s) \in Nat /\ Len(t) \in Nat /\ Len(s) <= Len(t)
    BY DEF IsPrefix
  <1>2. ASSUME NEW i \in 1 .. Len(s) PROVE s[i] = t[i] /\ i \in 1 .. Len(t)
    <2>1. SubSeq(s, 1, Len(s))[i] = s[i] /\ SubSeq(t, 1, Len(s))[i] = t[i]
      BY <1>1
    <2> QED
      BY <1>1, <2>1 DEF IsPrefix
  <1>3. DOMAIN s = 1 .. Len(s) /\ DOMAIN t = 1 .. Len(t)
    OBVIOUS
  <1> QED
    BY <1>2, <1>3 DEF Range

LEMMA AheadStep ==
    ASSUME NEW f, Flusher = {f}, ReplayTypeOK, ObjectKept, FlushAhead, [ReplayNext]_replayVars
    PROVE  FlushAhead'
  <1> USE DEF page, redis, stored
  <1>1. ASSUME UNCHANGED <<flush, object>> PROVE FlushAhead'
    BY <1>1 DEF FlushAhead
  <1>2. ASSUME flush'[f].pc \notin {"renew", "upload"} PROVE FlushAhead'
    BY <1>2 DEF FlushAhead
  <1>3. CASE \/ Emit \/ BatchTimer \/ BufferTick \/ CreateSession \/ RetentionDeletes
             \/ PostStep \/ UNCHANGED replayVars
    <2>1. UNCHANGED <<flush, object>>
      BY <1>3 DEF Emit, BatchTimer, BufferTick, CreateSession, RetentionDeletes,
                  PostStep, LosePost, RPush, ExpireAndEnd, replayVars
    <2> QED
      BY <1>1, <2>1
  <1>4. CASE (\E last \in BOOLEAN : SendFlush(f, last)) \/ LoseFlush(f) \/ UpsertReplayRecord(f)
    <2>1. flush'[f].pc \in {"idle", "sent"}
      BY <1>4 DEF SendFlush, LoseFlush, UpsertReplayRecord, Done, ReplayTypeOK
    <2> QED
      BY <1>2, <2>1
  <1>5. CASE LRange(f)
    <2>1. CASE Done(f)
      <3>1. flush'[f].pc = "idle"
        BY <2>1 DEF Done, ReplayTypeOK
      <3> QED
        BY <1>2, <3>1
    <2>2. CASE flush' = [flush EXCEPT ![f] = [pc |-> "renew", raw |-> buffer, epoch |-> epoch]]
      <3>1. flush'[f].raw = buffer /\ flush'[f].epoch = epoch /\ object' = object
        BY <1>5, <2>2 DEF LRange, ReplayTypeOK
      <3> QED
        BY <3>1 DEF FlushAhead, ObjectKept
    <2> QED
      BY <1>5, <2>1, <2>2 DEF LRange
  <1>6. CASE Renew(f)
    <2>1. /\ flush[f].pc = "renew" /\ flush'[f].raw = flush[f].raw
          /\ flush'[f].epoch = flush[f].epoch /\ object' = object
      BY <1>6 DEF Renew, Goto, ReplayTypeOK, FlushState
    <2> QED
      BY <2>1 DEF FlushAhead
  <1>7. CASE Upload(f)
    <2>1. flush'[f].pc \in {"idle", "upsert"}
      BY <1>7 DEF Upload, Done, Goto, ReplayTypeOK, FlushState
    <2> QED
      BY <1>2, <2>1
  <1> QED
    BY <1>3, <1>4, <1>5, <1>6, <1>7 DEF ReplayNext, FlushStep

(* FlushToS3 keeps the promise of its comment as long as the list lives and *)
(* the flushes of a session come one after the other: an upload then only   *)
(* adds events.  Overlapping flushes are what breaks it within one list.    *)
THEOREM LoneFlushLosesNothing ==
    ASSUME NEW f, Flusher = {f}
    PROVE  ReplaySpec => [][SameListLosesNothing]_replayVars
  <1>1. ReplayInit => FlushAhead
    BY DEF ReplayInit, FlushAhead
  <1>2. IInv /\ FlushAhead /\ [ReplayNext]_replayVars => FlushAhead'
    BY AheadStep DEF IInv
  <1>3. IInv /\ FlushAhead /\ [ReplayNext]_replayVars => [SameListLosesNothing]_replayVars
    <2> SUFFICES ASSUME IInv, FlushAhead, [ReplayNext]_replayVars, object'.epoch = object.epoch
                 PROVE  Range(object.raw) \subseteq Range(object'.raw)
      BY DEF SameListLosesNothing
    <2>1. CASE object' = object
      BY <2>1
    <2>2. CASE Upload(f) /\ object' # object
      <3>1. /\ flush[f].pc = "upload"
            /\ object' = [raw |-> flush[f].raw, epoch |-> flush[f].epoch]
        BY <2>2 DEF Upload
      <3>2. flush[f].raw \in Seq(Nat) /\ object.raw \in Seq(Nat)
        BY <3>1 DEF IInv, ReplayTypeOK, FlushState, Copy
      <3>3. IsPrefix(object.raw, flush[f].raw)
        BY <3>1 DEF FlushAhead
      <3> QED
        BY <3>1, <3>2, <3>3, RangeOfPrefix
    <2>3. object' = object \/ Upload(f)
      BY DEF ReplayNext, PostStep, FlushStep, Emit, BatchTimer, SendFlush, LosePost, RPush,
             ExpireAndEnd, BufferTick, LoseFlush, LRange, Renew, UpsertReplayRecord,
             CreateSession, RetentionDeletes, page, redis, stored, replayVars
    <2> QED
      BY <2>1, <2>2, <2>3
  <1> QED
    BY <1>1, <1>2, <1>3, ReplayInvariance, PTL DEF ReplaySpec

=============================================================================
