----------------------- MODULE IntegrationQueueProofs -----------------------
(***************************************************************************)
(* Proofs about IntegrationQueue: its safety properties for any jobs and    *)
(* processes, any number of attempts, any delays and any number of stops,   *)
(* with and without faults and crashes.                                     *)
(***************************************************************************)
EXTENDS IntegrationQueue, FiniteSetTheorems, SequenceTheorems, TLAPS

(* The sorted set is finite, so that the reaper can put it in an order. *)
DelayedFinite == IsFiniteSet(delayed)

(* A job Redis has not accepted yet is in no place and was never tried. *)
NowhereBefore ==
    \A j \in Job \ enqueued :
        /\ tries[j] = 0 /\ j \notin delivered
        /\ ~InPending(j) /\ ~InDelayed(j) /\ ~Held(j) /\ ~InFailed(j)
        /\ \A r \in rows : r.job # j

(* A delivered job is at most in the hands of the worker that delivered it  *)
(* and has not yet written the row.                                         *)
DeliveredAtRest ==
    /\ \A j \in delivered : ~InPending(j) /\ ~InDelayed(j) /\ ~InFailed(j)
    /\ \A w \in Worker : wjob[w] # NoJob =>
          (wjob[w].job \in delivered <=> wpc[w] = "logged")

(* The rows tell of attempts that were made; the one a worker is at has no  *)
(* row before its call returned.                                            *)
RowsTrue ==
    /\ \A r \in rows : r.attempt <= tries[r.job]
    /\ \A r \in rows : r.ok => r.job \in delivered /\ r.attempt = tries[r.job]
    /\ \A w \in Worker : wpc[w] \in {"fire", "logged"} =>
          \A r \in rows : r.job = wjob[w].job => r.attempt <= wjob[w].attempts

IInv ==
    /\ TypeOK /\ DelayedFinite
    /\ OneCopy /\ NothingForgotten /\ NowhereBefore
    /\ AttemptsTellTries /\ FailedMeansExhausted /\ DeliveredAtRest
    /\ RowsTrue /\ LogConsistent

-----------------------------------------------------------------------------
(* Facts about tickets and sequences of tickets.                           *)

LEMMA TicketFacts ==
    /\ NoJob \notin Ticket
    /\ \A t \in Ticket :
          /\ t.job \in Job /\ t.attempts \in 0 .. MaxAttempts - 1
          /\ t.attempts \in Nat /\ t.attempts < MaxAttempts
    /\ MaxAttempts \in Nat /\ MaxAttempts > 0
  BY RetryAssumption DEF Ticket

LEMMA DelayFacts == \A n \in Nat : RetryDelay(n) \in Nat
  <1> SUFFICES ASSUME NEW n \in Nat PROVE RetryDelay(n) \in Nat
    OBVIOUS
  <1>1. /\ Len(RetryDelays) \in Nat \ {0}
        /\ \A i \in 1 .. Len(RetryDelays) : RetryDelays[i] \in Nat
    BY RetryAssumption
  <1> QED
    BY <1>1 DEF RetryDelay

LEMMA PendingFacts ==
    ASSUME TypeOK
    PROVE  /\ Len(pending) \in Nat /\ DOMAIN pending = 1 .. Len(pending)
           /\ \A i \in 1 .. Len(pending) : pending[i] \in Ticket
  BY DEF TypeOK

LEMMA AppendFacts ==
    ASSUME TypeOK, NEW t \in Ticket
    PROVE  /\ Append(pending, t) \in Seq(Ticket)
           /\ DOMAIN Append(pending, t) = 1 .. Len(pending) + 1
           /\ \A i \in 1 .. Len(pending) : Append(pending, t)[i] = pending[i]
           /\ Append(pending, t)[Len(pending) + 1] = t
  BY AppendProperties DEF TypeOK

LEMMA TailFacts ==
    ASSUME TypeOK, pending # <<>>
    PROVE  /\ Tail(pending) \in Seq(Ticket)
           /\ Len(pending) > 0 /\ Head(pending) = pending[1]
           /\ DOMAIN Tail(pending) = 1 .. Len(pending) - 1
           /\ \A i \in 1 .. Len(pending) - 1 : Tail(pending)[i] = pending[i + 1]
  <1>1. /\ Tail(pending) \in Seq(Ticket) /\ Len(Tail(pending)) = Len(pending) - 1
        /\ Head(pending) = pending[1]
        /\ \A i \in 1 .. Len(Tail(pending)) : Tail(pending)[i] = pending[i + 1]
    BY HeadTailProperties DEF TypeOK
  <1> QED
    BY <1>1 DEF TypeOK

(* The tickets a reap pushes: each due job once. *)
Moved(s) == [i \in DOMAIN s |-> [job |-> s[i].job, attempts |-> s[i].attempts]]

Reaped(s) == pending \o Moved(s)

LEMMA OrderFacts ==
    ASSUME TypeOK, DelayedFinite, NEW s \in Orders(Due)
    PROVE  \E n \in Nat :
              /\ s \in [1 .. n -> Due]
              /\ \A d \in Due : \E i \in 1 .. n : s[i] = d
              /\ \A i, k \in 1 .. n : s[i] = s[k] => i = k
  <1> DEFINE n == Cardinality(Due)
  <1>1. IsFiniteSet(Due)
    BY FS_Subset DEF DelayedFinite, Due
  <1>2. n \in Nat
    BY <1>1, FS_CardinalityType
  <1>3. s \in [1 .. n -> Due] /\ \A d \in Due : \E i \in 1 .. n : s[i] = d
    BY <1>2 DEF Orders
  <1>4. IsFiniteSet(1 .. n) /\ Cardinality(1 .. n) = n
    BY <1>2, FS_Interval
  <1>5. s \in Surjection(1 .. n, Due)
    BY <1>3 DEF Surjection
  <1>6. s \in Injection(1 .. n, Due)
    BY <1>4, <1>5, FS_SurjSameCardinalityImpliesInj
  <1>7. \A i, k \in 1 .. n : s[i] = s[k] => i = k
    BY <1>3, <1>6 DEF Injection, IsInjective
  <1> QED
    BY <1>2, <1>3, <1>7

LEMMA ReapFacts ==
    ASSUME TypeOK, DelayedFinite, NEW s \in Orders(Due)
    PROVE  /\ Reaped(s) \in Seq(Ticket)
           /\ \E n \in Nat :
                 /\ s \in [1 .. n -> Due]
                 /\ \A d \in Due : \E i \in 1 .. n : s[i] = d
                 /\ \A i, k \in 1 .. n : s[i] = s[k] => i = k
                 /\ DOMAIN Reaped(s) = 1 .. Len(pending) + n
                 /\ \A i \in 1 .. Len(pending) : Reaped(s)[i] = pending[i]
                 /\ \A i \in 1 .. n :
                       Reaped(s)[Len(pending) + i]
                           = [job |-> s[i].job, attempts |-> s[i].attempts]
  <1>1. PICK n \in Nat :
              /\ s \in [1 .. n -> Due]
              /\ \A d \in Due : \E i \in 1 .. n : s[i] = d
              /\ \A i, k \in 1 .. n : s[i] = s[k] => i = k
    BY OrderFacts
  <1>2. \A i \in 1 .. n : [job |-> s[i].job, attempts |-> s[i].attempts] \in Ticket
    BY <1>1 DEF TypeOK, Due, Ticket
  <1>3. Moved(s) \in [1 .. n -> Ticket]
    BY <1>1, <1>2 DEF Moved
  <1>4. Moved(s) \in Seq(Ticket) /\ Len(Moved(s)) = n
    BY <1>3
  <1>5. /\ pending \in Seq(Ticket) /\ Len(pending) \in Nat
        /\ DOMAIN pending = 1 .. Len(pending)
    BY DEF TypeOK
  <1> DEFINE q == pending \o Moved(s)
  <1>6. /\ q \in Seq(Ticket) /\ Len(q) = Len(pending) + n
        /\ \A i \in 1 .. Len(pending) + n :
              q[i] = IF i <= Len(pending) THEN pending[i] ELSE Moved(s)[i - Len(pending)]
    BY <1>4, <1>5, ConcatProperties
  <1>7. DOMAIN q = 1 .. Len(pending) + n
    BY <1>6
  <1>8. \A i \in 1 .. Len(pending) : q[i] = pending[i]
    BY <1>5, <1>6
  <1>9. \A i \in 1 .. n : q[Len(pending) + i] = [job |-> s[i].job, attempts |-> s[i].attempts]
    <2> SUFFICES ASSUME NEW i \in 1 .. n
                 PROVE  q[Len(pending) + i] = [job |-> s[i].job, attempts |-> s[i].attempts]
      OBVIOUS
    <2>1. q[Len(pending) + i] = Moved(s)[i]
      BY <1>5, <1>6
    <2> QED
      BY <1>1, <2>1 DEF Moved
  <1> QED
    BY <1>1, <1>6, <1>7, <1>8, <1>9 DEF Reaped

LEMMA Start == Init => IInv
  <1> SUFFICES ASSUME Init PROVE IInv
    OBVIOUS
  <1> USE TicketFacts DEF Init
  <1>1. pending \in Seq(Ticket) /\ DOMAIN pending = {}
    OBVIOUS
  <1>2. TypeOK
    BY <1>1 DEF TypeOK, WorkerPC
  <1>3. DelayedFinite
    BY FS_EmptySet DEF DelayedFinite
  <1>4. OneCopy /\ NothingForgotten /\ NowhereBefore
    BY <1>1 DEF OneCopy, NothingForgotten, NowhereBefore, InPending, InDelayed, Held, InFailed
  <1>5. AttemptsTellTries /\ FailedMeansExhausted /\ DeliveredAtRest
    BY <1>1 DEF AttemptsTellTries, FailedMeansExhausted, DeliveredAtRest, InPending, InDelayed, InFailed
  <1>6. RowsTrue /\ LogConsistent
    BY DEF RowsTrue, LogConsistent
  <1> QED
    BY <1>2, <1>3, <1>4, <1>5, <1>6 DEF IInv

-----------------------------------------------------------------------------
(* Types.                                                                  *)

LEMMA MovesKeepTypes ==
    ASSUME TypeOK, NEW w \in Worker, NEW pc, NEW t, WorkerMoves(w, pc, t),
           \/ pc \in {"idle", "brpop"} /\ t = NoJob
           \/ pc \in {"load", "fire", "logged", "failure"} /\ t \in Ticket
    PROVE  /\ proc' \in [Worker -> {"up", "stopping", "down"}]
           /\ wpc' \in [Worker -> WorkerPC]
           /\ wjob' \in [Worker -> Ticket \cup {NoJob}]
           /\ \A v \in Worker : wpc'[v] \in {"idle", "brpop"} <=> wjob'[v] = NoJob
           /\ stops' \in Nat
  BY TicketFacts DEF TypeOK, WorkerMoves, WorkerPC

LEMMA HandFacts ==
    ASSUME TypeOK, NEW w \in Worker, wpc[w] \in {"load", "fire", "logged", "failure"}
    PROVE  wjob[w] \in Ticket /\ wjob[w] # NoJob
  BY TicketFacts DEF TypeOK

LEMMA TypeStep == IInv /\ [Next]_vars => TypeOK'
  <1> SUFFICES ASSUME IInv, [Next]_vars PROVE TypeOK'
    OBVIOUS
  <1> USE TicketFacts DEF IInv, stores, process, history
  <1>1. ASSUME NEW j \in Job, Enqueue(j) PROVE TypeOK'
    <2>1. [job |-> j, attempts |-> 0] \in Ticket
      BY DEF Ticket
    <2>2. pending' \in Seq(Ticket)
      BY <1>1, <2>1, AppendFacts DEF Enqueue
    <2> QED
      BY <1>1, <2>2 DEF TypeOK, Enqueue
  <1>2. ASSUME NEW w \in Worker, WorkerStep(w) PROVE TypeOK'
    <2>1. CASE Poll(w) \/ DequeueTimesOut(w)
      BY <2>1, MovesKeepTypes DEF TypeOK, Poll, DequeueTimesOut
    <2>2. CASE Dequeue(w)
      <3>1. pending' \in Seq(Ticket) /\ Head(pending) \in Ticket
        BY <2>2, TailFacts, PendingFacts DEF Dequeue
      <3>2. lost' \subseteq Job
        BY <2>2, <3>1 DEF TypeOK, Dequeue
      <3> QED
        BY <2>2, <3>1, <3>2, MovesKeepTypes DEF TypeOK, Dequeue
    <2>3. CASE LoadContext(w)
      <3>1. wpc[w] = "load" /\ wjob[w] \in Ticket /\ wjob[w] # NoJob
        BY <2>3, HandFacts DEF LoadContext
      <3>2. tries[wjob[w].job] = wjob[w].attempts
        BY <3>1 DEF AttemptsTellTries
      <3>3. tries' \in [Job -> 0 .. MaxAttempts]
        BY <2>3, <3>1, <3>2 DEF TypeOK, LoadContext
      <3> QED
        BY <2>3, <3>1, <3>3, MovesKeepTypes DEF TypeOK, LoadContext
    <2>4. CASE FireSucceeds(w)
      <3>1. wjob[w] \in Ticket
        BY <2>4, HandFacts DEF FireSucceeds
      <3> QED
        BY <2>4, <3>1, MovesKeepTypes DEF TypeOK, FireSucceeds
    <2>5. CASE FireFails(w) \/ LogSuccess(w)
      <3>1. wjob[w] \in Ticket /\ wjob[w] # NoJob
        BY <2>5, HandFacts DEF FireFails, LogSuccess
      <3>2. wjob[w].attempts + 1 \in 1 .. MaxAttempts
        BY <3>1
      <3> DEFINE Row == [job : Job, attempt : 1 .. MaxAttempts, ok : BOOLEAN]
                 New(ok) == [job |-> wjob[w].job, attempt |-> wjob[w].attempts + 1, ok |-> ok]
      <3>3. New(TRUE) \in Row /\ New(FALSE) \in Row
        BY <3>1, <3>2
      <3>4. rows' \subseteq rows \cup {New(TRUE), New(FALSE)}
        BY <2>5 DEF FireFails, LogSuccess, LogRow
      <3>5. \A r \in rows' : r \in Row
        BY <3>3, <3>4 DEF TypeOK
      <3> QED
        BY <2>5, <3>1, <3>5, MovesKeepTypes DEF TypeOK, FireFails, LogSuccess
    <2>6. CASE GiveUp(w)
      <3>1. wjob[w] \in Ticket
        BY <2>6, HandFacts DEF GiveUp
      <3> QED
        BY <2>6, <3>1, MovesKeepTypes DEF TypeOK, GiveUp
    <2>7. CASE Retry(w)
      <3>1. wjob[w] \in Ticket /\ wjob[w].attempts + 1 \in 0 .. MaxAttempts - 1
        BY <2>7, HandFacts DEF Retry, Exhausted
      <3>2. /\ Scheduled(wjob[w]) \in [job : Job, attempts : 0 .. MaxAttempts - 1, left : Nat]
            /\ Scheduled(wjob[w]).attempts > 0
        BY <3>1, DelayFacts DEF Scheduled
      <3> QED
        BY <2>7, <3>1, <3>2, MovesKeepTypes DEF TypeOK, Retry
    <2> QED
      BY <1>2, <2>1, <2>2, <2>3, <2>4, <2>5, <2>6, <2>7 DEF WorkerStep
  <1>3. ASSUME NEW w \in Worker, Reap(w) PROVE TypeOK'
    <2>1. pending' \in Seq(Ticket)
      BY <1>3, ReapFacts DEF Reap, Reaped, Moved
    <2> QED
      BY <1>3, <2>1 DEF TypeOK, Reap, Removed
  <1>4. ASSUME Tick PROVE TypeOK'
    BY <1>4 DEF TypeOK, Tick, Aged
  <1>5. ASSUME NEW w \in Worker, Cancel(w) \/ Boot(w) PROVE TypeOK'
    <2>1. proc' \in [Worker -> {"up", "stopping", "down"}] /\ stops' \in Nat
      BY <1>5 DEF TypeOK, Cancel, Boot
    <2> QED
      BY <1>5, <2>1 DEF TypeOK, Cancel, Boot
  <1>6. ASSUME NEW w \in Worker, Exit(w) \/ Crash(w) PROVE TypeOK'
    <2>1. Ends(w) /\ stops' \in Nat
      BY <1>6 DEF TypeOK, Exit, Crash
    <2>2. lost' \subseteq Job
      BY <2>1 DEF TypeOK, Ends, InHand
    <2>3. /\ proc' \in [Worker -> {"up", "stopping", "down"}]
          /\ wpc' \in [Worker -> WorkerPC]
          /\ wjob' \in [Worker -> Ticket \cup {NoJob}]
          /\ \A v \in Worker : wpc'[v] \in {"idle", "brpop"} <=> wjob'[v] = NoJob
      BY <2>1 DEF TypeOK, Ends, WorkerPC
    <2> QED
      BY <2>1, <2>2, <2>3 DEF TypeOK, Ends
  <1>7. ASSUME UNCHANGED vars PROVE TypeOK'
    BY <1>7 DEF TypeOK, vars
  <1> QED
    BY <1>1, <1>2, <1>3, <1>4, <1>5, <1>6, <1>7 DEF Next

LEMMA FiniteStep == IInv /\ [Next]_vars => DelayedFinite'
  <1> SUFFICES ASSUME IInv, [Next]_vars PROVE DelayedFinite'
    OBVIOUS
  <1> USE DEF IInv, DelayedFinite, vars, stores, process, history
  <1>1. ASSUME NEW w \in Worker, Retry(w) PROVE DelayedFinite'
    BY <1>1, FS_AddElement DEF Retry
  <1>2. ASSUME NEW w \in Worker, Reap(w) PROVE DelayedFinite'
    BY <1>2, FS_Difference DEF Reap
  <1>3. ASSUME Tick PROVE DelayedFinite'
    <2> DEFINE g == [d \in delayed |-> Aged(d)]
    <2>1. delayed' = {Aged(d) : d \in delayed}
      BY <1>3 DEF Tick
    <2>2. g \in Surjection(delayed, delayed')
      BY <2>1 DEF Surjection
    <2> QED
      BY <2>2, FS_Surjection
  <1>4. ASSUME UNCHANGED delayed PROVE DelayedFinite'
    BY <1>4
  <1> QED
    BY <1>1, <1>2, <1>3, <1>4
       DEF Next, WorkerStep, Enqueue, Poll, DequeueTimesOut, Dequeue, LoadContext, FireSucceeds,
           FireFails, LogSuccess, GiveUp, Cancel, Exit, Crash, Ends, Boot

-----------------------------------------------------------------------------
(* Where the jobs are.                                                     *)

Placed ==
    /\ OneCopy /\ NothingForgotten /\ NowhereBefore
    /\ AttemptsTellTries /\ FailedMeansExhausted /\ DeliveredAtRest

LEMMA LogRowFacts ==
    ASSUME NEW w \in Worker, NEW ok \in BOOLEAN, LogRow(w, ok)
    PROVE  \A r \in rows' :
              r \in rows \/ (/\ r.job = wjob[w].job /\ r.ok = ok
                            /\ r.attempt = wjob[w].attempts + 1)
  BY DEF LogRow

LEMMA EnqueuePlaces ==
    ASSUME IInv, NEW j \in Job, Enqueue(j)
    PROVE  Placed'
  <1> DEFINE t == [job |-> j, attempts |-> 0]
             n == Len(pending)
  <1> USE DEF IInv, history, process
  <1>1. t \in Ticket /\ t.job = j /\ t.attempts = 0
    BY TicketFacts DEF Ticket
  <1>2. /\ n \in Nat /\ DOMAIN pending = 1 .. n /\ DOMAIN pending' = 1 .. n + 1
        /\ \A i \in 1 .. n : pending'[i] = pending[i]
        /\ pending'[n + 1] = t
    BY <1>1, AppendFacts, PendingFacts DEF Enqueue
  <1>3. /\ j \notin enqueued /\ enqueued' = enqueued \cup {j}
        /\ UNCHANGED <<delayed, failed, rows, proc, wpc, wjob, stops, tries, delivered, lost>>
    BY DEF Enqueue
  <1>4. /\ tries[j] = 0 /\ j \notin delivered
        /\ ~InPending(j) /\ ~InDelayed(j) /\ ~Held(j) /\ ~InFailed(j)
    BY <1>3 DEF NowhereBefore
  <1>5. \A k \in Job : InPending(k)' <=> InPending(k) \/ k = j
    BY <1>1, <1>2 DEF InPending
  <1>6. \A k \in Job : /\ InDelayed(k)' <=> InDelayed(k)
                       /\ Held(k)' <=> Held(k)
                       /\ InFailed(k)' <=> InFailed(k)
    BY <1>3 DEF InDelayed, Held, InFailed
  <1>7. OneCopy'
    <2>1. \A i, k \in DOMAIN pending' : pending'[i].job = pending'[k].job => i = k
      BY <1>1, <1>2, <1>4 DEF OneCopy, InPending
    <2> QED
      BY <2>1, <1>3, <1>4, <1>5, <1>6 DEF OneCopy
  <1>8. NothingForgotten'
    BY <1>3, <1>5, <1>6 DEF NothingForgotten, TypeOK
  <1>9. NowhereBefore'
    BY <1>3, <1>5, <1>6 DEF NowhereBefore
  <1>10. AttemptsTellTries'
    <2>1. \A i \in DOMAIN pending' : tries'[pending'[i].job] = pending'[i].attempts
      BY <1>1, <1>2, <1>3, <1>4 DEF AttemptsTellTries
    <2> QED
      BY <2>1, <1>3 DEF AttemptsTellTries
  <1>11. FailedMeansExhausted'
    BY <1>3 DEF FailedMeansExhausted
  <1>12. DeliveredAtRest'
    BY <1>3, <1>4, <1>5, <1>6 DEF DeliveredAtRest, TypeOK
  <1> QED
    BY <1>7, <1>8, <1>9, <1>10, <1>11, <1>12 DEF Placed

(* A worker takes the oldest ticket, or loses it on the way. *)
LEMMA DequeuePlaces ==
    ASSUME IInv, NEW w \in Worker, Dequeue(w)
    PROVE  Placed'
  <1> DEFINE t == pending[1]
             n == Len(pending)
  <1> USE DEF IInv
  <1>1. /\ n \in Nat /\ n > 0 /\ DOMAIN pending = 1 .. n /\ DOMAIN pending' = 1 .. n - 1
        /\ \A i \in 1 .. n - 1 : pending'[i] = pending[i + 1]
        /\ Head(pending) = t /\ t \in Ticket
    BY TailFacts, PendingFacts DEF Dequeue
  <1>2. /\ wpc[w] = "brpop" /\ wjob[w] = NoJob
        /\ UNCHANGED <<delayed, failed, rows, enqueued, tries, delivered>>
    BY DEF Dequeue, TypeOK
  <1>3. /\ t \in Ticket /\ t # NoJob /\ t.job \in Job
        /\ tries[t.job] = t.attempts /\ t.job \notin delivered
        /\ ~InDelayed(t.job) /\ ~Held(t.job) /\ ~InFailed(t.job)
    <2>1. t.job \in Job /\ InPending(t.job)
      BY <1>1, TicketFacts DEF InPending
    <2> QED
      BY <2>1, <1>1, TicketFacts DEF OneCopy, AttemptsTellTries, DeliveredAtRest
  <1>4. \A k \in Job : InPending(k)' <=> InPending(k) /\ k # t.job
    <2>1. ASSUME NEW k \in Job, InPending(k)' PROVE InPending(k) /\ k # t.job
      <3>1. PICK i \in 1 .. n - 1 : pending[i + 1].job = k
        BY <2>1, <1>1 DEF InPending
      <3>2. i + 1 \in 1 .. n /\ i + 1 # 1 /\ 1 \in 1 .. n
        BY <1>1, <3>1
      <3> QED
        BY <1>1, <3>1, <3>2 DEF InPending, OneCopy
    <2>2. ASSUME NEW k \in Job, InPending(k), k # t.job PROVE InPending(k)'
      <3>1. PICK i \in 1 .. n : pending[i].job = k
        BY <2>2, <1>1 DEF InPending
      <3>2. i - 1 \in 1 .. n - 1 /\ pending'[i - 1] = pending[i]
        BY <1>1, <2>2, <3>1
      <3> QED
        BY <1>1, <3>1, <3>2 DEF InPending
    <2> QED
      BY <2>1, <2>2
  <1>5. \A k \in Job : /\ InDelayed(k)' <=> InDelayed(k)
                       /\ InFailed(k)' <=> InFailed(k)
    BY <1>2 DEF InDelayed, InFailed
  <1>6. \A i, k \in DOMAIN pending' : pending'[i].job = pending'[k].job => i = k
    <2> SUFFICES ASSUME NEW i \in 1 .. n - 1, NEW k \in 1 .. n - 1,
                        pending[i + 1].job = pending[k + 1].job
                 PROVE  i = k
      BY <1>1
    <2>1. i + 1 \in 1 .. n /\ k + 1 \in 1 .. n
      BY <1>1
    <2>2. i + 1 = k + 1
      BY <1>1, <2>1 DEF OneCopy
    <2> QED
      BY <2>2
  <1>7. \A i \in DOMAIN pending' : tries'[pending'[i].job] = pending'[i].attempts
    <2> SUFFICES ASSUME NEW i \in 1 .. n - 1
                 PROVE  tries[pending[i + 1].job] = pending[i + 1].attempts
      BY <1>1, <1>2
    <2>1. i + 1 \in 1 .. n
      BY <1>1
    <2> QED
      BY <1>1, <2>1 DEF AttemptsTellTries
  <1>8. FailedMeansExhausted'
    BY <1>2 DEF FailedMeansExhausted
  <1>9. CASE WorkerMoves(w, "load", t) /\ UNCHANGED lost
    <2>1. /\ wjob' = [wjob EXCEPT ![w] = t] /\ wpc' = [wpc EXCEPT ![w] = "load"]
          /\ wjob'[w] = t /\ wpc'[w] = "load" /\ UNCHANGED lost
          /\ \A v \in Worker : v # w => wjob'[v] = wjob[v] /\ wpc'[v] = wpc[v]
      BY <1>9 DEF WorkerMoves, TypeOK
    <2>2. \A k \in Job : Held(k)' <=> Held(k) \/ k = t.job
      BY <1>2, <1>3, <2>1 DEF Held
    <2>3. \A u, v \in Worker :
             wjob'[u] # NoJob /\ wjob'[v] # NoJob /\ wjob'[u].job = wjob'[v].job => u = v
      BY <1>3, <2>1 DEF OneCopy, Held
    <2>4. OneCopy'
      BY <1>2, <1>3, <1>4, <1>5, <1>6, <2>2, <2>3 DEF OneCopy
    <2>5. NothingForgotten'
      BY <1>2, <1>4, <1>5, <2>1, <2>2 DEF NothingForgotten, TypeOK
    <2>6. NowhereBefore'
      BY <1>1, <1>2, <1>3, <1>4, <1>5, <2>2 DEF NowhereBefore, InPending
    <2>7. AttemptsTellTries'
      <3>1. ASSUME NEW v \in Worker, wjob'[v] # NoJob
            PROVE  tries'[wjob'[v].job] = wjob'[v].attempts + (IF wpc'[v] = "load" THEN 0 ELSE 1)
        <4>1. CASE v = w
          BY <1>1, <1>2, <1>3, <2>1, <4>1, TicketFacts
        <4>2. CASE v # w
          BY <1>2, <2>1, <3>1, <4>2 DEF AttemptsTellTries
        <4> QED
          BY <4>1, <4>2
      <3> QED
        BY <1>2, <1>7, <3>1 DEF AttemptsTellTries
    <2>8. DeliveredAtRest'
      BY <1>2, <1>3, <1>4, <1>5, <2>1 DEF DeliveredAtRest, TypeOK
    <2> QED
      BY <1>8, <2>4, <2>5, <2>6, <2>7, <2>8 DEF Placed
  <1>10. CASE lost' = lost \cup {t.job} /\ WorkerMoves(w, "idle", NoJob)
    <2>1. wjob' = wjob /\ wpc' = [wpc EXCEPT ![w] = "idle"]
      BY <1>2, <1>10 DEF WorkerMoves, TypeOK
    <2>2. \A k \in Job : Held(k)' <=> Held(k)
      BY <2>1 DEF Held
    <2>3. OneCopy'
      BY <1>2, <1>4, <1>5, <1>6, <2>1, <2>2 DEF OneCopy
    <2>4. NothingForgotten'
      BY <1>2, <1>4, <1>5, <1>10, <2>2 DEF NothingForgotten, TypeOK
    <2>5. NowhereBefore'
      BY <1>2, <1>4, <1>5, <2>2 DEF NowhereBefore
    <2>6. AttemptsTellTries'
      BY <1>2, <1>7, <2>1 DEF AttemptsTellTries, TypeOK
    <2>7. DeliveredAtRest'
      BY <1>2, <1>4, <1>5, <2>1 DEF DeliveredAtRest, TypeOK
    <2> QED
      BY <1>8, <2>3, <2>4, <2>5, <2>6, <2>7 DEF Placed
  <1> QED
    BY <1>1, <1>9, <1>10 DEF Dequeue

(* Steps of a worker that keeps its job, at another place. *)
LEMMA HoldPlaces ==
    ASSUME IInv, NEW w \in Worker,
           \/ LoadContext(w) \/ FireSucceeds(w) \/ FireFails(w)
           \/ Poll(w) \/ DequeueTimesOut(w)
    PROVE  Placed'
  <1> USE DEF IInv, stores, history
  <1>1. /\ wjob' = wjob /\ UNCHANGED <<pending, delayed, failed, enqueued, lost>>
        /\ \E pc \in WorkerPC : wpc' = [wpc EXCEPT ![w] = pc]
    BY DEF LoadContext, FireSucceeds, FireFails, Poll, DequeueTimesOut, WorkerMoves, TypeOK, WorkerPC
  <1>2. \A j \in Job : /\ InPending(j)' <=> InPending(j)
                       /\ InDelayed(j)' <=> InDelayed(j)
                       /\ InFailed(j)' <=> InFailed(j)
                       /\ Held(j)' <=> Held(j)
    BY <1>1 DEF InPending, InDelayed, InFailed, Held
  <1>3. OneCopy'
    BY <1>1, <1>2 DEF OneCopy
  <1>4. \A v \in Worker : v # w => wpc'[v] = wpc[v]
    BY <1>1 DEF TypeOK
  <1>5. CASE LoadContext(w)
    <2> DEFINE t == wjob[w]
    <2>1. /\ t \in Ticket /\ t # NoJob /\ t.job \in Job /\ Held(t.job)
          /\ wpc[w] = "load" /\ wpc'[w] \in {"fire", "failure"}
          /\ UNCHANGED delivered /\ UNCHANGED rows
      BY <1>5, HandFacts, TicketFacts DEF LoadContext, WorkerMoves, TypeOK, Held
    <2>2. /\ tries'[t.job] = tries[t.job] + 1 /\ tries[t.job] = t.attempts
          /\ \A j \in Job : j # t.job => tries'[j] = tries[j]
          /\ t.job \in enqueued /\ t.job \notin delivered
      <3>1. tries' = [tries EXCEPT ![t.job] = @ + 1]
        BY <1>5 DEF LoadContext
      <3>2. tries[t.job] = t.attempts
        BY <2>1, TicketFacts DEF AttemptsTellTries
      <3>3. t.job \in enqueued /\ t.job \notin delivered
        BY <2>1 DEF NowhereBefore, DeliveredAtRest
      <3> QED
        BY <2>1, <3>1, <3>2, <3>3 DEF TypeOK
    <2>3. ~InPending(t.job) /\ ~InDelayed(t.job) /\ ~InFailed(t.job)
      BY <2>1 DEF OneCopy
    <2>4. NothingForgotten'
      BY <1>1, <1>2, <2>1 DEF NothingForgotten, TypeOK
    <2>5. NowhereBefore'
      BY <1>1, <1>2, <2>1, <2>2 DEF NowhereBefore
    <2>6. AttemptsTellTries'
      <3>1. \A i \in DOMAIN pending' : tries'[pending'[i].job] = pending'[i].attempts
        <4> SUFFICES ASSUME NEW i \in 1 .. Len(pending)
                     PROVE  tries'[pending[i].job] = pending[i].attempts
          BY <1>1, PendingFacts
        <4>1. pending[i].job \in Job /\ pending[i].job # t.job
          BY <2>3, PendingFacts, TicketFacts DEF InPending
        <4> QED
          BY <2>2, <4>1, PendingFacts DEF AttemptsTellTries
      <3>2. \A d \in delayed' : tries'[d.job] = d.attempts
        BY <1>1, <2>2, <2>3 DEF AttemptsTellTries, InDelayed, TypeOK
      <3>3. ASSUME NEW v \in Worker, wjob'[v] # NoJob
            PROVE  tries'[wjob'[v].job] = wjob'[v].attempts + (IF wpc'[v] = "load" THEN 0 ELSE 1)
        <4>1. CASE v = w
          BY <1>1, <2>1, <2>2, <4>1
        <4>2. CASE v # w
          <5>1. wjob[v].job # t.job /\ wjob[v].job \in Job
            BY <1>1, <2>1, <3>3, <4>2, TicketFacts DEF OneCopy, TypeOK
          <5> QED
            BY <1>1, <1>4, <2>2, <3>3, <4>2, <5>1 DEF AttemptsTellTries
        <4> QED
          BY <4>1, <4>2
      <3> QED
        BY <3>1, <3>2, <3>3 DEF AttemptsTellTries
    <2>7. FailedMeansExhausted'
      <3> SUFFICES ASSUME NEW f \in failed PROVE tries'[f.job] = MaxAttempts /\ f.job \notin delivered
        BY <1>1, <2>1 DEF FailedMeansExhausted
      <3>1. f.job \in Job /\ f.job # t.job
        BY <2>3, TicketFacts DEF InFailed, TypeOK
      <3> QED
        BY <2>2, <3>1 DEF FailedMeansExhausted
    <2>8. DeliveredAtRest'
      BY <1>1, <1>2, <1>4, <2>1, <2>2 DEF DeliveredAtRest, TypeOK
    <2> QED
      BY <1>3, <2>4, <2>5, <2>6, <2>7, <2>8 DEF Placed
  <1>6. CASE FireSucceeds(w)
    <2> DEFINE t == wjob[w]
    <2>1. /\ t \in Ticket /\ t # NoJob /\ t.job \in Job /\ Held(t.job)
          /\ wpc[w] = "fire" /\ wpc'[w] = "logged"
          /\ delivered' = delivered \cup {t.job} /\ UNCHANGED <<rows, tries>>
      BY <1>6, HandFacts, TicketFacts DEF FireSucceeds, WorkerMoves, TypeOK, Held
    <2>2. t.job \in enqueued
      BY <2>1 DEF NowhereBefore
    <2>3. ~InPending(t.job) /\ ~InDelayed(t.job) /\ ~InFailed(t.job)
      BY <2>1 DEF OneCopy
    <2>4. NothingForgotten'
      BY <1>1, <1>2, <2>1 DEF NothingForgotten, TypeOK
    <2>5. NowhereBefore'
      BY <1>1, <1>2, <2>1, <2>2 DEF NowhereBefore
    <2>6. AttemptsTellTries'
      BY <1>1, <1>4, <2>1 DEF AttemptsTellTries
    <2>7. FailedMeansExhausted'
      BY <1>1, <2>1, <2>3 DEF FailedMeansExhausted, InFailed
    <2>8. DeliveredAtRest'
      <3>1. \A j \in delivered' : ~InPending(j)' /\ ~InDelayed(j)' /\ ~InFailed(j)'
        BY <1>2, <2>1, <2>3 DEF DeliveredAtRest, TypeOK
      <3>2. ASSUME NEW v \in Worker, wjob'[v] # NoJob
            PROVE  wjob'[v].job \in delivered' <=> wpc'[v] = "logged"
        <4>1. CASE v = w
          BY <1>1, <2>1, <4>1
        <4>2. CASE v # w
          <5>1. wjob[v].job # t.job
            BY <1>1, <2>1, <3>2, <4>2 DEF OneCopy
          <5> QED
            BY <1>1, <1>4, <2>1, <3>2, <4>2, <5>1 DEF DeliveredAtRest
        <4> QED
          BY <4>1, <4>2
      <3> QED
        BY <3>1, <3>2 DEF DeliveredAtRest
    <2> QED
      BY <1>3, <2>4, <2>5, <2>6, <2>7, <2>8 DEF Placed
  <1>7. CASE FireFails(w) \/ Poll(w) \/ DequeueTimesOut(w)
    <2>1. /\ UNCHANGED <<tries, delivered>>
          /\ \/ wpc[w] = "fire" /\ wpc'[w] = "failure"
             \/ wjob[w] = NoJob
      BY <1>7 DEF FireFails, Poll, DequeueTimesOut, WorkerMoves, TypeOK
    <2>2. \A r \in rows' : r \in rows \/ (wpc[w] = "fire" /\ r.job = wjob[w].job)
      <3>1. CASE FireFails(w)
        BY <3>1, LogRowFacts DEF FireFails
      <3>2. CASE Poll(w) \/ DequeueTimesOut(w)
        BY <3>2 DEF Poll, DequeueTimesOut
      <3> QED
        BY <1>7, <3>1, <3>2
    <2>3. wpc[w] = "fire" => wjob[w].job \in enqueued
      BY HandFacts, TicketFacts DEF NowhereBefore, Held
    <2>4. NothingForgotten'
      BY <1>1, <1>2, <2>1 DEF NothingForgotten, TypeOK
    <2>5. NowhereBefore'
      BY <1>1, <1>2, <2>1, <2>2, <2>3 DEF NowhereBefore
    <2>6. AttemptsTellTries'
      BY <1>1, <1>4, <2>1 DEF AttemptsTellTries
    <2>7. FailedMeansExhausted'
      BY <1>1, <2>1 DEF FailedMeansExhausted
    <2>8. DeliveredAtRest'
      BY <1>1, <1>2, <1>4, <2>1 DEF DeliveredAtRest, TypeOK
    <2> QED
      BY <1>3, <2>4, <2>5, <2>6, <2>7, <2>8 DEF Placed
  <1> QED
    BY <1>5, <1>6, <1>7

(* A job leaves a worker's hands: into the sorted set, into failed_jobs,    *)
(* after its delivery, or nowhere.                                          *)
LEMMA ReleasePlaces ==
    ASSUME IInv, NEW w \in Worker,
           LogSuccess(w) \/ GiveUp(w) \/ Retry(w) \/ Exit(w) \/ Crash(w)
    PROVE  Placed'
  <1> DEFINE t == wjob[w]
  <1> USE DEF IInv, stores, history
  <1>1. /\ wjob' = [wjob EXCEPT ![w] = NoJob] /\ wpc' = [wpc EXCEPT ![w] = "idle"]
        /\ UNCHANGED <<pending, enqueued, tries, delivered>>
    BY DEF LogSuccess, GiveUp, Retry, Exit, Crash, Ends, WorkerMoves
  <1>2. /\ wjob'[w] = NoJob
        /\ \A v \in Worker : v # w => wjob'[v] = wjob[v] /\ wpc'[v] = wpc[v]
    BY <1>1 DEF TypeOK
  <1>3. \A j \in Job : /\ InPending(j)' <=> InPending(j)
                       /\ Held(j)' => Held(j)
                       /\ Held(j) => Held(j)' \/ (t # NoJob /\ j = t.job)
    BY <1>1, <1>2 DEF InPending, Held
  <1>4. ASSUME t # NoJob
        PROVE  /\ t \in Ticket /\ t.job \in Job /\ t.attempts \in 0 .. MaxAttempts - 1
               /\ Held(t.job)
               /\ \A v \in Worker : wjob'[v] # NoJob => wjob'[v].job # t.job
    <2>1. t \in Ticket /\ t.job \in Job /\ t.attempts \in 0 .. MaxAttempts - 1
      BY <1>4, TicketFacts DEF TypeOK
    <2>2. Held(t.job)
      BY <1>4 DEF Held
    <2>3. \A v \in Worker : wjob'[v] # NoJob => wjob'[v].job # t.job
      <3> SUFFICES ASSUME NEW v \in Worker, wjob'[v] # NoJob, wjob'[v].job = t.job PROVE FALSE
        OBVIOUS
      <3>1. v # w /\ wjob[v] # NoJob /\ wjob[v].job = t.job
        BY <1>2
      <3> QED
        BY <1>4, <3>1 DEF OneCopy
    <2> QED
      BY <2>1, <2>2, <2>3
  <1>5. t # NoJob => /\ ~InPending(t.job) /\ ~InDelayed(t.job) /\ ~InFailed(t.job)
                     /\ t.job \in enqueued
                     /\ tries[t.job] = t.attempts + (IF wpc[w] = "load" THEN 0 ELSE 1)
                     /\ (t.job \in delivered <=> wpc[w] = "logged")
    BY <1>4 DEF OneCopy, NowhereBefore, AttemptsTellTries, DeliveredAtRest
  <1>5a. \A j \in Job : Held(j)' => t = NoJob \/ j # t.job
    BY <1>4 DEF Held
  <1>6. \A u, v \in Worker :
           wjob'[u] # NoJob /\ wjob'[v] # NoJob /\ wjob'[u].job = wjob'[v].job => u = v
    BY <1>2 DEF OneCopy
  <1>7. \A v \in Worker : wjob'[v] # NoJob =>
           /\ tries'[wjob'[v].job] = wjob'[v].attempts + (IF wpc'[v] = "load" THEN 0 ELSE 1)
           /\ (wjob'[v].job \in delivered' <=> wpc'[v] = "logged")
    BY <1>1, <1>2 DEF AttemptsTellTries, DeliveredAtRest
  <1>8. \A i \in DOMAIN pending' : tries'[pending'[i].job] = pending'[i].attempts
    BY <1>1 DEF AttemptsTellTries
  <1>9. \A i, k \in DOMAIN pending' : pending'[i].job = pending'[k].job => i = k
    BY <1>1 DEF OneCopy
  <1>10. CASE LogSuccess(w) \/ Exit(w) \/ Crash(w)
    <2>1. UNCHANGED <<delayed, failed>>
      BY <1>10 DEF LogSuccess, Exit, Crash, Ends
    <2>2. \A j \in Job : /\ InDelayed(j)' <=> InDelayed(j)
                         /\ InFailed(j)' <=> InFailed(j)
      BY <2>1 DEF InDelayed, InFailed
    <2>3. /\ lost \subseteq lost'
          /\ t # NoJob => t.job \in delivered \/ t.job \in lost'
      <3>1. CASE LogSuccess(w)
        BY <3>1, <1>5 DEF LogSuccess
      <3>2. CASE Exit(w) \/ Crash(w)
        BY <3>2, <1>5 DEF Exit, Crash, Ends, InHand
      <3> QED
        BY <1>10, <3>1, <3>2
    <2>4. \A r \in rows' : r \in rows \/ (t # NoJob /\ r.job = t.job)
      <3>1. CASE LogSuccess(w)
        BY <3>1, LogRowFacts, HandFacts DEF LogSuccess
      <3>2. CASE Exit(w) \/ Crash(w)
        BY <3>2 DEF Exit, Crash, Ends
      <3> QED
        BY <1>10, <3>1, <3>2
    <2>5. OneCopy'
      BY <1>3, <1>6, <1>9, <2>1, <2>2 DEF OneCopy
    <2>6. NothingForgotten'
      BY <1>1, <1>3, <2>2, <2>3 DEF NothingForgotten, TypeOK
    <2>7. NowhereBefore'
      BY <1>1, <1>3, <1>5, <2>2, <2>4 DEF NowhereBefore
    <2>8. AttemptsTellTries'
      BY <1>1, <1>7, <1>8, <2>1 DEF AttemptsTellTries
    <2>9. FailedMeansExhausted'
      BY <1>1, <2>1 DEF FailedMeansExhausted
    <2>10. DeliveredAtRest'
      BY <1>1, <1>3, <1>7, <2>2 DEF DeliveredAtRest, TypeOK
    <2> QED
      BY <2>5, <2>6, <2>7, <2>8, <2>9, <2>10 DEF Placed
  <1>11. CASE GiveUp(w)
    <2>1. /\ wpc[w] = "failure" /\ t # NoJob /\ t.attempts = MaxAttempts - 1
          /\ UNCHANGED <<delayed, rows>>
      BY <1>4, <1>11, HandFacts, TicketFacts DEF GiveUp, Exhausted
    <2>2. \/ failed' = failed \cup {t} /\ lost' = lost
          \/ failed' = failed /\ lost' = lost \cup {t.job}
      BY <1>11 DEF GiveUp
    <2>3. \A j \in Job : /\ InDelayed(j)' <=> InDelayed(j)
                         /\ InFailed(j)' => InFailed(j) \/ j = t.job
                         /\ InFailed(j) => InFailed(j)'
                         /\ j = t.job => InFailed(j)' \/ j \in lost'
      BY <2>1, <2>2 DEF InDelayed, InFailed
    <2>4. OneCopy'
      <3>1. ASSUME NEW j \in Job
            PROVE  /\ ~(InPending(j)' /\ InDelayed(j)')
                   /\ ~(Held(j)' /\ (InPending(j)' \/ InDelayed(j)'))
                   /\ InFailed(j)' => ~(InPending(j)' \/ InDelayed(j)' \/ Held(j)')
        BY <1>3, <1>5, <1>5a, <2>1, <2>3 DEF OneCopy
      <3>2. \A a, b \in delayed' : a.job = b.job => a = b
        BY <2>1 DEF OneCopy
      <3> QED
        BY <1>6, <1>9, <3>1, <3>2 DEF OneCopy
    <2>5. NothingForgotten'
      BY <1>1, <1>3, <2>2, <2>3 DEF NothingForgotten, TypeOK
    <2>6. NowhereBefore'
      BY <1>1, <1>3, <1>5, <2>1, <2>3 DEF NowhereBefore
    <2>7. AttemptsTellTries'
      BY <1>1, <1>7, <1>8, <2>1 DEF AttemptsTellTries
    <2>8. tries[t.job] = MaxAttempts /\ t.job \notin delivered
      BY <1>5, <2>1, TicketFacts
    <2>9. FailedMeansExhausted'
      BY <1>1, <2>2, <2>8 DEF FailedMeansExhausted
    <2>10. DeliveredAtRest'
      BY <1>1, <1>3, <1>7, <2>3, <2>8 DEF DeliveredAtRest, TypeOK
    <2> QED
      BY <2>4, <2>5, <2>6, <2>7, <2>9, <2>10 DEF Placed
  <1>12. CASE Retry(w)
    <2> DEFINE d == Scheduled(t)
    <2>1. /\ wpc[w] = "failure" /\ t # NoJob /\ UNCHANGED <<failed, rows>>
      BY <1>12, HandFacts DEF Retry
    <2>2. \/ delayed' = delayed \cup {d} /\ lost' = lost
          \/ delayed' = delayed /\ lost' = lost \cup {t.job}
      BY <1>12 DEF Retry
    <2>3. d.job = t.job /\ d.attempts = t.attempts + 1
      BY DEF Scheduled
    <2>4. tries[t.job] = d.attempts /\ t.job \notin delivered
      BY <1>5, <2>1, <2>3
    <2>5. \A j \in Job : /\ InFailed(j)' <=> InFailed(j)
                         /\ InDelayed(j)' => InDelayed(j) \/ j = t.job
                         /\ InDelayed(j) => InDelayed(j)'
                         /\ j = t.job => InDelayed(j)' \/ j \in lost'
      BY <2>1, <2>2, <2>3 DEF InDelayed, InFailed
    <2>6. \A a, b \in delayed' : a.job = b.job => a = b
      BY <1>5, <2>1, <2>2, <2>3 DEF OneCopy, InDelayed
    <2>7. OneCopy'
      <3>1. ASSUME NEW j \in Job
            PROVE  /\ ~(InPending(j)' /\ InDelayed(j)')
                   /\ ~(Held(j)' /\ (InPending(j)' \/ InDelayed(j)'))
                   /\ InFailed(j)' => ~(InPending(j)' \/ InDelayed(j)' \/ Held(j)')
        BY <1>3, <1>5, <1>5a, <2>1, <2>5 DEF OneCopy
      <3> QED
        BY <1>6, <1>9, <2>6, <3>1 DEF OneCopy
    <2>8. NothingForgotten'
      BY <1>1, <1>3, <2>2, <2>5 DEF NothingForgotten, TypeOK
    <2>9. NowhereBefore'
      BY <1>1, <1>3, <1>5, <2>1, <2>5 DEF NowhereBefore
    <2>10. \A a \in delayed' : tries'[a.job] = a.attempts
      BY <1>1, <2>2, <2>3, <2>4 DEF AttemptsTellTries
    <2>11. AttemptsTellTries'
      BY <1>7, <1>8, <2>10 DEF AttemptsTellTries
    <2>12. FailedMeansExhausted'
      BY <1>1, <2>1 DEF FailedMeansExhausted
    <2>13. DeliveredAtRest'
      BY <1>1, <1>3, <1>7, <2>4, <2>5 DEF DeliveredAtRest, TypeOK
    <2> QED
      BY <2>7, <2>8, <2>9, <2>11, <2>12, <2>13 DEF Placed
  <1> QED
    BY <1>10, <1>11, <1>12

(* The reaper moves all due jobs, the clock ages the others. *)
LEMMA ReapPlaces ==
    ASSUME IInv, NEW w \in Worker, Reap(w)
    PROVE  Placed'
  <1> DEFINE n == Len(pending)
  <1> USE DEF IInv, process, history
  <1>1. /\ delayed' = delayed \ Due
        /\ UNCHANGED <<failed, rows, proc, wpc, wjob, enqueued, tries, delivered, lost>>
    BY DEF Reap, Removed
  <1>2. PICK s \in Orders(Due) : pending' = Reaped(s)
    BY DEF Reap, Moved, Reaped
  <1>3. PICK m \in Nat :
           /\ s \in [1 .. m -> Due]
           /\ \A d \in Due : \E i \in 1 .. m : s[i] = d
           /\ \A i, k \in 1 .. m : s[i] = s[k] => i = k
           /\ DOMAIN pending' = 1 .. n + m
           /\ \A i \in 1 .. n : pending'[i] = pending[i]
           /\ \A i \in 1 .. m : pending'[n + i] = [job |-> s[i].job, attempts |-> s[i].attempts]
    BY <1>2, ReapFacts
  <1>4. n \in Nat /\ DOMAIN pending = 1 .. n
    BY PendingFacts
  <1>5. \A i \in 1 .. m : /\ n + i \in 1 .. n + m
                          /\ s[i] \in delayed /\ s[i].job \in Job
                          /\ pending'[n + i].job = s[i].job
                          /\ pending'[n + i].attempts = s[i].attempts
    <2> SUFFICES ASSUME NEW i \in 1 .. m
                 PROVE  /\ n + i \in 1 .. n + m
                        /\ s[i] \in delayed /\ s[i].job \in Job
                        /\ pending'[n + i].job = s[i].job
                        /\ pending'[n + i].attempts = s[i].attempts
      OBVIOUS
    <2>1. n + i \in 1 .. n + m
      BY <1>4
    <2>2. s[i] \in Due
      BY <1>3
    <2>3. s[i] \in delayed /\ s[i].job \in Job
      BY <2>2 DEF Due, TypeOK
    <2>4. pending'[n + i] = [job |-> s[i].job, attempts |-> s[i].attempts]
      BY <1>3
    <2> QED
      BY <2>1, <2>3, <2>4
  <1>6. \A i \in 1 .. n + m : i \in 1 .. n \/ \E k \in 1 .. m : i = n + k
    <2> SUFFICES ASSUME NEW i \in 1 .. n + m, i \notin 1 .. n PROVE \E k \in 1 .. m : i = n + k
      OBVIOUS
    <2>1. i - n \in 1 .. m /\ i = n + (i - n)
      BY <1>4
    <2> QED
      BY <2>1
  <1>7. \A j \in Job : InPending(j)' <=> InPending(j) \/ \E d \in Due : d.job = j
    <2>1. ASSUME NEW j \in Job, InPending(j)' PROVE InPending(j) \/ \E d \in Due : d.job = j
      <3>1. PICK i \in 1 .. n + m : pending'[i].job = j
        BY <1>3, <2>1 DEF InPending
      <3>2. CASE i \in 1 .. n
        BY <1>3, <1>4, <3>1, <3>2 DEF InPending
      <3>3. ASSUME NEW k \in 1 .. m, i = n + k PROVE \E d \in Due : d.job = j
        <4>1. s[k] \in Due /\ s[k].job = j
          BY <1>3, <1>5, <3>1, <3>3
        <4> QED
          BY <4>1
      <3> QED
        BY <1>6, <3>2, <3>3
    <2>2. ASSUME NEW j \in Job, InPending(j) PROVE InPending(j)'
      <3>1. PICK i \in 1 .. n : pending[i].job = j
        BY <1>4, <2>2 DEF InPending
      <3> QED
        BY <1>3, <1>4, <3>1 DEF InPending
    <2>3. ASSUME NEW j \in Job, NEW d \in Due, d.job = j PROVE InPending(j)'
      <3>1. PICK i \in 1 .. m : s[i] = d
        BY <1>3
      <3> QED
        BY <1>3, <1>5, <2>3, <3>1 DEF InPending
    <2> QED
      BY <2>1, <2>2, <2>3
  <1>8. \A j \in Job : /\ InDelayed(j)' <=> InDelayed(j) /\ ~\E d \in Due : d.job = j
                       /\ (\E d \in Due : d.job = j) => InDelayed(j)
                       /\ InFailed(j)' <=> InFailed(j)
                       /\ Held(j)' <=> Held(j)
    BY <1>1 DEF InDelayed, InFailed, Held, Due, OneCopy
  <1>9. \A i, k \in DOMAIN pending' : pending'[i].job = pending'[k].job => i = k
    <2> SUFFICES ASSUME NEW i \in 1 .. n + m, NEW k \in 1 .. n + m,
                        pending'[i].job = pending'[k].job
                 PROVE  i = k
      BY <1>3
    <2>1. CASE i \in 1 .. n /\ k \in 1 .. n
      BY <1>3, <1>4, <2>1 DEF OneCopy
    <2>2. ASSUME NEW a \in 1 .. n, NEW b \in 1 .. m PROVE pending'[a].job # pending'[n + b].job
      <3>1. InPending(pending[a].job) /\ InDelayed(s[b].job) /\ s[b].job \in Job
        BY <1>4, <1>5 DEF InPending, InDelayed
      <3> QED
        BY <1>3, <1>5, <3>1 DEF OneCopy
    <2>3. ASSUME NEW a \in 1 .. m, NEW b \in 1 .. m, pending'[n + a].job = pending'[n + b].job
          PROVE  a = b
      <3>1. s[a] = s[b]
        BY <1>5, <2>3 DEF OneCopy
      <3> QED
        BY <1>3, <3>1
    <2> QED
      BY <1>6, <2>1, <2>2, <2>3
  <1>10. OneCopy'
    BY <1>1, <1>7, <1>8, <1>9 DEF OneCopy
  <1>11. NothingForgotten'
    BY <1>1, <1>7, <1>8 DEF NothingForgotten, TypeOK
  <1>12. NowhereBefore'
    BY <1>1, <1>7, <1>8 DEF NowhereBefore
  <1>5a. AttemptsTellTries'
    <2>1. ASSUME NEW i \in 1 .. n + m PROVE tries[pending'[i].job] = pending'[i].attempts
      <3>1. CASE i \in 1 .. n
        BY <1>3, <1>4, <3>1 DEF AttemptsTellTries
      <3>2. ASSUME NEW k \in 1 .. m, i = n + k PROVE tries[pending'[i].job] = pending'[i].attempts
        BY <1>5, <3>2 DEF AttemptsTellTries
      <3> QED
        BY <1>6, <3>1, <3>2
    <2> QED
      BY <1>1, <1>3, <2>1 DEF AttemptsTellTries
  <1>14. FailedMeansExhausted'
    BY <1>1 DEF FailedMeansExhausted
  <1>15. DeliveredAtRest'
    BY <1>1, <1>7, <1>8 DEF DeliveredAtRest, TypeOK
  <1> QED
    BY <1>10, <1>11, <1>12, <1>5a, <1>14, <1>15 DEF Placed

LEMMA TickPlaces ==
    ASSUME IInv, Tick
    PROVE  Placed'
  <1> USE DEF IInv, process, history
  <1>1. /\ delayed' = {Aged(d) : d \in delayed}
        /\ UNCHANGED <<pending, failed, rows, proc, wpc, wjob, enqueued, tries, delivered, lost>>
    BY DEF Tick
  <1>2. \A d \in delayed : Aged(d).job = d.job /\ Aged(d).attempts = d.attempts
    BY DEF Aged
  <1>3. \A j \in Job : /\ InPending(j)' <=> InPending(j)
                       /\ InDelayed(j)' <=> InDelayed(j)
                       /\ InFailed(j)' <=> InFailed(j)
                       /\ Held(j)' <=> Held(j)
    BY <1>1, <1>2 DEF InPending, InDelayed, InFailed, Held
  <1>4. \A d, e \in delayed' : d.job = e.job => d = e
    BY <1>1, <1>2 DEF OneCopy
  <1>5. OneCopy'
    BY <1>1, <1>3, <1>4 DEF OneCopy
  <1>6. NothingForgotten' /\ NowhereBefore'
    BY <1>1, <1>3 DEF NothingForgotten, NowhereBefore, TypeOK
  <1>7. AttemptsTellTries'
    BY <1>1, <1>2 DEF AttemptsTellTries
  <1>8. FailedMeansExhausted'
    BY <1>1 DEF FailedMeansExhausted
  <1>9. DeliveredAtRest'
    BY <1>1, <1>3 DEF DeliveredAtRest, TypeOK
  <1> QED
    BY <1>5, <1>6, <1>7, <1>8, <1>9 DEF Placed

(* Signals and starts of a process move no job. *)
LEMMA StillPlaces ==
    ASSUME IInv, \/ \E w \in Worker : Cancel(w) \/ Boot(w)
                 \/ UNCHANGED vars
    PROVE  Placed'
  <1>1. UNCHANGED <<pending, delayed, failed, rows, wpc, wjob, enqueued, tries, delivered, lost>>
    BY DEF Cancel, Boot, vars, stores, process, history
  <1>2. \A j \in Job : /\ InPending(j)' <=> InPending(j)
                       /\ InDelayed(j)' <=> InDelayed(j)
                       /\ InFailed(j)' <=> InFailed(j)
                       /\ Held(j)' <=> Held(j)
    BY <1>1 DEF InPending, InDelayed, InFailed, Held
  <1>3. OneCopy' /\ NothingForgotten' /\ NowhereBefore'
    BY <1>1, <1>2 DEF IInv, OneCopy, NothingForgotten, NowhereBefore, TypeOK
  <1>4. AttemptsTellTries' /\ FailedMeansExhausted' /\ DeliveredAtRest'
    BY <1>1, <1>2 DEF IInv, AttemptsTellTries, FailedMeansExhausted, DeliveredAtRest, TypeOK
  <1> QED
    BY <1>3, <1>4 DEF Placed

LEMMA PlacesStep == IInv /\ [Next]_vars => Placed'
  <1> SUFFICES ASSUME IInv, [Next]_vars PROVE Placed'
    OBVIOUS
  <1>1. ASSUME NEW w \in Worker, WorkerStep(w) PROVE Placed'
    BY <1>1, DequeuePlaces, HoldPlaces, ReleasePlaces DEF WorkerStep
  <1> QED
    BY <1>1, EnqueuePlaces, ReleasePlaces, ReapPlaces, TickPlaces, StillPlaces DEF Next

-----------------------------------------------------------------------------
(* The rows of integration_logs.                                           *)

LogsTrue == RowsTrue /\ LogConsistent

(* A step that writes no row, delivers nothing, tries no job that has rows  *)
(* and takes no worker to its call.                                         *)
LEMMA NoRowStep ==
    ASSUME IInv, UNCHANGED <<rows, delivered>>,
           \A r \in rows : tries'[r.job] = tries[r.job],
           \A w \in Worker : wpc'[w] \in {"fire", "logged"} => wpc'[w] = wpc[w] /\ wjob'[w] = wjob[w]
    PROVE  LogsTrue'
  BY DEF IInv, RowsTrue, LogConsistent, LogsTrue

(* The row of a call that has returned: it is the first for this attempt,   *)
(* and the job has no row of a success.                                     *)
LEMMA RowStep ==
    ASSUME IInv, NEW w \in Worker, FireFails(w) \/ LogSuccess(w)
    PROVE  LogsTrue'
  <1> DEFINE t == wjob[w]
  <1> USE DEF IInv, history
  <1>1. /\ UNCHANGED <<tries, delivered>> /\ t \in Ticket /\ t # NoJob
        /\ t.attempts \in Nat /\ t.job \in Job
        /\ wpc'[w] \in {"idle", "failure"}
        /\ \A v \in Worker : v # w => wpc'[v] = wpc[v] /\ wjob'[v] = wjob[v]
    BY HandFacts, TicketFacts DEF FireFails, LogSuccess, WorkerMoves, TypeOK
  <1>2. PICK ok \in BOOLEAN : /\ LogRow(w, ok)
                              /\ ok <=> t.job \in delivered
                              /\ wpc[w] \in {"fire", "logged"}
    <2>1. CASE FireFails(w)
      BY <1>1, <2>1 DEF FireFails, DeliveredAtRest
    <2>2. CASE LogSuccess(w)
      BY <1>1, <2>2 DEF LogSuccess, DeliveredAtRest
    <2> QED
      BY <2>1, <2>2
  <1>3. tries[t.job] = t.attempts + 1
    BY <1>1, <1>2 DEF AttemptsTellTries
  <1>4. \A r \in rows : r.job = t.job => r.attempt <= t.attempts /\ ~r.ok /\ r.attempt \in Nat
    <2> SUFFICES ASSUME NEW r \in rows, r.job = t.job
                 PROVE  r.attempt <= t.attempts /\ ~r.ok /\ r.attempt \in Nat
      OBVIOUS
    <2>1. r.attempt <= t.attempts /\ r.attempt \in Nat
      BY <1>2 DEF RowsTrue, TypeOK
    <2>2. r.attempt # tries[t.job]
      BY <1>1, <1>3, <2>1
    <2> QED
      BY <2>1, <2>2 DEF RowsTrue
  <1>5. \A r \in rows' :
           \/ r \in rows
           \/ r.job = t.job /\ r.ok = ok /\ r.attempt = t.attempts + 1
    BY <1>2, LogRowFacts
  <1>6. RowsTrue'
    <2>1. ASSUME NEW r \in rows'
          PROVE  r.attempt <= tries'[r.job] /\ (r.ok => r.job \in delivered' /\ r.attempt = tries'[r.job])
      <3>1. CASE r \in rows
        BY <1>1, <3>1 DEF RowsTrue
      <3>2. CASE r.job = t.job /\ r.ok = ok /\ r.attempt = t.attempts + 1
        BY <1>1, <1>2, <1>3, <3>2
      <3> QED
        BY <1>5, <3>1, <3>2
    <2>2. ASSUME NEW v \in Worker, wpc'[v] \in {"fire", "logged"}, NEW r \in rows', r.job = wjob'[v].job
          PROVE  r.attempt <= wjob'[v].attempts
      <3>1. v # w /\ wjob'[v] = wjob[v] /\ wpc'[v] = wpc[v] /\ wjob[v] # NoJob
        BY <1>1, <2>2, HandFacts
      <3>2. wjob[v].job # t.job
        BY <1>1, <3>1 DEF OneCopy
      <3> QED
        BY <1>5, <2>2, <3>1, <3>2 DEF RowsTrue
    <2> QED
      BY <2>1, <2>2 DEF RowsTrue
  <1>7. LogConsistent'
    <2> SUFFICES ASSUME NEW r \in rows', NEW s \in rows', r.job = s.job
                 PROVE  (r.attempt = s.attempt => r = s) /\ (r.ok => s.attempt <= r.attempt)
      BY DEF LogConsistent
    <2> DEFINE New(x) == x.job = t.job /\ x.ok = ok /\ x.attempt = t.attempts + 1
    <2>1. CASE r \in rows /\ s \in rows
      BY <2>1 DEF LogConsistent
    <2>2. CASE r \in rows /\ New(s)
      BY <1>1, <1>4, <2>2
    <2>3. CASE s \in rows /\ New(r)
      <3>1. s.job = t.job /\ s.attempt <= t.attempts /\ s.attempt \in Nat
        BY <1>4, <2>3
      <3>2. r.attempt = t.attempts + 1
        BY <2>3
      <3> HIDE DEF t
      <3> QED
        BY <1>1, <3>1, <3>2
    <2>4. CASE New(r) /\ New(s)
      <3>1. LET row == [job |-> t.job, attempt |-> t.attempts + 1, ok |-> ok]
            IN  (r \in rows \/ r = row) /\ (s \in rows \/ s = row)
        BY <1>2 DEF LogRow
      <3> QED
        BY <1>1, <1>4, <2>4, <3>1
    <2> QED
      BY <1>5, <2>1, <2>2, <2>3, <2>4
  <1> QED
    BY <1>6, <1>7 DEF LogsTrue

LEMMA LogsStep == IInv /\ [Next]_vars => LogsTrue'
  <1> SUFFICES ASSUME IInv, [Next]_vars PROVE LogsTrue'
    OBVIOUS
  <1> USE DEF IInv, stores, process, history
  <1>1. ASSUME NEW w \in Worker, LoadContext(w) PROVE LogsTrue'
    <2> DEFINE t == wjob[w]
    <2>1. /\ t \in Ticket /\ t # NoJob /\ t.job \in Job /\ t.attempts \in Nat
          /\ UNCHANGED <<rows, delivered>> /\ wjob' = wjob
          /\ \A v \in Worker : v # w => wpc'[v] = wpc[v]
      BY <1>1, HandFacts, TicketFacts DEF LoadContext, WorkerMoves, TypeOK
    <2>2. wpc[w] = "load" /\ tries' = [tries EXCEPT ![t.job] = @ + 1]
      BY <1>1 DEF LoadContext
    <2>3. tries[t.job] = t.attempts /\ t.job \notin delivered
      BY <2>1, <2>2 DEF AttemptsTellTries, DeliveredAtRest
    <2>4. /\ tries'[t.job] = t.attempts + 1
          /\ \A j \in Job : j # t.job => tries'[j] = tries[j]
      BY <2>1, <2>2, <2>3 DEF TypeOK
    <2>5. \A r \in rows : r.job \in Job /\ r.attempt \in Nat
      BY DEF TypeOK
    <2>6. \A r \in rows : r.job = t.job => r.attempt <= t.attempts /\ ~r.ok
      BY <2>3 DEF RowsTrue
    <2>7. LogConsistent'
      BY <2>1 DEF LogConsistent
    <2>8. ASSUME NEW r \in rows'
          PROVE  r.attempt <= tries'[r.job] /\ (r.ok => r.job \in delivered' /\ r.attempt = tries'[r.job])
      <3>1. CASE r.job = t.job
        BY <2>1, <2>4, <2>5, <2>6, <3>1
      <3>2. CASE r.job # t.job
        BY <2>1, <2>4, <2>5, <3>2 DEF RowsTrue
      <3> QED
        BY <3>1, <3>2
    <2>9. ASSUME NEW v \in Worker, wpc'[v] \in {"fire", "logged"}, NEW r \in rows', r.job = wjob'[v].job
          PROVE  r.attempt <= wjob'[v].attempts
      <3>1. CASE v = w
        BY <2>1, <2>6, <2>9, <3>1
      <3>2. CASE v # w
        BY <2>1, <2>9, <3>2 DEF RowsTrue
      <3> QED
        BY <3>1, <3>2
    <2>10. RowsTrue'
      BY <2>8, <2>9 DEF RowsTrue
    <2> QED
      BY <2>7, <2>10 DEF LogsTrue
  <1>2. ASSUME NEW w \in Worker, FireSucceeds(w) PROVE LogsTrue'
    <2>1. /\ UNCHANGED <<rows, tries>> /\ delivered \subseteq delivered' /\ wjob' = wjob
          /\ wpc[w] = "fire" /\ \A v \in Worker : v # w => wpc'[v] = wpc[v]
      BY <1>2 DEF FireSucceeds, WorkerMoves, TypeOK
    <2> QED
      BY <2>1 DEF LogsTrue, LogConsistent, RowsTrue
  <1>3. ASSUME NEW w \in Worker, Poll(w) \/ DequeueTimesOut(w) \/ Dequeue(w) \/ GiveUp(w) \/ Retry(w)
        PROVE  LogsTrue'
    <2>1. /\ UNCHANGED <<rows, delivered, tries>>
          /\ wpc'[w] \notin {"fire", "logged"}
          /\ \A v \in Worker : v # w => wpc'[v] = wpc[v] /\ wjob'[v] = wjob[v]
      BY <1>3 DEF Poll, DequeueTimesOut, Dequeue, GiveUp, Retry, WorkerMoves, TypeOK
    <2> QED
      BY <2>1, NoRowStep
  <1>4. ASSUME NEW w \in Worker, Exit(w) \/ Crash(w) PROVE LogsTrue'
    <2>1. /\ UNCHANGED <<rows, delivered, tries>>
          /\ wpc'[w] \notin {"fire", "logged"}
          /\ \A v \in Worker : v # w => wpc'[v] = wpc[v] /\ wjob'[v] = wjob[v]
      BY <1>4 DEF Exit, Crash, Ends, TypeOK
    <2> QED
      BY <2>1, NoRowStep
  <1>5. ASSUME UNCHANGED <<rows, delivered, tries, wpc, wjob>> PROVE LogsTrue'
    BY <1>5, NoRowStep
  <1>6. ASSUME NEW j \in Job, Enqueue(j) PROVE LogsTrue'
    BY <1>5, <1>6 DEF Enqueue
  <1>7. ASSUME NEW w \in Worker, Reap(w) \/ Cancel(w) \/ Boot(w) PROVE LogsTrue'
    BY <1>5, <1>7 DEF Reap, Cancel, Boot
  <1>8. ASSUME Tick \/ UNCHANGED vars PROVE LogsTrue'
    BY <1>5, <1>8 DEF Tick, vars
  <1> QED
    BY <1>1, <1>2, <1>3, <1>4, <1>6, <1>7, <1>8, RowStep DEF Next, WorkerStep

-----------------------------------------------------------------------------
(* The results.                                                            *)

LEMMA Step == IInv /\ [Next]_vars => IInv'
  BY TypeStep, FiniteStep, PlacesStep, LogsStep DEF IInv, Placed, LogsTrue

(* The inductive invariant holds for any number of jobs, processes,         *)
(* attempts and stops, whichever of the stores' operations fail (queue.go,  *)
(* worker.go).                                                              *)
THEOREM QueueInvariance == Spec => []IInv
  BY Start, Step, PTL DEF Spec

(* Every variable keeps its type: no ticket counts past the last attempt    *)
(* (handleFailure).                                                         *)
THEOREM QueueTypes == Spec => []TypeOK
  <1>1. IInv => TypeOK
    BY DEF IInv
  <1> QED
    BY <1>1, QueueInvariance, PTL

(* A job is in one place at a time, whatever workers, reapers and restarts  *)
(* run together (Dequeue, Schedule, ReapDelayed).                           *)
THEOREM OneCopyEver == Spec => []OneCopy
  <1>1. IInv => OneCopy
    BY DEF IInv
  <1> QED
    BY <1>1, QueueInvariance, PTL

(* An accepted job is somewhere, delivered, or counted as lost where a      *)
(* store failed or a process stopped (handleFailure, saveFailedJob).        *)
THEOREM NoneForgotten == Spec => []NothingForgotten
  <1>1. IInv => NothingForgotten
    BY DEF IInv
  <1> QED
    BY <1>1, QueueInvariance, PTL

(* The counter in a job is the number of its tries (Schedule, Attempts++).  *)
THEOREM AttemptsTrue == Spec => []AttemptsTellTries
  <1>1. IInv => AttemptsTellTries
    BY DEF IInv
  <1> QED
    BY <1>1, QueueInvariance, PTL

(* A job in failed_jobs had all its attempts and was never delivered        *)
(* (handleFailure, MaxAttempts).                                            *)
THEOREM FailedExhausted == Spec => []FailedMeansExhausted
  <1>1. IInv => FailedMeansExhausted
    BY DEF IInv
  <1> QED
    BY <1>1, QueueInvariance, PTL

(* integration_logs has one result for an attempt and none after a success  *)
(* (writeLog).                                                              *)
THEOREM LogsConsistent == Spec => []LogConsistent
  <1>1. IInv => LogConsistent
    BY DEF IInv
  <1> QED
    BY <1>1, QueueInvariance, PTL

(* A delivered job is never tried again (processFireIntegration).           *)
THEOREM DeliveredOnce == Spec => NoTryAfterDelivery
  <1>1. IInv /\ [Next]_vars => [\A j \in delivered : tries'[j] = tries[j]]_vars
    <2> SUFFICES ASSUME IInv, Next, NEW j \in delivered PROVE tries'[j] = tries[j]
      OBVIOUS
    <2> USE DEF IInv, stores, process, history
    <2>1. ASSUME NEW w \in Worker, LoadContext(w) PROVE tries'[j] = tries[j]
      <3>1. wjob[w].job # j
        BY <2>1, HandFacts DEF LoadContext, DeliveredAtRest
      <3> QED
        BY <2>1, <3>1 DEF LoadContext, TypeOK
    <2>2. ASSUME UNCHANGED tries PROVE tries'[j] = tries[j]
      BY <2>2
    <2> QED
      BY <2>1, <2>2
         DEF Next, WorkerStep, Enqueue, Poll, DequeueTimesOut, Dequeue, FireSucceeds, FireFails,
             LogSuccess, GiveUp, Retry, Reap, Tick, Cancel, Exit, Crash, Ends, Boot
  <1> QED
    BY <1>1, QueueInvariance, PTL DEF Spec, NoTryAfterDelivery

-----------------------------------------------------------------------------
(* The refinement: every step of the queue is a step of JobDelivery or      *)
(* leaves the state of every job as it was.                                 *)

(* A lost job is nowhere and comes back from nowhere. *)
LostGone ==
    /\ lost \subseteq enqueued \ delivered
    /\ \A j \in lost : ~InPending(j) /\ ~InDelayed(j) /\ ~Held(j) /\ ~InFailed(j)

(* A step that puts no job anywhere and loses none, or only a job that was  *)
(* not lost before.                                                         *)
LEMMA LostKept ==
    ASSUME LostGone, enqueued \subseteq enqueued',
           \A k \in lost' :
              /\ k \in enqueued' /\ (k \in delivered' => k \in lost /\ k \in delivered)
              /\ InPending(k)' => k \in lost /\ InPending(k)
              /\ InDelayed(k)' => k \in lost /\ InDelayed(k)
              /\ Held(k)' => k \in lost /\ Held(k)
              /\ InFailed(k)' => k \in lost /\ InFailed(k)
    PROVE  LostGone'
  BY DEF LostGone

(* A ticket in a worker's hands before its call has returned. *)
LEMMA InHands ==
    ASSUME IInv, LostGone, NEW w \in Worker, wpc[w] \in {"load", "fire", "failure"}
    PROVE  /\ wjob[w] \in Ticket /\ wjob[w].job \in Job /\ Held(wjob[w].job)
           /\ wjob[w].job \in enqueued \ (delivered \cup lost)
           /\ ~InPending(wjob[w].job) /\ ~InDelayed(wjob[w].job) /\ ~InFailed(wjob[w].job)
           /\ \A v \in Worker : wjob[v] # NoJob /\ wjob[v].job = wjob[w].job => v = w
           /\ wpc[w] = "load" => tries[wjob[w].job] = wjob[w].attempts
           /\ wpc[w] # "load" => tries[wjob[w].job] = wjob[w].attempts + 1
           /\ StateOf(wjob[w].job) = IF wpc[w] = "load" THEN "waiting" ELSE "trying"
  <1> DEFINE t == wjob[w]
  <1>1. t # NoJob /\ t \in Ticket /\ t.job \in Job /\ Held(t.job)
    BY TicketFacts DEF IInv, TypeOK, Held
  <1>2. t.job \in enqueued \ (delivered \cup lost)
    BY <1>1 DEF IInv, NowhereBefore, DeliveredAtRest, LostGone
  <1>3. ~InPending(t.job) /\ ~InDelayed(t.job) /\ ~InFailed(t.job)
    BY <1>1 DEF IInv, OneCopy
  <1>4. \A v \in Worker : wjob[v] # NoJob /\ wjob[v].job = t.job => v = w
    BY <1>1 DEF IInv, OneCopy
  <1>5. tries[t.job] = t.attempts + (IF wpc[w] = "load" THEN 0 ELSE 1)
    BY <1>1 DEF IInv, AttemptsTellTries
  <1>6. t.attempts \in Nat
    BY <1>1, TicketFacts
  <1>7. Trying(t.job) <=> wpc[w] # "load"
    BY <1>1, <1>4 DEF Trying, IInv, TypeOK
  <1> QED
    BY <1>1, <1>2, <1>3, <1>4, <1>5, <1>6, <1>7 DEF StateOf

LEMMA LostStep == IInv /\ LostGone /\ [Next]_vars => LostGone'
  <1> SUFFICES ASSUME IInv, LostGone, [Next]_vars PROVE LostGone'
    OBVIOUS
  <1> USE DEF stores, process, history
  <1>1. ASSUME NEW j \in Job, Enqueue(j) PROVE LostGone'
    <2>1. UNCHANGED <<delayed, failed, wjob, delivered, lost>> /\ enqueued' = enqueued \cup {j} /\ j \notin enqueued
      BY <1>1 DEF Enqueue
    <2>2. /\ DOMAIN pending' = 1 .. Len(pending) + 1 /\ DOMAIN pending = 1 .. Len(pending)
          /\ \A i \in 1 .. Len(pending) : pending'[i] = pending[i]
          /\ pending'[Len(pending) + 1].job = j /\ Len(pending) \in Nat
      <3>1. [job |-> j, attempts |-> 0] \in Ticket
        BY TicketFacts DEF Ticket
      <3> QED
        BY <1>1, <3>1, AppendFacts, PendingFacts DEF Enqueue, IInv
    <2>3. \A k \in Job : InPending(k)' => InPending(k) \/ k = j
      BY <2>2 DEF InPending
    <2> QED
      BY <2>1, <2>3, LostKept DEF LostGone, InDelayed, Held, InFailed, IInv, TypeOK
  <1>2. ASSUME NEW w \in Worker, Dequeue(w) PROVE LostGone'
    <2> DEFINE t == pending[1]
    <2>1. /\ Len(pending) \in Nat /\ DOMAIN pending = 1 .. Len(pending) /\ Len(pending) > 0
          /\ DOMAIN pending' = 1 .. Len(pending) - 1
          /\ \A i \in 1 .. Len(pending) - 1 : pending'[i] = pending[i + 1]
          /\ Head(pending) = t
      BY <1>2, TailFacts, PendingFacts DEF Dequeue, IInv
    <2>2. UNCHANGED <<delayed, failed, enqueued, delivered>> /\ wjob[w] = NoJob
      BY <1>2 DEF Dequeue, IInv, TypeOK
    <2>3. /\ t \in Ticket /\ t.job \in Job /\ InPending(t.job)
      BY <2>1, PendingFacts, TicketFacts DEF IInv, InPending
    <2>4. /\ t.job \in enqueued \ (delivered \cup lost)
          /\ ~InDelayed(t.job) /\ ~Held(t.job) /\ ~InFailed(t.job)
      BY <2>3 DEF IInv, OneCopy, NowhereBefore, DeliveredAtRest, LostGone
    <2>5. \A k \in Job : InPending(k)' => InPending(k) /\ k # t.job
      <3> SUFFICES ASSUME NEW k \in Job, NEW i \in 1 .. Len(pending) - 1, pending[i + 1].job = k
                   PROVE  InPending(k) /\ k # t.job
        BY <2>1 DEF InPending
      <3>1. i + 1 \in 1 .. Len(pending) /\ i + 1 # 1 /\ 1 \in 1 .. Len(pending)
        BY <2>1
      <3> QED
        BY <2>1, <3>1 DEF InPending, IInv, OneCopy
    <2>6. CASE WorkerMoves(w, "load", t) /\ UNCHANGED lost
      <3>1. \A k \in Job : Held(k)' => Held(k) \/ k = t.job
        BY <2>6 DEF WorkerMoves, Held, IInv, TypeOK
      <3> QED
        BY <2>2, <2>4, <2>5, <2>6, <3>1, LostKept DEF LostGone, InDelayed, InFailed, IInv, TypeOK
    <2>7. CASE lost' = lost \cup {t.job} /\ WorkerMoves(w, "idle", NoJob)
      <3>1. wjob' = wjob
        BY <2>2, <2>7 DEF WorkerMoves, IInv, TypeOK
      <3> QED
        BY <2>2, <2>3, <2>4, <2>5, <2>7, <3>1, LostKept DEF LostGone, InDelayed, InFailed, Held, IInv, TypeOK
    <2> QED
      BY <1>2, <2>1, <2>6, <2>7 DEF Dequeue
  <1>3. ASSUME NEW w \in Worker,
               \/ LoadContext(w) \/ FireFails(w) \/ Poll(w) \/ DequeueTimesOut(w) \/ Cancel(w) \/ Boot(w)
               \/ UNCHANGED vars
        PROVE  LostGone'
    <2>1. wjob' = wjob /\ UNCHANGED <<pending, delayed, failed, enqueued, delivered, lost>>
      BY <1>3 DEF LoadContext, FireFails, Poll, DequeueTimesOut, Cancel, Boot, WorkerMoves, IInv, TypeOK, vars
    <2> QED
      BY <2>1 DEF LostGone, InPending, InDelayed, Held, InFailed
  <1>4. ASSUME NEW w \in Worker, FireSucceeds(w) PROVE LostGone'
    <2>1. wjob' = wjob /\ UNCHANGED <<pending, delayed, failed, enqueued, lost>>
            /\ delivered' = delivered \cup {wjob[w].job}
      BY <1>4 DEF FireSucceeds, WorkerMoves, IInv, TypeOK
    <2>2. wjob[w].job \notin lost
      BY <1>4, InHands DEF FireSucceeds
    <2> QED
      BY <2>1, <2>2 DEF LostGone, InPending, InDelayed, Held, InFailed
  <1>5. ASSUME NEW w \in Worker, LogSuccess(w) \/ GiveUp(w) \/ Retry(w) \/ Exit(w) \/ Crash(w)
        PROVE  LostGone'
    <2> DEFINE t == wjob[w]
    <2>1. /\ wjob' = [wjob EXCEPT ![w] = NoJob]
          /\ UNCHANGED <<pending, enqueued, delivered>>
          /\ delayed' = delayed \/ (wpc[w] = "failure" /\ delayed' = delayed \cup {Scheduled(t)})
          /\ failed' = failed \/ (wpc[w] = "failure" /\ failed' = failed \cup {t})
          /\ \/ lost' = lost
             \/ /\ wpc[w] \in {"load", "fire", "failure"} /\ lost' = lost \cup {t.job}
                /\ UNCHANGED <<delayed, failed>>
      BY <1>5 DEF LogSuccess, GiveUp, Retry, Exit, Crash, Ends, WorkerMoves, InHand, IInv, TypeOK, WorkerPC
    <2>2. \A k \in Job : /\ InPending(k)' => InPending(k)
                         /\ Held(k)' => Held(k)
      BY <2>1 DEF InPending, Held, IInv, TypeOK
    <2>3. wpc[w] \in {"load", "fire", "failure"} =>
              /\ t.job \in enqueued \ (delivered \cup lost)
              /\ ~InPending(t.job) /\ ~InDelayed(t.job) /\ ~InFailed(t.job)
              /\ \A k \in Job : k = t.job => ~Held(k)'
      BY <2>1, InHands DEF Held, IInv, TypeOK
    <2>4. \A k \in Job : /\ InDelayed(k)' => InDelayed(k) \/ (wpc[w] = "failure" /\ k = t.job)
                         /\ InFailed(k)' => InFailed(k) \/ (wpc[w] = "failure" /\ k = t.job)
      BY <2>1 DEF InDelayed, InFailed, Scheduled
    <2>5. CASE lost' = lost
      BY <2>1, <2>2, <2>3, <2>4, <2>5, LostKept DEF LostGone, IInv, TypeOK
    <2>6. CASE lost' # lost
      <3>1. /\ wpc[w] \in {"load", "fire", "failure"} /\ lost' = lost \cup {t.job}
            /\ UNCHANGED <<delayed, failed, enqueued, delivered>>
        BY <2>1, <2>6
      <3>2. \A k \in Job : (InDelayed(k)' <=> InDelayed(k)) /\ (InFailed(k)' <=> InFailed(k))
        BY <3>1 DEF InDelayed, InFailed
      <3> QED
        BY <2>1, <2>2, <2>3, <3>1, <3>2, LostKept DEF LostGone, IInv, TypeOK
    <2> QED
      BY <2>5, <2>6
  <1>6. ASSUME NEW w \in Worker, Reap(w) PROVE LostGone'
    <2>1. delayed' = delayed \ Due /\ UNCHANGED <<failed, wjob, enqueued, delivered, lost>>
      BY <1>6 DEF Reap, Removed
    <2>2. \A k \in Job : InPending(k)' => InPending(k) \/ InDelayed(k)
      <3>1. PICK s \in Orders(Due) : pending' = Reaped(s)
        BY <1>6 DEF Reap, Moved, Reaped
      <3>2. PICK m \in Nat :
               /\ s \in [1 .. m -> Due]
               /\ DOMAIN pending' = 1 .. Len(pending) + m
               /\ \A i \in 1 .. Len(pending) : pending'[i] = pending[i]
               /\ \A i \in 1 .. m : pending'[Len(pending) + i] = [job |-> s[i].job, attempts |-> s[i].attempts]
        BY <3>1, ReapFacts DEF IInv
      <3> SUFFICES ASSUME NEW k \in Job, NEW i \in 1 .. Len(pending) + m, pending'[i].job = k
                   PROVE  InPending(k) \/ InDelayed(k)
        BY <3>2 DEF InPending
      <3>3. Len(pending) \in Nat /\ DOMAIN pending = 1 .. Len(pending)
        BY PendingFacts DEF IInv
      <3>4. CASE i \in 1 .. Len(pending)
        BY <3>2, <3>3, <3>4 DEF InPending
      <3>5. CASE i \notin 1 .. Len(pending)
        <4>1. i - Len(pending) \in 1 .. m /\ i = Len(pending) + (i - Len(pending))
          BY <3>3, <3>5
        <4>2. PICK x \in 1 .. m : i = Len(pending) + x
          BY <4>1
        <4>3. pending'[i] = [job |-> s[x].job, attempts |-> s[x].attempts]
          BY <3>2, <4>2
        <4>4. s[x] \in Due /\ s[x].job = k
          BY <3>2, <4>3
        <4> QED
          BY <4>4 DEF Due, InDelayed
      <3> QED
        BY <3>4, <3>5
    <2> QED
      BY <2>1, <2>2, LostKept DEF LostGone, InDelayed, Held, InFailed, IInv, TypeOK
  <1>7. ASSUME Tick PROVE LostGone'
    <2>1. UNCHANGED <<pending, failed, wjob, enqueued, delivered, lost>> /\ delayed' = {Aged(d) : d \in delayed}
      BY <1>7 DEF Tick
    <2>2. \A k \in Job : InDelayed(k)' => InDelayed(k)
      BY <2>1 DEF InDelayed, Aged
    <2> QED
      BY <2>1, <2>2, LostKept DEF LostGone, InPending, Held, InFailed, IInv, TypeOK
  <1>8. CASE UNCHANGED vars
    BY <1>8 DEF vars, LostGone, InPending, InDelayed, Held, InFailed
  <1> QED
    BY <1>1, <1>2, <1>3, <1>4, <1>5, <1>6, <1>7, <1>8 DEF Next, WorkerStep

(* The state of a job depends on the history, failed_jobs and the workers   *)
(* that try it.                                                             *)
LEMMA SameState ==
    ASSUME NEW k \in Job,
           k \in delivered' <=> k \in delivered, k \in lost' <=> k \in lost,
           k \in enqueued' <=> k \in enqueued,
           InFailed(k)' <=> InFailed(k), Trying(k)' <=> Trying(k)
    PROVE  StateOf(k)' = StateOf(k)
  BY DEF StateOf

(* A worker that moves on concerns the job that it tries before or after.   *)
LEMMA SameTrying ==
    ASSUME IInv, NEW w \in Worker, NEW pc, NEW t, NEW k \in Job,
           wpc' = [wpc EXCEPT ![w] = pc], wjob' = [wjob EXCEPT ![w] = t],
           wpc[w] \in {"fire", "failure"} => wjob[w].job # k,
           pc \in {"fire", "failure"} => t.job # k
    PROVE  Trying(k)' <=> Trying(k)
  <1>1. /\ wpc'[w] = pc /\ wjob'[w] = t
        /\ \A v \in Worker : v # w => wpc'[v] = wpc[v] /\ wjob'[v] = wjob[v]
    BY DEF IInv, TypeOK
  <1> QED
    BY <1>1 DEF Trying

LEMMA OneMoves ==
    ASSUME NEW j \in Job, NEW from, NEW to, StateOf(j) = from, StateOf(j)' = to,
           \A k \in Job : k # j => StateOf(k)' = StateOf(k)
    PROVE  Delivery!Moves(j, from, to)
  BY DEF Delivery!Moves

StateMap == [j \in Job |-> StateOf(j)]

LEMMA NoneMoves ==
    ASSUME \A k \in Job : StateOf(k)' = StateOf(k)
    PROVE  UNCHANGED StateMap
  BY DEF StateMap

LEMMA EnqueueDelivers ==
    ASSUME IInv, LostGone, NEW j \in Job, Enqueue(j)
    PROVE  Delivery!DNext
  <1>1. /\ UNCHANGED <<failed, wpc, wjob, tries, delivered, lost>>
        /\ j \notin enqueued /\ enqueued' = enqueued \cup {j}
    BY DEF Enqueue, process
  <1>2. \A k \in Job : (InFailed(k)' <=> InFailed(k)) /\ (Trying(k)' <=> Trying(k))
    BY <1>1 DEF InFailed, Trying
  <1>3. /\ j \notin delivered /\ j \notin lost /\ ~InFailed(j) /\ ~Held(j)
    BY <1>1 DEF IInv, NowhereBefore, LostGone
  <1>4. ~Trying(j)
    BY <1>3, TicketFacts DEF Trying, Held, IInv, TypeOK
  <1>5. StateOf(j) = "new" /\ StateOf(j)' = "waiting"
    BY <1>1, <1>2, <1>3, <1>4 DEF StateOf
  <1>6. \A k \in Job : k # j => StateOf(k)' = StateOf(k)
    BY <1>1, <1>2, SameState
  <1> QED
    BY <1>1, <1>5, <1>6, OneMoves DEF Delivery!DNext, Delivery!Accept

LEMMA DequeueDelivers ==
    ASSUME IInv, LostGone, NEW w \in Worker, Dequeue(w)
    PROVE  Delivery!DNext \/ UNCHANGED <<StateMap, tries>>
  <1> DEFINE t == pending[1]
  <1>1. /\ Head(pending) = t /\ t \in Ticket /\ t.job \in Job /\ InPending(t.job)
    <2>1. Len(pending) > 0 /\ Len(pending) \in Nat /\ Head(pending) = t
      BY TailFacts, PendingFacts DEF Dequeue, IInv
    <2> QED
      BY <2>1, PendingFacts, TicketFacts DEF IInv, InPending
  <1>2. /\ UNCHANGED <<failed, enqueued, tries, delivered>> /\ wpc[w] = "brpop" /\ wjob[w] = NoJob
    BY DEF Dequeue, IInv, TypeOK
  <1>3. /\ t.job \in enqueued \ (delivered \cup lost) /\ ~Held(t.job) /\ ~InFailed(t.job)
    BY <1>1 DEF IInv, OneCopy, NowhereBefore, DeliveredAtRest, LostGone
  <1>4. \A k \in Job : InFailed(k)' <=> InFailed(k)
    BY <1>2 DEF InFailed
  <1>5. CASE WorkerMoves(w, "load", t) /\ UNCHANGED lost
    <2>1. \A k \in Job : Trying(k)' <=> Trying(k)
      BY <1>2, <1>5, SameTrying DEF WorkerMoves
    <2>2. \A k \in Job : StateOf(k)' = StateOf(k)
      BY <1>2, <1>4, <1>5, <2>1, SameState
    <2> QED
      BY <1>2, <2>2, NoneMoves
  <1>6. CASE lost' = lost \cup {t.job} /\ WorkerMoves(w, "idle", NoJob)
    <2>1. \A k \in Job : Trying(k)' <=> Trying(k)
      BY <1>2, <1>6, SameTrying DEF WorkerMoves
    <2>2. \A k \in Job : k # t.job => StateOf(k)' = StateOf(k)
      BY <1>2, <1>4, <1>6, <2>1, SameState
    <2>3. ~Trying(t.job)
      BY <1>3, TicketFacts DEF Trying, Held, IInv, TypeOK
    <2>4. PICK j \in Job : j = t.job
      BY <1>1
    <2>5. StateOf(j) = "waiting" /\ StateOf(j)' = "lost"
      BY <1>2, <1>3, <1>4, <1>6, <2>3, <2>4 DEF StateOf
    <2>6. Delivery!Moves(j, "waiting", "lost")
      BY <2>2, <2>4, <2>5, OneMoves
    <2> QED
      BY <1>2, <2>6 DEF Delivery!DNext, Delivery!Lose
  <1> QED
    BY <1>1, <1>5, <1>6 DEF Dequeue

(* The step of a worker that has a ticket and whose call has not returned.  *)
LEMMA TryDelivers ==
    ASSUME IInv, LostGone, NEW w \in Worker,
           LoadContext(w) \/ FireSucceeds(w) \/ GiveUp(w) \/ Retry(w)
    PROVE  Delivery!DNext
  <1>1. wpc[w] \in {"load", "fire", "failure"}
    BY DEF LoadContext, FireSucceeds, GiveUp, Retry
  <1>2. PICK t \in Ticket, j \in Job : t = wjob[w] /\ j = t.job
    BY <1>1, InHands
  <1>3. /\ j \in enqueued \ (delivered \cup lost) /\ ~InFailed(j)
        /\ \A v \in Worker : wjob[v] # NoJob /\ wjob[v].job = j => v = w
        /\ wpc[w] = "load" => tries[j] = t.attempts
        /\ wpc[w] # "load" => tries[j] = t.attempts + 1
        /\ StateOf(j) = IF wpc[w] = "load" THEN "waiting" ELSE "trying"
    BY <1>1, <1>2, InHands
  <1>4. UNCHANGED enqueued
    BY DEF LoadContext, FireSucceeds, GiveUp, Retry, stores, history
  <1>5. ASSUME NEW pc, NEW x, WorkerMoves(w, pc, x), pc \in {"fire", "failure"} => x.job = j
        PROVE  \A k \in Job : k # j => (Trying(k)' <=> Trying(k))
    BY <1>2, <1>5, SameTrying DEF WorkerMoves
  <1>6. ASSUME NEW pc, NEW x, WorkerMoves(w, pc, x), pc \notin {"fire", "failure"}
        PROVE  ~Trying(j)'
    <2>1. wpc'[w] = pc /\ \A v \in Worker : v # w => wpc'[v] = wpc[v] /\ wjob'[v] = wjob[v]
      BY <1>6 DEF WorkerMoves, IInv, TypeOK
    <2>2. \A v \in Worker : v # w => ~(wpc[v] \in {"fire", "failure"} /\ wjob[v].job = j)
      BY <1>3, TicketFacts DEF IInv, TypeOK
    <2> QED
      BY <1>6, <2>1, <2>2 DEF Trying
  <1>7. CASE LoadContext(w)
    <2>1. PICK pc \in {"fire", "failure"} : WorkerMoves(w, pc, t)
      BY <1>2, <1>7 DEF LoadContext
    <2>2. /\ wpc[w] = "load" /\ tries' = [tries EXCEPT ![j] = @ + 1]
          /\ UNCHANGED <<failed, delivered, lost>>
      BY <1>2, <1>7 DEF LoadContext, stores
    <2>3. \A k \in Job : InFailed(k)' <=> InFailed(k)
      BY <2>2 DEF InFailed
    <2>4. Trying(j)'
      BY <1>2, <2>1 DEF WorkerMoves, Trying, IInv, TypeOK
    <2>5. StateOf(j) = "waiting" /\ StateOf(j)' = "trying"
      BY <1>3, <1>4, <2>2, <2>3, <2>4 DEF StateOf
    <2>6. \A k \in Job : k # j => StateOf(k)' = StateOf(k)
      BY <1>2, <1>4, <1>5, <2>1, <2>2, <2>3, SameState
    <2>7. tries[j] < MaxAttempts
      BY <1>3, <2>2, TicketFacts
    <2> QED
      BY <2>2, <2>5, <2>6, <2>7, OneMoves DEF Delivery!DNext, Delivery!Attempt
  <1>8. CASE FireSucceeds(w)
    <2>1. /\ WorkerMoves(w, "logged", t) /\ delivered' = delivered \cup {j} /\ wpc[w] = "fire"
          /\ UNCHANGED <<failed, lost, tries>>
      BY <1>2, <1>8 DEF FireSucceeds, stores
    <2>2. \A k \in Job : InFailed(k)' <=> InFailed(k)
      BY <2>1 DEF InFailed
    <2>3. StateOf(j) = "trying" /\ StateOf(j)' = "delivered"
      BY <1>3, <2>1 DEF StateOf
    <2>4. \A k \in Job : k # j => StateOf(k)' = StateOf(k)
      BY <1>4, <1>5, <2>1, <2>2, SameState
    <2> QED
      BY <2>1, <2>3, <2>4, OneMoves DEF Delivery!DNext, Delivery!Succeed
  <1>9. ASSUME lost' = lost \cup {j}, WorkerMoves(w, "idle", NoJob), wpc[w] = "failure",
               UNCHANGED <<failed, tries, delivered>>
        PROVE  Delivery!DNext
    <2>1. \A k \in Job : InFailed(k)' <=> InFailed(k)
      BY <1>9 DEF InFailed
    <2>2. StateOf(j) = "trying" /\ StateOf(j)' = "lost"
      BY <1>3, <1>9, <2>1 DEF StateOf
    <2>3. \A k \in Job : k # j => StateOf(k)' = StateOf(k)
      BY <1>4, <1>5, <1>9, <2>1, SameState
    <2> QED
      BY <1>9, <2>2, <2>3, OneMoves DEF Delivery!DNext, Delivery!Lose
  <1>10. CASE GiveUp(w)
    <2>1. /\ wpc[w] = "failure" /\ Exhausted(t) /\ WorkerMoves(w, "idle", NoJob)
          /\ UNCHANGED <<tries, delivered>>
          /\ \/ failed' = failed \cup {t} /\ UNCHANGED lost
             \/ lost' = lost \cup {j} /\ UNCHANGED failed
      BY <1>2, <1>10 DEF GiveUp
    <2>2. CASE failed' = failed \cup {t} /\ UNCHANGED lost
      <3>1. \A k \in Job : InFailed(k)' <=> InFailed(k) \/ k = j
        BY <1>2, <2>2 DEF InFailed
      <3>2. StateOf(j) = "trying" /\ StateOf(j)' = "failed"
        BY <1>3, <2>1, <3>1 DEF StateOf
      <3>3. \A k \in Job : k # j => StateOf(k)' = StateOf(k)
        BY <1>4, <1>5, <2>1, <2>2, <3>1, SameState
      <3>4. tries[j] = MaxAttempts
        BY <1>3, <2>1, TicketFacts DEF Exhausted
      <3> QED
        BY <2>1, <3>2, <3>3, <3>4, OneMoves DEF Delivery!DNext, Delivery!Abandon
    <2> QED
      BY <1>9, <2>1, <2>2
  <1>11. CASE Retry(w)
    <2>1. /\ wpc[w] = "failure" /\ ~Exhausted(t) /\ WorkerMoves(w, "idle", NoJob)
          /\ UNCHANGED <<failed, tries, delivered>>
          /\ lost' = lost \/ lost' = lost \cup {j}
      BY <1>2, <1>11 DEF Retry
    <2>2. CASE lost' = lost
      <3>1. \A k \in Job : InFailed(k)' <=> InFailed(k)
        BY <2>1 DEF InFailed
      <3>2. ~Trying(j)'
        BY <1>6, <2>1
      <3>3. StateOf(j) = "trying" /\ StateOf(j)' = "waiting"
        BY <1>3, <1>4, <2>1, <2>2, <3>1, <3>2 DEF StateOf
      <3>4. \A k \in Job : k # j => StateOf(k)' = StateOf(k)
        BY <1>4, <1>5, <2>1, <2>2, <3>1, SameState
      <3>5. tries[j] < MaxAttempts
        BY <1>3, <2>1, TicketFacts DEF Exhausted
      <3> QED
        BY <2>1, <3>3, <3>4, <3>5, OneMoves DEF Delivery!DNext, Delivery!TryLater
    <2> QED
      BY <1>9, <2>1, <2>2
  <1> QED
    BY <1>7, <1>8, <1>10, <1>11

(* A process that ends loses the job that it waits with or tries.           *)
LEMMA EndDelivers ==
    ASSUME IInv, LostGone, NEW w \in Worker, Exit(w) \/ Crash(w)
    PROVE  Delivery!DNext \/ UNCHANGED <<StateMap, tries>>
  <1>1. /\ wpc' = [wpc EXCEPT ![w] = "idle"] /\ wjob' = [wjob EXCEPT ![w] = NoJob]
        /\ lost' = IF wpc[w] = "logged" THEN lost ELSE lost \cup InHand(w)
        /\ UNCHANGED <<failed, enqueued, tries, delivered>>
    BY DEF Exit, Crash, Ends, stores
  <1>2. \A k \in Job : InFailed(k)' <=> InFailed(k)
    BY <1>1 DEF InFailed
  <1>3. CASE wpc[w] \notin {"load", "fire", "failure"}
    <2>1. lost' = lost
      BY <1>1, <1>3 DEF InHand, IInv, TypeOK, WorkerPC
    <2>2. \A k \in Job : Trying(k)' <=> Trying(k)
      BY <1>1, <1>3, SameTrying
    <2>3. \A k \in Job : StateOf(k)' = StateOf(k)
      BY <1>1, <1>2, <2>1, <2>2, SameState
    <2> QED
      BY <1>1, <2>3, NoneMoves
  <1>4. CASE wpc[w] \in {"load", "fire", "failure"}
    <2>1. PICK j \in Job : j = wjob[w].job
      BY <1>4, InHands
    <2>2. /\ lost' = lost \cup {j} /\ j \notin delivered /\ ~InFailed(j)
          /\ StateOf(j) \in {"waiting", "trying"}
      BY <1>1, <1>4, <2>1, InHands, TicketFacts DEF InHand
    <2>3. StateOf(j)' = "lost"
      BY <1>1, <1>2, <2>2 DEF StateOf
    <2>4. ASSUME NEW k \in Job, k # j PROVE StateOf(k)' = StateOf(k)
      <3>1. Trying(k)' <=> Trying(k)
        BY <1>1, <2>1, <2>4, SameTrying
      <3> QED
        BY <1>1, <1>2, <2>2, <2>4, <3>1, SameState
    <2> QED
      BY <1>1, <2>2, <2>3, <2>4, OneMoves DEF Delivery!DNext, Delivery!Lose
  <1> QED
    BY <1>3, <1>4

LEMMA QuietDelivers ==
    ASSUME IInv, \/ \E w \in Worker : \/ Poll(w) \/ DequeueTimesOut(w) \/ FireFails(w) \/ LogSuccess(w)
                                      \/ Reap(w) \/ Cancel(w) \/ Boot(w)
                 \/ Tick \/ UNCHANGED vars
    PROVE  UNCHANGED <<StateMap, tries>>
  <1> USE DEF stores, process, history
  <1>1. UNCHANGED <<failed, enqueued, tries, delivered, lost>>
    BY DEF Poll, DequeueTimesOut, FireFails, LogSuccess, Reap, Cancel, Boot, Tick, vars
  <1>2. \A k \in Job : InFailed(k)' <=> InFailed(k)
    BY <1>1 DEF InFailed
  <1>3. \A k \in Job : Trying(k)' <=> Trying(k)
    <2>1. ASSUME NEW w \in Worker, Poll(w) \/ DequeueTimesOut(w) \/ LogSuccess(w)
          PROVE  \A k \in Job : Trying(k)' <=> Trying(k)
      <3>1. PICK pc \in {"idle", "brpop"} : WorkerMoves(w, pc, NoJob)
        BY <2>1 DEF Poll, DequeueTimesOut, LogSuccess
      <3>2. wpc[w] \notin {"fire", "failure"}
        BY <2>1 DEF Poll, DequeueTimesOut, LogSuccess
      <3> QED
        BY <3>1, <3>2, SameTrying DEF WorkerMoves
    <2>2. ASSUME NEW w \in Worker, FireFails(w)
          PROVE  \A k \in Job : Trying(k)' <=> Trying(k)
      <3>1. /\ wpc[w] = "fire" /\ wpc'[w] = "failure" /\ wjob' = wjob
            /\ \A v \in Worker : v # w => wpc'[v] = wpc[v]
        BY <2>2 DEF FireFails, WorkerMoves, IInv, TypeOK
      <3> QED
        BY <3>1 DEF Trying
    <2>3. ASSUME UNCHANGED <<wpc, wjob>>
          PROVE  \A k \in Job : Trying(k)' <=> Trying(k)
      BY <2>3 DEF Trying
    <2> QED
      BY <2>1, <2>2, <2>3 DEF Reap, Cancel, Boot, Tick, vars
  <1> QED
    BY <1>1, <1>2, <1>3, SameState, NoneMoves

(* The queue implements JobDelivery, whatever workers, reapers, stops and   *)
(* faults do: tries of a job never overlap, none follows its end, and a job *)
(* is given up only after its last try (queue.go, worker.go).               *)
THEOREM DeliveryCorrect == Spec => ImplementsDelivery
  <1>1. Init => Delivery!DInit /\ LostGone
    <2> SUFFICES ASSUME Init PROVE Delivery!DInit /\ LostGone
      OBVIOUS
    <2>1. \A j \in Job : ~InFailed(j) /\ j \notin delivered \cup lost \cup enqueued
      BY DEF Init, InFailed
    <2>2. \A j \in Job : StateOf(j) = "new"
      BY <2>1 DEF StateOf
    <2> QED
      BY <2>2 DEF Init, Delivery!DInit, LostGone
  <1>2. IInv /\ LostGone /\ [Next]_vars => [Delivery!DNext]_<<StateMap, tries>>
    <2> SUFFICES ASSUME IInv, LostGone, [Next]_vars
                 PROVE  Delivery!DNext \/ UNCHANGED <<StateMap, tries>>
      OBVIOUS
    <2>1. ASSUME NEW j \in Job, Enqueue(j) PROVE Delivery!DNext
      BY <2>1, EnqueueDelivers
    <2>2. ASSUME NEW w \in Worker, Dequeue(w) PROVE Delivery!DNext \/ UNCHANGED <<StateMap, tries>>
      BY <2>2, DequeueDelivers
    <2>3. ASSUME NEW w \in Worker, LoadContext(w) \/ FireSucceeds(w) \/ GiveUp(w) \/ Retry(w)
          PROVE  Delivery!DNext
      BY <2>3, TryDelivers
    <2>4. ASSUME NEW w \in Worker, Exit(w) \/ Crash(w) PROVE Delivery!DNext \/ UNCHANGED <<StateMap, tries>>
      BY <2>4, EndDelivers
    <2>5. ASSUME \/ \E w \in Worker : \/ Poll(w) \/ DequeueTimesOut(w) \/ FireFails(w) \/ LogSuccess(w)
                                      \/ Reap(w) \/ Cancel(w) \/ Boot(w)
                 \/ Tick \/ UNCHANGED vars
          PROVE  UNCHANGED <<StateMap, tries>>
      BY <2>5, QuietDelivers
    <2> QED
      BY <2>1, <2>2, <2>3, <2>4, <2>5 DEF Next, WorkerStep
  <1> QED
    BY <1>1, <1>2, LostStep, QueueInvariance, PTL DEF Spec, ImplementsDelivery, Delivery!DSpec, StateMap
=============================================================================
