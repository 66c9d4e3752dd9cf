-------------------------- MODULE IntegrationQueue --------------------------
(***************************************************************************)
(* The retry queue of internal/queue/queue.go (Redis list queue:pending    *)
(* and sorted set queue:delayed) with the worker loop and the reaper of    *)
(* internal/queue/worker.go, as started and stopped by cmd/server/main.go. *)
(*                                                                         *)
(* A job stands for one (conversion, platform) pair enqueued by            *)
(* conversion.EnqueueIntegrations.  Redis operations are atomic; what      *)
(* happens between two of them is a step of its own.  Payloads, the HTTP   *)
(* calls of the platforms and the test_events channel are abstracted away: *)
(* a call ends with or without an error.                                   *)
(***************************************************************************)
EXTENDS Naturals, Sequences, FiniteSets

CONSTANTS
    Job,          \* jobs that may be enqueued
    Worker,       \* server processes, each with one worker loop and one reaper
    MaxAttempts,  \* Job.MaxAttempts (5)
    RetryDelays,  \* retryDelays, in ticks of the model's clock
    Faults,       \* whether Redis and Postgres operations of a worker may fail
    MayCrash,     \* whether a process may also end without a signal
    MaxStops,     \* bound: how often a process stops, by signal or by crash
    NoJob         \* what a worker without a job has in its hands

(* queue.Job, as Redis and the workers pass it on. *)
Ticket == [job : Job, attempts : 0 .. MaxAttempts - 1]

ASSUME RetryAssumption ==
    /\ MaxAttempts \in Nat \ {0}
    /\ RetryDelays \in Seq(Nat) /\ RetryDelays # <<>>
    /\ Faults \in BOOLEAN /\ MayCrash \in BOOLEAN
    /\ MaxStops \in Nat
    /\ NoJob \notin Ticket

VARIABLES
    pending,   \* queue:pending, oldest first: [job, attempts]
    delayed,   \* queue:delayed: [job, attempts, left], left ticks to its score
    failed,    \* rows of failed_jobs: [job, attempts]
    rows,      \* rows of integration_logs: [job, attempt, ok]
    proc,      \* "up", "stopping" (context cancelled) or "down"
    wpc,       \* where each worker loop is
    wjob,      \* the job in its hands, [job, attempts], or NoJob
    stops,     \* how often a process stopped
    enqueued,  \* history: jobs accepted by Redis
    tries,     \* history: how often the processing of a job was begun
    delivered, \* history: jobs whose platform call returned no error
    lost       \* history: jobs that were in no place after a fault or a stop

stores == <<pending, delayed, failed, rows>>
process == <<proc, wpc, wjob, stops>>
history == <<enqueued, tries, delivered, lost>>
vars == <<stores, process, history>>

WorkerPC == {"idle", "brpop", "load", "fire", "logged", "failure"}

Init ==
    /\ pending = <<>> /\ delayed = {} /\ failed = {} /\ rows = {}
    /\ proc = [w \in Worker |-> "up"]
    /\ wpc = [w \in Worker |-> "idle"]
    /\ wjob = [w \in Worker |-> NoJob]
    /\ stops = 0
    /\ enqueued = {} /\ delivered = {} /\ lost = {}
    /\ tries = [j \in Job |-> 0]

-----------------------------------------------------------------------------
(* Enqueue: LPUSH of a fresh job.  A failing LPUSH is only printed by the  *)
(* producer and leaves everything as it was.                               *)
Enqueue(j) ==
    /\ j \notin enqueued
    /\ enqueued' = enqueued \cup {j}
    /\ pending' = Append(pending, [job |-> j, attempts |-> 0])
    /\ UNCHANGED <<delayed, failed, rows, process, tries, delivered, lost>>

-----------------------------------------------------------------------------
(* The worker loop.                                                        *)

WorkerMoves(w, pc, t) ==
    /\ wpc' = [wpc EXCEPT ![w] = pc]
    /\ wjob' = [wjob EXCEPT ![w] = t]
    /\ UNCHANGED <<proc, stops>>

(* An operation on the worker's context fails when the context was         *)
(* cancelled, and may fail at any time when the stores are faulty.         *)
MayFail(w) == Faults \/ proc[w] = "stopping"
MaySucceed(w) == proc[w] = "up"

(* RetryDelay: past the end of the list the last delay is used. *)
RetryDelay(attempt) ==
    IF attempt >= Len(RetryDelays) THEN RetryDelays[Len(RetryDelays)]
    ELSE RetryDelays[attempt + 1]

(* Start, the loop: the context is read before each BRPOP, which then      *)
(* waits for a job, up to two seconds and whatever happens to the context. *)
Poll(w) ==
    /\ wpc[w] = "idle" /\ proc[w] = "up"
    /\ WorkerMoves(w, "brpop", NoJob)
    /\ UNCHANGED <<stores, history>>

DequeueTimesOut(w) ==
    /\ wpc[w] = "brpop" /\ pending = <<>>
    /\ WorkerMoves(w, "idle", NoJob)
    /\ UNCHANGED <<stores, history>>

(* Dequeue: BRPOP takes the oldest job out of Redis; when the answer is    *)
(* lost on the way (faults) nobody has the job.                            *)
Dequeue(w) ==
    /\ wpc[w] = "brpop"
    /\ pending # <<>>
    /\ pending' = Tail(pending)
    /\ \/ WorkerMoves(w, "load", Head(pending)) /\ UNCHANGED lost
       \/ /\ Faults
          /\ lost' = lost \cup {Head(pending).job}
          /\ WorkerMoves(w, "idle", NoJob)
    /\ UNCHANGED <<delayed, failed, rows, enqueued, tries, delivered>>

(* A faulty LoadContext that returns without calling handleFailure. *)
LoadContextDrops(w) ==
    /\ wpc[w] = "load"
    /\ tries' = [tries EXCEPT ![wjob[w].job] = @ + 1]
    /\ \/ MaySucceed(w) /\ WorkerMoves(w, "fire", wjob[w])
       \/ WorkerMoves(w, "idle", NoJob)
    /\ UNCHANGED <<stores, enqueued, delivered, lost>>

(* processFireIntegration, loadContext: the conversion or the enabled      *)
(* settings may be gone, which is a failed attempt without a log row.      *)
LoadContext(w) ==
    /\ wpc[w] = "load"
    /\ tries' = [tries EXCEPT ![wjob[w].job] = @ + 1]
    /\ \/ MaySucceed(w) /\ WorkerMoves(w, "fire", wjob[w])
       \/ WorkerMoves(w, "failure", wjob[w])
    /\ UNCHANGED <<stores, enqueued, delivered, lost>>

(* fire and writeLog, whose error is ignored: the row tells whether the    *)
(* platform call returned an error.  An event the platform has no call for *)
(* is fired without one, so even a cancelled context may succeed.          *)
LogRow(w, ok) ==
    LET row == [job |-> wjob[w].job, attempt |-> wjob[w].attempts + 1, ok |-> ok]
    IN  \/ MaySucceed(w) /\ rows' = rows \cup {row}
        \/ MayFail(w) /\ UNCHANGED rows

FireSucceeds(w) ==
    /\ wpc[w] = "fire"
    /\ delivered' = delivered \cup {wjob[w].job}
    /\ WorkerMoves(w, "logged", wjob[w])
    /\ UNCHANGED <<stores, enqueued, tries, lost>>

FireFails(w) ==
    /\ wpc[w] = "fire"
    /\ LogRow(w, FALSE)
    /\ WorkerMoves(w, "failure", wjob[w])
    /\ UNCHANGED <<pending, delayed, failed, history>>

(* A faulty LogSuccess that calls handleFailure whatever fire returned. *)
LogSuccessThenFail(w) ==
    /\ wpc[w] = "logged"
    /\ LogRow(w, TRUE)
    /\ WorkerMoves(w, "failure", wjob[w])
    /\ UNCHANGED <<pending, delayed, failed, history>>

(* The row of a successful call, then the test event, then the next job. *)
LogSuccess(w) ==
    /\ wpc[w] = "logged"
    /\ LogRow(w, TRUE)
    /\ WorkerMoves(w, "idle", NoJob)
    /\ UNCHANGED <<pending, delayed, failed, history>>

(* A faulty test for the last attempt, one too early. *)
ExhaustedEarly(t) == t.attempts + 1 >= MaxAttempts - 1

(* handleFailure: the attempt that just failed was the last. *)
Exhausted(t) == t.attempts >= MaxAttempts - 1

(* A faulty GiveUp that prints the error but saves nothing. *)
GiveUpSilently(w) ==
    /\ wpc[w] = "failure" /\ Exhausted(wjob[w])
    /\ WorkerMoves(w, "idle", NoJob)
    /\ UNCHANGED <<stores, history>>

(* saveFailedJob, whose error is ignored. *)
GiveUp(w) ==
    /\ wpc[w] = "failure" /\ Exhausted(wjob[w])
    /\ \/ MaySucceed(w) /\ failed' = failed \cup {wjob[w]} /\ UNCHANGED lost
       \/ MayFail(w) /\ lost' = lost \cup {wjob[w].job} /\ UNCHANGED failed
    /\ WorkerMoves(w, "idle", NoJob)
    /\ UNCHANGED <<pending, delayed, rows, enqueued, tries, delivered>>

(* A faulty Schedule that does not count the attempt. *)
Uncounted(t) ==
    [job |-> t.job, attempts |-> t.attempts, left |-> RetryDelay(t.attempts)]

(* Schedule: the delay is that of the count before Attempts++. *)
Scheduled(t) ==
    [job |-> t.job, attempts |-> t.attempts + 1, left |-> RetryDelay(t.attempts)]

(* handleFailure with attempts left: the ZADD, whose error is printed. *)
Retry(w) ==
    LET t == wjob[w]
    IN  /\ wpc[w] = "failure" /\ ~Exhausted(t)
        /\ \/ MaySucceed(w) /\ delayed' = delayed \cup {Scheduled(t)} /\ UNCHANGED lost
           \/ MayFail(w) /\ lost' = lost \cup {t.job} /\ UNCHANGED delayed
        /\ WorkerMoves(w, "idle", NoJob)
        /\ UNCHANGED <<pending, failed, rows, enqueued, tries, delivered>>

-----------------------------------------------------------------------------
(* The reaper and the clock.                                               *)

Due == {d \in delayed : d.left = 0}

(* A faulty ZREMRANGEBYSCORE with an exclusive bound: the jobs due in this  *)
(* very second stay in the sorted set.                                     *)
RemovedExclusive == {}

(* What ZREMRANGEBYSCORE removes: what ZRANGEBYSCORE has read. *)
Removed == Due

(* The orders in which the script may push the due jobs (scores first). *)
Orders(D) == {s \in [1 .. Cardinality(D) -> D] : \A d \in D : \E i \in DOMAIN s : s[i] = d}

(* ReapDelayed: the Lua script moves every due job in one atomic step. *)
Reap(w) ==
    /\ proc[w] = "up"
    /\ Due # {}
    /\ delayed' = delayed \ Removed
    /\ \E s \in Orders(Due) :
          pending' = pending \o [i \in DOMAIN s |-> [job |-> s[i].job, attempts |-> s[i].attempts]]
    /\ UNCHANGED <<failed, rows, process, history>>

Aged(d) ==
    [job |-> d.job, attempts |-> d.attempts, left |-> IF d.left = 0 THEN 0 ELSE d.left - 1]

(* Time passes for the scores of queue:delayed. *)
Tick ==
    /\ \E d \in delayed : d.left > 0
    /\ delayed' = {Aged(d) : d \in delayed}
    /\ UNCHANGED <<pending, failed, rows, process, history>>

-----------------------------------------------------------------------------
(* Stopping and starting a process.                                        *)

InHand(w) == IF wjob[w] = NoJob THEN {} ELSE {wjob[w].job}

(* workerCancel() on SIGTERM *)
Cancel(w) ==
    /\ stops < MaxStops
    /\ proc[w] = "up"
    /\ proc' = [proc EXCEPT ![w] = "stopping"]
    /\ stops' = stops + 1
    /\ UNCHANGED <<stores, wpc, wjob, history>>

(* The process ends: what its loop has in hand is nowhere else.  A call    *)
(* that already returned success only loses its log row.                   *)
Ends(w) ==
    /\ proc' = [proc EXCEPT ![w] = "down"]
    /\ wpc' = [wpc EXCEPT ![w] = "idle"]
    /\ wjob' = [wjob EXCEPT ![w] = NoJob]
    /\ lost' = IF wpc[w] = "logged" THEN lost ELSE lost \cup InHand(w)
    /\ UNCHANGED <<stores, enqueued, tries, delivered>>

(* main returns after the HTTP server has stopped, at most five seconds    *)
(* after the signal; it does not wait for the loop.                        *)
Exit(w) ==
    /\ proc[w] = "stopping"
    /\ Ends(w)
    /\ UNCHANGED stops

Crash(w) ==
    /\ MayCrash /\ stops < MaxStops
    /\ proc[w] = "up"
    /\ Ends(w)
    /\ stops' = stops + 1

Boot(w) ==
    /\ proc[w] = "down"
    /\ proc' = [proc EXCEPT ![w] = "up"]
    /\ UNCHANGED <<stores, wpc, wjob, stops, history>>

-----------------------------------------------------------------------------
WorkerStep(w) ==
    \/ Poll(w) \/ DequeueTimesOut(w) \/ Dequeue(w) \/ LoadContext(w)
    \/ FireSucceeds(w) \/ FireFails(w) \/ LogSuccess(w)
    \/ GiveUp(w) \/ Retry(w)

Next ==
    \/ \E j \in Job : Enqueue(j)
    \/ \E w \in Worker : WorkerStep(w) \/ Reap(w) \/ Cancel(w) \/ Exit(w) \/ Crash(w) \/ Boot(w)
    \/ Tick

Spec == Init /\ [][Next]_vars

(* The loop and the 5 second ticker run as long as the process does, a     *)
(* supervisor starts a stopped process again, a process that was told to   *)
(* stop does, and time passes.                                             *)
Fairness ==
    /\ \A w \in Worker :
          /\ WF_vars(WorkerStep(w)) /\ WF_vars(Reap(w))
          /\ WF_vars(Exit(w)) /\ WF_vars(Boot(w))
    /\ WF_vars(Tick)

FairSpec == Spec /\ Fairness

-----------------------------------------------------------------------------
(* Properties.                                                             *)

(* Every variable has its type; no ticket counts past the last attempt. *)
TypeOK ==
    /\ pending \in Seq(Ticket)
    /\ \A d \in delayed :
          /\ d \in [job : Job, attempts : 0 .. MaxAttempts - 1, left : Nat]
          /\ d.attempts > 0
    /\ failed \subseteq Ticket
    /\ \A r \in rows : r \in [job : Job, attempt : 1 .. MaxAttempts, ok : BOOLEAN]
    /\ proc \in [Worker -> {"up", "stopping", "down"}]
    /\ wpc \in [Worker -> WorkerPC]
    /\ wjob \in [Worker -> Ticket \cup {NoJob}]
    /\ \A w \in Worker : wpc[w] \in {"idle", "brpop"} <=> wjob[w] = NoJob
    /\ stops \in Nat
    /\ enqueued \subseteq Job /\ delivered \subseteq Job /\ lost \subseteq Job
    /\ tries \in [Job -> 0 .. MaxAttempts]

(* The places a job can be in. *)
InPending(j) == \E i \in DOMAIN pending : pending[i].job = j
InDelayed(j) == \E d \in delayed : d.job = j
Held(j) == \E w \in Worker : wjob[w] # NoJob /\ wjob[w].job = j
InFailed(j) == \E f \in failed : f.job = j

(* There is never a second copy of a job: not in the list, not in the      *)
(* sorted set, not in another worker, whatever reapers, retries and        *)
(* restarts run together.                                                  *)
OneCopy ==
    /\ \A i, k \in DOMAIN pending : pending[i].job = pending[k].job => i = k
    /\ \A d, e \in delayed : d.job = e.job => d = e
    /\ \A v, w \in Worker :
          wjob[v] # NoJob /\ wjob[w] # NoJob /\ wjob[v].job = wjob[w].job => v = w
    /\ \A j \in Job :
          /\ ~(InPending(j) /\ InDelayed(j))
          /\ ~(Held(j) /\ (InPending(j) \/ InDelayed(j)))
          /\ InFailed(j) => ~(InPending(j) \/ InDelayed(j) \/ Held(j))

(* A job is lost only where a store failed or a process stopped: every     *)
(* other accepted job is queued, in a worker's hands, delivered or in      *)
(* failed_jobs.                                                            *)
NothingForgotten ==
    \A j \in enqueued :
        InPending(j) \/ InDelayed(j) \/ Held(j) \/ InFailed(j) \/ j \in delivered \/ j \in lost

(* A job reaches failed_jobs only after all its attempts, none of which    *)
(* succeeded.                                                              *)
FailedMeansExhausted ==
    \A f \in failed : tries[f.job] = MaxAttempts /\ f.job \notin delivered

(* The attempt counter inside the job tells the truth about how often it   *)
(* was tried: no restart, retry or reap loses or repeats an attempt.       *)
AttemptsTellTries ==
    /\ \A i \in DOMAIN pending : tries[pending[i].job] = pending[i].attempts
    /\ \A d \in delayed : tries[d.job] = d.attempts
    /\ \A w \in Worker : wjob[w] # NoJob =>
          tries[wjob[w].job] = wjob[w].attempts + (IF wpc[w] = "load" THEN 0 ELSE 1)

(* Once a platform call succeeded the job is never tried again. *)
NoTryAfterDelivery ==
    [][\A j \in delivered : tries'[j] = tries[j]]_vars

(* integration_logs never shows two results for one attempt, nor a result  *)
(* after a success.                                                        *)
LogConsistent ==
    \A r, s \in rows : r.job = s.job =>
        /\ r.attempt = s.attempt => r = s
        /\ r.ok => s.attempt <= r.attempt

(* What a client of the queue sees of a job: it implements JobDelivery. *)
Trying(j) == \E w \in Worker : wpc[w] \in {"fire", "failure"} /\ wjob[w].job = j

StateOf(j) ==
    IF j \in delivered THEN "delivered"
    ELSE IF InFailed(j) THEN "failed"
    ELSE IF j \in lost THEN "lost"
    ELSE IF j \notin enqueued THEN "new"
    ELSE IF Trying(j) THEN "trying" ELSE "waiting"

Delivery == INSTANCE JobDelivery WITH state <- [j \in Job |-> StateOf(j)]

(* Tries of a job never overlap, none follows its end, and it ends by a    *)
(* success, by the failure of its last try or at a fault or a stop.        *)
ImplementsDelivery == Delivery!DSpec

(* Every accepted job comes to an end. *)
JobEnds ==
    \A j \in Job : (j \in enqueued) ~> (j \in delivered \/ InFailed(j) \/ j \in lost)
=============================================================================
