------------------------------ MODULE VideoJobs ------------------------------
(***************************************************************************)
(* The in-memory video job queue of internal/videojobs/queue.go and the    *)
(* HTTP handlers that drive it (internal/api/handlers/videocamo_jobs.go).  *)
(*                                                                         *)
(* Clients are the goroutines of HTTP requests, workers the goroutines     *)
(* started by New.  Every critical section under q.mu is one action; file  *)
(* system calls and channel operations happen outside the lock and are     *)
(* actions of their own.  Creating, reading and writing a file may fail at *)
(* any time (a full disk, for instance); unlinking one's own files does    *)
(* not, and the directory they were in goes only if it is empty by then.   *)
(*                                                                         *)
(* Job names, sizes, presets and time stamps are abstracted away: the      *)
(* public state of a job is its status.                                    *)
(***************************************************************************)
EXTENDS Naturals, Sequences, FiniteSets

CONSTANTS
    Job,            \* the uuids Enqueue may draw
    Project,        \* the projects that upload
    Client,         \* concurrent HTTP requests
    Worker,         \* goroutines started by New
    ChCap,          \* capacity of q.ch (256 in the code)
    MaxPerProject,  \* q.maxPerProject (50 in the code)
    MaxRestarts,    \* bound: how often the process may be restarted
    NoJob,          \* "no job in hand"
    NoProject       \* "this uuid was never registered"

ASSUME QueueAssumption ==
    /\ ChCap \in Nat \ {0}
    /\ MaxPerProject \in Nat \ {0}
    /\ MaxRestarts \in Nat
    /\ NoJob \notin Job
    /\ NoProject \notin Project

VARIABLES
    status,   \* status of each entry of q.jobs; "absent": no entry
    owner,    \* internalJob.projectID; kept after removal (a uuid is not reused)
    order,    \* q.order, ids by creation
    ch,       \* q.ch, the buffered channel of ids
    dir,      \* ids whose job directory exists on disk
    input,    \* ids whose input file exists
    output,   \* output.mp4 of each id: "none", "partial" or "full"
    cpc,      \* where each request is
    cjob,     \* the id each request holds
    victim,   \* the id whose directory each request removes
    wpc,      \* where each worker is
    wjob,     \* the id each worker holds
    restarts, \* how often the process was restarted
    overtaken \* history: ids whose output.mp4 was created while their
              \* directory was being removed, after its files were unlinked

memory == <<status, owner, order>>
disk == <<dir, input, output>>
clients == <<cpc, cjob, victim>>
workers == <<wpc, wjob>>
vars == <<memory, disk, clients, workers, ch, restarts, overtaken>>

Status == {"absent", "queued", "processing", "done", "error"}
ClientPC == {"idle", "register", "evict", "evictdir", "send", "remove", "rmdir", "serve"}
Removing == {"evict", "evictdir", "remove", "rmdir"}
WorkerPC == {"idle", "lookup", "read", "camouflage", "create", "flush",
             "finish", "cleanup", "fail"}

Registered == {j \in Job : status[j] # "absent"}
JobsOf(p) == {j \in Registered : owner[j] = p}

Init ==
    /\ status = [j \in Job |-> "absent"]
    /\ owner = [j \in Job |-> NoProject]
    /\ order = <<>>
    /\ ch = <<>>
    /\ dir = {} /\ input = {}
    /\ output = [j \in Job |-> "none"]
    /\ cpc = [c \in Client |-> "idle"] /\ cjob = [c \in Client |-> NoJob]
    /\ victim = [c \in Client |-> NoJob]
    /\ wpc = [w \in Worker |-> "idle"] /\ wjob = [w \in Worker |-> NoJob]
    /\ restarts = 0 /\ overtaken = {}

-----------------------------------------------------------------------------
(* Steps shared by the actions.                                            *)

ClientRemoves(c, pc, j, v) ==
    /\ cpc' = [cpc EXCEPT ![c] = pc]
    /\ cjob' = [cjob EXCEPT ![c] = j]
    /\ victim' = [victim EXCEPT ![c] = v]

ClientAt(c, pc, j) == ClientRemoves(c, pc, j, NoJob)

ClientReturns(c) == ClientAt(c, "idle", NoJob)

WorkerAt(w, pc, j) ==
    /\ wpc' = [wpc EXCEPT ![w] = pc]
    /\ wjob' = [wjob EXCEPT ![w] = j]

WorkerMoves(w, pc) == WorkerAt(w, pc, wjob[w])

WorkerReturns(w) == WorkerAt(w, "idle", NoJob)

(* Faulty variant of WithoutIndex: order[:i] followed by order[i+2:], which *)
(* keeps the removed id and drops its successor.                           *)
WithoutNext(s, i) ==
    [k \in 1 .. Len(s) - 1 |-> IF k <= i THEN s[k] ELSE s[k + 1]]

(* order[:i] followed by order[i+1:] *)
WithoutIndex(s, i) ==
    [k \in 1 .. Len(s) - 1 |-> IF k < i THEN s[k] ELSE s[k + 1]]

(* Who evicts keeps q.mu while it removes files; every other critical      *)
(* section waits.                                                          *)
Unlocked == \A c \in Client : cpc[c] \notin {"evict", "evictdir"}

-----------------------------------------------------------------------------
(* Requests.                                                               *)

(* Enqueue, before the lock: a fresh uuid, MkdirAll and WriteFile.  When   *)
(* the write fails the handler answers 500 and the directory stays.        *)
Upload(c, j) ==
    /\ cpc[c] = "idle"
    /\ owner[j] = NoProject /\ j \notin dir
    /\ dir' = dir \cup {j}
    /\ \/ input' = input \cup {j} /\ ClientAt(c, "register", j)
       \/ UNCHANGED <<input, clients>>
    /\ UNCHANGED <<memory, output, workers, ch, restarts, overtaken>>

(* The entries and the order after the registration of j for project p,    *)
(* before eviction.                                                        *)
Appended(j) == Append(order, j)

(* evictOldLocked removes the oldest ids of the project until the cap      *)
(* holds.  The cap held before this registration (PerProjectCap), so the   *)
(* loop runs at most once: i is the place of the oldest id of p.           *)
IsOldest(i, j, p) ==
    LET owned(k) == \/ Appended(j)[k] = j
                    \/ Appended(j)[k] \in JobsOf(p)
    IN  /\ owned(i)
        /\ \A k \in 1 .. i - 1 : ~owned(k)

AtCap(p) == Cardinality(JobsOf(p)) >= MaxPerProject

(* Enqueue, the critical section: register the job and evict.  What q.mu   *)
(* protects changes at once; a request that evicts keeps the lock until    *)
(* the files of the evicted job are removed.                               *)
Register(c, p) ==
    LET j == cjob[c]
    IN  /\ cpc[c] = "register" /\ Unlocked
        /\ owner' = [owner EXCEPT ![j] = p]
        /\ \/ /\ ~AtCap(p)
              /\ status' = [status EXCEPT ![j] = "queued"]
              /\ order' = Appended(j)
              /\ ClientAt(c, "send", j)
           \/ /\ AtCap(p)
              /\ \E i \in DOMAIN Appended(j) :
                    LET oldest == Appended(j)[i]
                    IN  /\ IsOldest(i, j, p)
                        /\ status' = [status EXCEPT ![j] = "queued",
                                                    ![oldest] = "absent"]
                        /\ order' = WithoutIndex(Appended(j), i)
                        /\ ClientRemoves(c, "evict", j, oldest)
        /\ UNCHANGED <<disk, workers, ch, restarts, overtaken>>

(* q.ch <- id blocks while the channel is full. *)
Send(c) ==
    /\ cpc[c] = "send"
    /\ Len(ch) < ChCap
    /\ ch' = Append(ch, cjob[c])
    /\ ClientReturns(c)
    /\ UNCHANGED <<memory, disk, workers, restarts, overtaken>>

(* Delete, the critical section: the project of the request must own the   *)
(* job, whatever its status is.                                            *)
Delete(c, j, p) ==
    /\ cpc[c] = "idle" /\ Unlocked
    /\ j \in JobsOf(p)
    /\ status' = [status EXCEPT ![j] = "absent"]
    /\ \E i \in DOMAIN order :
          /\ order[i] = j
          /\ \A k \in 1 .. i - 1 : order[k] # j
          /\ order' = WithoutIndex(order, i)
    /\ ClientRemoves(c, "remove", j, j)
    /\ UNCHANGED <<owner, disk, workers, ch, restarts, overtaken>>

(* Faulty variant of RemoveFiles: q.dir itself is emptied. *)
RemoveAllFiles(c) ==
    /\ cpc[c] \in {"evict", "remove"}
    /\ input' = {}
    /\ output' = [j \in Job |-> "none"]
    /\ cpc' = [cpc EXCEPT ![c] = IF @ = "evict" THEN "evictdir" ELSE "rmdir"]
    /\ UNCHANGED <<memory, dir, cjob, victim, workers, ch, restarts, overtaken>>

(* os.RemoveAll, first half: list the directory of the removed job and     *)
(* unlink what it holds.  (What is created between the listing and the     *)
(* last unlink is missed like what is created after it.)                   *)
RemoveFiles(c) ==
    /\ cpc[c] \in {"evict", "remove"}
    /\ input' = input \ {victim[c]}
    /\ output' = [output EXCEPT ![victim[c]] = "none"]
    /\ cpc' = [cpc EXCEPT ![c] = IF @ = "evict" THEN "evictdir" ELSE "rmdir"]
    /\ UNCHANGED <<memory, dir, cjob, victim, workers, ch, restarts, overtaken>>

(* os.RemoveAll, second half: rmdir fails when a file has come in between, *)
(* and nobody looks at the error.  Enqueue unlocks and goes on to send its *)
(* own job, Delete returns.                                                *)
RemoveDir(c) ==
    LET v == victim[c]
    IN  /\ cpc[c] \in {"evictdir", "rmdir"}
        /\ dir' = IF output[v] = "none" THEN dir \ {v} ELSE dir
        /\ \/ cpc[c] = "evictdir" /\ ClientAt(c, "send", cjob[c])
           \/ cpc[c] = "rmdir" /\ ClientReturns(c)
        /\ UNCHANGED <<memory, input, output, workers, ch, restarts, overtaken>>

(* Faulty variant of AskResult: any job of the map has a result path. *)
AskAnyResult(c, j) ==
    /\ cpc[c] = "idle" /\ Unlocked
    /\ status[j] # "absent"
    /\ ClientAt(c, "serve", j)
    /\ UNCHANGED <<memory, disk, workers, ch, restarts, overtaken>>

(* ResultPath and ResultPathAny hand out the path of a finished job. *)
AskResult(c, j) ==
    /\ cpc[c] = "idle" /\ Unlocked
    /\ status[j] = "done"
    /\ ClientAt(c, "serve", j)
    /\ UNCHANGED <<memory, disk, workers, ch, restarts, overtaken>>

(* c.SendFile opens the path later, without the lock; what it finds is     *)
(* described by ServedFile.                                                *)
Serve(c) ==
    /\ cpc[c] = "serve"
    /\ ClientReturns(c)
    /\ UNCHANGED <<memory, disk, workers, ch, restarts, overtaken>>

ServedFile(c) == output[cjob[c]]

-----------------------------------------------------------------------------
(* Workers.                                                                *)

(* Faulty variant of Receive: the id stays in the channel. *)
Peek(w) ==
    /\ wpc[w] = "idle"
    /\ ch # <<>>
    /\ WorkerAt(w, "lookup", Head(ch))
    /\ UNCHANGED <<memory, disk, clients, ch, restarts, overtaken>>

(* for id := range q.ch *)
Receive(w) ==
    /\ wpc[w] = "idle"
    /\ ch # <<>>
    /\ WorkerAt(w, "lookup", Head(ch))
    /\ ch' = Tail(ch)
    /\ UNCHANGED <<memory, disk, clients, restarts, overtaken>>

(* process, first critical section: a removed job is skipped. *)
Lookup(w) ==
    LET j == wjob[w]
    IN  /\ wpc[w] = "lookup" /\ Unlocked
        /\ \/ /\ status[j] = "absent"
              /\ WorkerReturns(w)
              /\ UNCHANGED status
           \/ /\ status[j] # "absent"
              /\ status' = [status EXCEPT ![j] = "processing"]
              /\ WorkerMoves(w, "read")
        /\ UNCHANGED <<owner, order, disk, clients, ch, restarts, overtaken>>

(* os.ReadFile(inputPath) *)
ReadInput(w) ==
    /\ wpc[w] = "read"
    /\ \/ wjob[w] \in input /\ WorkerMoves(w, "camouflage")
       \/ WorkerMoves(w, "fail")
    /\ UNCHANGED <<memory, disk, clients, ch, restarts, overtaken>>

(* shield.CamouflageVideo works in a temporary directory of its own. *)
Camouflage(w) ==
    /\ wpc[w] = "camouflage"
    /\ WorkerMoves(w, "create") \/ WorkerMoves(w, "fail")
    /\ UNCHANGED <<memory, disk, clients, ch, restarts, overtaken>>

(* A removal that has already unlinked the files of j misses the output.   *)
Overtakes(j) ==
    overtaken' =
        IF \E c \in Client : cpc[c] \in {"evictdir", "rmdir"} /\ victim[c] = j
        THEN overtaken \cup {j} ELSE overtaken

(* Faulty variant of CreateOutput: MkdirAll brings a removed directory     *)
(* back before the write.                                                  *)
CreateOutputAndDir(w) ==
    LET j == wjob[w]
    IN  /\ wpc[w] = "create"
        /\ dir' = dir \cup {j}
        /\ output' = [output EXCEPT ![j] = "partial"]
        /\ Overtakes(j)
        /\ WorkerMoves(w, "flush")
        /\ UNCHANGED <<memory, input, clients, ch, restarts>>

(* os.WriteFile opens output.mp4: impossible when the directory is gone.   *)
CreateOutput(w) ==
    LET j == wjob[w]
    IN  /\ wpc[w] = "create"
        /\ \/ /\ j \in dir
              /\ output' = [output EXCEPT ![j] = "partial"]
              /\ Overtakes(j)
              /\ WorkerMoves(w, "flush")
           \/ /\ WorkerMoves(w, "fail")
              /\ UNCHANGED <<output, overtaken>>
        /\ UNCHANGED <<memory, dir, input, clients, ch, restarts>>

(* Faulty variant of FlushOutput: the error of the write is ignored. *)
FlushUnchecked(w) ==
    LET j == wjob[w]
    IN  /\ wpc[w] = "flush"
        /\ \/ output' = [output EXCEPT ![j] = IF @ = "none" THEN "none" ELSE "full"]
           \/ UNCHANGED output
        /\ WorkerMoves(w, "finish")
        /\ UNCHANGED <<memory, dir, input, clients, ch, restarts, overtaken>>

(* os.WriteFile writes and closes; a file unlinked meanwhile stays gone,   *)
(* and no error tells the worker.                                          *)
FlushOutput(w) ==
    LET j == wjob[w]
    IN  /\ wpc[w] = "flush"
        /\ \/ /\ output' = [output EXCEPT ![j] =
                               IF @ = "none" THEN "none" ELSE "full"]
              /\ WorkerMoves(w, "finish")
           \/ /\ WorkerMoves(w, "fail")
              /\ UNCHANGED output
        /\ UNCHANGED <<memory, dir, input, clients, ch, restarts, overtaken>>

(* Faulty variant of Finish: the entry is stored back without looking      *)
(* whether it is still in the map.                                         *)
FinishUnchecked(w) ==
    /\ wpc[w] = "finish" /\ Unlocked
    /\ status' = [status EXCEPT ![wjob[w]] = "done"]
    /\ WorkerMoves(w, "cleanup")
    /\ UNCHANGED <<owner, order, disk, clients, ch, restarts, overtaken>>

(* process, last critical section *)
Finish(w) ==
    LET j == wjob[w]
    IN  /\ wpc[w] = "finish" /\ Unlocked
        /\ status' = [status EXCEPT ![j] =
                         IF @ = "absent" THEN "absent" ELSE "done"]
        /\ WorkerMoves(w, "cleanup")
        /\ UNCHANGED <<owner, order, disk, clients, ch, restarts, overtaken>>

(* os.Remove(inputPath) *)
Cleanup(w) ==
    /\ wpc[w] = "cleanup"
    /\ input' = input \ {wjob[w]}
    /\ WorkerReturns(w)
    /\ UNCHANGED <<memory, dir, output, clients, ch, restarts, overtaken>>

(* Faulty variant of Fail: the worker only logs the error. *)
FailSilently(w) ==
    /\ wpc[w] = "fail" /\ Unlocked
    /\ WorkerReturns(w)
    /\ UNCHANGED <<memory, disk, clients, ch, restarts, overtaken>>

(* fail *)
Fail(w) ==
    LET j == wjob[w]
    IN  /\ wpc[w] = "fail" /\ Unlocked
        /\ status' = [status EXCEPT ![j] =
                         IF @ = "absent" THEN "absent" ELSE "error"]
        /\ WorkerReturns(w)
        /\ UNCHANGED <<owner, order, disk, clients, ch, restarts, overtaken>>

-----------------------------------------------------------------------------
(* The process dies and New runs again: the memory is empty, every         *)
(* goroutine is gone and the directory is kept as it was.                  *)
Restart ==
    /\ restarts < MaxRestarts
    /\ restarts' = restarts + 1
    /\ status' = [j \in Job |-> "absent"]
    /\ order' = <<>>
    /\ ch' = <<>>
    /\ cpc' = [c \in Client |-> "idle"] /\ cjob' = [c \in Client |-> NoJob]
    /\ victim' = [c \in Client |-> NoJob]
    /\ wpc' = [w \in Worker |-> "idle"] /\ wjob' = [w \in Worker |-> NoJob]
    /\ UNCHANGED <<owner, disk, overtaken>>

(* The handler enqueues one job per variant it was asked for, one after    *)
(* the other; what a job shall do to the video matters to its worker only. *)
Enqueue(c) ==
    \/ \E j \in Job : Upload(c, j)
    \/ \E p \in Project : Register(c, p)
    \/ Send(c)

ClientStep(c) ==
    \/ Enqueue(c)
    \/ \E j \in Job, p \in Project : Delete(c, j, p)
    \/ RemoveFiles(c) \/ RemoveDir(c)
    \/ \E j \in Job : AskResult(c, j)
    \/ Serve(c)

WorkerStep(w) ==
    \/ Receive(w)
    \/ Lookup(w)
    \/ ReadInput(w)
    \/ Camouflage(w)
    \/ CreateOutput(w)
    \/ FlushOutput(w)
    \/ Finish(w)
    \/ Cleanup(w)
    \/ Fail(w)

Next ==
    \/ \E c \in Client : ClientStep(c)
    \/ \E w \in Worker : WorkerStep(w)
    \/ Restart

Spec == Init /\ [][Next]_vars

(* A goroutine that can run is eventually run by the Go scheduler; ffmpeg  *)
(* is assumed to terminate.  No request has to come.                       *)
Progress(c) ==
    \/ \E p \in Project : Register(c, p)
    \/ Send(c)
    \/ RemoveFiles(c) \/ RemoveDir(c)
    \/ Serve(c)

Fairness ==
    /\ \A c \in Client : WF_vars(Progress(c))
    /\ \A w \in Worker : WF_vars(WorkerStep(w))

FairSpec == Spec /\ Fairness

-----------------------------------------------------------------------------
(* Properties.                                                             *)

(* Every variable has its type. *)
TypeOK ==
    /\ status \in [Job -> Status]
    /\ owner \in [Job -> Project \cup {NoProject}]
    /\ order \in Seq(Job)
    /\ ch \in Seq(Job) /\ Len(ch) <= ChCap
    /\ dir \subseteq Job /\ input \subseteq Job
    /\ output \in [Job -> {"none", "partial", "full"}]
    /\ cpc \in [Client -> ClientPC] /\ cjob \in [Client -> Job \cup {NoJob}]
    /\ \A c \in Client : cpc[c] # "idle" => cjob[c] \in Job
    /\ victim \in [Client -> Job \cup {NoJob}]
    /\ \A c \in Client : cpc[c] \in Removing => victim[c] \in Job
    /\ wpc \in [Worker -> WorkerPC] /\ wjob \in [Worker -> Job \cup {NoJob}]
    /\ \A w \in Worker : wpc[w] # "idle" => wjob[w] \in Job
    /\ restarts \in Nat /\ overtaken \subseteq Job

(* q.order lists exactly the keys of q.jobs, each once: neither eviction   *)
(* nor deletion lets the two structures drift apart.                       *)
OrderIsIndex ==
    /\ \A i \in DOMAIN order : status[order[i]] # "absent"
    /\ \A j \in Registered : \E i \in DOMAIN order : order[i] = j
    /\ \A i, k \in DOMAIN order : order[i] = order[k] => i = k

(* A project never holds more than maxPerProject jobs, whatever uploads,   *)
(* deletions and evictions run together.                                   *)
PerProjectCap ==
    \A p \in Project : Cardinality(JobsOf(p)) <= MaxPerProject

(* The requests and workers that hold the one right to process a job. *)
Sending(c) == cpc[c] \in {"evict", "evictdir", "send"}
Busy(w) == wpc[w] # "idle"

(* The right to process a job is never duplicated: an id is in the channel *)
(* at most once, and not there while a request is about to send it or a    *)
(* worker holds it; two workers never hold the same job.                   *)
OneTicket ==
    /\ \A i, k \in DOMAIN ch : ch[i] = ch[k] => i = k
    /\ \A i \in DOMAIN ch :
          /\ \A c \in Client : Sending(c) => cjob[c] # ch[i]
          /\ \A w \in Worker : Busy(w) => wjob[w] # ch[i]
    /\ \A c, d \in Client : Sending(c) /\ Sending(d) /\ cjob[c] = cjob[d] => c = d
    /\ \A c \in Client, w \in Worker : Sending(c) /\ Busy(w) => cjob[c] # wjob[w]
    /\ \A v, w \in Worker : Busy(v) /\ Busy(w) /\ wjob[v] = wjob[w] => v = w

(* j waits to be processed / is being processed. *)
Waiting(j) ==
    \/ \E i \in DOMAIN ch : ch[i] = j
    \/ \E c \in Client : Sending(c) /\ cjob[c] = j
    \/ \E w \in Worker : wpc[w] = "lookup" /\ wjob[w] = j
Working == {"read", "camouflage", "create", "flush", "finish", "fail"}
Processed(j) == \E w \in Worker : wpc[w] \in Working /\ wjob[w] = j

(* No job is stranded: a queued job is on its way to a worker and a job    *)
(* shown as processing is in the hands of one, even when other jobs are    *)
(* removed or the channel is full.                                         *)
NoStrandedJob ==
    \A j \in Job :
        /\ status[j] = "queued" => Waiting(j)
        /\ status[j] = "processing" => Processed(j)

(* The worker finds the video: the input of a job that waits or is about   *)
(* to be read is on disk as long as the job is in the queue.               *)
InputKept ==
    \A j \in Registered :
        \/ status[j] = "queued"
        \/ \E w \in Worker : wpc[w] = "read" /\ wjob[w] = j
        => j \in input

(* A job shown as done has its complete result on disk; a deletion or an   *)
(* eviction in the middle of the worker's WriteFile never leaves a done    *)
(* job without one.                                                        *)
DoneHasResult == \A j \in Job : status[j] = "done" => output[j] = "full"

(* A download that was promised a result sees a file other than the        *)
(* complete one only if the job has left the queue in between.             *)
DownloadFailsOnlyAfterRemoval ==
    \A c \in Client :
        cpc[c] = "serve" /\ ServedFile(c) # "full" => status[cjob[c]] = "absent"

(* The inductive strengthening of the invariants above.                    *)

(* What each place a job can be in says about its entry and its owner. *)
Custody ==
    /\ \A j \in Job : owner[j] = NoProject => status[j] = "absent"
    /\ \A i \in DOMAIN ch :
          owner[ch[i]] # NoProject /\ status[ch[i]] \in {"queued", "absent"}
    /\ \A c \in Client :
          /\ cpc[c] = "register" => owner[cjob[c]] = NoProject
          /\ cpc[c] = "register" => cjob[c] \in dir /\ cjob[c] \in input
          /\ Sending(c) \/ cpc[c] \in {"remove", "rmdir", "serve"} => owner[cjob[c]] # NoProject
          /\ Sending(c) => status[cjob[c]] \in {"queued", "absent"}
          /\ cpc[c] \in Removing => owner[victim[c]] # NoProject /\ status[victim[c]] = "absent"
          /\ cpc[c] = "serve" => status[cjob[c]] \in {"done", "absent"}
    /\ \A c, d \in Client :
          cpc[c] = "register" /\ cpc[d] = "register" /\ cjob[c] = cjob[d] => c = d
    /\ \A w \in Worker :
          /\ Busy(w) => owner[wjob[w]] # NoProject
          /\ wpc[w] = "lookup" => status[wjob[w]] \in {"queued", "absent"}
          /\ wpc[w] \in Working => status[wjob[w]] \in {"processing", "absent"}
          /\ wpc[w] = "cleanup" => status[wjob[w]] \in {"done", "absent"}

(* What the disk holds of the jobs of the queue. *)
FilesFollowJobs ==
    /\ Registered \subseteq dir
    /\ \A w \in Worker :
          wjob[w] \in Registered =>
              /\ wpc[w] = "flush" => output[wjob[w]] # "none"
              /\ wpc[w] = "finish" => output[wjob[w]] = "full"

(* Inductive: together with Next it preserves itself, and it implies every *)
(* invariant of this module.                                               *)
IInv ==
    /\ TypeOK
    /\ OrderIsIndex
    /\ OneTicket
    /\ NoStrandedJob
    /\ Custody
    /\ InputKept
    /\ FilesFollowJobs
    /\ DoneHasResult

(* Every accepted job ends: it is done, failed or removed. *)
JobSettles ==
    \A j \in Job : (status[j] \in {"queued", "processing"})
                     ~> (status[j] \in {"done", "error", "absent"})

Removed(j) == owner[j] # NoProject /\ status[j] = "absent"

(* What a removal owes: the video is gone, no empty directory stays, and   *)
(* the directory stays with a result in it only if a worker created the    *)
(* result between the two halves of the removal.                           *)
Cleared(j) ==
    /\ j \notin input
    /\ j \in dir <=> output[j] # "none"
    /\ j \in dir => j \in overtaken

(* The disk of a job that was deleted or evicted is cleared for good,      *)
(* whatever a worker was doing with it: a result that comes earlier is     *)
(* unlinked and one that comes later finds no directory.                   *)
RemovedJobFreesDisk == \A j \in Job : Removed(j) ~> []Cleared(j)

(* The safety half: in a process that was not restarted, a removed job     *)
(* whose files nobody is removing any more is cleared.                     *)
RemovalOf(j) == \E c \in Client : cpc[c] \in Removing /\ victim[c] = j
RemovalsClear ==
    \A j \in Job : Removed(j) /\ restarts = 0 => RemovalOf(j) \/ Cleared(j)

(* "Delete remove um job e seus arquivos": the files of a removed job are  *)
(* gone some day.  Violated: the directory of an overtaken job stays.      *)
RemovedWithItsFiles ==
    \A j \in Job : Removed(j) ~> (j \notin dir /\ j \notin input /\ output[j] = "none")

(* The life a client of the queue sees: it implements JobLifecycle. *)
LifeOf(j) ==
    IF status[j] # "absent" THEN status[j]
    ELSE IF owner[j] = NoProject THEN "unborn" ELSE "gone"

Lifecycle == INSTANCE JobLifecycle WITH life <- [j \in Job |-> LifeOf(j)]

(* A job is taken once, ends once and never comes back after removal. *)
ImplementsLifecycle == Lifecycle!LSpec
=============================================================================
