--------------------------- MODULE VideoJobsProofs ---------------------------
(***************************************************************************)
(* Proofs about VideoJobs, for any number of jobs, requests, workers and   *)
(* projects, any channel capacity and any cap per project.                 *)
(***************************************************************************)
EXTENDS VideoJobs, FiniteSetTheorems, TLAPS

(* Dropping one place of a sequence keeps the other elements, in order. *)
LEMMA WithoutIndexFacts ==
    ASSUME NEW s \in Seq(Job), NEW i \in DOMAIN s
    PROVE  /\ WithoutIndex(s, i) \in Seq(Job)
           /\ Len(WithoutIndex(s, i)) = Len(s) - 1
           /\ DOMAIN WithoutIndex(s, i) = 1 .. Len(s) - 1
           /\ \A k \in 1 .. Len(s) - 1 :
                 /\ k < i => WithoutIndex(s, i)[k] = s[k]
                 /\ k >= i => WithoutIndex(s, i)[k] = s[k + 1]
  <1>1. /\ Len(s) \in Nat \ {0}
        /\ i \in 1 .. Len(s)
        /\ \A k \in 1 .. Len(s) : s[k] \in Job
    OBVIOUS
  <1>2. \A k \in 1 .. Len(s) - 1 :
           (IF k < i THEN s[k] ELSE s[k + 1]) \in Job
    BY <1>1
  <1>3. WithoutIndex(s, i) \in [1 .. Len(s) - 1 -> Job]
    BY <1>2 DEF WithoutIndex
  <1>4. Len(s) - 1 \in Nat
    BY <1>1
  <1>5. WithoutIndex(s, i) \in Seq(Job)
    BY <1>3, <1>4
  <1>6. Len(WithoutIndex(s, i)) = Len(s) - 1
    BY <1>3, <1>4, <1>5
  <1> QED
    BY <1>1, <1>3, <1>5, <1>6 DEF WithoutIndex

(* Every reachable value of a variable has its type. *)
LEMMA TypeStep == TypeOK /\ [Next]_vars => TypeOK'
  <1> SUFFICES ASSUME TypeOK, [Next]_vars PROVE TypeOK'
    OBVIOUS
  <1> USE QueueAssumption DEF Status, ClientPC, WorkerPC, Registered, JobsOf, Removing
  <1> USE DEF vars, memory, disk, clients, workers
  <1>1. ASSUME NEW c \in Client, NEW j \in Job, Upload(c, j) PROVE TypeOK'
    <2>1. /\ UNCHANGED <<memory, output, workers, ch, restarts, overtaken>>
          /\ dir' \subseteq Job /\ input' \subseteq Job
      BY <1>1 DEF TypeOK, Upload
    <2>2. CASE ClientAt(c, "register", j)
      BY <2>1, <2>2 DEF TypeOK, ClientAt, ClientRemoves
    <2>3. CASE UNCHANGED clients
      BY <2>1, <2>3 DEF TypeOK
    <2> QED
      BY <1>1, <2>2, <2>3 DEF Upload
  <1>2. ASSUME NEW c \in Client, NEW p \in Project, Register(c, p) PROVE TypeOK'
    <2> DEFINE j == cjob[c]
    <2>1. j \in Job /\ Appended(j) \in Seq(Job)
      BY <1>2 DEF TypeOK, Register, Appended
    <2>2. /\ owner' \in [Job -> Project \cup {NoProject}]
          /\ UNCHANGED <<disk, workers, ch, restarts, overtaken>>
      BY <1>2 DEF TypeOK, Register
    <2>3. ASSUME NEW pc \in ClientPC, NEW v \in Job \cup {NoJob}, ClientRemoves(c, pc, j, v),
                 pc \in Removing => v \in Job
          PROVE  /\ cpc' \in [Client -> ClientPC] /\ cjob' \in [Client -> Job \cup {NoJob}]
                 /\ victim' \in [Client -> Job \cup {NoJob}]
                 /\ \A d \in Client : cpc'[d] # "idle" => cjob'[d] \in Job
                 /\ \A d \in Client : cpc'[d] \in Removing => victim'[d] \in Job
      BY <2>1, <2>3 DEF TypeOK, ClientRemoves
    <2>4. CASE ~AtCap(p)
      <3>1. status' \in [Job -> Status] /\ order' \in Seq(Job)
        BY <1>2, <2>1, <2>4 DEF TypeOK, Register
      <3>2. ClientRemoves(c, "send", j, NoJob)
        BY <1>2, <2>4 DEF Register, ClientAt
      <3> QED
        BY <2>2, <2>3, <3>1, <3>2 DEF TypeOK
    <2>5. CASE AtCap(p)
      <3>1. PICK i \in DOMAIN Appended(j) :
                LET oldest == Appended(j)[i]
                IN  /\ status' = [status EXCEPT ![j] = "queued", ![oldest] = "absent"]
                    /\ order' = WithoutIndex(Appended(j), i)
                    /\ ClientRemoves(c, "evict", j, oldest)
        BY <1>2, <2>5 DEF Register
      <3>2. order' \in Seq(Job)
        BY <2>1, <3>1, WithoutIndexFacts
      <3>3. status' \in [Job -> Status] /\ Appended(j)[i] \in Job
        BY <2>1, <3>1 DEF TypeOK
      <3> QED
        BY <2>2, <2>3, <3>1, <3>2, <3>3 DEF TypeOK
    <2> QED
      BY <2>4, <2>5
  <1>3. ASSUME NEW c \in Client, Send(c) PROVE TypeOK'
    BY <1>3 DEF TypeOK, Send, ClientAt, ClientRemoves, ClientReturns
  <1>4. ASSUME NEW c \in Client, NEW j \in Job, NEW p \in Project, Delete(c, j, p)
        PROVE TypeOK'
    <2>1. PICK i \in DOMAIN order : order' = WithoutIndex(order, i)
      BY <1>4 DEF Delete
    <2>2. order' \in Seq(Job)
      BY <2>1, WithoutIndexFacts DEF TypeOK
    <2> QED
      BY <1>4, <2>2 DEF TypeOK, Delete, ClientRemoves
  <1>5. ASSUME NEW c \in Client, RemoveFiles(c) PROVE TypeOK'
    BY <1>5 DEF TypeOK, RemoveFiles
  <1>6. ASSUME NEW c \in Client, NEW j \in Job, AskResult(c, j) PROVE TypeOK'
    BY <1>6 DEF TypeOK, AskResult, ClientAt, ClientRemoves
  <1>7. ASSUME NEW c \in Client, Serve(c) PROVE TypeOK'
    BY <1>7 DEF TypeOK, Serve, ClientAt, ClientRemoves, ClientReturns
  <1>8. ASSUME NEW w \in Worker, Receive(w) PROVE TypeOK'
    <2>1. Head(ch) \in Job /\ Tail(ch) \in Seq(Job) /\ Len(Tail(ch)) <= ChCap
      BY <1>8 DEF TypeOK, Receive
    <2> QED
      BY <1>8, <2>1 DEF TypeOK, Receive, WorkerAt
  <1>9. ASSUME NEW w \in Worker, Lookup(w) PROVE TypeOK'
    <2>1. /\ UNCHANGED <<owner, order, disk, clients, ch, restarts, overtaken>>
          /\ status' \in [Job -> Status]
      BY <1>9 DEF TypeOK, Lookup
    <2>2. CASE WorkerReturns(w)
      BY <2>1, <2>2 DEF TypeOK, WorkerAt, WorkerReturns
    <2>3. CASE WorkerMoves(w, "read")
      BY <1>9, <2>1, <2>3 DEF TypeOK, Lookup, WorkerAt, WorkerMoves
    <2> QED
      BY <1>9, <2>2, <2>3 DEF Lookup
  <1>10. ASSUME NEW w \in Worker, ReadInput(w) PROVE TypeOK'
    BY <1>10 DEF TypeOK, ReadInput, WorkerAt, WorkerMoves
  <1>11. ASSUME NEW w \in Worker, Camouflage(w) PROVE TypeOK'
    BY <1>11 DEF TypeOK, Camouflage, WorkerAt, WorkerMoves
  <1>12. ASSUME NEW w \in Worker, CreateOutput(w) PROVE TypeOK'
    <2>1. /\ UNCHANGED <<memory, dir, input, clients, ch, restarts>>
          /\ output' \in [Job -> {"none", "partial", "full"}]
          /\ overtaken' \subseteq Job /\ wpc[w] # "idle"
      BY <1>12 DEF TypeOK, CreateOutput, Overtakes
    <2>2. ASSUME NEW pc \in WorkerPC, WorkerMoves(w, pc) PROVE TypeOK'
      BY <2>1, <2>2 DEF TypeOK, WorkerAt, WorkerMoves
    <2> QED
      BY <1>12, <2>2 DEF CreateOutput
  <1>13. ASSUME NEW w \in Worker, FlushOutput(w) PROVE TypeOK'
    <2>1. /\ UNCHANGED <<memory, dir, input, clients, ch, restarts, overtaken>>
          /\ output' \in [Job -> {"none", "partial", "full"}] /\ wpc[w] # "idle"
      BY <1>13 DEF TypeOK, FlushOutput
    <2>2. ASSUME NEW pc \in WorkerPC, WorkerMoves(w, pc) PROVE TypeOK'
      BY <2>1, <2>2 DEF TypeOK, WorkerAt, WorkerMoves
    <2> QED
      BY <1>13, <2>2 DEF FlushOutput
  <1>14. ASSUME NEW w \in Worker, Finish(w) PROVE TypeOK'
    BY <1>14 DEF TypeOK, Finish, WorkerAt, WorkerMoves
  <1>15. ASSUME NEW w \in Worker, Cleanup(w) PROVE TypeOK'
    BY <1>15 DEF TypeOK, Cleanup, WorkerAt, WorkerReturns
  <1>16. ASSUME NEW w \in Worker, Fail(w) PROVE TypeOK'
    BY <1>16 DEF TypeOK, Fail, WorkerAt, WorkerReturns
  <1>17. ASSUME Restart PROVE TypeOK'
    BY <1>17 DEF TypeOK, Restart
  <1>18. CASE UNCHANGED vars
    BY <1>18 DEF TypeOK
  <1>19. ASSUME NEW c \in Client, RemoveDir(c) PROVE TypeOK'
    <2>1. /\ UNCHANGED <<memory, input, output, workers, ch, restarts, overtaken>>
          /\ dir' \subseteq Job /\ cjob[c] \in Job
      BY <1>19 DEF TypeOK, RemoveDir
    <2>2. CASE ClientAt(c, "send", cjob[c])
      BY <2>1, <2>2 DEF TypeOK, ClientAt, ClientRemoves
    <2>3. CASE ClientReturns(c)
      BY <2>1, <2>3 DEF TypeOK, ClientAt, ClientRemoves, ClientReturns
    <2> QED
      BY <1>19, <2>2, <2>3 DEF RemoveDir
  <1> QED
    BY <1>1, <1>2, <1>3, <1>4, <1>5, <1>6, <1>7, <1>8, <1>9, <1>10, <1>11,
       <1>12, <1>13, <1>14, <1>15, <1>16, <1>17, <1>18, <1>19
    DEF Next, ClientStep, Enqueue, WorkerStep

-----------------------------------------------------------------------------
(* q.order and q.jobs stay in step. *)
LEMMA OrderStep == IInv /\ TypeOK' /\ [Next]_vars => OrderIsIndex'
  <1> SUFFICES ASSUME IInv, TypeOK', [Next]_vars PROVE OrderIsIndex'
    OBVIOUS
  <1> USE QueueAssumption DEF Registered
  <1> USE DEF vars, memory, disk, clients, workers
  <1> DEFINE Same == order' = order /\ \A j \in Job : status'[j] = "absent" <=> status[j] = "absent"
  <1>0. ASSUME Same PROVE OrderIsIndex'
    BY <1>0 DEF IInv, TypeOK, OrderIsIndex
  <1>1. ASSUME NEW c \in Client, NEW p \in Project, Register(c, p) PROVE OrderIsIndex'
    <2> DEFINE j == cjob[c]
    <2> DEFINE A == Append(order, j)
    <2>1. /\ j \in Job /\ A \in Seq(Job) /\ Len(A) = Len(order) + 1
          /\ DOMAIN A = 1 .. Len(order) + 1
          /\ \A k \in 1 .. Len(order) : A[k] = order[k]
          /\ A[Len(order) + 1] = j
          /\ Len(order) \in Nat
      BY <1>1 DEF IInv, TypeOK, Register
    <2> HIDE DEF A
    <2>2. status[j] = "absent"
      BY <1>1, <2>1 DEF IInv, Custody, Register
    <2>3. \A k \in DOMAIN order : order[k] # j
      BY <2>2 DEF IInv, OrderIsIndex
    <2>4. \A k, l \in DOMAIN A : A[k] = A[l] => k = l
      BY <2>1, <2>3 DEF IInv, OrderIsIndex
    <2>5. \A l \in Job : status[l] # "absent" => \E k \in DOMAIN A : A[k] = l
      BY <2>1 DEF IInv, OrderIsIndex
    <2>6. \A k \in DOMAIN A : A[k] # j => status[A[k]] # "absent"
      BY <2>1 DEF IInv, OrderIsIndex
    <2>7. CASE ~AtCap(p)
      <3>1. status' = [status EXCEPT ![j] = "queued"] /\ order' = A
        BY <1>1, <2>7 DEF Register, Appended, A
      <3>2. \A l \in Job : status'[l] = IF l = j THEN "queued" ELSE status[l]
        BY <2>1, <3>1 DEF IInv, TypeOK
      <3>3. \A k \in DOMAIN A : A[k] \in Job
        BY <2>1
      <3>4. \A k \in DOMAIN A : status'[A[k]] # "absent"
        BY <2>6, <3>2, <3>3
      <3>5. \A l \in Job : status'[l] # "absent" => \E k \in DOMAIN A : A[k] = l
        BY <2>1, <2>5, <3>2
      <3> QED
        BY <2>4, <3>1, <3>4, <3>5 DEF OrderIsIndex
    <2>8. CASE AtCap(p)
      <3>1. PICK i \in DOMAIN A :
                LET oldest == A[i]
                IN  /\ status' = [status EXCEPT ![j] = "queued", ![oldest] = "absent"]
                    /\ order' = WithoutIndex(A, i)
        BY <1>1, <2>8 DEF Register, Appended, A
      <3> DEFINE oldest == A[i]
      <3> DEFINE n == Len(order)
      <3>0. n \in Nat /\ (n + 1) - 1 = n
        BY <2>1
      <3>2. /\ Len(order') = n /\ DOMAIN order' = 1 .. n
            /\ \A k \in 1 .. n : /\ k < i => order'[k] = A[k]
                                 /\ k >= i => order'[k] = A[k + 1]
        <4>1. /\ Len(WithoutIndex(A, i)) = Len(A) - 1
              /\ DOMAIN WithoutIndex(A, i) = 1 .. Len(A) - 1
              /\ \A k \in 1 .. Len(A) - 1 :
                    /\ k < i => WithoutIndex(A, i)[k] = A[k]
                    /\ k >= i => WithoutIndex(A, i)[k] = A[k + 1]
          BY <2>1, WithoutIndexFacts
        <4>2. Len(A) - 1 = n
          BY <2>1, <3>0
        <4> QED
          BY <3>1, <4>1, <4>2
      <3>3. i \in 1 .. n + 1 /\ DOMAIN A = 1 .. n + 1
        BY <2>1
      <3>4. \A k \in 1 .. n : \E m \in 1 .. n + 1 :
                m # i /\ order'[k] = A[m]
        BY <2>1, <3>2, <3>3
      <3>5. \A m \in 1 .. n + 1 : m # i => \E k \in 1 .. n : order'[k] = A[m]
        <4> SUFFICES ASSUME NEW m \in 1 .. n + 1, m # i
                     PROVE \E k \in 1 .. n : order'[k] = A[m]
          OBVIOUS
        <4>1. CASE m < i
          BY <4>1, <2>1, <3>2, <3>3
        <4>2. CASE m > i
          <5>1. m - 1 \in 1 .. n /\ m - 1 >= i /\ (m - 1) + 1 = m
            BY <4>2, <2>1, <3>3
          <5> QED
            BY <5>1, <3>2
        <4> QED
          BY <4>1, <4>2, <2>1, <3>3
      <3>6. oldest \in Job /\ \A m \in 1 .. n + 1 : m # i => A[m] # oldest
        BY <2>1, <2>4, <3>3
      <3>7. \A l \in Job : status'[l] = IF l = oldest THEN "absent"
                                       ELSE IF l = j THEN "queued" ELSE status[l]
        BY <2>1, <3>1, <3>6 DEF IInv, TypeOK
      <3>8. \A k \in DOMAIN order' : status'[order'[k]] # "absent"
        BY <2>1, <2>6, <3>2, <3>3, <3>4, <3>6, <3>7
      <3>9. \A l \in Job : status'[l] # "absent" => \E k \in DOMAIN order' : order'[k] = l
        <4> SUFFICES ASSUME NEW l \in Job, status'[l] # "absent"
                     PROVE \E k \in DOMAIN order' : order'[k] = l
          OBVIOUS
        <4>1. PICK m \in 1 .. n + 1 : A[m] = l
          <5>1. CASE l = j
            BY <5>1, <2>1
          <5>2. CASE l # j
            BY <5>2, <2>5, <3>3, <3>7
          <5> QED
            BY <5>1, <5>2
        <4>2. m # i
          BY <4>1, <3>7
        <4> QED
          BY <4>1, <4>2, <3>2, <3>5
      <3>10. \A k, l \in DOMAIN order' : order'[k] = order'[l] => k = l
        <4> SUFFICES ASSUME NEW k \in 1 .. n, NEW l \in 1 .. n, order'[k] = order'[l]
                     PROVE k = l
          BY <3>2
        <4> DEFINE at(x) == IF x < i THEN x ELSE x + 1
        <4>1. /\ at(k) \in 1 .. n + 1 /\ at(l) \in 1 .. n + 1
              /\ order'[k] = A[at(k)] /\ order'[l] = A[at(l)]
          BY <2>1, <3>2, <3>3
        <4>2. at(k) = at(l)
          BY <4>1, <2>4, <3>3
        <4> QED
          BY <4>2, <2>1, <3>3
      <3> QED
        BY <3>8, <3>9, <3>10 DEF OrderIsIndex
    <2> QED
      BY <2>7, <2>8
  <1>2. ASSUME NEW c \in Client, NEW j \in Job, NEW p \in Project, Delete(c, j, p)
        PROVE OrderIsIndex'
    <2>1. PICK i \in DOMAIN order : order[i] = j /\ order' = WithoutIndex(order, i)
      BY <1>2 DEF Delete
    <2> DEFINE n == Len(order)
    <2>2. /\ n \in Nat \ {0} /\ i \in 1 .. n /\ DOMAIN order = 1 .. n
          /\ \A k \in 1 .. n : order[k] \in Job
      BY <2>1 DEF IInv, TypeOK
    <2>3. /\ Len(order') = n - 1 /\ DOMAIN order' = 1 .. n - 1
          /\ \A k \in 1 .. n - 1 : /\ k < i => order'[k] = order[k]
                                   /\ k >= i => order'[k] = order[k + 1]
      BY <2>1, WithoutIndexFacts DEF IInv, TypeOK
    <2>4. \A l \in Job : status'[l] = IF l = j THEN "absent" ELSE status[l]
      BY <1>2 DEF Delete, IInv, TypeOK
    <2>5. \A k, l \in 1 .. n : order[k] = order[l] => k = l
      BY <2>2 DEF IInv, OrderIsIndex
    <2>6. \A k \in DOMAIN order' : status'[order'[k]] # "absent"
      <3> SUFFICES ASSUME NEW k \in 1 .. n - 1 PROVE status'[order'[k]] # "absent"
        BY <2>3
      <3>1. PICK m \in 1 .. n : m # i /\ order'[k] = order[m]
        BY <2>2, <2>3
      <3>2. order[m] # j /\ status[order[m]] # "absent"
        BY <3>1, <2>1, <2>2, <2>5 DEF IInv, OrderIsIndex
      <3> QED
        BY <3>1, <3>2, <2>2, <2>4
    <2>7. \A l \in Job : status'[l] # "absent" => \E k \in DOMAIN order' : order'[k] = l
      <3> SUFFICES ASSUME NEW l \in Job, status'[l] # "absent"
                   PROVE \E k \in 1 .. n - 1 : order'[k] = l
        BY <2>3
      <3>1. PICK m \in 1 .. n : order[m] = l
        BY <2>2, <2>4 DEF IInv, OrderIsIndex
      <3>2. m # i
        BY <3>1, <2>1, <2>4
      <3>3. CASE m < i
        BY <3>1, <3>3, <2>2, <2>3
      <3>4. CASE m > i
        <4>1. m - 1 \in 1 .. n - 1 /\ m - 1 >= i /\ (m - 1) + 1 = m
          BY <3>4, <2>2
        <4> QED
          BY <4>1, <3>1, <2>3
      <3> QED
        BY <3>2, <3>3, <3>4, <2>2
    <2>8. \A k, l \in DOMAIN order' : order'[k] = order'[l] => k = l
      <3> SUFFICES ASSUME NEW k \in 1 .. n - 1, NEW l \in 1 .. n - 1, order'[k] = order'[l]
                   PROVE k = l
        BY <2>3
      <3> DEFINE at(x) == IF x < i THEN x ELSE x + 1
      <3>1. /\ at(k) \in 1 .. n /\ at(l) \in 1 .. n
            /\ order'[k] = order[at(k)] /\ order'[l] = order[at(l)]
        BY <2>2, <2>3
      <3>2. at(k) = at(l)
        BY <3>1, <2>5
      <3> QED
        BY <3>2, <2>2
    <2> QED
      BY <2>6, <2>7, <2>8 DEF OrderIsIndex
  <1>3. ASSUME Restart PROVE OrderIsIndex'
    BY <1>3 DEF Restart, OrderIsIndex
  <1>4. ASSUME NEW c \in Client, NEW j \in Job, Upload(c, j) \/ AskResult(c, j) PROVE Same
    BY <1>4 DEF Upload, AskResult
  <1>5. ASSUME NEW c \in Client, Send(c) \/ RemoveFiles(c) \/ RemoveDir(c) \/ Serve(c) PROVE Same
    BY <1>5 DEF Send, RemoveFiles, RemoveDir, Serve
  <1>6. ASSUME NEW w \in Worker, WorkerStep(w) PROVE Same
    <2>1. ASSUME \/ Receive(w) \/ ReadInput(w) \/ Camouflage(w) \/ CreateOutput(w)
                 \/ FlushOutput(w) \/ Cleanup(w)
          PROVE Same
      BY <2>1 DEF Receive, ReadInput, Camouflage, CreateOutput, FlushOutput, Cleanup
    <2>2. ASSUME Lookup(w) \/ Finish(w) \/ Fail(w) PROVE Same
      <3>1. wjob[w] \in Job
        BY <2>2 DEF Lookup, Finish, Fail, IInv, TypeOK
      <3> QED
        BY <2>2, <3>1 DEF Lookup, Finish, Fail, IInv, TypeOK
    <2> QED
      BY <1>6, <2>1, <2>2 DEF WorkerStep
  <1>7. CASE UNCHANGED vars
    BY <1>7, <1>0
  <1> HIDE DEF Same
  <1> QED
    BY <1>0, <1>1, <1>2, <1>3, <1>4, <1>5, <1>6, <1>7 DEF Next, ClientStep, Enqueue

-----------------------------------------------------------------------------
(* The right to process a job is never duplicated. *)
LEMMA TicketStep == IInv /\ TypeOK' /\ [Next]_vars => OneTicket'
  <1> SUFFICES ASSUME IInv, TypeOK', [Next]_vars PROVE OneTicket'
    OBVIOUS
  <1> USE DEF vars, memory, disk, clients, workers, Sending, Busy
  <1> DEFINE NoNewTicket ==
        /\ ch' = ch
        /\ \A c \in Client : Sending(c)' => Sending(c) /\ cjob'[c] = cjob[c]
        /\ \A w \in Worker : Busy(w)' => Busy(w) /\ wjob'[w] = wjob[w]
  <1>0. ASSUME NoNewTicket PROVE OneTicket'
    BY <1>0 DEF IInv, OneTicket
  <1>1. ASSUME NEW c \in Client, NEW p \in Project, Register(c, p) PROVE OneTicket'
    <2> DEFINE j == cjob[c]
    <2>1. /\ ch' = ch /\ wpc' = wpc /\ wjob' = wjob /\ cjob'[c] = j
          /\ \A d \in Client \ {c} : cpc'[d] = cpc[d] /\ cjob'[d] = cjob[d]
      BY <1>1 DEF Register, ClientAt, ClientRemoves, IInv, TypeOK
    <2>2. owner[j] = NoProject
      BY <1>1 DEF Register, IInv, Custody
    <2>3. /\ \A k \in DOMAIN ch : ch[k] # j
          /\ \A d \in Client : Sending(d) => cjob[d] # j
          /\ \A w \in Worker : Busy(w) => wjob[w] # j
      BY <2>2 DEF IInv, Custody
    <2> QED
      BY <2>1, <2>3 DEF IInv, OneTicket
  <1>2. ASSUME NEW c \in Client, Send(c) PROVE OneTicket'
    <2> DEFINE j == cjob[c]
    <2>1. /\ wpc' = wpc /\ wjob' = wjob /\ cpc'[c] = "idle"
          /\ \A d \in Client \ {c} : cpc'[d] = cpc[d] /\ cjob'[d] = cjob[d]
      BY <1>2 DEF Send, ClientReturns, ClientAt, ClientRemoves, IInv, TypeOK
    <2>2. /\ DOMAIN ch' = 1 .. Len(ch) + 1 /\ DOMAIN ch = 1 .. Len(ch) /\ Len(ch) \in Nat
          /\ ch'[Len(ch) + 1] = j
          /\ \A k \in 1 .. Len(ch) : ch'[k] = ch[k]
      BY <1>2 DEF Send, IInv, TypeOK
    <2>3. /\ \A k \in DOMAIN ch : ch[k] # j
          /\ \A d \in Client \ {c} : Sending(d) => cjob[d] # j
          /\ \A w \in Worker : Busy(w) => wjob[w] # j
      BY <1>2 DEF Send, IInv, OneTicket
    <2> QED
      BY <2>1, <2>2, <2>3 DEF IInv, OneTicket
  <1>3. ASSUME NEW w \in Worker, Receive(w) PROVE OneTicket'
    <2>1. /\ cpc' = cpc /\ cjob' = cjob /\ wjob'[w] = ch[1]
          /\ \A v \in Worker \ {w} : wpc'[v] = wpc[v] /\ wjob'[v] = wjob[v]
      BY <1>3 DEF Receive, WorkerAt, IInv, TypeOK
    <2>2. /\ Len(ch) \in Nat \ {0} /\ DOMAIN ch = 1 .. Len(ch)
          /\ DOMAIN ch' = 1 .. Len(ch) - 1
          /\ \A k \in 1 .. Len(ch) - 1 : ch'[k] = ch[k + 1]
      BY <1>3 DEF Receive, IInv, TypeOK
    <2>3. /\ \A k \in 1 .. Len(ch) - 1 : ch'[k] # ch[1]
          /\ \A k, l \in 1 .. Len(ch) - 1 : ch'[k] = ch'[l] => k = l
      <3>1. \A k, l \in 1 .. Len(ch) : ch[k] = ch[l] => k = l
        BY <2>2 DEF IInv, OneTicket
      <3>2. \A k \in 1 .. Len(ch) - 1 : k + 1 \in 1 .. Len(ch) /\ k + 1 # 1
        BY <2>2
      <3>3. 1 \in 1 .. Len(ch)
        BY <2>2
      <3> QED
        BY <2>2, <3>1, <3>2, <3>3
    <2>4. \A k \in DOMAIN ch' : k + 1 \in DOMAIN ch /\ ch'[k] = ch[k + 1]
      BY <2>2
    <2>5. /\ \A d \in Client : Sending(d) => cjob[d] # ch[1]
          /\ \A v \in Worker : Busy(v) => wjob[v] # ch[1]
      BY <2>2 DEF IInv, OneTicket
    <2>6. /\ \A k \in DOMAIN ch' : \A d \in Client : Sending(d)' => cjob'[d] # ch'[k]
          /\ \A k \in DOMAIN ch' : \A v \in Worker : Busy(v)' => wjob'[v] # ch'[k]
      <3> SUFFICES ASSUME NEW k \in DOMAIN ch'
                   PROVE  /\ \A d \in Client : Sending(d)' => cjob'[d] # ch'[k]
                          /\ \A v \in Worker : Busy(v)' => wjob'[v] # ch'[k]
        OBVIOUS
      <3>1. ch'[k] # ch[1]
        BY <2>2, <2>3
      <3> QED
        BY <2>1, <2>4, <3>1 DEF IInv, OneTicket
    <2>7. \A k, l \in DOMAIN ch' : ch'[k] = ch'[l] => k = l
      BY <2>2, <2>3
    <2>8. /\ \A d, e \in Client : Sending(d)' /\ Sending(e)' /\ cjob'[d] = cjob'[e] => d = e
          /\ \A d \in Client, v \in Worker : Sending(d)' /\ Busy(v)' => cjob'[d] # wjob'[v]
          /\ \A u, v \in Worker : Busy(u)' /\ Busy(v)' /\ wjob'[u] = wjob'[v] => u = v
      BY <2>1, <2>5 DEF IInv, OneTicket
    <2> QED
      BY <2>6, <2>7, <2>8 DEF OneTicket
  <1>4. ASSUME Restart PROVE OneTicket'
    BY <1>4 DEF Restart, OneTicket
  <1>5. ASSUME NEW c \in Client, NEW j \in Job, NEW p \in Project,
               \/ Upload(c, j) \/ Delete(c, j, p) \/ RemoveFiles(c) \/ RemoveDir(c)
               \/ AskResult(c, j) \/ Serve(c)
        PROVE NoNewTicket
    BY <1>5 DEF Upload, Delete, RemoveFiles, RemoveDir, AskResult, Serve, ClientReturns,
                ClientAt, ClientRemoves, IInv, TypeOK
  <1>6. ASSUME NEW w \in Worker, WorkerStep(w), ~Receive(w) PROVE NoNewTicket
    <2>1. /\ ch' = ch /\ clients' = clients /\ Busy(w)
          /\ \/ \E pc \in WorkerPC : WorkerMoves(w, pc)
             \/ WorkerReturns(w)
      BY <1>6 DEF WorkerStep, Lookup, ReadInput, Camouflage, CreateOutput, FlushOutput,
                  Finish, Cleanup, Fail, WorkerPC
    <2> QED
      BY <2>1 DEF WorkerMoves, WorkerReturns, WorkerAt, IInv, TypeOK
  <1>7. CASE UNCHANGED vars
    BY <1>7, <1>0
  <1>8. ASSUME NEW c \in Client, \E j \in Job : Upload(c, j) \/ AskResult(c, j) PROVE NoNewTicket
    BY <1>8 DEF Upload, AskResult, ClientAt, ClientRemoves, IInv, TypeOK
  <1>9. ASSUME NEW c \in Client, RemoveFiles(c) \/ RemoveDir(c) \/ Serve(c) PROVE NoNewTicket
    BY <1>9 DEF RemoveFiles, RemoveDir, Serve, ClientReturns, ClientAt, ClientRemoves,
                IInv, TypeOK
  <1> HIDE DEF NoNewTicket
  <1> QED
    BY <1>0, <1>1, <1>2, <1>3, <1>4, <1>5, <1>6, <1>7, <1>8, <1>9 DEF Next, ClientStep, Enqueue

(* A project at its cap has an older job to evict: the new one stays. *)
LEMMA VictimIsOlder ==
    ASSUME IInv, NEW p \in Project, NEW j \in Job, AtCap(p), status[j] = "absent",
           NEW i \in DOMAIN Appended(j), IsOldest(i, j, p)
    PROVE  Appended(j)[i] \in JobsOf(p)
  <1> DEFINE A == Append(order, j)
  <1>1. /\ Len(order) \in Nat /\ A \in Seq(Job)
        /\ DOMAIN A = 1 .. Len(order) + 1 /\ DOMAIN order = 1 .. Len(order)
        /\ \A k \in 1 .. Len(order) : A[k] = order[k]
        /\ A[Len(order) + 1] = j
    BY DEF IInv, TypeOK
  <1> HIDE DEF A
  <1>2. PICK l \in JobsOf(p) : TRUE
    BY QueueAssumption, FS_EmptySet DEF AtCap
  <1>3. PICK k \in 1 .. Len(order) : order[k] = l
    BY <1>1, <1>2 DEF IInv, OrderIsIndex, JobsOf, Registered
  <1>4. /\ i \in 1 .. Len(order) + 1
        /\ A[i] = j \/ A[i] \in JobsOf(p)
        /\ \A m \in 1 .. i - 1 : A[m] # j /\ A[m] \notin JobsOf(p)
    BY <1>1 DEF IsOldest, Appended, A
  <1>5. i <= k
    <2> SUFFICES ASSUME k < i PROVE FALSE
      BY <1>1, <1>4
    <2>1. k \in 1 .. i - 1
      BY <1>1, <1>3, <1>4
    <2> QED
      BY <2>1, <1>1, <1>2, <1>3, <1>4
  <1>6. CASE A[i] = j
    <2>1. i \in 1 .. Len(order)
      BY <1>1, <1>3, <1>4, <1>5
    <2>2. order[i] = j /\ j \in Registered
      BY <1>1, <1>6, <2>1 DEF IInv, OrderIsIndex, Registered
    <2> QED
      BY <2>2 DEF Registered
  <1>7. CASE A[i] \in JobsOf(p)
    BY <1>7 DEF Appended, A
  <1> QED
    BY <1>4, <1>6, <1>7

(* What a registration does, V being the jobs it evicts: none below the    *)
(* cap and one older job of the project at the cap, whose directory the    *)
(* request then removes under the lock.                                    *)
Registers(c, p, V) ==
    /\ cjob[c] \in Job /\ owner[cjob[c]] = NoProject
    /\ status[cjob[c]] = "absent" /\ cpc[c] = "register"
    /\ \/ ~AtCap(p) /\ V = {}
       \/ \E v \in JobsOf(p) : V = {v}
    /\ \A l \in Job : status'[l] = IF l \in V THEN "absent"
                                   ELSE IF l = cjob[c] THEN "queued" ELSE status[l]
    /\ owner' = [owner EXCEPT ![cjob[c]] = p]
    /\ cpc'[c] \in {"evict", "send"} /\ cjob' = cjob
    /\ cpc'[c] = "evict" => victim'[c] \in V
    /\ \A d \in Client \ {c} : cpc'[d] = cpc[d] /\ victim'[d] = victim[d]
    /\ UNCHANGED <<dir, input, output, wpc, wjob, ch, restarts>>

LEMMA RegisterFacts ==
    ASSUME IInv, NEW c \in Client, NEW p \in Project, Register(c, p)
    PROVE  \E V \in SUBSET JobsOf(p) : Registers(c, p, V)
  <1> USE DEF Registers
  <1> DEFINE j == cjob[c]
  <1> USE DEF memory, disk, clients, workers
  <1>1. /\ j \in Job /\ owner[j] = NoProject /\ status[j] = "absent" /\ cpc[c] = "register"
        /\ owner' = [owner EXCEPT ![j] = p]
        /\ cjob' = cjob
        /\ \A d \in Client \ {c} : cpc'[d] = cpc[d] /\ victim'[d] = victim[d]
        /\ UNCHANGED <<disk, workers, ch, restarts>>
    BY DEF Register, ClientAt, ClientRemoves, IInv, TypeOK, Custody
  <1>2. CASE ~AtCap(p)
    <2>1. /\ \A l \in Job : status'[l] = IF l = j THEN "queued" ELSE status[l]
          /\ cpc'[c] = "send"
      BY <1>1, <1>2 DEF Register, ClientAt, ClientRemoves, IInv, TypeOK
    <2> WITNESS {} \in SUBSET JobsOf(p)
    <2> QED
      BY <1>1, <1>2, <2>1
  <1>3. CASE AtCap(p)
    <2>1. PICK i \in DOMAIN Appended(j) :
            LET oldest == Appended(j)[i]
            IN  /\ IsOldest(i, j, p)
                /\ status' = [status EXCEPT ![j] = "queued", ![oldest] = "absent"]
                /\ ClientRemoves(c, "evict", j, oldest)
      BY <1>3 DEF Register
    <2> DEFINE oldest == Appended(j)[i]
    <2>2. oldest \in JobsOf(p)
      BY <1>1, <1>3, <2>1, VictimIsOlder
    <2>3. /\ \A l \in Job : status'[l] = IF l \in {oldest} THEN "absent"
                                         ELSE IF l = j THEN "queued" ELSE status[l]
          /\ cpc'[c] = "evict" /\ victim'[c] = oldest
      BY <1>1, <2>1, <2>2 DEF ClientRemoves, IInv, TypeOK, JobsOf, Registered
    <2> HIDE DEF oldest
    <2>4. {oldest} \in SUBSET JobsOf(p)
      BY <2>2
    <2> WITNESS {oldest} \in SUBSET JobsOf(p)
    <2> QED
      BY <1>1, <2>2, <2>3
  <1> QED
    BY <1>2, <1>3

(* What each place says about the job in it stays true. *)
LEMMA CustodyStep == IInv /\ TypeOK' /\ [Next]_vars => Custody'
  <1> SUFFICES ASSUME IInv, TypeOK', [Next]_vars PROVE Custody'
    OBVIOUS
  <1> USE QueueAssumption
  <1> USE DEF vars, memory, disk, clients, workers, Busy, Sending, Working, Removing
  <1>1. ASSUME NEW c \in Client, NEW j \in Job, Upload(c, j) PROVE Custody'
    <2>1. \A d \in Client : cpc[d] = "register" => cjob[d] # j
      BY <1>1 DEF Upload, IInv, Custody
    <2>2. /\ owner[j] = NoProject /\ cpc[c] = "idle"
          /\ UNCHANGED <<status, owner, ch, wpc, wjob>> /\ dir' = dir \cup {j}
      BY <1>1 DEF Upload
    <2>3. \/ /\ input' = input \cup {j} /\ cpc'[c] = "register" /\ cjob'[c] = j
             /\ \A d \in Client \ {c} :
                   cpc'[d] = cpc[d] /\ cjob'[d] = cjob[d] /\ victim'[d] = victim[d]
          \/ UNCHANGED <<input, cpc, cjob, victim>>
      BY <1>1 DEF Upload, ClientAt, ClientRemoves, IInv, TypeOK
    <2>4. CASE UNCHANGED <<input, cpc, cjob, victim>>
      BY <2>2, <2>4 DEF IInv, Custody
    <2>5. CASE /\ input' = input \cup {j} /\ cpc'[c] = "register" /\ cjob'[c] = j
               /\ \A d \in Client \ {c} :
                     cpc'[d] = cpc[d] /\ cjob'[d] = cjob[d] /\ victim'[d] = victim[d]
      BY <2>1, <2>2, <2>5 DEF IInv, Custody
    <2> QED
      BY <2>3, <2>4, <2>5
  <1>2. ASSUME NEW c \in Client, NEW p \in Project, Register(c, p) PROVE Custody'
    <2> DEFINE j == cjob[c]
    <2>1. /\ j \in Job /\ owner[j] = NoProject
          /\ \A l \in Job : owner'[l] = IF l = j THEN p ELSE owner[l]
          /\ cpc'[c] \in {"evict", "send"} /\ cjob'[c] = j
          /\ \A d \in Client \ {c} :
                cpc'[d] = cpc[d] /\ cjob'[d] = cjob[d] /\ victim'[d] = victim[d]
          /\ UNCHANGED <<ch, wpc, wjob, dir, input>>
      BY <1>2 DEF Register, ClientAt, ClientRemoves, IInv, TypeOK, Custody
    <2>2. /\ \A k \in DOMAIN ch : ch[k] # j
          /\ \A d \in Client : Sending(d) \/ cpc[d] \in {"remove", "rmdir", "serve"} => cjob[d] # j
          /\ \A d \in Client : cpc[d] \in Removing => victim[d] # j
          /\ \A d \in Client \ {c} : cpc[d] = "register" => cjob[d] # j
          /\ \A w \in Worker : Busy(w) => wjob[w] # j
      BY <1>2, <2>1 DEF Register, IInv, Custody
    <2>3. PICK V \in SUBSET JobsOf(p) : Registers(c, p, V)
      BY <1>2, RegisterFacts
    <2>4. /\ \A l \in Job : status'[l] = IF l \in V THEN "absent"
                                          ELSE IF l = j THEN "queued" ELSE status[l]
          /\ cpc'[c] = "evict" => victim'[c] \in V
          /\ \A l \in V : l \in Job /\ status[l] # "absent" /\ owner[l] = p
      BY <2>3 DEF Registers, JobsOf, Registered
    <2>5. /\ \A i \in DOMAIN ch : ch[i] \in Job
          /\ \A d \in Client : cpc[d] # "idle" => cjob[d] \in Job
          /\ \A d \in Client : cpc[d] \in Removing => victim[d] \in Job
          /\ \A w \in Worker : wpc[w] # "idle" => wjob[w] \in Job
          /\ p # NoProject
      BY DEF IInv, TypeOK
    <2>6. \A l \in Job : owner'[l] = NoProject => status'[l] = "absent"
      BY <2>1, <2>4, <2>5 DEF IInv, Custody
    <2>7. \A i \in DOMAIN ch' : owner'[ch'[i]] # NoProject /\ status'[ch'[i]] \in {"queued", "absent"}
      BY <2>1, <2>2, <2>4, <2>5 DEF IInv, Custody
    <2>8. \A d \in Client :
            /\ cpc'[d] = "register" => /\ owner'[cjob'[d]] = NoProject
                                       /\ cjob'[d] \in dir' /\ cjob'[d] \in input'
            /\ Sending(d)' \/ cpc'[d] \in {"remove", "rmdir", "serve"} => owner'[cjob'[d]] # NoProject
            /\ Sending(d)' => status'[cjob'[d]] \in {"queued", "absent"}
            /\ cpc'[d] \in Removing => /\ owner'[victim'[d]] # NoProject
                                       /\ status'[victim'[d]] = "absent"
            /\ cpc'[d] = "serve" => status'[cjob'[d]] \in {"done", "absent"}
      <3> SUFFICES ASSUME NEW d \in Client
          PROVE
            /\ cpc'[d] = "register" => /\ owner'[cjob'[d]] = NoProject
                                       /\ cjob'[d] \in dir' /\ cjob'[d] \in input'
            /\ Sending(d)' \/ cpc'[d] \in {"remove", "rmdir", "serve"} => owner'[cjob'[d]] # NoProject
            /\ Sending(d)' => status'[cjob'[d]] \in {"queued", "absent"}
            /\ cpc'[d] \in Removing => /\ owner'[victim'[d]] # NoProject
                                       /\ status'[victim'[d]] = "absent"
            /\ cpc'[d] = "serve" => status'[cjob'[d]] \in {"done", "absent"}
        OBVIOUS
      <3>1. CASE d = c
        BY <3>1, <2>1, <2>4, <2>5
      <3>2. CASE d # c
        BY <3>2, <2>1, <2>2, <2>4, <2>5 DEF IInv, Custody
      <3> QED
        BY <3>1, <3>2
    <2>9. \A d, e \in Client :
            cpc'[d] = "register" /\ cpc'[e] = "register" /\ cjob'[d] = cjob'[e] => d = e
      BY <2>1 DEF IInv, Custody
    <2>10. \A w \in Worker :
            /\ Busy(w)' => owner'[wjob'[w]] # NoProject
            /\ wpc'[w] = "lookup" => status'[wjob'[w]] \in {"queued", "absent"}
            /\ wpc'[w] \in Working => status'[wjob'[w]] \in {"processing", "absent"}
            /\ wpc'[w] = "cleanup" => status'[wjob'[w]] \in {"done", "absent"}
      BY <2>1, <2>2, <2>4, <2>5 DEF IInv, Custody
    <2> QED
      BY <2>6, <2>7, <2>8, <2>9, <2>10 DEF Custody
  <1>3. ASSUME NEW c \in Client, Send(c) PROVE Custody'
    <2>1. /\ DOMAIN ch' = 1 .. Len(ch) + 1 /\ DOMAIN ch = 1 .. Len(ch) /\ Len(ch) \in Nat
          /\ ch'[Len(ch) + 1] = cjob[c]
          /\ \A k \in 1 .. Len(ch) : ch'[k] = ch[k]
      BY <1>3 DEF Send, IInv, TypeOK
    <2> QED
      BY <1>3, <2>1 DEF Send, ClientReturns, ClientAt, ClientRemoves, IInv, TypeOK, Custody
  <1>4. ASSUME NEW c \in Client, NEW j \in Job, NEW p \in Project, Delete(c, j, p)
        PROVE Custody'
    <2>1. owner[j] # NoProject
      BY <1>4 DEF Delete, JobsOf, IInv
    <2> QED
      BY <1>4, <2>1 DEF Delete, ClientRemoves, IInv, TypeOK, Custody
  <1>5. ASSUME NEW c \in Client, RemoveFiles(c) PROVE Custody'
    <2>1. owner[victim[c]] # NoProject
      BY <1>5 DEF RemoveFiles, IInv, Custody
    <2>2. \A d \in Client : cpc[d] = "register" => cjob[d] \in input'
      BY <1>5, <2>1 DEF RemoveFiles, IInv, Custody
    <2> QED
      BY <1>5, <2>2 DEF RemoveFiles, IInv, TypeOK, Custody
  <1>6. ASSUME NEW c \in Client, NEW j \in Job, AskResult(c, j) PROVE Custody'
    BY <1>6 DEF AskResult, ClientAt, ClientRemoves, IInv, TypeOK, Custody
  <1>7. ASSUME NEW c \in Client, Serve(c) PROVE Custody'
    BY <1>7 DEF Serve, ClientReturns, ClientAt, ClientRemoves, IInv, TypeOK, Custody
  <1>8. ASSUME NEW w \in Worker, Receive(w) PROVE Custody'
    <2>1. /\ Len(ch) \in Nat \ {0} /\ DOMAIN ch = 1 .. Len(ch)
          /\ DOMAIN ch' = 1 .. Len(ch) - 1
          /\ \A k \in 1 .. Len(ch) - 1 : ch'[k] = ch[k + 1]
          /\ Head(ch) = ch[1]
      BY <1>8 DEF Receive, IInv, TypeOK
    <2>2. \A k \in DOMAIN ch' : \E m \in DOMAIN ch : ch'[k] = ch[m]
      BY <2>1
    <2> QED
      BY <1>8, <2>1, <2>2 DEF Receive, WorkerAt, IInv, TypeOK, Custody
  <1>9. ASSUME NEW w \in Worker, Lookup(w) PROVE Custody'
    <2> DEFINE j == wjob[w]
    <2>1. CASE status[j] = "absent"
      BY <1>9, <2>1 DEF Lookup, WorkerReturns, WorkerAt, IInv, TypeOK, Custody
    <2>2. CASE status[j] # "absent"
      <3>1. /\ j \in Job /\ status[j] = "queued" /\ owner[j] # NoProject
            /\ \A l \in Job : status'[l] = IF l = j THEN "processing" ELSE status[l]
            /\ wpc'[w] = "read" /\ wjob' = wjob
            /\ \A v \in Worker \ {w} : wpc'[v] = wpc[v]
            /\ UNCHANGED <<owner, ch, cpc, cjob, victim, dir, input>>
        BY <1>9, <2>2 DEF Lookup, WorkerMoves, WorkerAt, IInv, TypeOK, Custody
      <3>2. /\ \A k \in DOMAIN ch : ch[k] # j
            /\ \A c \in Client : Sending(c) \/ cpc[c] \in {"register", "serve"} => cjob[c] # j
            /\ \A c \in Client : cpc[c] \in Removing => victim[c] # j
            /\ \A v \in Worker \ {w} : wpc[v] # "idle" => wjob[v] # j
        BY <1>9, <3>1 DEF Lookup, IInv, TypeOK, Custody, OneTicket, Sending, ClientPC
      <3> QED
        BY <3>1, <3>2 DEF IInv, TypeOK, Custody
    <2> QED
      BY <2>1, <2>2
  <1>10. ASSUME NEW w \in Worker, ReadInput(w) PROVE Custody'
    BY <1>10 DEF ReadInput, WorkerMoves, WorkerAt, IInv, TypeOK, Custody
  <1>11. ASSUME NEW w \in Worker, Camouflage(w) PROVE Custody'
    BY <1>11 DEF Camouflage, WorkerMoves, WorkerAt, IInv, TypeOK, Custody
  <1>12. ASSUME NEW w \in Worker, CreateOutput(w) PROVE Custody'
    BY <1>12 DEF CreateOutput, WorkerMoves, WorkerAt, IInv, TypeOK, Custody
  <1>13. ASSUME NEW w \in Worker, FlushOutput(w) PROVE Custody'
    BY <1>13 DEF FlushOutput, WorkerMoves, WorkerAt, IInv, TypeOK, Custody
  <1>14. ASSUME NEW w \in Worker, Finish(w) PROVE Custody'
    BY <1>14 DEF Finish, WorkerMoves, WorkerAt, IInv, TypeOK, Custody, OneTicket, Sending
  <1>15. ASSUME NEW w \in Worker, Cleanup(w) PROVE Custody'
    BY <1>15 DEF Cleanup, WorkerReturns, WorkerAt, IInv, TypeOK, Custody
  <1>16. ASSUME NEW w \in Worker, Fail(w) PROVE Custody'
    BY <1>16 DEF Fail, WorkerReturns, WorkerAt, IInv, TypeOK, Custody, OneTicket, Sending
  <1>17. ASSUME Restart PROVE Custody'
    BY <1>17 DEF Restart, Custody
  <1>18. CASE UNCHANGED vars
    BY <1>18 DEF IInv, Custody
  <1>19. ASSUME NEW c \in Client, RemoveDir(c) PROVE Custody'
    <2>1. owner[victim[c]] # NoProject
      BY <1>19 DEF RemoveDir, IInv, Custody
    <2>2. \A d \in Client : cpc[d] = "register" => cjob[d] \in dir'
      BY <1>19, <2>1 DEF RemoveDir, IInv, Custody
    <2>3. /\ UNCHANGED <<status, owner, ch, input, wpc, wjob>>
          /\ \/ cpc[c] = "evictdir" /\ cpc'[c] = "send" /\ cjob'[c] = cjob[c]
             \/ cpc'[c] = "idle"
          /\ \A d \in Client \ {c} :
                cpc'[d] = cpc[d] /\ cjob'[d] = cjob[d] /\ victim'[d] = victim[d]
      BY <1>19 DEF RemoveDir, ClientReturns, ClientAt, ClientRemoves, IInv, TypeOK
    <2>4. \A d \in Client : cpc'[d] = "register" => cpc[d] = "register" /\ d # c
      BY <2>3
    <2>5. \A d \in Client : cpc'[d] # "idle" => cjob'[d] = cjob[d]
      BY <2>3
    <2> QED
      BY <2>2, <2>3, <2>4, <2>5 DEF IInv, Custody
  <1> QED
    BY <1>1, <1>2, <1>3, <1>4, <1>5, <1>6, <1>7, <1>8, <1>9, <1>10, <1>11,
       <1>12, <1>13, <1>14, <1>15, <1>16, <1>17, <1>18, <1>19
    DEF Next, ClientStep, Enqueue, WorkerStep

-----------------------------------------------------------------------------
(* No queued or processing job is left without anybody to process it. *)
LEMMA StrandedStep == IInv /\ TypeOK' /\ [Next]_vars => NoStrandedJob'
  <1> SUFFICES ASSUME IInv, TypeOK', [Next]_vars PROVE NoStrandedJob'
    OBVIOUS
  <1> USE DEF vars, memory, disk, clients, workers, Sending, Working
  <1> SUFFICES ASSUME NEW l \in Job
               PROVE  /\ status'[l] = "queued" => Waiting(l)'
                      /\ status'[l] = "processing" => Processed(l)'
    BY DEF NoStrandedJob
  <1> DEFINE Goal == /\ status'[l] = "queued" => Waiting(l)'
                     /\ status'[l] = "processing" => Processed(l)'
  <1>0. /\ status[l] = "queued" => Waiting(l)
        /\ status[l] = "processing" => Processed(l)
    BY DEF IInv, NoStrandedJob
  <1>1. ASSUME NEW c \in Client, NEW p \in Project, Register(c, p) PROVE Goal
    <2>1. /\ status'[l] # "absent" =>
               \/ l = cjob[c] /\ status'[l] = "queued"
               \/ status'[l] = status[l]
          /\ cpc'[c] \in {"evict", "send"} /\ cjob' = cjob /\ cpc[c] = "register"
          /\ \A d \in Client \ {c} : cpc'[d] = cpc[d]
          /\ UNCHANGED <<workers, ch>>
      BY <1>1, RegisterFacts DEF Registers
    <2>3. Sending(c)' /\ \A d \in Client \ {c} : cpc'[d] = cpc[d]
      BY <2>1
    <2>4. Waiting(l) => Waiting(l)'
      BY <2>1, <2>3 DEF Waiting
    <2>5. Processed(l) => Processed(l)'
      BY <2>1 DEF Processed
    <2>6. l = cjob[c] => Waiting(l)'
      BY <2>1, <2>3 DEF Waiting
    <2> QED
      BY <1>0, <2>1, <2>4, <2>5, <2>6
  <1>2. ASSUME NEW c \in Client, Send(c) PROVE Goal
    <2>1. /\ Len(ch) \in Nat /\ DOMAIN ch' = 1 .. Len(ch) + 1 /\ DOMAIN ch = 1 .. Len(ch)
          /\ ch'[Len(ch) + 1] = cjob[c]
          /\ \A k \in 1 .. Len(ch) : ch'[k] = ch[k]
      BY <1>2 DEF Send, IInv, TypeOK
    <2>2. /\ UNCHANGED <<status, wpc, wjob>>
          /\ \A d \in Client \ {c} : cpc'[d] = cpc[d] /\ cjob'[d] = cjob[d]
      BY <1>2 DEF Send, ClientReturns, ClientAt, ClientRemoves, IInv, TypeOK
    <2>3. Waiting(l) => Waiting(l)'
      BY <2>1, <2>2 DEF Waiting
    <2>4. Processed(l) => Processed(l)'
      BY <2>2 DEF Processed
    <2> QED
      BY <1>0, <2>2, <2>3, <2>4
  <1>3. ASSUME NEW w \in Worker, Receive(w) PROVE Goal
    <2>1. /\ Len(ch) \in Nat \ {0} /\ DOMAIN ch = 1 .. Len(ch)
          /\ DOMAIN ch' = 1 .. Len(ch) - 1
          /\ \A k \in 1 .. Len(ch) - 1 : ch'[k] = ch[k + 1]
      BY <1>3 DEF Receive, IInv, TypeOK
    <2>2. /\ UNCHANGED <<status, cpc, cjob>>
          /\ wpc'[w] = "lookup" /\ wjob'[w] = ch[1] /\ wpc[w] = "idle"
          /\ \A v \in Worker \ {w} : wpc'[v] = wpc[v] /\ wjob'[v] = wjob[v]
      BY <1>3 DEF Receive, WorkerAt, IInv, TypeOK
    <2>3. ASSUME NEW k \in DOMAIN ch, ch[k] = l PROVE Waiting(l)'
      <3>1. CASE k = 1
        BY <2>2, <2>3, <3>1 DEF Waiting
      <3>2. CASE k # 1
        <4>1. k - 1 \in 1 .. Len(ch) - 1 /\ (k - 1) + 1 = k
          BY <2>1, <3>2
        <4> QED
          BY <4>1, <2>1, <2>3 DEF Waiting
      <3> QED
        BY <3>1, <3>2
    <2>4. Waiting(l) => Waiting(l)'
      BY <2>2, <2>3 DEF Waiting
    <2>5. Processed(l) => Processed(l)'
      BY <2>2 DEF Processed
    <2> QED
      BY <1>0, <2>2, <2>4, <2>5
  <1>4. ASSUME Restart PROVE Goal
    BY <1>4 DEF Restart
  <1>5. ASSUME NEW c \in Client,
               \/ \E j \in Job : Upload(c, j) \/ AskResult(c, j)
               \/ \E j \in Job, p \in Project : Delete(c, j, p)
               \/ RemoveFiles(c) \/ RemoveDir(c) \/ Serve(c)
        PROVE Goal
    <2>1. /\ UNCHANGED <<ch, wpc, wjob>>
          /\ \A d \in Client : Sending(d) => Sending(d)' /\ cjob'[d] = cjob[d]
          /\ status'[l] \in {status[l], "absent"}
      BY <1>5 DEF Upload, AskResult, Delete, RemoveFiles, RemoveDir, Serve, ClientReturns,
                  ClientAt, ClientRemoves, IInv, TypeOK
    <2>2. Waiting(l) => Waiting(l)'
      BY <2>1 DEF Waiting
    <2>3. Processed(l) => Processed(l)'
      BY <2>1 DEF Processed
    <2> QED
      BY <1>0, <2>1, <2>2, <2>3
  <1>6. ASSUME NEW w \in Worker, Lookup(w) PROVE Goal
    <2>1. /\ UNCHANGED <<ch, cpc, cjob>> /\ wpc[w] = "lookup"
          /\ \A v \in Worker \ {w} : wpc'[v] = wpc[v] /\ wjob'[v] = wjob[v]
          /\ \/ status' = status /\ status[wjob[w]] = "absent"
             \/ /\ status'[l] = IF l = wjob[w] THEN "processing" ELSE status[l]
                /\ wpc'[w] = "read" /\ wjob'[w] = wjob[w]
      BY <1>6 DEF Lookup, WorkerMoves, WorkerReturns, WorkerAt, IInv, TypeOK
    <2>2. Waiting(l) /\ l # wjob[w] => Waiting(l)'
      BY <2>1 DEF Waiting
    <2>3. Processed(l) => Processed(l)'
      BY <2>1 DEF Processed
    <2>4. wpc'[w] = "read" /\ wjob'[w] = l => Processed(l)'
      BY DEF Processed
    <2> QED
      BY <1>0, <2>1, <2>2, <2>3, <2>4
  <1>7. ASSUME NEW w \in Worker,
               ReadInput(w) \/ Camouflage(w) \/ CreateOutput(w) \/ FlushOutput(w)
        PROVE Goal
    <2>1. /\ UNCHANGED <<status, ch, cpc, cjob, wjob>>
          /\ wpc[w] # "lookup" /\ wpc'[w] \in Working
          /\ \A v \in Worker \ {w} : wpc'[v] = wpc[v]
      BY <1>7 DEF ReadInput, Camouflage, CreateOutput, FlushOutput, WorkerMoves, WorkerAt,
                  IInv, TypeOK
    <2>2. Waiting(l) => Waiting(l)'
      BY <2>1 DEF Waiting
    <2>3. Processed(l) => Processed(l)'
      BY <2>1 DEF Processed
    <2> QED
      BY <1>0, <2>1, <2>2, <2>3
  <1>8. ASSUME NEW w \in Worker, Finish(w) \/ Cleanup(w) \/ Fail(w) PROVE Goal
    <2>1. /\ UNCHANGED <<ch, cpc, cjob>> /\ wpc[w] # "lookup"
          /\ \A v \in Worker \ {w} : wpc'[v] = wpc[v] /\ wjob'[v] = wjob[v]
          /\ l # wjob[w] => status'[l] = status[l]
          /\ status'[l] \in {"absent", "done", "error", status[l]}
          /\ wpc[w] = "cleanup" => status' = status
          /\ wpc[w] # "cleanup" /\ l = wjob[w] => status'[l] \in {"absent", "done", "error"}
      BY <1>8 DEF Finish, Cleanup, Fail, WorkerMoves, WorkerReturns, WorkerAt, IInv, TypeOK
    <2>2. Waiting(l) => Waiting(l)'
      BY <2>1 DEF Waiting
    <2>3. Processed(l) /\ (l # wjob[w] \/ wpc[w] = "cleanup") => Processed(l)'
      BY <2>1 DEF Processed
    <2> QED
      BY <1>0, <2>1, <2>2, <2>3
  <1>9. CASE UNCHANGED vars
    <2>1. (Waiting(l) => Waiting(l)') /\ (Processed(l) => Processed(l)') /\ status' = status
      BY <1>9 DEF Waiting, Processed
    <2> QED
      BY <1>0, <2>1
  <1>10. ASSUME NEW c \in Client, ClientStep(c) PROVE Goal
    BY <1>10, <1>1, <1>2, <1>5 DEF ClientStep, Enqueue
  <1>11. ASSUME NEW w \in Worker, WorkerStep(w) PROVE Goal
    BY <1>11, <1>3, <1>6, <1>7, <1>8 DEF WorkerStep
  <1>12. Goal
    <2>1. CASE \E c \in Client : ClientStep(c)
      BY <2>1, <1>10
    <2>2. CASE \E w \in Worker : WorkerStep(w)
      BY <2>2, <1>11
    <2>3. CASE Restart
      BY <2>3, <1>4
    <2> QED
      BY <2>1, <2>2, <2>3, <1>9 DEF Next
  <1> QED
    BY <1>12 DEF Goal

-----------------------------------------------------------------------------
(* The three facts about files, for one job at a time. *)
FilesOf(l) ==
    /\ status[l] # "absent" => l \in dir
    /\ status[l] = "queued" => l \in input
    /\ status[l] = "done" => output[l] = "full"
    /\ \A w \in Worker :
          wjob[w] = l /\ status[l] # "absent" =>
             /\ wpc[w] = "read" => l \in input
             /\ wpc[w] = "flush" => output[l] # "none"
             /\ wpc[w] = "finish" => output[l] = "full"

LEMMA FilesStep ==
    IInv /\ TypeOK' /\ [Next]_vars => (InputKept /\ FilesFollowJobs /\ DoneHasResult)'
  <1> SUFFICES ASSUME IInv, TypeOK', [Next]_vars, NEW l \in Job PROVE FilesOf(l)'
    BY DEF TypeOK, InputKept, FilesFollowJobs, DoneHasResult, FilesOf, Registered
  <1> USE DEF vars, memory, disk, clients, workers
  <1>0. FilesOf(l)
    BY DEF IInv, TypeOK, InputKept, FilesFollowJobs, DoneHasResult, FilesOf, Registered
  <1>1. ASSUME NEW c \in Client, NEW p \in Project, Register(c, p) PROVE FilesOf(l)'
    <2>1. PICK V \in SUBSET JobsOf(p) : Registers(c, p, V)
      BY <1>1, RegisterFacts
    <2>2. /\ cjob[c] \in dir /\ cjob[c] \in input
          /\ \A w \in Worker : wpc[w] # "idle" => wjob[w] # cjob[c]
      BY <2>1 DEF Registers, IInv, Custody, Busy
    <2> QED
      BY <1>0, <2>1, <2>2 DEF FilesOf, Registers
  <1>2. ASSUME NEW c \in Client, NEW j \in Job, Upload(c, j) PROVE FilesOf(l)'
    BY <1>0, <1>2 DEF FilesOf, Upload
  <1>3. ASSUME NEW c \in Client, NEW j \in Job, NEW p \in Project, Delete(c, j, p)
        PROVE FilesOf(l)'
    BY <1>0, <1>3 DEF FilesOf, Delete, IInv, TypeOK
  <1>4. ASSUME NEW c \in Client, RemoveFiles(c) PROVE FilesOf(l)'
    <2>1. status[victim[c]] = "absent"
      BY <1>4 DEF RemoveFiles, Removing, IInv, Custody
    <2> QED
      BY <1>0, <1>4, <2>1 DEF FilesOf, RemoveFiles, IInv, TypeOK
  <1>5. ASSUME NEW c \in Client, Send(c) \/ Serve(c) \/ \E j \in Job : AskResult(c, j)
        PROVE FilesOf(l)'
    BY <1>0, <1>5 DEF FilesOf, Send, Serve, AskResult
  <1>6. ASSUME NEW w \in Worker, Receive(w) PROVE FilesOf(l)'
    BY <1>0, <1>6 DEF FilesOf, Receive, WorkerAt, IInv, TypeOK
  <1>7. ASSUME NEW w \in Worker, Lookup(w) PROVE FilesOf(l)'
    <2>1. wjob[w] \in Job /\ status[wjob[w]] \in {"queued", "absent"}
      BY <1>7 DEF Lookup, IInv, TypeOK, Custody
    <2>2. \A v \in Worker : wjob[v] = wjob[w] /\ wpc[v] # "idle" => v = w
      BY <1>7 DEF Lookup, IInv, OneTicket, Busy
    <2>3. CASE status[wjob[w]] = "absent"
      BY <1>0, <1>7, <2>3 DEF FilesOf, Lookup, WorkerReturns, WorkerAt, IInv, TypeOK
    <2>4. CASE status[wjob[w]] # "absent"
      BY <1>0, <1>7, <2>1, <2>2, <2>4 DEF FilesOf, Lookup, WorkerMoves, WorkerAt, IInv, TypeOK
    <2> QED
      BY <2>3, <2>4
  <1>8. ASSUME NEW w \in Worker, ReadInput(w) \/ Camouflage(w) PROVE FilesOf(l)'
    BY <1>0, <1>8 DEF FilesOf, ReadInput, Camouflage, WorkerMoves, WorkerAt, IInv, TypeOK
  <1>9. ASSUME NEW w \in Worker, CreateOutput(w) PROVE FilesOf(l)'
    <2>1. wjob[w] \in Job /\ status[wjob[w]] \in {"processing", "absent"}
      BY <1>9 DEF CreateOutput, IInv, TypeOK, Custody, Working
    <2>2. \A v \in Worker : wjob[v] = wjob[w] /\ wpc[v] # "idle" => v = w
      BY <1>9 DEF CreateOutput, IInv, OneTicket, Busy
    <2> QED
      BY <1>0, <1>9, <2>1, <2>2 DEF FilesOf, CreateOutput, WorkerMoves, WorkerAt, IInv, TypeOK
  <1>10. ASSUME NEW w \in Worker, FlushOutput(w) PROVE FilesOf(l)'
    <2>1. wjob[w] \in Job /\ status[wjob[w]] \in {"processing", "absent"}
      BY <1>10 DEF FlushOutput, IInv, TypeOK, Custody, Working
    <2>2. \A v \in Worker : wjob[v] = wjob[w] /\ wpc[v] # "idle" => v = w
      BY <1>10 DEF FlushOutput, IInv, OneTicket, Busy
    <2> QED
      BY <1>0, <1>10, <2>1, <2>2 DEF FilesOf, FlushOutput, WorkerMoves, WorkerAt, IInv, TypeOK
  <1>11. ASSUME NEW w \in Worker, Finish(w) PROVE FilesOf(l)'
    <2>1. wjob[w] \in Job /\ status[wjob[w]] \in {"processing", "absent"}
      BY <1>11 DEF Finish, IInv, TypeOK, Custody, Working
    <2>2. \A v \in Worker : wjob[v] = wjob[w] /\ wpc[v] # "idle" => v = w
      BY <1>11 DEF Finish, IInv, OneTicket, Busy
    <2> QED
      BY <1>0, <1>11, <2>1, <2>2 DEF FilesOf, Finish, WorkerMoves, WorkerAt, IInv, TypeOK
  <1>12. ASSUME NEW w \in Worker, Cleanup(w) PROVE FilesOf(l)'
    <2>1. wjob[w] \in Job /\ status[wjob[w]] \in {"done", "absent"}
      BY <1>12 DEF Cleanup, IInv, TypeOK, Custody
    <2>2. \A v \in Worker : wjob[v] = wjob[w] /\ wpc[v] # "idle" => v = w
      BY <1>12 DEF Cleanup, IInv, OneTicket, Busy
    <2> QED
      BY <1>0, <1>12, <2>1, <2>2 DEF FilesOf, Cleanup, WorkerReturns, WorkerAt, IInv, TypeOK
  <1>13. ASSUME NEW w \in Worker, Fail(w) PROVE FilesOf(l)'
    <2>1. wjob[w] \in Job /\ status[wjob[w]] \in {"processing", "absent"}
      BY <1>13 DEF Fail, IInv, TypeOK, Custody, Working
    <2> QED
      BY <1>0, <1>13, <2>1 DEF FilesOf, Fail, WorkerReturns, WorkerAt, IInv, TypeOK
  <1>14. ASSUME Restart PROVE FilesOf(l)'
    BY <1>14 DEF FilesOf, Restart
  <1>15. CASE UNCHANGED vars
    BY <1>0, <1>15 DEF FilesOf
  <1>18. ASSUME NEW c \in Client, RemoveDir(c) PROVE FilesOf(l)'
    <2>1. status[victim[c]] = "absent"
      BY <1>18 DEF RemoveDir, Removing, IInv, Custody
    <2> QED
      BY <1>0, <1>18, <2>1 DEF FilesOf, RemoveDir
  <1>16. ASSUME NEW c \in Client, ClientStep(c) PROVE FilesOf(l)'
    BY <1>16, <1>1, <1>2, <1>3, <1>4, <1>5, <1>18 DEF ClientStep, Enqueue
  <1>17. ASSUME NEW w \in Worker, WorkerStep(w) PROVE FilesOf(l)'
    BY <1>17, <1>6, <1>7, <1>8, <1>9, <1>10, <1>11, <1>12, <1>13 DEF WorkerStep
  <1> QED
    BY <1>14, <1>15, <1>16, <1>17 DEF Next

-----------------------------------------------------------------------------
(* The inductive invariant holds in every reachable state. *)
THEOREM Invariance == Spec => []IInv
  <1>1. Init => IInv
    BY QueueAssumption DEF Init, IInv, TypeOK, Status, ClientPC, WorkerPC, OrderIsIndex,
       Registered, OneTicket, Sending, Busy, NoStrandedJob, Custody, Working, InputKept,
       FilesFollowJobs, DoneHasResult, Removing
  <1>2. IInv /\ [Next]_vars => IInv'
    <2> SUFFICES ASSUME IInv, [Next]_vars PROVE IInv'
      OBVIOUS
    <2>1. TypeOK'
      BY TypeStep DEF IInv
    <2> QED
      BY <2>1, OrderStep, TicketStep, StrandedStep, CustodyStep, FilesStep DEF IInv
  <1> QED
    BY <1>1, <1>2, PTL DEF Spec

(* Every variable always has its type. *)
THEOREM TypeCorrect == Spec => []TypeOK
  BY Invariance, PTL DEF IInv

(* q.order and q.jobs always list the same jobs. *)
THEOREM OrderCorrect == Spec => []OrderIsIndex
  BY Invariance, PTL DEF IInv

(* A job is never in two hands. *)
THEOREM TicketCorrect == Spec => []OneTicket
  BY Invariance, PTL DEF IInv

(* No accepted job is left behind. *)
THEOREM NothingStranded == Spec => []NoStrandedJob
  BY Invariance, PTL DEF IInv

(* The input of a job waits for its worker. *)
THEOREM InputsKept == Spec => []InputKept
  BY Invariance, PTL DEF IInv

(* A done job always has its complete result. *)
THEOREM DoneCorrect == Spec => []DoneHasResult
  BY Invariance, PTL DEF IInv

(* A download only misses its file when the job was removed. *)
THEOREM DownloadCorrect == Spec => []DownloadFailsOnlyAfterRemoval
  <1>1. IInv => DownloadFailsOnlyAfterRemoval
    BY DEF IInv, TypeOK, Custody, DoneHasResult, DownloadFailsOnlyAfterRemoval, ServedFile
  <1> QED
    BY <1>1, Invariance, PTL

-----------------------------------------------------------------------------
(* What removals leave on disk.  A result needs a directory, and between   *)
(* the halves of a removal only an overtaking worker adds a file.          *)
ClearingOf(l) ==
    /\ output[l] # "none" => l \in dir
    /\ Removed(l) /\ restarts = 0 => RemovalOf(l) \/ Cleared(l)
    /\ \A c \in Client : cpc[c] \in {"evictdir", "rmdir"} /\ victim[c] = l =>
          l \notin input /\ (output[l] # "none" => l \in overtaken)

Clearing == \A l \in Job : ClearingOf(l)

(* No step but those of a removal and of a worker's files touches them. *)
LEMMA ClearingStep == IInv /\ TypeOK' /\ Clearing /\ [Next]_vars => Clearing'
  <1> SUFFICES ASSUME IInv, TypeOK', Clearing, [Next]_vars, NEW l \in Job PROVE ClearingOf(l)'
    BY DEF Clearing
  <1> USE DEF vars, memory, disk, clients, workers, Removing
  <1>0. ClearingOf(l)
    BY DEF Clearing
  <1> DEFINE Kept == /\ UNCHANGED <<dir, input, output, restarts, overtaken>>
                     /\ \A c \in Client :
                           \/ cpc'[c] = cpc[c] /\ victim'[c] = victim[c]
                           \/ cpc[c] \notin Removing /\ cpc'[c] \notin Removing
                     /\ Removed(l)' => Removed(l)
  <1>a. ASSUME Kept PROVE ClearingOf(l)'
    BY <1>0, <1>a DEF ClearingOf, RemovalOf, Cleared
  <1>1. ASSUME NEW c \in Client, NEW j \in Job, Upload(c, j) PROVE ClearingOf(l)'
    <2>1. /\ UNCHANGED <<status, owner, output, restarts, overtaken>> /\ owner[j] = NoProject
          /\ dir' = dir \cup {j} /\ input' \in {input, input \cup {j}} /\ cpc[c] = "idle"
          /\ \A d \in Client \ {c} : cpc'[d] = cpc[d] /\ victim'[d] = victim[d]
          /\ cpc'[c] \in {"idle", "register"}
      BY <1>1 DEF Upload, ClientAt, ClientRemoves, IInv, TypeOK
    <2>2. \A d \in Client : cpc[d] \in Removing => owner[victim[d]] # NoProject
      BY DEF IInv, Custody
    <2> QED
      BY <1>0, <2>1, <2>2 DEF ClearingOf, RemovalOf, Cleared, Removed
  <1>2. ASSUME NEW c \in Client, NEW p \in Project, Register(c, p) PROVE ClearingOf(l)'
    <2> DEFINE j == cjob[c]
    <2>1. /\ UNCHANGED <<dir, input, output, restarts, overtaken>> /\ j \in Job
          /\ cpc[c] = "register" /\ owner' = [owner EXCEPT ![j] = p] /\ status[j] = "absent"
      BY <1>2 DEF Register, IInv, TypeOK, Custody
    <2>2. CASE ~AtCap(p)
      <3>1. /\ status' = [status EXCEPT ![j] = "queued"] /\ ClientAt(c, "send", j)
        BY <1>2, <2>2 DEF Register
      <3>2. Kept
        BY <2>1, <3>1 DEF ClientAt, ClientRemoves, Removed, IInv, TypeOK
      <3> QED
        BY <3>2, <1>a
    <2>3. CASE AtCap(p)
      <3>1. PICK i \in DOMAIN Appended(j) :
              LET oldest == Appended(j)[i]
              IN  /\ IsOldest(i, j, p)
                  /\ status' = [status EXCEPT ![j] = "queued", ![oldest] = "absent"]
                  /\ ClientRemoves(c, "evict", j, oldest)
        BY <1>2, <2>3 DEF Register
      <3> DEFINE oldest == Appended(j)[i]
      <3>2. oldest \in Job /\ oldest # j
        BY <2>1, <2>3, <3>1, VictimIsOlder DEF JobsOf, Registered
      <3>3. /\ cpc'[c] = "evict" /\ victim'[c] = oldest
            /\ \A d \in Client \ {c} : cpc'[d] = cpc[d] /\ victim'[d] = victim[d]
            /\ \A m \in Job : status'[m] = IF m = oldest THEN "absent"
                                           ELSE IF m = j THEN "queued" ELSE status[m]
            /\ \A m \in Job : owner'[m] = IF m = j THEN p ELSE owner[m]
        BY <2>1, <3>1, <3>2 DEF ClientRemoves, IInv, TypeOK
      <3> HIDE DEF oldest
      <3>4. RemovalOf(l) => RemovalOf(l)'
        BY <2>1, <3>3 DEF RemovalOf
      <3>5. l = oldest => RemovalOf(l)'
        BY <3>3 DEF RemovalOf
      <3>6. Removed(l)' => l = oldest \/ Removed(l)
        BY <3>2, <3>3 DEF Removed
      <3> QED
        BY <1>0, <2>1, <3>3, <3>4, <3>5, <3>6 DEF ClearingOf, Cleared
    <2> QED
      BY <2>2, <2>3
  <1>3. ASSUME NEW c \in Client, Send(c) \/ Serve(c) \/ \E j \in Job : AskResult(c, j)
        PROVE Kept
    BY <1>3 DEF Send, Serve, AskResult, ClientReturns, ClientAt, ClientRemoves, Removed,
                IInv, TypeOK
  <1>4. ASSUME NEW c \in Client, NEW j \in Job, NEW p \in Project, Delete(c, j, p)
        PROVE ClearingOf(l)'
    <2>1. /\ UNCHANGED <<owner, dir, input, output, restarts, overtaken>>
          /\ cpc[c] = "idle" /\ cpc'[c] = "remove" /\ victim'[c] = j
          /\ \A d \in Client \ {c} : cpc'[d] = cpc[d] /\ victim'[d] = victim[d]
          /\ \A m \in Job : status'[m] = IF m = j THEN "absent" ELSE status[m]
      BY <1>4 DEF Delete, ClientRemoves, IInv, TypeOK
    <2>2. RemovalOf(l) => RemovalOf(l)'
      BY <2>1 DEF RemovalOf
    <2>3. l = j => RemovalOf(l)'
      BY <2>1 DEF RemovalOf
    <2> QED
      BY <1>0, <2>1, <2>2, <2>3 DEF ClearingOf, Cleared, Removed
  <1>5. ASSUME NEW c \in Client, RemoveFiles(c) PROVE ClearingOf(l)'
    <2> DEFINE v == victim[c]
    <2>1. /\ UNCHANGED <<status, owner, dir, victim, restarts, overtaken>>
          /\ v \in Job /\ input' = input \ {v}
          /\ \A m \in Job : output'[m] = IF m = v THEN "none" ELSE output[m]
          /\ cpc[c] \in Removing /\ cpc'[c] \in Removing
          /\ \A d \in Client \ {c} : cpc'[d] = cpc[d]
      BY <1>5 DEF RemoveFiles, IInv, TypeOK
    <2>2. RemovalOf(l) <=> RemovalOf(l)'
      BY <2>1 DEF RemovalOf
    <2>3. l = v => RemovalOf(l)
      BY <2>1 DEF RemovalOf
    <2> QED
      BY <1>0, <2>1, <2>2, <2>3 DEF ClearingOf, Cleared, Removed
  <1>6. ASSUME NEW c \in Client, RemoveDir(c) PROVE ClearingOf(l)'
    <2> DEFINE v == victim[c]
    <2>1. /\ UNCHANGED <<status, owner, input, output, restarts, overtaken>>
          /\ v \in Job /\ dir' = IF output[v] = "none" THEN dir \ {v} ELSE dir
          /\ cpc[c] \in {"evictdir", "rmdir"} /\ cpc'[c] \in {"send", "idle"}
          /\ \A d \in Client \ {c} : cpc'[d] = cpc[d] /\ victim'[d] = victim[d]
      BY <1>6 DEF RemoveDir, ClientReturns, ClientAt, ClientRemoves, IInv, TypeOK
    <2>2. RemovalOf(l) /\ l # v => RemovalOf(l)'
      BY <2>1 DEF RemovalOf
    <2>3. l = v => Cleared(l)'
      BY <1>0, <2>1 DEF ClearingOf, Cleared
    <2>4. l # v => (Cleared(l) <=> Cleared(l)')
      BY <2>1 DEF Cleared
    <2> QED
      BY <1>0, <2>1, <2>2, <2>3, <2>4 DEF ClearingOf, Removed
  <1>7. ASSUME NEW w \in Worker,
               \/ Receive(w) \/ Lookup(w) \/ ReadInput(w) \/ Camouflage(w)
               \/ Finish(w) \/ Fail(w)
        PROVE Kept
    <2>1. UNCHANGED <<owner, dir, input, output, clients, restarts, overtaken>>
      BY <1>7 DEF Receive, Lookup, ReadInput, Camouflage, Finish, Fail
    <2>2. status'[l] = "absent" => status[l] = "absent"
      BY <1>7 DEF Receive, Lookup, ReadInput, Camouflage, Finish, Fail, IInv, TypeOK
    <2> QED
      BY <2>1, <2>2 DEF Removed
  <1>8. ASSUME NEW w \in Worker, CreateOutput(w) PROVE ClearingOf(l)'
    <2> DEFINE j == wjob[w]
    <2>1. UNCHANGED <<status, owner, dir, input, clients, restarts>>
      BY <1>8 DEF CreateOutput
    <2>2. CASE UNCHANGED <<output, overtaken>>
      <3>1. Kept
        BY <2>1, <2>2 DEF Removed
      <3> QED
        BY <3>1, <1>a
    <2>3. CASE /\ j \in dir /\ output' = [output EXCEPT ![j] = "partial"] /\ Overtakes(j)
      <3>1. /\ output' = [output EXCEPT ![j] = "partial"] /\ overtaken \subseteq overtaken'
            /\ \A c \in Client : cpc[c] \in {"evictdir", "rmdir"} /\ victim[c] = j => j \in overtaken'
        BY <2>3 DEF Overtakes
      <3>2. \A m \in Job : m # j => output'[m] = output[m]
        BY <3>1 DEF IInv, TypeOK
      <3>3. RemovalOf(l) <=> RemovalOf(l)'
        BY <2>1 DEF RemovalOf
      <3>4. Cleared(l) => Cleared(l)'
        <4>1. CASE l # j
          BY <2>1, <3>1, <3>2, <4>1 DEF Cleared
        <4>2. CASE l = j
          <5>1. output'[l] = "partial"
            BY <3>1, <4>2 DEF IInv, TypeOK
          <5> QED
            BY <2>1, <2>3, <3>1, <4>2, <5>1 DEF Cleared
        <4> QED
          BY <4>1, <4>2
      <3> QED
        BY <1>0, <2>1, <2>3, <3>1, <3>2, <3>3, <3>4 DEF ClearingOf, Removed
    <2> QED
      BY <1>8, <2>2, <2>3 DEF CreateOutput
  <1>9. ASSUME NEW w \in Worker, FlushOutput(w) PROVE ClearingOf(l)'
    <2>1. /\ UNCHANGED <<status, owner, dir, input, clients, restarts, overtaken>>
          /\ output'[l] # "none" <=> output[l] # "none"
      BY <1>9 DEF FlushOutput, IInv, TypeOK
    <2>2. RemovalOf(l) <=> RemovalOf(l)'
      BY <2>1 DEF RemovalOf
    <2> QED
      BY <1>0, <2>1, <2>2 DEF ClearingOf, Cleared, Removed
  <1>10. ASSUME NEW w \in Worker, Cleanup(w) PROVE ClearingOf(l)'
    <2>1. /\ UNCHANGED <<status, owner, dir, output, clients, restarts, overtaken>>
          /\ input' \subseteq input
      BY <1>10 DEF Cleanup
    <2>2. RemovalOf(l) <=> RemovalOf(l)'
      BY <2>1 DEF RemovalOf
    <2> QED
      BY <1>0, <2>1, <2>2 DEF ClearingOf, Cleared, Removed
  <1>11. ASSUME Restart PROVE ClearingOf(l)'
    <2>1. /\ UNCHANGED <<dir, output>> /\ restarts' # 0
          /\ \A c \in Client : cpc'[c] = "idle"
      BY <1>11 DEF Restart, IInv, TypeOK
    <2> QED
      BY <1>0, <2>1 DEF ClearingOf
  <1>12. CASE UNCHANGED vars
    <2>1. Kept
      BY <1>12 DEF Removed
    <2> QED
      BY <2>1, <1>a
  <1> HIDE DEF Kept
  <1> QED
    BY <1>a, <1>1, <1>2, <1>3, <1>4, <1>5, <1>6, <1>7, <1>8, <1>9, <1>10, <1>11, <1>12
    DEF Next, ClientStep, Enqueue, WorkerStep

(* What a finished removal leaves on disk is what an overtaking worker put *)
(* there, for any number of requests and workers.                          *)
THEOREM RemovalCorrect == Spec => []RemovalsClear
  <1>1. Init => Clearing
    BY DEF Init, Clearing, ClearingOf, Removed
  <1>2. IInv /\ IInv' /\ Clearing /\ [Next]_vars => Clearing'
    BY ClearingStep DEF IInv
  <1>3. Clearing => RemovalsClear
    BY DEF Clearing, ClearingOf, RemovalsClear
  <1> QED
    BY <1>1, <1>2, <1>3, Invariance, PTL DEF Spec

-----------------------------------------------------------------------------
(* Only a registration adds a job to a project. *)
LEMMA NoNewJobs ==
    ASSUME IInv, [Next]_vars, ~\E c \in Client, p \in Project : Register(c, p)
    PROVE  \A q \in Project : JobsOf(q)' \subseteq JobsOf(q)
  <1> USE DEF vars, memory, disk, clients, workers, JobsOf, Registered
  <1>1. ASSUME NEW c \in Client, NEW j \in Job,
               Upload(c, j) \/ AskResult(c, j)
        PROVE owner' = owner /\ status' = status
    BY <1>1 DEF Upload, AskResult
  <1>2. ASSUME NEW c \in Client, Send(c) \/ RemoveFiles(c) \/ RemoveDir(c) \/ Serve(c)
        PROVE owner' = owner /\ status' = status
    BY <1>2 DEF Send, RemoveFiles, RemoveDir, Serve
  <1>3. ASSUME NEW c \in Client, NEW j \in Job, NEW p \in Project, Delete(c, j, p)
        PROVE owner' = owner /\ \A l \in Job : status[l] = "absent" => status'[l] = "absent"
    BY <1>3 DEF Delete, IInv, TypeOK
  <1>4. ASSUME NEW w \in Worker, WorkerStep(w)
        PROVE owner' = owner /\ \A l \in Job : status[l] = "absent" => status'[l] = "absent"
    BY <1>4 DEF WorkerStep, Receive, Lookup, ReadInput, Camouflage, CreateOutput, FlushOutput,
                Finish, Cleanup, Fail, IInv, TypeOK
  <1>5. ASSUME Restart
        PROVE owner' = owner /\ \A l \in Job : status[l] = "absent" => status'[l] = "absent"
    BY <1>5 DEF Restart
  <1>6. owner' = owner /\ \A l \in Job : status[l] = "absent" => status'[l] = "absent"
    BY <1>1, <1>2, <1>3, <1>4, <1>5 DEF Next, ClientStep, Enqueue
  <1> QED
    BY <1>6

FiniteCap ==
    \A p \in Project : IsFiniteSet(JobsOf(p)) /\ Cardinality(JobsOf(p)) <= MaxPerProject

(* The cap per project holds whatever requests run together: evicting one  *)
(* job per registration is enough.                                         *)
THEOREM CapCorrect == Spec => []PerProjectCap
  <1>1. Init => FiniteCap
    <2> SUFFICES ASSUME Init, NEW p \in Project
                 PROVE  IsFiniteSet(JobsOf(p)) /\ Cardinality(JobsOf(p)) <= MaxPerProject
      BY DEF FiniteCap
    <2>1. JobsOf(p) = {}
      BY DEF Init, JobsOf, Registered
    <2> QED
      BY <2>1, FS_EmptySet, QueueAssumption
  <1>2. IInv /\ FiniteCap /\ [Next]_vars => FiniteCap'
    <2> SUFFICES ASSUME IInv, FiniteCap, [Next]_vars, NEW q \in Project
                 PROVE  IsFiniteSet(JobsOf(q)') /\ Cardinality(JobsOf(q)') <= MaxPerProject
      BY DEF FiniteCap
    <2>0. IsFiniteSet(JobsOf(q)) /\ Cardinality(JobsOf(q)) \in Nat
          /\ Cardinality(JobsOf(q)) <= MaxPerProject
      BY FS_CardinalityType DEF FiniteCap
    <2>1. CASE JobsOf(q)' \subseteq JobsOf(q)
      <3>1. /\ IsFiniteSet(JobsOf(q)') /\ Cardinality(JobsOf(q)') \in Nat
            /\ Cardinality(JobsOf(q)') <= Cardinality(JobsOf(q))
        BY <2>0, <2>1, FS_Subset, FS_CardinalityType
      <3> QED
        BY <2>0, <3>1, QueueAssumption
    <2>2. ASSUME NEW c \in Client, NEW p \in Project, Register(c, p)
          PROVE  IsFiniteSet(JobsOf(q)') /\ Cardinality(JobsOf(q)') <= MaxPerProject
      <3> DEFINE j == cjob[c]
      <3>0. PICK V \in SUBSET JobsOf(p) : Registers(c, p, V)
        BY <2>2, RegisterFacts
      <3>1. /\ j \in Job /\ owner[j] = NoProject /\ status[j] = "absent"
            /\ \/ ~AtCap(p) /\ V = {}
               \/ \E v \in JobsOf(p) : V = {v}
            /\ \A l \in Job : status'[l] = IF l \in V THEN "absent"
                                            ELSE IF l = j THEN "queued" ELSE status[l]
            /\ owner' = [owner EXCEPT ![j] = p]
        BY <3>0 DEF Registers
      <3>2. j \notin JobsOf(p) /\ j \notin JobsOf(q)
        BY <3>1 DEF JobsOf, Registered
      <3>3. \A l \in Job : owner'[l] = IF l = j THEN p ELSE owner[l]
        BY <3>1 DEF IInv, TypeOK
      <3>4. CASE q # p
        <4>1. JobsOf(q)' \subseteq JobsOf(q)
          BY <3>1, <3>3, <3>4 DEF JobsOf, Registered
        <4> QED
          BY <4>1, <2>1
      <3>5. CASE q = p
        <4>1. JobsOf(q)' = (JobsOf(q) \ V) \cup {j}
          BY <3>1, <3>2, <3>3, <3>5 DEF JobsOf, Registered
        <4>2. IsFiniteSet(JobsOf(q) \ V) /\ j \notin JobsOf(q) \ V
          BY <2>0, <3>2, FS_Subset
        <4> DEFINE rest == JobsOf(q) \ V
        <4> HIDE DEF rest
        <4>0. /\ IsFiniteSet(rest \cup {j})
              /\ Cardinality(rest \cup {j}) = Cardinality(rest) + 1
          BY <4>2, FS_AddElement DEF rest
        <4>3. /\ IsFiniteSet(JobsOf(q)')
              /\ Cardinality(JobsOf(q)') = Cardinality(JobsOf(q) \ V) + 1
          BY <4>1, <4>0, Zenon DEF rest
        <4>4. CASE ~AtCap(p) /\ V = {}
          <5>1. JobsOf(q) \ V = JobsOf(q)
            BY <4>4
          <5>2. Cardinality(JobsOf(q)) < MaxPerProject
            BY <2>0, <3>5, <4>4, QueueAssumption DEF AtCap
          <5>3. Cardinality(JobsOf(q) \ V) + 1 <= MaxPerProject
            <6>1. Cardinality(JobsOf(q) \ V) = Cardinality(JobsOf(q))
              BY <5>1, Zenon
            <6> QED
              BY <2>0, <5>2, <6>1, QueueAssumption
          <5> QED
            BY <4>3, <5>3
        <4>5. CASE \E v \in JobsOf(p) : V = {v}
          <5>1. PICK v \in JobsOf(q) : V = {v}
            BY <3>5, <4>5
          <5>2. Cardinality(JobsOf(q) \ V) = Cardinality(JobsOf(q)) - 1
            BY <2>0, <5>1, FS_RemoveElement
          <5>3. Cardinality(JobsOf(q) \ V) + 1 <= MaxPerProject
            BY <2>0, <5>2, QueueAssumption
          <5> QED
            BY <4>3, <5>3
        <4> QED
          BY <3>1, <4>4, <4>5
      <3> QED
        BY <3>4, <3>5
    <2> QED
      BY <2>1, <2>2, NoNewJobs
  <1>3. FiniteCap => PerProjectCap
    BY DEF FiniteCap, PerProjectCap
  <1> QED
    BY <1>1, <1>2, <1>3, Invariance, PTL DEF Spec

-----------------------------------------------------------------------------
(* The refinement: every step of the queue is a step of JobLifecycle or    *)
(* leaves the life of every job as it was.                                 *)
LifeMap == [j \in Job |-> LifeOf(j)]

(* The life of a job depends on its entry and its owner only. *)
LEMMA SameLife ==
    ASSUME status' = status, owner' = owner
    PROVE  UNCHANGED LifeMap
  BY DEF LifeMap, LifeOf

(* One entry that moves between two statuses, or stays out of the map. *)
LEMMA OneJobAdvances ==
    ASSUME IInv, NEW j \in Job, owner' = owner, owner[j] # NoProject,
           NEW from \in Status \ {"absent"}, NEW to \in Status \ {"absent"},
           status[j] \in {from, "absent"},
           status' = [status EXCEPT ![j] = IF @ = "absent" THEN "absent" ELSE to]
    PROVE  \/ UNCHANGED LifeMap
           \/ /\ LifeMap[j] = from
              /\ LifeMap' = [LifeMap EXCEPT ![j] = to]
  <1>1. CASE status[j] = "absent"
    <2>1. status' = status
      BY <1>1 DEF IInv, TypeOK
    <2> QED
      BY <2>1, SameLife
  <1>2. CASE status[j] = from
    <2>1. \A l \in Job : status'[l] = IF l = j THEN to ELSE status[l]
      BY <1>2 DEF IInv, TypeOK
    <2>2. \A l \in Job : LifeOf(l)' = IF l = j THEN to ELSE LifeOf(l)
      BY <2>1 DEF LifeOf
    <2> QED
      BY <1>2, <2>2 DEF LifeMap, LifeOf
  <1> QED
    BY <1>1, <1>2

(* The queue implements the life of a job that its clients rely on. *)
THEOREM LifecycleCorrect == Spec => ImplementsLifecycle
  <1>1. Init => Lifecycle!LInit
    BY DEF Init, Lifecycle!LInit, LifeOf
  <1>2. IInv /\ IInv' /\ [Next]_vars => [Lifecycle!LNext]_LifeMap
    <2> SUFFICES ASSUME IInv, IInv', [Next]_vars
                 PROVE  Lifecycle!LNext \/ UNCHANGED LifeMap
      OBVIOUS
    <2> USE DEF vars, memory, disk, clients, workers
    <2>1. ASSUME NEW c \in Client, NEW j \in Job, Upload(c, j) \/ AskResult(c, j)
          PROVE UNCHANGED LifeMap
      BY <2>1, SameLife DEF Upload, AskResult
    <2>2. ASSUME NEW c \in Client, Send(c) \/ RemoveFiles(c) \/ RemoveDir(c) \/ Serve(c)
          PROVE UNCHANGED LifeMap
      BY <2>2, SameLife DEF Send, RemoveFiles, RemoveDir, Serve
    <2>3. ASSUME NEW c \in Client, NEW p \in Project, Register(c, p)
          PROVE Lifecycle!LNext
      <3> DEFINE j == cjob[c]
      <3>1. PICK V \in SUBSET JobsOf(p) : Registers(c, p, V)
        BY <2>3, RegisterFacts
      <3>2. /\ j \in Job /\ owner[j] = NoProject /\ status[j] = "absent" /\ j \notin V
            /\ \A l \in Job : status'[l] = IF l \in V THEN "absent"
                                           ELSE IF l = j THEN "queued" ELSE status[l]
            /\ \A l \in Job : owner'[l] = IF l = j THEN p ELSE owner[l]
            /\ \A l \in V : l \in Job /\ status[l] # "absent" /\ owner[l] # NoProject
        BY <3>1, QueueAssumption DEF Registers, JobsOf, Registered, IInv, TypeOK
      <3>3. V \in SUBSET Lifecycle!InQueue
        BY <3>2 DEF Lifecycle!InQueue, LifeOf, IInv, TypeOK, Status
      <3>4. \A l \in Job : LifeOf(l)' = IF l = j THEN "queued"
                                        ELSE IF l \in V THEN "gone" ELSE LifeOf(l)
        BY <3>2 DEF LifeOf
      <3>5. Lifecycle!Submit(j, V)
        BY <3>2, <3>4 DEF Lifecycle!Submit, LifeOf
      <3> QED
        BY <3>2, <3>3, <3>5 DEF Lifecycle!LNext
    <2>4. ASSUME NEW c \in Client, NEW j \in Job, NEW p \in Project, Delete(c, j, p)
          PROVE Lifecycle!LNext
      <3>1. /\ status[j] \in Status \ {"absent"} /\ owner' = owner
            /\ status' = [status EXCEPT ![j] = "absent"]
        BY <2>4 DEF Delete, JobsOf, Registered, IInv, TypeOK
      <3>2. owner[j] # NoProject
        BY <3>1 DEF IInv, Custody
      <3>3. \A l \in Job : LifeOf(l)' = IF l = j THEN "gone" ELSE LifeOf(l)
        BY <3>1, <3>2 DEF LifeOf, IInv, TypeOK
      <3>4. Lifecycle!Remove(j)
        BY <3>1, <3>3 DEF Lifecycle!Remove, Lifecycle!InQueue, LifeOf, Status
      <3> QED
        BY <3>4 DEF Lifecycle!LNext
    <2>5. ASSUME NEW w \in Worker, Receive(w) \/ ReadInput(w) \/ Camouflage(w)
                 \/ CreateOutput(w) \/ FlushOutput(w) \/ Cleanup(w)
          PROVE UNCHANGED LifeMap
      BY <2>5, SameLife DEF Receive, ReadInput, Camouflage, CreateOutput, FlushOutput, Cleanup
    <2>0. {"queued", "processing", "done", "error"} = Status \ {"absent"}
      BY DEF Status
    <2>6. ASSUME NEW w \in Worker, Lookup(w) PROVE Lifecycle!LNext \/ UNCHANGED LifeMap
      <3>1. /\ wjob[w] \in Job /\ owner' = owner /\ owner[wjob[w]] # NoProject
            /\ status[wjob[w]] \in {"queued", "absent"}
            /\ status' = [status EXCEPT ![wjob[w]] = IF @ = "absent" THEN "absent"
                                                     ELSE "processing"]
        BY <2>6 DEF Lookup, IInv, TypeOK, Custody, Busy
      <3>2. \/ UNCHANGED LifeMap
            \/ LifeMap[wjob[w]] = "queued" /\ LifeMap' = [LifeMap EXCEPT ![wjob[w]] = "processing"]
        BY <3>1, <2>0, OneJobAdvances
      <3> QED
        BY <3>1, <3>2 DEF LifeMap, Lifecycle!LNext, Lifecycle!Begin, Lifecycle!Advance
    <2>7. ASSUME NEW w \in Worker, Finish(w) PROVE Lifecycle!LNext \/ UNCHANGED LifeMap
      <3>1. /\ wjob[w] \in Job /\ owner' = owner /\ owner[wjob[w]] # NoProject
            /\ status[wjob[w]] \in {"processing", "absent"}
            /\ status' = [status EXCEPT ![wjob[w]] = IF @ = "absent" THEN "absent" ELSE "done"]
        BY <2>7 DEF Finish, IInv, TypeOK, Custody, Busy, Working
      <3>2. \/ UNCHANGED LifeMap
            \/ LifeMap[wjob[w]] = "processing" /\ LifeMap' = [LifeMap EXCEPT ![wjob[w]] = "done"]
        BY <3>1, <2>0, OneJobAdvances
      <3> QED
        BY <3>1, <3>2 DEF LifeMap, Lifecycle!LNext, Lifecycle!Complete, Lifecycle!Advance
    <2>8. ASSUME NEW w \in Worker, Fail(w) PROVE Lifecycle!LNext \/ UNCHANGED LifeMap
      <3>1. /\ wjob[w] \in Job /\ owner' = owner /\ owner[wjob[w]] # NoProject
            /\ status[wjob[w]] \in {"processing", "absent"}
            /\ status' = [status EXCEPT ![wjob[w]] = IF @ = "absent" THEN "absent" ELSE "error"]
        BY <2>8 DEF Fail, IInv, TypeOK, Custody, Busy, Working
      <3>2. \/ UNCHANGED LifeMap
            \/ LifeMap[wjob[w]] = "processing" /\ LifeMap' = [LifeMap EXCEPT ![wjob[w]] = "error"]
        BY <3>1, <2>0, OneJobAdvances
      <3> QED
        BY <3>1, <3>2 DEF LifeMap, Lifecycle!LNext, Lifecycle!Break, Lifecycle!Advance
    <2>9. ASSUME Restart PROVE Lifecycle!LNext
      <3>1. \A l \in Job : status'[l] = "absent" /\ owner'[l] = owner[l]
        BY <2>9 DEF Restart
      <3>2. \A l \in Job : LifeOf(l)' = IF l \in Lifecycle!InQueue THEN "gone" ELSE LifeOf(l)
        BY <3>1 DEF LifeOf, Lifecycle!InQueue, IInv, TypeOK, Status, Custody
      <3> QED
        BY <3>2 DEF Lifecycle!LNext, Lifecycle!Forget
    <2>10. CASE UNCHANGED vars
      BY <2>10, SameLife
    <2>11. ASSUME NEW c \in Client, ClientStep(c) PROVE Lifecycle!LNext \/ UNCHANGED LifeMap
      BY <2>11, <2>1, <2>2, <2>3, <2>4 DEF ClientStep, Enqueue
    <2>12. ASSUME NEW w \in Worker, WorkerStep(w) PROVE Lifecycle!LNext \/ UNCHANGED LifeMap
      BY <2>12, <2>5, <2>6, <2>7, <2>8 DEF WorkerStep
    <2> QED
      BY <2>9, <2>10, <2>11, <2>12 DEF Next
  <1> QED
    BY <1>1, <1>2, Invariance, PTL DEF Spec, ImplementsLifecycle, Lifecycle!LSpec, LifeMap
=============================================================================
