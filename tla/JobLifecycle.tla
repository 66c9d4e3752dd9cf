---------------------------- MODULE JobLifecycle ----------------------------
(***************************************************************************)
(* What the video queue promises about the life of a job, with the files,  *)
(* the channel, the lock and the goroutines left out: a job is submitted   *)
(* once, taken by one worker once, ends once, and a removed job never      *)
(* comes back.  The status constants are those of                          *)
(* internal/videojobs/queue.go.                                            *)
(***************************************************************************)
CONSTANT Job

VARIABLE life

Life == {"unborn", "queued", "processing", "done", "error", "gone"}

InQueue == {j \in Job : life[j] \notin {"unborn", "gone"}}

LInit == life = [j \in Job |-> "unborn"]

LTypeOK == life \in [Job -> Life]

(* A submission may push out older jobs. *)
Submit(j, pushedOut) ==
    /\ life[j] = "unborn"
    /\ j \notin pushedOut
    /\ life' = [i \in Job |-> IF i = j THEN "queued"
                              ELSE IF i \in pushedOut THEN "gone" ELSE life[i]]

Advance(j, from, to) ==
    /\ life[j] = from
    /\ life' = [life EXCEPT ![j] = to]

Begin(j) == Advance(j, "queued", "processing")
Complete(j) == Advance(j, "processing", "done")
Break(j) == Advance(j, "processing", "error")

(* Removal on request. *)
Remove(j) ==
    /\ j \in InQueue
    /\ life' = [life EXCEPT ![j] = "gone"]

(* The process restarts. *)
Forget == life' = [j \in Job |-> IF j \in InQueue THEN "gone" ELSE life[j]]

LNext ==
    \/ \E j \in Job, pushedOut \in SUBSET InQueue : Submit(j, pushedOut)
    \/ \E j \in Job : Begin(j) \/ Complete(j) \/ Break(j) \/ Remove(j)
    \/ Forget

LSpec == LInit /\ [][LNext]_life
=============================================================================
