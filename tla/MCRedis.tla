------------------------------ MODULE MCRedis ------------------------------
(***************************************************************************)
(* Instances of IntegrationQueue and Replay for TLC: what the program      *)
(* keeps in Redis.  They share no variable; one run explores them, each in *)
(* behaviours of its own.                                                  *)
(***************************************************************************)
EXTENDS IntegrationQueue, Replay

(* One tick for the first delay and two for the later ones. *)
ShortDelays == <<1, 2>>

VARIABLE part  \* what moves

InQueue == part = "queue" /\ UNCHANGED <<replayVars, part>>
InBuffer == part = "buffer" /\ UNCHANGED <<vars, part>>

MCInit == part \in {"queue", "buffer"} /\ Init /\ ReplayInit

(* A page that is gone leaves nothing to do, which is no deadlock. *)
MCNext ==
    \/ Next /\ InQueue
    \/ ReplayNext /\ InBuffer
    \/ closed /\ InBuffer /\ UNCHANGED replayVars

MCFairness ==
    /\ \A w \in Worker :
          /\ WF_<<vars, part>>(WorkerStep(w) /\ InQueue) /\ WF_<<vars, part>>(Reap(w) /\ InQueue)
          /\ WF_<<vars, part>>(Exit(w) /\ InQueue) /\ WF_<<vars, part>>(Boot(w) /\ InQueue)
    /\ WF_<<vars, part>>(Tick /\ InQueue)
    /\ WF_<<replayVars, part>>(BufferTick /\ InBuffer)
    /\ WF_<<replayVars, part>>(PostStep /\ InBuffer)
    /\ \A f \in Flusher : WF_<<replayVars, part>>(FlushStep(f) /\ InBuffer)

MCSpec == MCInit /\ [][MCNext]_<<vars, replayVars, part>> /\ MCFairness
=============================================================================
