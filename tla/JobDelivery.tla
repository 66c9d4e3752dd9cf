----------------------------- MODULE JobDelivery -----------------------------
(***************************************************************************)
(* What the retry queue promises about a job, with the list, the sorted    *)
(* set, the workers and the processes left out: an accepted job waits and  *)
(* is tried by turns, one try at a time and MaxAttempts at most, until a   *)
(* try succeeds, until the last one has failed, or until a fault or a stop *)
(* loses it; and what has ended stays ended.                               *)
(***************************************************************************)
EXTENDS Naturals

CONSTANTS Job, MaxAttempts

VARIABLES
    state, \* per job: new, waiting, trying, delivered, failed or lost
    tries  \* per job: tries begun

DInit ==
    /\ state = [j \in Job |-> "new"]
    /\ tries = [j \in Job |-> 0]

Moves(j, from, to) ==
    /\ state[j] = from
    /\ state' = [state EXCEPT ![j] = to]

Accept(j) == Moves(j, "new", "waiting") /\ UNCHANGED tries

Attempt(j) ==
    /\ tries[j] < MaxAttempts
    /\ Moves(j, "waiting", "trying")
    /\ tries' = [tries EXCEPT ![j] = @ + 1]

Succeed(j) == Moves(j, "trying", "delivered") /\ UNCHANGED tries

TryLater(j) ==
    /\ tries[j] < MaxAttempts
    /\ Moves(j, "trying", "waiting") /\ UNCHANGED tries

Abandon(j) ==
    /\ tries[j] = MaxAttempts
    /\ Moves(j, "trying", "failed") /\ UNCHANGED tries

Lose(j) ==
    /\ Moves(j, "waiting", "lost") \/ Moves(j, "trying", "lost")
    /\ UNCHANGED tries

DNext ==
    \E j \in Job :
        Accept(j) \/ Attempt(j) \/ Succeed(j) \/ TryLater(j) \/ Abandon(j) \/ Lose(j)

DSpec == DInit /\ [][DNext]_<<state, tries>>
=============================================================================
