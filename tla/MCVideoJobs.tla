----------------------------- MODULE MCVideoJobs -----------------------------
(* Instances of VideoJobs for TLC. *)
EXTENDS VideoJobs, TLC

Symmetry == Permutations(Client) \cup Permutations(Worker) \cup Permutations(Job) \cup Permutations(Project)
=============================================================================
