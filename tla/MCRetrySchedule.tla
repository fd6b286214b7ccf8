-------------------------- MODULE MCRetrySchedule --------------------------
(* Instances of RetrySchedule for TLC. *)
EXTENDS RetrySchedule, TLC

WorkerSymmetry == Permutations(Workers)
=============================================================================
