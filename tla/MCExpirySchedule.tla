-------------------------- MODULE MCExpirySchedule --------------------------
(* Instances of ExpirySchedule for TLC. *)
EXTENDS ExpirySchedule
=============================================================================
