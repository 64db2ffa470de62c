----------------------- MODULE MCServiceAvailability -----------------------
(* Instances of ServiceAvailability for TLC.                               *)
EXTENDS ServiceAvailability
=============================================================================
