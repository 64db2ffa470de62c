-------------------------- MODULE MCDataNotification --------------------------
(* Instances of DataNotification for TLC. *)
EXTENDS DataNotification
===============================================================================
