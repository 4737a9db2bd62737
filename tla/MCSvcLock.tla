------------------------------ MODULE MCSvcLock ------------------------------
(* The service-domain locks on two cores, with every domain set of the code. *)
EXTENDS SvcLock

CONSTANTS c0, c1

MCCores == {c0, c1}
=============================================================================
