------------------------------ MODULE MCCmLock ------------------------------
(* The instance of CmLock that TLC checks: MCCmLock.cfg. *)
EXTENDS CmLock
=============================================================================
