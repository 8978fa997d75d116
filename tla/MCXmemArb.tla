------------------------------ MODULE MCXmemArb ------------------------------
(***************************************************************************)
(* XmemArb with two addresses besides 0.                                   *)
(***************************************************************************)
EXTENDS XmemArb
=============================================================================
