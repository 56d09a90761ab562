---------------------------- MODULE MCFdcHistory ----------------------------
(* The instances of MCSonyFdc for FdcHistory. *)
EXTENDS FdcHistory, MCSonyFdc
=============================================================================
