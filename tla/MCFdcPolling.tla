---------------------------- MODULE MCFdcPolling ----------------------------
(* The instances of MCSonyFdc for FdcPolling. *)
EXTENDS FdcPolling, MCSonyFdc
=============================================================================
