---------------------------- MODULE MCScanStream ----------------------------
(* Instance of ScanStream for TLC; its bounds are in MCScanStream.cfg. *)
EXTENDS ScanStream
=============================================================================
