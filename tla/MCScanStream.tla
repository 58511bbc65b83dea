---------------------------- MODULE MCScanStream ----------------------------
(* ScanStream for TLC.                                                     *)
EXTENDS ScanStream
=============================================================================
