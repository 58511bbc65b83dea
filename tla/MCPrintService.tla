--------------------------- MODULE MCPrintService ---------------------------
(* PrintService for TLC.                                                   *)
EXTENDS PrintService
=============================================================================
