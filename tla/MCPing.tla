------------------------------- MODULE MCPing -------------------------------
(* The probe engine for TLC.  The configurations shrink the sequence space  *)
(* to four or eight numbers, so that a short run wraps around it.           *)
EXTENDS PingEngine
=============================================================================
