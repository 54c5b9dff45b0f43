--------------------------- MODULE MCSignalHandler ---------------------------
(* Four deliveries: a SIGINT, a repeated Ctrl+C, and a SIGTERM sent twice *)
(* (an orchestrator's stop and its retry), so that losing                 *)
(* compare-exchanges and late notifies all occur.                         *)
EXTENDS SignalHandler

CONSTANTS sigint, sigint2, sigterm, sigterm2

MCDeliveries == {sigint, sigint2, sigterm, sigterm2}
=============================================================================
