-------------------------- MODULE MCAdminServer ---------------------------
EXTENDS AdminServer

CONSTANTS c1, c2

(* Two clients: one can be served while the other is queued, reset, or    *)
(* holding its session open across stop() and destruction.               *)
MCConns == {c1, c2}

=============================================================================
