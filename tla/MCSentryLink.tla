---------------------------- MODULE MCSentryLink ----------------------------
EXTENDS SentryLink

CONSTANTS l1, l2, H, N

(* Two log lines besides the handshake: three messages of three bytes can *)
(* be in flight together, and the core reads one or two bytes at a time.  *)
MCLogs == {l1, l2}
MCReadMax == 2
=============================================================================
