CONSTANTS
  c1 = c1
  c2 = c2
  Conns <- MCConns
  MayRestart = FALSE

SPECIFICATION Spec


\* The program ends when the Pipeline owning the server is destroyed.
CHECK_DEADLOCK FALSE

INVARIANT HealthProbeAnswered
