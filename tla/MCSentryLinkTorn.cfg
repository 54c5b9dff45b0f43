CONSTANTS
  l1 = l1
  l2 = l2
  H = H
  N = N
  Logs <- MCLogs
  Hello <- H
  NL <- N
  ReadMax <- MCReadMax

SPECIFICATION Spec

\* The agent ships a bounded set of lines; the run ends when all are read.
CHECK_DEADLOCK FALSE

INVARIANT NoTornFrames
