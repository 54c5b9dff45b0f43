CONSTANTS
  A = A
  NL = NL
  conn1 = conn1
  conn2 = conn2
  Conns = {conn1, conn2}
  Bytes <- MCBytes
  ReadMax <- MCReadMax
  FrameMax <- MCFrameMax
  PayloadMax <- MCPayloadMax
  Streams <- LongLineStreams

SPECIFICATION Spec
\* Once every connection is closed the ingest thread waits in accept.
CHECK_DEADLOCK FALSE

INVARIANT ChunkingInvariance
