CONSTANTS
  NoEvent = NoEvent
  Capacity <- MCCapacity
  BatchSize <- MCBatchSize
  MaxEvents <- MCMaxEvents
  IngestMayCrash = TRUE
  MayRestart = TRUE

SPECIFICATION Spec

\* After stop() returns main() exits: the final state is a real end.
CHECK_DEADLOCK FALSE

INVARIANT TypeOK
INVARIANT PersistedInOrder
INVARIANT NoMidBatchAbandon
INVARIANT VerdictsMatchLogs
PROPERTY EventualPersistence
PROPERTY ShutdownCompletes
