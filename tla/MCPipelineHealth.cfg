CONSTANTS
  NoEvent = NoEvent
  Capacity <- MCCapacity
  BatchSize <- MCBatchSize
  MaxEvents <- MCMaxEvents
  IngestMayCrash = TRUE
  MayRestart = FALSE

SPECIFICATION Spec

\* After stop() returns main() exits: the final state is a real end.
CHECK_DEADLOCK FALSE

INVARIANT HealthyMeansIngesting
