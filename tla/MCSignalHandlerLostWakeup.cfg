CONSTANTS
  sigint = sigint
  sigint2 = sigint2
  sigterm = sigterm
  sigterm2 = sigterm2
  Deliveries <- MCDeliveries

SPECIFICATION Spec
\* After wait_for_signal returns, main() stops the pipeline and exits.
CHECK_DEADLOCK FALSE

PROPERTY ShutdownObserved
