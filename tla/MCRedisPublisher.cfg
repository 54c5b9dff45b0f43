CONSTANTS
  MaxPublishes <- MCMaxPublishes
  MaxCrashes <- MCMaxCrashes

SPECIFICATION Spec

\* The run ends when its publish calls and crashes are used up.
CHECK_DEADLOCK FALSE

INVARIANT LossesBoundedByCrashes
