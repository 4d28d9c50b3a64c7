SPECIFICATION Spec
CONSTANTS
  Count = 3
  MaxId = 5
  Loads <- MCLoads
INVARIANTS
  ExactlyOnce
  NothingForgotten
  RecordsSound
  ValidPacketsAccepted
  AllResent
PROPERTIES
  RecordsDrain
\* A behaviour ends when its bounds are reached.
CHECK_DEADLOCK FALSE
