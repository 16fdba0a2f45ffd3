SPECIFICATION Spec
CONSTANTS
  Residuals <- MCResiduals
  Conditions <- MCConditions
  Policy <- MCPolicy
  InitialRisk <- MCInitialRisk
  MaxEvents <- MCMaxEvents
  MaxBatches = 2
  MaxRetunes = 2
  MaxStarts = 2
  SCALE_FACTOR = 100
  MIDPOINT_PRICE = 50
  MIN_PRICE = 1
  MAX_PRICE = 99
  MAX_FILLS = 64
  U64Max = 120
INVARIANTS TypeOK NeverOverhedged LimitIsPricePaid SyncedBySerialRetunes PlacedIsReturned
CHECK_DEADLOCK FALSE
