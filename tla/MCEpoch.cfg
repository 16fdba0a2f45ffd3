SPECIFICATION Spec
CONSTANTS
  Users = {a, b, c, d}
  Quantities = {0, 1, 2, 4}
  MaxOrders = 4
  SCALE_FACTOR = 100
  MIDPOINT_PRICE = 50
  MIN_PRICE = 1
  MAX_PRICE = 99
  MAX_FILLS = 3
  U64Max = 10
SYMMETRY UserSymmetry
INVARIANTS TypeOK FrameIsSettleable DemandIsFilled AllocationIsProRata
CHECK_DEADLOCK FALSE
