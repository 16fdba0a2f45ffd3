SPECIFICATION Spec
CONSTANTS
  Owners = {u1, u2}
  u1 = u1
  u2 = u2
  Wish <- MCWish
  BATCH_CAP = 2
  BATCH_BOOK_FIELDS = 3
  MAX_RETRIES = 2
  MaxInits = 1
  MaxClears = 1
  SCALE_FACTOR = 100
  MIDPOINT_PRICE = 50
  MIN_PRICE = 1
  MAX_PRICE = 99
  MAX_FILLS = 3
  U64Max = 15
INVARIANT RevealedBatchIsRelayed
CHECK_DEADLOCK FALSE
