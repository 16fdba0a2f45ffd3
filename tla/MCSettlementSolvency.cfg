SPECIFICATION Spec
CONSTANTS
  Users = {u1, u2}
  MM = mm
  SCALE_FACTOR = 100
  MIDPOINT_PRICE = 50
  MIN_PRICE = 1
  MAX_PRICE = 99
  MAX_FILLS = 64
  U64Max = 7
  Quantities = {0, 3}
  Epochs = {1, 2}
  Amounts = {1, 2}
  UserTokens = 2
  MmTokens = 2
  Frames <- MCFrames
  RiskParams <- MCRiskParams
  Endowment <- MCEndowment
INVARIANT VaultIsSolvent
