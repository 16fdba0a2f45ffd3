SPECIFICATION Spec
CONSTANTS
  u1 = u1
  u2 = u2
  Users = {u1, u2}
  MM = mm
  Authority = authority
  Market = this_market
  OtherMarket = other_market
  ClusterKey = cluster_key
  OtherKey = other_key
  Quantities = {1, 2}
  MaxOrders = 3
  NodeCounts = {0, 2, 3}
  U64Max = 3
  MAX_FILLS = 64
  MAX_COMMITTEE = 16
  Threshold = 2
  Epoch = 1
  Tokens = 2
  Backstop = 1
  SCALE_FACTOR = 100
  MIDPOINT_PRICE = 50
  MIN_PRICE = 1
  MAX_PRICE = 99
  Blobs <- MCBlobs
  Members <- MCMembers
  Risk <- MCRisk
  Stake <- MCStake
INVARIANTS EngineTypeOK SumsAreShared SettledAsSealed TrustIsEarned BuiltIsAccepted
PROPERTIES ImplementsEpoch
CHECK_DEADLOCK FALSE
