SPECIFICATION Spec
SYMMETRY Symmetry
CONSTANTS
  order = order
  other = other
  garbled = garbled
  Blobs <- MCBlobs
  BadBlobs <- MCBadBlobs
  Committees <- MCCommittees
  MaxTicks <- MCMaxTicks
  MaxEpoch = 2
  MaxLives = 2
  MAX_COMMITTEE = 8
INVARIANTS TypeOK OneFramePerEpoch AloneIsFresh SettlesOncePerFetch SignedMeetsQuorum SettledUnderQuorum
CHECK_DEADLOCK FALSE
