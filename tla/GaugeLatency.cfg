SPECIFICATION FairSpec
CONSTANTS
  Hosts = {g, h}
  Lats = {1, 2, 8}
  MinLat = 2
  BaseFloor = 2
  Window = 1
  MinSamples = 2
  Share = 2
  MaxSamples = 2
INVARIANTS LatencyTypeOK LuckyFastIsNoDistress
PROPERTIES NewNormalIsLearnt
