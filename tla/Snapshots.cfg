SPECIFICATION SnapshotsFairSpec
CONSTANTS
  MaxNetworkId = 3
  ComponentIds = {1, 2}
  MaxTicks = 2
  Capacity = 3
  Watched = {3}
INVARIANTS DeltaIsExact SpawnInv IdsMatchComponents CurrentIsShown
PROPERTIES ImplementsSharedWorld OnlyTheGoneGoBack Converges
