SPECIFICATION LaneFairSpec
CONSTANTS
  N = 1
  LaneRetries = 2
  MaxLaneLost = 0
  MaxPushes = 0
PROPERTY StaleRebasesEnd
