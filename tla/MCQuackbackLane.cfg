SPECIFICATION FairSpec
CONSTANTS
  p1 = p1
  p2 = p2
  NoPost = NoPost
  MaxPrs = 1
  Posts <- OnePost
  Modes <- AllModes
  LoopEnabled <- WithAndWithoutLoop
  AcceptGateLive = TRUE
  MaxActs = 3
  MaxFailures = 2
INVARIANTS TypeOK ShippedOnlyIfMerged MergedIsShipped
PROPERTIES DecisionStands QueuedOnlyIfAsked AcceptIsQueued
