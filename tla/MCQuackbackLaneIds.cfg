SPECIFICATION Spec
CONSTANTS
  p1 = p1
  p2 = p2
  NoPost = NoPost
  MaxPrs = 1
  Posts <- TwoPosts
  Modes <- LiveOnly
  LoopEnabled <- LoopOn
  AcceptGateLive = TRUE
  MaxActs = 0
  MaxFailures = 0
INVARIANT ShippedMeansMerged
