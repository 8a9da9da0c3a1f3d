SPECIFICATION Spec
CONSTANTS
  i1 = i1
  NoIssue = NoIssue
  Issues <- OneIssue
  Modes <- LiveOnly
  RequeueTargets <- DefaultTarget
  AcceptGateLive = TRUE
  MaxPrs = 2
  MaxInterference = 2
INVARIANT
  PartialSpecPrRetries
