SPECIFICATION Spec
CONSTANTS
  i1 = i1
  NoIssue = NoIssue
  Issues <- OneIssue
  Modes <- AllModes
  RequeueTargets <- AnyTarget
  AcceptGateLive = TRUE
  MaxPrs = 2
  MaxInterference = 3
INVARIANTS TypeOK BudgetIffFailed BuiltOnlyIfApproved PastImplementHasPr ParkedIsArmed RiskyArmedOnlyIfLost
PROPERTIES ImplementsLifecycle
