SPECIFICATION Spec
CONSTANTS
  i1 = i1
  i2 = i2
  NoIssue = NoIssue
  Issues <- TwoIssues
  Listing <- NewestFirst
  MaxPrs = 1
  Modes <- LiveOnly
  MaxRequeues = 0
PROPERTY
  OtherWorkIsClaimed
