SPECIFICATION Spec
CONSTANTS
  i1 = i1
  i2 = i2
  NoIssue = NoIssue
  Issues <- TwoIssues
  Listing <- NewestFirst
  MaxPrs = 1
  Modes <- AllModes
  MaxRequeues = 1
INVARIANTS TypeOK
PROPERTIES NoOvertaking TaggedSettles
