CONSTANTS
  Rows = {1, 2, 3, 4, 5}
  PageSizes = {2}
  MaxJump = 2
  JumpTargets = {0, 1, 3, 4}
  MaxPage = 5
  MaxWritable = 2
SPECIFICATION Spec
INVARIANTS TypeOK WalkSeesWhatStays PageNumberIsPosition HasNextIsExact
