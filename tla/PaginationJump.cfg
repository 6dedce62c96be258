CONSTANTS
  Rows = {1, 2, 3, 4}
  PageSizes = {1}
  MaxJump = 1
  JumpTargets = {1, 3}
  MaxPage = 4
  MaxWritable = 2
SPECIFICATION Spec
PROPERTIES JumpIsCapped
