SPECIFICATION Spec
CONSTANTS
  x = x
  y = y
  Axes = {x}
  XAxis = x
  Speeds = {3}
  Steps = {2}
  Dividers = {2}
  OobFreqs = {0, 400000}
  SupervisorRate = 2
  StallThreshold = 2
  StallMaxCount = 3
  WordHalf = 8
  FreqHalf = 1048576
  MaxCmds = 2
  MaxCount = 0
INVARIANTS StopHolds
