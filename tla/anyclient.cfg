SPECIFICATION FairSpec
CONSTANTS
  x = x
  y = y
  Axes = {x}
  XAxis = x
  Speeds = {3, 8}
  Steps = {1}
  Dividers = {2}
  OobFreqs <- Oob
  SupervisorRate = 2
  StallThreshold = 1
  StallMaxCount = 2
  WordHalf = 4
  FreqHalf = 1048576
  MaxCmds = 2
  MaxCount = 1
INVARIANTS TypeOK
PROPERTIES ArrivedRests
