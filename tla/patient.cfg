SPECIFICATION PatientFairSpec
CONSTANTS
  x = x
  y = y
  Axes = {x, y}
  XAxis = x
  Speeds = {3}
  Steps = {2, 5}
  Dividers = {2}
  OobFreqs = {0}
  SupervisorRate = 1
  StallThreshold = 3
  StallMaxCount = 2
  WordHalf = 8
  FreqHalf = 1048576
  MaxCmds = 2
  MaxCount = 0
INVARIANTS ExactMove StoppedCannotMove StalledHalted RampInRange PatientInv
PROPERTIES ImplementsAxisMoves MoveEnds
