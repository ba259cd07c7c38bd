SPECIFICATION FairSpec
CONSTANTS
  MaxSteps = 2
  MaxAttempts = 2
  MaxFaults = 3
INVARIANTS SentOnce ShownIsOneAttempt SettledIsTruth
PROPERTIES PageSettles
CHECK_DEADLOCK FALSE
