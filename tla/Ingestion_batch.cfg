SPECIFICATION FairSpec
CONSTANTS
  Docs = {1, 2}
  Broken = {1}
  Batches = 1
  Workers = {w1}
  NoWorker = NoWorker
  MaxAttempts = 3
  Batch = 1
  Overrun = FALSE
  MaxFaults = 1
  MaxBacklog = 1
PROPERTIES EveryDocumentSettles
CHECK_DEADLOCK FALSE
