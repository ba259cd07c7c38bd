SPECIFICATION FairSpec
CONSTANTS
  Docs = {1}
  Broken = {}
  Batches = 2
  Workers = {w1, w2}
  NoWorker = NoWorker
  MaxAttempts = 2
  Batch = 1
  Overrun = FALSE
  MaxFaults = 3
  MaxBacklog = 2
INVARIANTS ReadyIsComplete OneIngestion
PROPERTIES EveryDocumentSettles
CHECK_DEADLOCK FALSE
