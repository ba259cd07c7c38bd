SPECIFICATION FairSpec
CONSTANTS
  Runs = {1}
  Incidents = {i1}
  IncidentOf <- OneIncident
  Workers = {w1, w2}
  NoWorker = NoWorker
  MaxAttempts = 2
  MaxSteps = 2
  Batch = 1
  Overrun = FALSE
  MaxFaults = 2
  MaxBacklog = 1
INVARIANTS OneInvestigation TimelineOfOneAttempt EndedTimeline
PROPERTIES EndedByItsAttempt EveryRunSettles RefinesLifecycle
CHECK_DEADLOCK FALSE
