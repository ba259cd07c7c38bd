SPECIFICATION FairSpec
CONSTANTS
  MaxSteps = 3
  MaxToolCalls = 2
  Docs = {d1, d2}
  Live = {d1}
  NoDoc = NoDoc
  Queries = {q1, q2}
  Tools = {t1}
  TooLong = {q2}
  MaxCitations = 2
  MaxFaults = 1
INVARIANTS BudgetKept AuditTrail CitationsHold
PROPERTIES AttemptEnds RefinesContract
CHECK_DEADLOCK FALSE
