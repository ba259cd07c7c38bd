SPECIFICATION Spec
CONSTANTS
  MaxSteps = 3
  MaxToolCalls = 2
  Docs = {d1, d2}
  Live = {d1}
  NoDoc = NoDoc
  Queries = {q1, q2}
  Tools = {t1}
  TooLong = {q2}
  MaxCitations = 1
  MaxFaults = 0
INVARIANTS CitationKeepsDiagnosis
CHECK_DEADLOCK FALSE
