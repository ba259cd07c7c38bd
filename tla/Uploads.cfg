SPECIFICATION Spec
CONSTANTS
  None = None
  Types = {"runbook", "postmortem"}
  Stored <- TwoStored
  MaxUploads = 2
  MaxBytes = 1
  Sizes = {1, 2}
  DefaultLimit = 1
  MaxLimit = 2
  MaxFailures = 2
INVARIANTS RowHasFile AnswersAreTrue PagesPartition
CHECK_DEADLOCK FALSE
