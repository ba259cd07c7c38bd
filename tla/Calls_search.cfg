SPECIFICATION Spec
CONSTANTS
  None = None
  NaN = NaN
  Lines <- SomeLines
  MaxLines = 1
  Times = {0, 1, 2}
  CheckEvery = 2
  DefaultLimit = 2
  MaxLogLines = 2
  Spans = {4, 7, 12}
  Steps = {1, 2, 5}
  MinStep = 2
  MaxRange = 7
  StepDivisor = 2
  Values = {1, 2, 3}
  MaxPoints = 5
  Rendered = 3
  Texts <- SomeTexts
  LimitBytes = 7
  MarkerBytes = 2
  ChatTimeout = 1
  ChatRetries = 0
  EmbedTimeout = 1
  EmbedRetries = 0
  SearchTimeout = 1
  ToolTimeout = 1
  MaxRun = 1
  MaxSteps = 1
  LongestSearch = 4
  BaseDelay = 1
  MaxDelay = 2
  Width = 4
  RetryAfters = {0, 1, 3, 9}
  Chunks = 3
  BatchSize = 2
INVARIANT SearchIsBounded
CHECK_DEADLOCK FALSE
