SPECIFICATION FairToolsSpec
CONSTANTS
  Capacity = 2
  MaxOutput = 3
  MaxFiles = 2
  MaxTests = 2
INVARIANTS
  ToolsTypeOK
  NothingLeaks
  ReportIsFaithful
  SummaryIsTrue
  LinkedMeansNew
PROPERTIES
  ToolsEnd
CHECK_DEADLOCK FALSE
