SPECIFICATION FairSpec
CONSTANTS
  Bound = 3
  Limit = 2
  MaxReports = 8
PROPERTIES
  EveryReportArrives
