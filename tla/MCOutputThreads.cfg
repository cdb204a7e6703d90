\* Two weather reports and a status report over two days; any file may fail to open.
CONSTANTS
  Kinds       <- SomeKinds
  Values       = {1, 2}
  ElementCount = 9
  NoKind       = NoKind
  Missing      = Missing
  MaxReports  <- FewReports
  MaxDay       = 1
  None         = None
SPECIFICATION Spec
INVARIANTS TypeOK EachRowOnce FileOfTheDay DatagramsComplete
PROPERTY EveryReportOut
CHECK_DEADLOCK FALSE
