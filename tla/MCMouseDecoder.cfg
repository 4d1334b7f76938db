CONSTANTS
  Width <- MCWidth
  Height <- MCHeight
  Motions <- MCMotions
  Buttons <- MCButtons
SPECIFICATION MouseSpec
INVARIANTS
  MouseTypeOK
  InStepIsExact
  QuietReportResynchronises
  EventsMatchButtons
