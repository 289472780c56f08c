\* Up to three reports of two conversations, the log read at any moment.
CONSTANTS
  Idf = {1, 10}
  Cut <- MCCut
  MaxReports = 3
SPECIFICATION Spec
INVARIANTS
  TypeOK
  RowsAreReports
  CountsOffByOneRow
CHECK_DEADLOCK FALSE
