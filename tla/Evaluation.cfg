SPECIFICATION Spec
CONSTANTS
  Firmware = {"fw", "fw2"}
  Requests <- MCRequests
  Splits <- MCSplits
  MaxRuns = 2
  MaxEdits = 1
  MaxParses = 1
INVARIANTS RowsAsRequested OneCommandLine PassIsEarned ParsersAgree
  SpeedupOverBaseline PlotsAgree PpaOfOwnDesign
PROPERTY ResultsKept
CONSTRAINT SignedByRegression
CHECK_DEADLOCK FALSE
