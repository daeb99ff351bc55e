SPECIFICATION Spec
CONSTANTS
  Failed = Failed
  Absent = Absent
  Tasks <- AllTasks
  MaxRuns = 2
  MaxLayouts = 1
INVARIANTS FreshOutputs LoudOrWhole Elaborates DrivenOnce Configured MetricsPrinted
CONSTRAINT LongestLast
CHECK_DEADLOCK FALSE
