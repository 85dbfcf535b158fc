SPECIFICATION FairSpec
CONSTANTS
  MaxSize = 3
  NoIP = 0
  MaxMinor = 29
  MaxCalls = 2
  MaxFaults = 1
  Chunks = 2
  Topologies <- MCTopologies
INVARIANTS ShapedAsAsked FirstUploadSucceeds ExecReports ReadWhole SuccessLeavesNothing
PROPERTIES WriteWhole CutAsAsked CallReturns
CHECK_DEADLOCK FALSE
