SPECIFICATION Spec
CONSTANTS
  MaxSize = 3
  NoIP = 0
  MaxMinor = 29
  MaxCalls = 2
  MaxFaults = 1
  Chunks = 2
  Topologies <- MCTopologies
INVARIANT OutputComplete
CHECK_DEADLOCK FALSE
