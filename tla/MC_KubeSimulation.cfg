SPECIFICATION KubeSpec
CONSTANTS
  n1 = n1
  n2 = n2
  p1 = p1
  p2 = p2
  Nodes <- MCNodes
  Pids <- MCPids
  NoFile = NoFile
  Router = Router
  Service = Service
  MaxArgs = 1
  MaxRuns = 2
  MaxTime = 2
  MaxOver = 1
SYMMETRY Symmetry
INVARIANTS RunsOnDeployment StatsCoverRound NoStaleSuccess StopClosesLast
CHECK_DEADLOCK FALSE
