SPECIFICATION FairSpec
CONSTANTS
  n1 = n1
  n2 = n2
  old = old
  Nodes <- MCNodes
  OldPods <- MCOldPods
  MaxGen = 2
  MaxQueue = 2
INVARIANT ReadyPodPerNode
PROPERTY NoticesReady
CHECK_DEADLOCK FALSE
