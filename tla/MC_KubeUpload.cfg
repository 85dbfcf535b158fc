SPECIFICATION UploadFairSpec
CONSTANTS
  p1 = p1
  p2 = p2
  p3 = p3
  n1 = n1
  n2 = n2
  n3 = n3
  Pods <- MCPods
  Label <- OwnLabels
INVARIANTS SendsFreely AliasesBeforeRules UploadedAll
PROPERTIES FanOuts UploadEnds
CHECK_DEADLOCK FALSE
