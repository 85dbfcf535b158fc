SPECIFICATION CleanFairSpec
CONSTANTS
  a1 = a1
  a2 = a2
  router = router
  Apps <- MCApps
  Router <- router
  MaxEvents = 4
  MaxCleans = 2
INVARIANTS CleanMeansDeleted NoReplicasLeft
PROPERTY CleanReturns
CHECK_DEADLOCK FALSE
