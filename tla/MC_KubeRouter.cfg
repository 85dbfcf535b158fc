SPECIFICATION FairSpec
CONSTANTS
  ca = ca
  key = key
  svc1 = svc1
  svc2 = svc2
  Service = Service
  None = None
  Part = Part
  Files <- MCFiles
  Others <- MCOthers
  MaxGen = 2
  MaxQueue = 2
INVARIANTS CertsOfReadyRouter PortOfRouter
PROPERTY NoticesRouter
CHECK_DEADLOCK FALSE
