SPECIFICATION CleanSpec
CONSTANTS
  a1 = a1
  a2 = a2
  router = router
  Apps <- MCApps
  Router <- router
  MaxEvents = 3
  MaxCleans = 1
INVARIANT MissingServiceIgnored
CHECK_DEADLOCK FALSE
