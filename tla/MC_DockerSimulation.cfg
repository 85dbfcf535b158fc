SPECIFICATION FairRunSpec
CONSTANTS
  n1 = n1
  n2 = n2
  Nodes <- MCNodes
  MaxGen = 2
  MaxArgs = 2
  MaxRuns = 2
PROPERTY CleanedInTheEnd
INVARIANTS StreamsClosed RulesBeforeRound
INVARIANTS CallsInOrder CleansBeforeReturn FirstErrorReturned
INVARIANTS CleanWipesRunning
CHECK_DEADLOCK FALSE
