SPECIFICATION RunSpec
CONSTANTS
  n1 = n1
  n2 = n2
  Nodes <- MCNodes
  MaxGen = 1
  MaxArgs = 1
  MaxRuns = 2
SYMMETRY Symmetry
INVARIANT CleanWipesAll
CHECK_DEADLOCK FALSE
