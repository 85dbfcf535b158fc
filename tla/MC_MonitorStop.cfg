SPECIFICATION FairSpec
CONSTANT MaxSamples = 2
PROPERTY StopCompletes
CHECK_DEADLOCK FALSE
