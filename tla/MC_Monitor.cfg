SPECIFICATION FairSpec
CONSTANT MaxSamples = 6
INVARIANTS LinesFollowStream NoMisleadingError BackPressure
PROPERTIES PipeSpec SampleWritten StopWaitsOnlyForSend
CHECK_DEADLOCK FALSE
