\* Both collectors: outages, silence, blocked publishes, pings, the end.
SPECIFICATION FairSpec
CONSTANTS
  MinBackoff = 1
  MaxBackoff = 3
  ReadTimeout = 3
  PingInterval = 2
  MaxBatch = 2
  MaxFrames = 2
  MaxCount = 1
INVARIANTS StatusTrue
PROPERTIES SilenceEnds DialsSpaced ReaderNotStuck Recovers Stops
