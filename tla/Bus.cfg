\* Two publishers and two subscribers: safety, the stream refinement, progress.
SPECIFICATION FairSpec
CONSTANTS
  p1 = p1  p2 = p2  s1 = s1  s2 = s2
  Publishers <- MCPublishers
  Subscribers <- MCSubscribers
  Buffer = 1
  MaxEvents = 2
\* After the shutdown nothing is left to do.
CHECK_DEADLOCK FALSE
INVARIANTS NoGap CrashOnlyAtShutdown
PROPERTIES StreamSpec PublishReturns EventsReceived
