SPECIFICATION LiveSpec
CONSTANTS
  NoTimer = NoTimer
  TimerIds <- ThreeTimers
  ReadIds <- TwoReads
  PollEvery = 1  BackoffBase = 1  BackoffMax = 3
  Threshold = 3  MaxEvents = 2  MaxAttempts = 3
INVARIANT NeverStranded
PROPERTIES QuietAfterDisconnect PollingCatchesUp
CHECK_DEADLOCK FALSE
