SPECIFICATION Spec
CONSTANTS
  NoTimer = NoTimer
  TimerIds <- ThreeTimers
  ReadIds <- TwoReads
  PollEvery = 1  BackoffBase = 1  BackoffMax = 3
  Threshold = 3  MaxEvents = 0  MaxAttempts = 3
PROPERTIES PollsAreSpaced
CHECK_DEADLOCK FALSE
