SPECIFICATION Spec
CONSTANTS
  f1 = f1
  f2 = f2
  t1 = t1
  t2 = t2
  t3 = t3
  Families = {f1, f2}
  Tokens = {t1, t2}
  NoToken = NoToken
  NoFamily = NoFamily
  MaxAttempts = 2
  RetryDelay <- MCRetryDelay
  InvalidDelay <- MCInvalidDelay
  BlockDelay = 2
  BreakerDelays = {1, 2}
  ValidUntil <- MCValidUntil
  MaxTime = 3
  MaxFaults = 0
PROPERTIES
  ScheduledStaysQueued
