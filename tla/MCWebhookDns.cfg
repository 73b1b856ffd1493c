\* One event to an allowed destination, one worker, no fault.
CONSTANTS
  e1 = e1  e2 = e2  w1 = w1  w2 = w2
  Events = {e1}
  Workers = {w1}
  Forbidden = {}
  NoOwner = NoOwner
  NoEvent = NoEvent
  WebhookMaxAttempts = 2
  MaxFaults = 0
SPECIFICATION Spec
CHECK_DEADLOCK FALSE
INVARIANTS
  GivenUpAfterRetries
