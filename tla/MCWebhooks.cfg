\* Two events, one to a refused destination, two workers, two tries, two faults.
CONSTANTS
  e1 = e1  e2 = e2  w1 = w1  w2 = w2
  Events = {e1, e2}
  Workers = {w1, w2}
  Forbidden = {e2}
  NoOwner = NoOwner
  NoEvent = NoEvent
  WebhookMaxAttempts = 2
  MaxFaults = 2
SPECIFICATION FairSpec
CHECK_DEADLOCK FALSE
INVARIANTS
  DuplicatesAccountedFor
PROPERTIES
  ImplementsEventDelivery
  EventsEnd
