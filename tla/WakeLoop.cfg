SPECIFICATION FairSpec
CONSTANTS
  MaxQueued = 4
  MaxPrepares = 3
INVARIANT TypeOK
PROPERTIES
  EventsServed
  InstructionsServed
