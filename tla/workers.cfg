SPECIFICATION FairSpec
CONSTANTS
  N = 2
  MaxRestarts = 2
  MaxTaskRetries = 1
  MaxInitRetries = 3
  MaxFaults = 3
INVARIANTS TypeOK OneServer RestartsArePaid
PROPERTIES Recovers StartEnds
CHECK_DEADLOCK FALSE
