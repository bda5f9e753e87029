SPECIFICATION Spec
CONSTANTS
  Counts = {1, 170}
  MaxFrames = 3
  MaxFaults = 0
INVARIANT ValidAcknowledged
CHECK_DEADLOCK FALSE
