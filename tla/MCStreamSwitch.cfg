SPECIFICATION FairSpec
CONSTANTS
  Channel <- MCChannel
  Selectable <- MCChannel
  Udp = TRUE
  NoFrame = NoFrame
  MaxGeneration = 2
  MaxFailures = 2
  MaxDelay = 1
INVARIANTS
  QueueIsCurrent
  LabelMatchesSource
PROPERTIES
  KeyframeFirst
  OldSourceEnds
  NewSourceShown
  StopEndsThread
