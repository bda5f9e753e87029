SPECIFICATION FairSpec
CONSTANTS
  Channel <- MCOneChannel
  NoChannel = NoChannel
  Reconnecting <- MCReconnecting
  Hdmi <- MCHdmi
  QueueSize = 2
  MaxThreads = 3
PROPERTIES
  StopReturns
  LossEndsRecording
  DeinitReturns
