SPECIFICATION Spec
CONSTANTS
  Channel <- MCChannel
  NoChannel = NoChannel
  Reconnecting <- MCReconnecting
  Hdmi <- MCHdmi
  QueueSize = 2
  MaxThreads = 2
INVARIANTS
  FileHasOneWriter
  HandleNamesThread
  NoFrameLeftBehind
PROPERTIES
  StopFinishesFile
