SPECIFICATION DevicesSpec
CONSTANTS
  Depth = 2
  MaxRecordings = 2
  MaxStops = 2
  MaxLosses = 1
  Pictures = TRUE
  MaxLensLosses = 3
  MaxOpens = 2
  Peer = {"a", "b"}
  MaxCommands = 3
  MaxFaults = 2
INVARIANTS
  MovesAsRemembered
  StillAfterStop
  GimbalFollows
  NothingLeftOn
  RecordingsWhole
  AnswersTheSender
PROPERTIES
  HeldMoves
  ServesInOrder
  RequestsServed
  StopsReturn
CHECK_DEADLOCK FALSE
