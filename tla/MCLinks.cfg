SPECIFICATION MCSpec
CONSTANTS
  Frame = {f1, f2, f3}
  NoFrame = NoFrame
  NotAllocated = NotAllocated
  Size = 3
  MaxDropped = 4
  MaxCalls = 3
  MaxLosses = 1
  LastSequence = 3
  MaxLate = 3
  MaxSends = 5
  MaxReports = 1
  Channels = 3
  MaxWaiting = 2
  MaxPresses = 4
  Buffer = {"b1", "b2"}
  MaxOpens = 3
  MaxFaults = 2
  Width = 2
  Height = 3
  Pitches = {0, 4}
  Lengths = {6, 9, 10, 11, 12, 18, 24}
  Address = {1, 2}
  MaxFrames = 3
  Source = {"usb", "csi"}
  MaxNow = 3
  MaxUpdates = 2
  MaxOsdFaults = 1
  KeyCounts = {1, 170}
  MaxKeyFrames = 3
  MaxKeyFaults = 1
  Capacity = 2
  Modulus = 4
  MaxBytes = 5
  MaxDatagramsLost = 1
  MinSize = 4
  MaxSize = 6
  Header = 3
  ChunkSize = 3
  BufferSize = 12
  MaxPackets = 3
  MaxChunksLost = 1
  MaxByteFaults = 1
  DamagedBit = {0, 3, 7}
  Positions <- MCPositions
  Limits <- MCLimits
  FocusPositions = {0, 255, 256, 4095}
  Stiffness = {0, 100, 101}
  LaserSettings = {0, 1}
  MaxItemSends = 2
  MaxTlv = 4
INVARIANTS
  PinsExactlyTheQueued
  AnswersAreOwn
  BytesAgree
  FramesKept
  PressesCount
  PicturesHold
PROPERTIES
  ImplementsFifo
CHECK_DEADLOCK FALSE
