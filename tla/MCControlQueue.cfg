SPECIFICATION FairSpec
CONSTANTS
  console = console
  usb = usb
  hdmi = hdmi
  Caller <- MCCaller
  Channel <- MCChannel
  Capacity = 2
  IdLimit = 5
  MaxRequests = 5
  NoRequest = NoRequest
  Free = Free
INVARIANTS
  NoLostWakeup
  NothingLost
  OutstandingIdsDistinct
PROPERTIES
  ImplementsPipe
  AcceptedCompletes
  DeinitReturns
