\* Six chunks through a channel with three places.
CONSTANTS
  Capacity = 3
  MaxChunks = 6
SPECIFICATION Spec
INVARIANT DownlinkExact
CHECK_DEADLOCK FALSE
