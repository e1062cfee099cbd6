\* As Session.cfg, without an idle timeout.
CONSTANTS
  Limits = {"lifetime"}
  Idle = 2
  Lifetime = 3
  BufSize = 2
  Room = 1
  MaxBytes = 2
  MaxTime = 4
  Frames = 3
  MaxLen = 2
  Peers = {p1, p2}
  MaxReplies = 2
  MaxDatagrams = 3
SPECIFICATION Spec
INVARIANT RelayNeverPanics
CHECK_DEADLOCK FALSE
