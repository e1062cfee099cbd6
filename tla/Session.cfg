\* A few bytes each way for the TCP relay, three UDP frames that arrive in
\* any pieces, and three datagrams of two SOCKS5 peers.
CONSTANTS
  Limits = {"idle", "lifetime"}
  Idle = 2
  Lifetime = 3
  BufSize = 2
  Room = 1
  MaxBytes = 2
  MaxTime = 4
  Frames = 3
  MaxLen = 2
  Peers = {p1, p2}
  MaxReplies = 2
  MaxDatagrams = 3
SPECIFICATION FairSpec
INVARIANTS RelayedIsExact RepliesMatch
PROPERTIES ImplementsPipes IdleOnlyWhenIdle LifetimeCloses ControlCloseEnds
CHECK_DEADLOCK FALSE
