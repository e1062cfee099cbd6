\* Two addresses, bans of 2 and then 4 instants, a window of 3; and RPCs
\* through several seconds of two ticks, without a limit or with one of 1 or 2.
CONSTANTS
  IPs = {a, b}
  MaxFailures = 2
  Window = 3
  BanBase = 1
  BanMax = 4
  MaxTime = 8
  MaxLevel = 3
  RpcLimits = {0, 1, 2}
  RpcWindow = 2
  MaxClock = 6
  MaxCalls = 8
SPECIFICATION LimitersSpec
INVARIANT RpcsAreLimited
PROPERTIES ImplementsAuthBan BanOutlastsCalls PersistentOffenderEscalates
CHECK_DEADLOCK FALSE
