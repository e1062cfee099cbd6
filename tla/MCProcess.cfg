\* Every single change to a working configuration.
CONSTANTS
  ServerFiles <- MCServerFiles
  ClientFiles <- MCClientFiles
  Bypass = {proxy, other}
SPECIFICATION FairSpec
INVARIANTS CheckedConfigStarts LeftoversExplained
PROPERTIES ShutdownEnds DeadChildIsNoticed
