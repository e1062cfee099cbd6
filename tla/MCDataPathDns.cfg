CONSTANTS
  Packets = 4
  MaxCopies = 2
  QueueSize = 2
  Inputs <- MCInputs
  Auths = {"no-auth", "user-pass"}
  Uuid <- MCUuid
  Users <- MCUsers
  Requests <- MCRequests
  Messages <- MCMessages
  Following <- MCFollowing
  Local <- MCLocal
  Remotes <- MCRemotes
  Sizes = {1000, 1373}
  Upstream <- MCUpstream
  Modes = {"none", "udp", "doh"}
  Configured = 1400
  Overhead = 80
  PathMtus = {0, 65536, 1200}
  IcmpMtus = {300, 800}
  MaxDatagrams = 3
  Streams <- MCStreams
  Chunk = 4
  Cap = 10
  Queries = {0, 3, 5, 7}
  Answers <- MCAnswers
  DohMax = 4
  DotMax = 6
  HeaderMax = 6
  BodyMax = 5
  Piece = 3
  SizeMax = 63
  WriteSizes = {1, 2}
  MaxWritten = 3
  ReadSize = 3
  Scenarios <- MCScenarios
  MaxPieces = 2
  UploadQueue = 2
  ChannelSize = 2
  MaxUp = 6
  Capacity = 2
  MaxChunks = 4
SPECIFICATION PathSpec
INVARIANT QueriesNeverPanic
CHECK_DEADLOCK FALSE
