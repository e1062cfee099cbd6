CONSTANTS
  c1 = c1  c2 = c2  c3 = c3  a = a  b = b
  Loops = {l1}
  Conns = {c1, c2}
  Limited = TRUE
  MaxConnections = 1
  IPs = {a, b}
  PeerOf <- TwoPeers
  MaxFailures = 2
  Users = {u}
  Transport = "reality"
  Xhttp = TRUE
  Protocols = {"socks5", "vless"}
  MaxEdits = 2
  MaxLost = 1
  CanStop = TRUE
SPECIFICATION Spec
INVARIANTS SlotPerSession IdentityWasValid GaugeCountsSessions
CHECK_DEADLOCK FALSE
