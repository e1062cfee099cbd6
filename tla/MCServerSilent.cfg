CONSTANTS
  c1 = c1  c2 = c2  c3 = c3  a = a  b = b
  Loops = {l1}
  Conns = {c1, c2}
  Limited = TRUE
  MaxConnections = 2
  IPs = {a, b}
  PeerOf <- TwoPeers
  MaxFailures = 2
  Users = {u}
  Transport = "plain"
  Xhttp = FALSE
  Protocols = {"socks5", "vless"}
  MaxEdits = 0
  MaxLost = 1
  CanStop = FALSE
SPECIFICATION FairSpec
PROPERTY SetUpEnds
