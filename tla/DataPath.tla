------------------------------ MODULE DataPath ------------------------------
(***************************************************************************)
(* The path of the data between an application and the server's sessions,  *)
(* part by part: the SOCKS5 and VLESS negotiations (Handshake) and the     *)
(* parsers under them (Codec), the TUN datagrams (TunUdp), the first bytes *)
(* of a TUN or REALITY stream (Peek), the DNS queries of the client        *)
(* (DnsUpstream), and XHTTP: the client's requests and numbered POSTs      *)
(* (XhttpClient), the server's registry (XhttpRegistry), its reassembly of *)
(* numbered POSTs (PacketUp), the response body (Downlink) and the chunks  *)
(* around a body (Chunked).                                                *)
(*                                                                         *)
(* The parts share the wire formats and no memory: each meets the next one *)
(* through a connection, which every part models at its own end.  So a     *)
(* behaviour runs one of them, and the others stand still.                 *)
(***************************************************************************)
EXTENDS Xhttp, XhttpClient, Handshake, Codec, TunUdp, Peek, DnsUpstream, Chunked

VARIABLE part   \* the part that runs

pathVars == <<part, vars, hsVars, codecVars, tunVars, peekVars, dnsVars, chunkVars,
              regVars, xcVars, bodyVars>>

(***************************************************************************)
(* A part that does not run stands in one of its initial states.           *)
(***************************************************************************)
HsOff ==
  /\ app = NoApp /\ auth = "no-auth" /\ client = "other" /\ up = <<>> /\ server = "idle"
  /\ read = 0 /\ buf = <<>> /\ told = <<>> /\ target = Nowhere
  /\ head = <<>> /\ accepted = Nothing

CodecOff == message = (CHOOSE m \in Messages : TRUE) /\ have = 0

TunOff ==
  /\ mode = "none" /\ mtu = resolve_effective_mtu("static", 0)
  /\ asked = <<>> /\ table = {} /\ flow = [t \in Targets |-> NoFlow] /\ queries = {}
  /\ sent = <<>> /\ replies = <<>> /\ missed = {} /\ icmp = <<>>

PeekOff ==
  /\ who = "tun" /\ dest = "other" /\ dns = [hijack |-> FALSE, dot |-> FALSE, doh |-> FALSE]
  /\ stream = (CHOOSE s \in Streams : TRUE)
  /\ st = "new" /\ ahead = 0 /\ prefix = <<>> /\ pos = 0 /\ out = <<>>

DnsOff ==
  /\ how = "doh" /\ query = 0 /\ answer = (CHOOSE a \in Answers : TRUE)
  /\ phase = "query" /\ got = 0 /\ result = <<0, 0>>

RegOff ==
  /\ kind = <<>> /\ allowed = "auto" /\ entry = 0 /\ made = 0
  /\ status = <<>> /\ taken = {} /\ joined = <<>> /\ attached = {}
  /\ upload = <<>> /\ pushed = <<>> /\ reader = <<>>

XcOff ==
  /\ xmode = "auto" /\ steps = <<>> /\ tunnel = "opening" /\ caller = "writing"
  /\ buffer = 0 /\ kept = 0 /\ reported = 0 /\ channel = <<>> /\ worker = "none"
  /\ posting = <<>> /\ number = 0 /\ posts = <<>> /\ failed = FALSE

PathInit ==
  /\ part \in {"handshake", "codec", "tun", "peek", "dns", "chunked",
               "registry", "xhttp client", "packet up", "body"}
  /\ Init /\ ChunkInit /\ Body!Init
  /\ IF part = "handshake" THEN HsInit ELSE HsOff
  /\ IF part = "codec" THEN CodecInit ELSE CodecOff
  /\ IF part = "tun" THEN TunInit ELSE TunOff
  /\ IF part = "peek" THEN PeekInit ELSE PeekOff
  /\ IF part = "dns" THEN DnsInit ELSE DnsOff
  /\ IF part = "registry" THEN RegInit ELSE RegOff
  /\ IF part = "xhttp client" THEN XcInit ELSE XcOff

PacketUpStep(A) ==
  /\ part = "packet up" /\ A
  /\ UNCHANGED <<part, hsVars, codecVars, tunVars, peekVars, dnsVars, chunkVars, regVars, xcVars, bodyVars>>
HandshakeStep ==
  /\ part = "handshake" /\ HsNext
  /\ UNCHANGED <<part, vars, codecVars, tunVars, peekVars, dnsVars, chunkVars, regVars, xcVars, bodyVars>>
CodecStep ==
  /\ part = "codec" /\ ByteArrives
  /\ UNCHANGED <<part, vars, hsVars, tunVars, peekVars, dnsVars, chunkVars, regVars, xcVars, bodyVars>>
TunStep ==
  /\ part = "tun" /\ TunNext
  /\ UNCHANGED <<part, vars, hsVars, codecVars, peekVars, dnsVars, chunkVars, regVars, xcVars, bodyVars>>
PeekStep ==
  /\ part = "peek" /\ PeekNext
  /\ UNCHANGED <<part, vars, hsVars, codecVars, tunVars, dnsVars, chunkVars, regVars, xcVars, bodyVars>>
DnsStep ==
  /\ part = "dns" /\ DnsNext
  /\ UNCHANGED <<part, vars, hsVars, codecVars, tunVars, peekVars, chunkVars, regVars, xcVars, bodyVars>>
ChunkStep ==
  /\ part = "chunked" /\ ChunkNext
  /\ UNCHANGED <<part, vars, hsVars, codecVars, tunVars, peekVars, dnsVars, regVars, xcVars, bodyVars>>
RegStep ==
  /\ part = "registry" /\ RegNext
  /\ UNCHANGED <<part, vars, hsVars, codecVars, tunVars, peekVars, dnsVars, chunkVars, xcVars, bodyVars>>
XcStep ==
  /\ part = "xhttp client" /\ XcNext
  /\ UNCHANGED <<part, vars, hsVars, codecVars, tunVars, peekVars, dnsVars, chunkVars, regVars, bodyVars>>
BodyStep(A) ==
  /\ part = "body" /\ A
  /\ UNCHANGED <<part, vars, hsVars, codecVars, tunVars, peekVars, dnsVars, chunkVars, regVars, xcVars>>

PathNext ==
  \/ PacketUpStep(Next) \/ HandshakeStep \/ CodecStep \/ TunStep \/ PeekStep \/ DnsStep
  \/ ChunkStep \/ RegStep \/ XcStep \/ BodyStep(Body!Next)

PathSpec == PathInit /\ [][PathNext]_pathVars

(* As in PacketUp and in Downlink: pushes and polls under way finish, a    *)
(* session that stays reads on, and the client reads its response.         *)
PathFairness ==
  /\ WF_pathVars(PacketUpStep(Drain)) /\ WF_pathVars(PacketUpStep(DrainEnds))
  /\ WF_pathVars(PacketUpStep(Read))
  /\ WF_pathVars(BodyStep(Body!PollFlush)) /\ WF_pathVars(BodyStep(Body!PollShutdown))
  /\ WF_pathVars(BodyStep(Body!PollSend)) /\ WF_pathVars(BodyStep(Body!WriteFails))
  /\ WF_pathVars(BodyStep(Body!PollFrame))

PathFairSpec == PathSpec /\ PathFairness
=============================================================================
