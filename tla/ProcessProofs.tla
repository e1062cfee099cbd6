--------------------------- MODULE ProcessProofs ----------------------------
(***************************************************************************)
(* A configuration that validate() accepts starts, and a process that ends *)
(* by itself leaves nothing behind that is not explained, for every set of *)
(* configuration files and every set of bypass routes.                     *)
(*                                                                         *)
(* Neither statement is inductive.  What they need is which part of the    *)
(* process may be alive under which command and configuration (Places),    *)
(* what a manager owns at each step of its life (SideShape), and what the  *)
(* TUN task has put in place before its guard exists (TunShape).           *)
(***************************************************************************)
EXTENDS Process, TLAPS

ServerSidecars == {"awg", "hysteria2", "tuic"}
ClientSidecars == {"awg_client", "hysteria2_client", "tuic_client"}

Serves == command = "run" /\ validate(conf)
Connects == command = "client" /\ validate_client(conf)

Excused == IF command = "client" THEN ClientNotValidated(conf) ELSE NotValidated(conf)

(* The stages of the start-up before the one that spawns a daemon is over. *)
Early == {"none", "bind", "outbound", "inbound", "xhttp", "api", "metrics", "awg"}
Before(s) ==
  CASE s = "awg" -> Early
    [] s = "hysteria2" -> Early \cup {"hysteria2"}
    [] s = "tuic" -> Early \cup {"hysteria2", "tuic"}

FileTypes ==
  /\ command # "client" => HasSections(conf, Sections)
  /\ command = "client" => HasSections(conf, ClientSections)

(* Which parts are alive, and under which command and configuration. *)
Places ==
  /\ main = "load" => srv = "none" /\ tasks = {} /\ \A s \in Sidecars : side[s].pc = "off"
  /\ main \in {"spawned", "wait", "stopping"} => Serves
  /\ main = "running" => Connects /\ conf.remote.present
  /\ main = "sidecar" => Connects /\ ~conf.remote.present
  /\ srv \notin {"none", "client"} => Serves
  /\ srv = "client" => Connects /\ conf.remote.present
  /\ "api" \in tasks => Serves /\ conf.api.enabled
  /\ tun.pc # "off" => srv = "client" /\ conf.tun.enabled

SidePlaces ==
  /\ \A s \in ServerSidecars :
       /\ side[s].pc # "off" => Serves /\ conf[s].enabled
       /\ srv \in Before(s) => side[s].pc = "off"
  /\ \A s \in ClientSidecars :
       side[s].pc # "off" => Connects /\ ~conf.remote.present /\ s = SidecarOf(conf)

(* What a manager owns. *)
Watched == {"wait", "setconf", "up", "nat", "run"}

SideShape(s, m) ==
  /\ m.pc \in {"off", "start"} => m.child = "none" /\ ~m.file
  /\ m.child = "alive" => m.pc \in Watched \/ (m.pc = "failed" /\ s \in {"awg", "awg_client"})
  /\ m.file => m.pc \in Watched \cup {"failed"}

(* What the TUN task has put in place. *)
Clean(t) == t.routes = {} /\ ~t.table /\ ~t.rule

TunShape(t) ==
  /\ t.pc \in {"off", "resolve", "stopped"} => Clean(t)
  /\ t.pc \in {"device", "running"} => t.guard \/ Clean(t)
  /\ t.pc = "failed" /\ t.why = "config" => Clean(t)
  /\ t.pc # "failed" => t.why = "none"
  /\ t.guard => t.pc \in {"device", "running"}

Excuses ==
  /\ result # "panic"
  /\ why = "config" => Excused
  /\ tun.why = "config" => Excused
  /\ \A s \in Sidecars : side[s].why = "config" => Excused

Ending ==
  main = "exited" /\ result \in {"ok", "error"} =>
    /\ \A s \in Sidecars : side[s].pc \in {"off", "over", "failed"}
    /\ tun.pc \in {"off", "stopped", "failed"}

ProcessInv ==
  /\ ProcessTypeOK /\ FileTypes /\ Places /\ SidePlaces
  /\ \A s \in Sidecars : SideShape(s, side[s])
  /\ TunShape(tun) /\ Excuses /\ Ending

-----------------------------------------------------------------------------
(***************************************************************************)
(* The server's configuration.                                             *)
(***************************************************************************)
(* The fields that decide whether a file is usable have the values of their *)
(* sections.                                                                *)
LEMMA ServerFileTypes ==
  ASSUME NEW c, HasSections(c, Sections)
  PROVE  /\ {c.outbound_tls.cert, c.outbound_tls.key, c.outbound_tls.ca_file} \subseteq File
         /\ {c.tls.cert, c.tls.key} \subseteq File
         /\ c.awg.nat \in {"off", "no_subnet", "on"}
<1>1. \A f \in DOMAIN OutboundTlsSection : c["outbound_tls"][f] \in OutboundTlsSection[f]
  BY Zenon DEF HasSections, Sections
<1>2. \A f \in DOMAIN TlsSection : c["tls"][f] \in TlsSection[f]
  BY Zenon DEF HasSections, Sections
<1>3. {c.outbound_tls.cert, c.outbound_tls.key, c.outbound_tls.ca_file} \subseteq File
  BY <1>1, Zenon DEF OutboundTlsSection
<1>4. {c.tls.cert, c.tls.key} \subseteq File
  BY <1>2, Zenon DEF TlsSection
<1>5. \A f \in DOMAIN AwgSection : c["awg"][f] \in AwgSection[f]
  BY Zenon DEF HasSections, Sections
<1>6. c.awg.nat \in {"off", "no_subnet", "on"}
  BY <1>5, Zenon DEF AwgSection
<1>. QED BY <1>3, <1>4, <1>6, Zenon

(* The expect() calls of the start-up are covered by validate().            *)
LEMMA ValidNeverPanics ==
  ASSUME NEW c, validate(c)
  PROVE  /\ ~OutboundPanics(c)
         /\ ~(c.reality.enabled /\ RealityPanics(c))
         /\ c.api.enabled => ~ApiPanics(c)
<1>1. ~OutboundPanics(c)
  BY Zenon DEF validate, validate_outbound_tls, OutboundPanics
<1>2. ~(c.reality.enabled /\ RealityPanics(c))
  BY Zenon DEF validate, validate_reality, RealityPanics, Given
<1>3. c.api.enabled => ~ApiPanics(c)
  BY Zenon DEF validate, validate_api, ApiPanics, Given
<1>. QED BY <1>1, <1>2, <1>3, Zenon

(* Only the contents of a file can make the outbound fail.                  *)
LEMMA ValidOutbound ==
  ASSUME NEW c, HasSections(c, Sections), validate(c), ~outbound_tcp_transport(c)
  PROVE  NotValidated(c)
<1>1. validate_outbound_tls(c)
  BY Zenon DEF validate
<1>2. {c.outbound_tls.cert, c.outbound_tls.key, c.outbound_tls.ca_file} \subseteq File
  BY ServerFileTypes, Zenon
<1>3. c.outbound_tls.enabled /\ \E f \in {c.outbound_tls.cert, c.outbound_tls.key,
                                         c.outbound_tls.ca_file} : f \notin {"none", "pem"}
  BY <1>1, Zenon DEF outbound_tcp_transport, validate_outbound_tls
<1>4. "garbage" \in {c.outbound_tls.cert, c.outbound_tls.key, c.outbound_tls.ca_file}
  BY <1>1, <1>2, <1>3, Zenon DEF validate_outbound_tls, ensure_readable_file, File
<1>. QED BY <1>3, <1>4, Zenon DEF NotValidated

(* The inbound transports: REALITY starts, TLS fails on a file or a name    *)
(* that validate() does not look into.                                      *)
LEMMA ValidInbound ==
  ASSUME NEW c, HasSections(c, Sections), validate(c)
  PROVE  /\ c.reality.enabled => RealityTransport_new(c)
         /\ c.tls.enabled /\ ~TlsTransport_new(c) => NotValidated(c)
<1>1. c.reality.enabled => RealityTransport_new(c)
  BY Zenon DEF validate, validate_reality, RealityTransport_new
<1>2. ASSUME c.tls.enabled, ~TlsTransport_new(c) PROVE NotValidated(c)
  <2>1. validate_tls(c) /\ tls_server_config(c)
    BY <1>2, Zenon DEF validate
  <2>2. ~build_resolver(c)
    BY <1>2, <2>1, Zenon DEF TlsTransport_new
  <2>3. {c.tls.cert, c.tls.key} \subseteq File
    BY ServerFileTypes, Zenon
  <2>4. \/ c.tls.cert # "none" /\ ~load_certified_key(c.tls.cert, c.tls.key)
        \/ c.tls.certificates = "garbage"
        \/ c.tls.certificates = "ip_name"
    BY <2>1, <2>2, Zenon DEF build_resolver, validate_tls, normalize_server_name
  <2>5. CASE c.tls.cert # "none" /\ ~load_certified_key(c.tls.cert, c.tls.key)
    <3>1. c.tls.cert = "garbage" \/ c.tls.key = "garbage"
      BY <2>1, <2>3, <2>5, Zenon
      DEF validate_tls, Paired, ensure_readable_file, load_certified_key, File
    <3>. QED BY <1>2, <3>1, Zenon DEF NotValidated
  <2>6. CASE c.tls.certificates = "garbage" \/ c.tls.certificates = "ip_name"
    BY <1>2, <2>6, Zenon DEF NotValidated
  <2>. QED BY <2>4, <2>5, <2>6, Zenon
<1>. QED BY <1>1, <1>2, Zenon

(* The other sections turn into settings, and an AWG configuration renders  *)
(* unless it has placeholder keys.                                          *)
LEMMA ValidSections ==
  ASSUME NEW c, validate(c)
  PROVE  /\ c.xhttp.enabled => xhttp_config(c)
         /\ c.awg.enabled => awg_server_config(c)
         /\ c.hysteria2.enabled => hysteria2_server_config(c)
         /\ c.tuic.enabled => tuic_server_config(c)
         /\ c.awg.enabled /\ ~render_server_conf(c) => NotValidated(c)
<1>1. c.xhttp.enabled => xhttp_config(c)
  BY Zenon DEF validate, validate_xhttp, xhttp_config
<1>2. c.awg.enabled => awg_server_config(c)
  BY Zenon DEF validate, validate_awg
<1>3. c.hysteria2.enabled => hysteria2_server_config(c)
  BY Zenon DEF validate, validate_hysteria2
<1>4. c.tuic.enabled => tuic_server_config(c)
  BY Zenon DEF validate, validate_tuic
<1>5. c.awg.enabled /\ ~render_server_conf(c) => NotValidated(c)
  BY Zenon DEF validate, validate_awg, awg_uses_placeholder_keys, NotValidated
<1>. QED BY <1>1, <1>2, <1>3, <1>4, <1>5, Zenon

(***************************************************************************)
(* The client's configuration.                                             *)
(***************************************************************************)
LEMMA ClientFileTypes ==
  ASSUME NEW c, HasSections(c, ClientSections)
  PROVE  /\ c.remote_tls.ca_file \in File
         /\ {c.awg.private_key, c.awg.server_public_key} \subseteq {"blank", "bad", "set"}
         /\ \A f \in {"address", "gateway", "netmask"} : c.tun[f] \in {"bad", "v4", "v6"}
<1>1. \A f \in DOMAIN RemoteTlsSection : c["remote_tls"][f] \in RemoteTlsSection[f]
  BY Zenon DEF HasSections, ClientSections
<1>2. \A f \in DOMAIN AwgClientSection : c["awg"][f] \in AwgClientSection[f]
  BY Zenon DEF HasSections, ClientSections
<1>3. \A f \in DOMAIN TunSection : c["tun"][f] \in TunSection[f]
  BY Zenon DEF HasSections, ClientSections
<1>4. c.remote_tls.ca_file \in File
  BY <1>1, Zenon DEF RemoteTlsSection
<1>5. {c.awg.private_key, c.awg.server_public_key} \subseteq {"blank", "bad", "set"}
  BY <1>2, Zenon DEF AwgClientSection
<1>6. \A f \in {"address", "gateway", "netmask"} : c.tun[f] \in {"bad", "v4", "v6"}
  BY <1>3, Zenon DEF TunSection
<1>. QED BY <1>4, <1>5, <1>6, Zenon

(* The outbound fails only on a CA file or a name that is not looked into.  *)
LEMMA ValidClientOutbound ==
  ASSUME NEW c, HasSections(c, ClientSections), validate_client(c), c.remote.present,
         ~Outbound_from_config(c)
  PROVE  ClientNotValidated(c)
<1>1. /\ proxy_endpoint(c) /\ c.remote.uuid # "bad"
      /\ c.remote_tls.enabled => tls_client_config(c)
      /\ c.remote_reality.enabled => parse_reality_client(c.remote_reality)
      /\ c.remote_xhttp.enabled => parse_remote_xhttp(c.remote_xhttp)
  BY Zenon DEF validate_client, validate_remote, proxy_endpoint, tls_client_config
<1>2. xhttp_client_config(c)
  BY <1>1, Zenon DEF xhttp_client_config, parse_remote_xhttp
<1>3. c.remote_reality.enabled => reality_tls_client_config(c)
  BY <1>1, Zenon DEF reality_tls_client_config, parse_reality_client
<1>4. \/ c.remote_reality.enabled /\ ~RealityTlsClient_new(c)
      \/ c.remote_tls.enabled /\ ~build_root_store(c)
  BY <1>1, <1>2, <1>3, Zenon DEF Outbound_from_config
<1>5. CASE c.remote_reality.enabled /\ ~RealityTlsClient_new(c)
  <2>1. c.remote_reality.server_name = "bad"
    BY <1>1, <1>5, Zenon DEF RealityTlsClient_new, parse_reality_client
  <2>. QED BY <1>5, <2>1, Zenon DEF ClientNotValidated
<1>6. CASE c.remote_tls.enabled /\ ~build_root_store(c)
  <2>1. c.remote_tls.ca_file \in {"missing", "garbage"}
    BY <1>6, ClientFileTypes, Zenon DEF build_root_store, File
  <2>. QED BY <1>6, <2>1, Zenon DEF ClientNotValidated
<1>. QED BY <1>4, <1>5, <1>6, Zenon

(* The TUN task fails only on addresses that are not IPv4.                  *)
LEMMA ValidTunDevice ==
  ASSUME NEW c, HasSections(c, ClientSections), validate_client(c), c.tun.enabled
  PROVE  /\ DnsIntercept_from_config(c.tun)
         /\ c.tun.address # "v4" => ClientNotValidated(c)
         /\ ~create_device(c.tun) => ClientNotValidated(c)
<1>1. /\ DnsIntercept_from_config(c.tun)
      /\ \A f \in {"address", "gateway", "netmask"} : parse_ip(c.tun[f])
  BY Zenon DEF validate_client, validate_tun
<1>2. \A f \in {"address", "gateway", "netmask"} : c.tun[f] \in {"v4", "v6"}
  BY <1>1, ClientFileTypes, Zenon DEF parse_ip
<1>3. ASSUME NEW f \in {"address", "gateway", "netmask"}, c.tun[f] # "v4"
      PROVE  ClientNotValidated(c)
  <2>1. c.tun[f] = "v6"
    BY <1>2, <1>3, Zenon
  <2>2. "v6" \in {c.tun.address, c.tun.gateway, c.tun.netmask}
    BY <2>1, Zenon
  <2>. QED BY <2>2, Zenon DEF ClientNotValidated
<1>. QED BY <1>1, <1>3, Zenon DEF create_device

(* The client's AWG configuration renders unless a key or an address in it  *)
(* does not parse.                                                          *)
LEMMA ValidClientAwg ==
  ASSUME NEW c, HasSections(c, ClientSections), validate_client(c), c.awg.present,
         ~render_client_conf(c)
  PROVE  ClientNotValidated(c)
<1>1. "blank" \notin {c.awg.private_key, c.awg.server_public_key}
  BY Zenon DEF validate_client, validate_awg_client
<1>2. "bad" \in {c.awg.private_key, c.awg.server_public_key, c.awg.address,
                 c.awg.allowed_ips, c.awg.obfuscation}
  BY <1>1, ClientFileTypes, Zenon DEF render_client_conf
<1>. QED BY <1>2, Zenon DEF ClientNotValidated

(* Without a remote proxy one of the three daemons is configured.           *)
LEMMA ValidSidecar ==
  ASSUME NEW c, validate_client(c), ~c.remote.present
  PROVE  /\ SidecarOf(c) \in ClientSidecars
         /\ SidecarOf(c) = "awg_client" => c.awg.present
<1>1. \E mode \in Modes : {m \in Modes : c[m].present} = {mode}
  BY Zenon DEF validate_client
<1>2. \E mode \in Modes : c[mode].present
  BY <1>1, Zenon
<1>3. c.awg.present \/ c.hysteria2.present \/ c.tuic.present
  BY <1>2, Zenon DEF Modes
<1>4. CASE c.awg.present
  BY <1>4, Zenon DEF SidecarOf, ClientSidecars
<1>5. CASE ~c.awg.present /\ c.hysteria2.present
  BY <1>5, Zenon DEF SidecarOf, ClientSidecars
<1>6. CASE ~c.awg.present /\ ~c.hysteria2.present /\ c.tuic.present
  BY <1>6, Zenon DEF SidecarOf, ClientSidecars
<1>. QED BY <1>3, <1>4, <1>5, <1>6, Zenon

-----------------------------------------------------------------------------
(***************************************************************************)
(* The managers.                                                           *)
(***************************************************************************)
SideInv ==
  /\ side \in [Sidecars -> SideType]
  /\ \A s \in Sidecars : SideShape(s, side[s]) /\ (side[s].why = "config" => Excused)

(* A step of the manager of s, and of no other.                             *)
Moved(s) ==
  /\ side' \in [Sidecars -> SideType]
  /\ \A r \in Sidecars : r # s => side'[r] = side[r]
  /\ side[s].pc # "off" /\ side'[s].pc # "off"
  /\ SideShape(s, side'[s])
  /\ side'[s].why = "config" => Excused

(* One record is replaced by another.                                       *)
LEMMA Replaced ==
  ASSUME SideInv, NEW s \in Sidecars, side[s].pc # "off", NEW m \in SideType,
         side' = [side EXCEPT ![s] = m], m.pc # "off", SideShape(s, m),
         m.why = "config" => Excused
  PROVE  Moved(s)
<1>1. side'[s] = m /\ \A r \in Sidecars : r # s => side'[r] = side[r]
  BY Zenon DEF SideInv
<1>2. side' \in [Sidecars -> SideType]
  BY Zenon DEF SideInv
<1>. QED BY <1>1, <1>2, Zenon DEF Moved

(* start() fails at any of its steps, and leaves the child alone.           *)
LEMMA FailsMoves ==
  ASSUME SideInv, NEW s \in Sidecars, NEW w \in {"config", "environment"},
         side[s].pc # "off",
         side[s].child = "alive" => s \in {"awg", "awg_client"},
         w = "config" => Excused, Fails(s, w)
  PROVE  Moved(s)
<1>. DEFINE m == [side[s] EXCEPT !.pc = "failed", !.why = w]
<1>1. side[s] \in SideType /\ SideShape(s, side[s])
  BY Zenon DEF SideInv
<1>2. m \in SideType
  BY <1>1, Zenon DEF SideType
<1>3. m.pc = "failed" /\ m.why = w /\ m.child = side[s].child /\ m.file = side[s].file
  BY <1>1, Zenon DEF SideType
<1>4. SideShape(s, m)
  BY <1>1, <1>3, Zenon DEF SideShape
<1>5. side' = [side EXCEPT ![s] = m]
  BY Zenon DEF Fails
<1>. QED BY <1>2, <1>3, <1>4, <1>5, Replaced, Zenon

(* start() goes on; the child and the file stay.                            *)
LEMMA ContinuesMoves ==
  ASSUME SideInv, NEW s \in Sidecars, NEW p \in {"setconf", "up", "nat", "run"},
         side[s].pc \in Watched, Continues(s, p)
  PROVE  Moved(s)
<1>. DEFINE m == [side[s] EXCEPT !.pc = p]
<1>1. side[s] \in SideType /\ SideShape(s, side[s]) /\ (side[s].why = "config" => Excused)
  BY Zenon DEF SideInv
<1>2. m \in SideType
  BY <1>1, Zenon DEF SideType
<1>3. m.pc = p /\ m.why = side[s].why /\ m.child = side[s].child /\ m.file = side[s].file
  BY <1>1, Zenon DEF SideType
<1>4. SideShape(s, m)
  BY <1>1, <1>3, Zenon DEF SideShape, Watched
<1>5. side' = [side EXCEPT ![s] = m]
  BY Zenon DEF Continues
<1>6. side[s].pc # "off"
  BY Zenon DEF Watched
<1>. QED BY <1>1, <1>2, <1>3, <1>4, <1>5, <1>6, Replaced, Zenon

(* The daemon is launched, or is not.                                       *)
LEMMA LaunchMoves ==
  ASSUME SideInv, NEW s \in Sidecars, NEW renders, ~renders => Excused, Launch(s, renders)
  PROVE  Moved(s)
<1>1. side[s] \in SideType /\ SideShape(s, side[s]) /\ (side[s].why = "config" => Excused)
  BY Zenon DEF SideInv
<1>2. side[s].pc = "start"
  BY Zenon DEF Launch
<1>3. side[s].child = "none" /\ ~side[s].file
  BY <1>1, <1>2, Zenon DEF SideShape
<1>4. CASE (~renders /\ Fails(s, "config")) \/ Fails(s, "environment")
  BY <1>2, <1>3, <1>4, FailsMoves, Zenon
<1>5. CASE side' = [side EXCEPT ![s].pc = "failed", ![s].why = "environment", ![s].file = TRUE]
  <2>. DEFINE m == [side[s] EXCEPT !.pc = "failed", !.why = "environment", !.file = TRUE]
  <2>1. m \in SideType
    BY <1>1, Zenon DEF SideType
  <2>2. m.pc = "failed" /\ m.why = "environment" /\ m.child = "none"
    BY <1>1, <1>3, Zenon DEF SideType
  <2>3. SideShape(s, m)
    BY <2>2, Zenon DEF SideShape
  <2>4. side' = [side EXCEPT ![s] = m]
    BY <1>5, Zenon
  <2>. QED BY <1>2, <2>1, <2>2, <2>3, <2>4, Replaced, Zenon
<1>6. CASE side' = [side EXCEPT ![s].pc = "wait", ![s].child = "alive", ![s].file = TRUE]
  <2>. DEFINE m == [side[s] EXCEPT !.pc = "wait", !.child = "alive", !.file = TRUE]
  <2>1. m \in SideType
    BY <1>1, Zenon DEF SideType
  <2>2. m.pc = "wait" /\ m.why = side[s].why
    BY <1>1, Zenon DEF SideType
  <2>3. SideShape(s, m)
    BY <2>2, Zenon DEF SideShape, Watched
  <2>4. side' = [side EXCEPT ![s] = m]
    BY <1>6, Zenon
  <2>. QED BY <1>1, <1>2, <2>1, <2>2, <2>3, <2>4, Replaced, Zenon
<1>. QED BY <1>4, <1>5, <1>6, Zenon DEF Launch

(* The waits of start().                                                    *)
LEMMA SocketWaitMoves ==
  ASSUME SideInv, NEW s \in {"awg", "awg_client"}, wait_for_socket(s)
  PROVE  Moved(s)
<1>0. s \in Sidecars
  BY Zenon DEF Sidecars
<1>1. side[s] \in SideType /\ SideShape(s, side[s])
  BY <1>0, Zenon DEF SideInv
<1>2. side[s].pc = "wait"
  BY Zenon DEF wait_for_socket
<1>3. CASE Continues(s, "setconf")
  BY <1>0, <1>2, <1>3, ContinuesMoves, Zenon DEF Watched
<1>4. CASE Fails(s, "environment")
  BY <1>0, <1>2, <1>4, FailsMoves, Zenon
<1>5. CASE side' = [side EXCEPT ![s].pc = "failed", ![s].why = "environment",
                                ![s].child = "dead"]
  <2>. DEFINE m == [side[s] EXCEPT !.pc = "failed", !.why = "environment", !.child = "dead"]
  <2>1. m \in SideType
    BY <1>1, Zenon DEF SideType
  <2>2. m.pc = "failed" /\ m.why = "environment" /\ m.child = "dead"
    BY <1>1, Zenon DEF SideType
  <2>3. SideShape(s, m)
    BY <2>2, Zenon DEF SideShape
  <2>4. side' = [side EXCEPT ![s] = m]
    BY <1>5, Zenon
  <2>. QED BY <1>0, <1>2, <2>1, <2>2, <2>3, <2>4, Replaced, Zenon
<1>. QED BY <1>3, <1>4, <1>5, Zenon DEF wait_for_socket

LEMMA ProcessWaitMoves ==
  ASSUME SideInv, NEW s \in Sidecars, wait_for_process(s)
  PROVE  Moved(s)
<1>1. side[s].pc = "wait"
  BY Zenon DEF wait_for_process
<1>2. CASE side[s].child = "dead" /\ Fails(s, "environment")
  BY <1>1, <1>2, FailsMoves, Zenon
<1>3. CASE Continues(s, "run")
  BY <1>1, <1>3, ContinuesMoves, Zenon DEF Watched
<1>. QED BY <1>2, <1>3, Zenon DEF wait_for_process

(* start() of hysteria2 and of tuic.                                        *)
LEMMA PlainStartMoves ==
  ASSUME SideInv, NEW s \in Sidecars,
         \/ side[s].pc = "start" /\ Fails(s, "environment")
         \/ Launch(s, TRUE)
         \/ wait_for_process(s)
  PROVE  Moved(s)
<1>1. CASE side[s].pc = "start" /\ Fails(s, "environment")
  <2>1. side[s].child = "none"
    BY <1>1, Zenon DEF SideInv, SideShape
  <2>. QED BY <1>1, <2>1, FailsMoves, Zenon
<1>2. CASE Launch(s, TRUE)
  BY <1>2, LaunchMoves, Zenon
<1>3. CASE wait_for_process(s)
  BY <1>3, ProcessWaitMoves, Zenon
<1>. QED BY <1>1, <1>2, <1>3, Zenon

(* The MASQUERADE rule of the server's AWG.                                 *)
LEMMA NatMoves ==
  ASSUME SideInv, NEW nat \in {"off", "no_subnet", "on"}, nat = "no_subnet" => Excused,
         apply_nat("awg", nat)
  PROVE  Moved("awg")
<1>0. "awg" \in Sidecars
  BY Zenon DEF Sidecars
<1>1. /\ side["awg"] \in SideType /\ SideShape("awg", side["awg"])
      /\ side["awg"].why = "config" => Excused
  BY <1>0, Zenon DEF SideInv
<1>2. side["awg"].pc = "nat"
  BY Zenon DEF apply_nat
<1>3. CASE Continues("awg", "run")
  BY <1>0, <1>2, <1>3, ContinuesMoves, Zenon DEF Watched
<1>4. CASE nat = "no_subnet" /\ Fails("awg", "config")
  BY <1>0, <1>2, <1>4, FailsMoves, Zenon
<1>5. CASE Fails("awg", "environment")
  BY <1>0, <1>2, <1>5, FailsMoves, Zenon
<1>6. CASE side' = [side EXCEPT !["awg"].pc = "run", !["awg"].nat = "rule"]
  <2>. DEFINE m == [side["awg"] EXCEPT !.pc = "run", !.nat = "rule"]
  <2>1. m \in SideType
    BY <1>1, Zenon DEF SideType
  <2>2. m.pc = "run" /\ m.why = side["awg"].why
    BY <1>1, Zenon DEF SideType
  <2>3. SideShape("awg", m)
    BY <2>2, Zenon DEF SideShape, Watched
  <2>4. side' = [side EXCEPT !["awg"] = m]
    BY <1>6, Zenon
  <2>. QED BY <1>0, <1>1, <1>2, <2>1, <2>2, <2>3, <2>4, Replaced, Zenon
<1>7. CASE side' = [side EXCEPT !["awg"].pc = "failed", !["awg"].why = "environment",
                                !["awg"].nat = "forward"]
  <2>. DEFINE m == [side["awg"] EXCEPT !.pc = "failed", !.why = "environment",
                                       !.nat = "forward"]
  <2>1. m \in SideType
    BY <1>1, Zenon DEF SideType
  <2>2. m.pc = "failed" /\ m.why = "environment"
    BY <1>1, Zenon DEF SideType
  <2>3. SideShape("awg", m)
    BY <2>2, Zenon DEF SideShape, Watched
  <2>4. side' = [side EXCEPT !["awg"] = m]
    BY <1>7, Zenon
  <2>. QED BY <1>0, <1>1, <1>2, <2>1, <2>2, <2>3, <2>4, Replaced, Zenon
<1>. QED BY <1>3, <1>4, <1>5, <1>6, <1>7, Zenon DEF apply_nat

(* stop(), and the death of a child.                                        *)
LEMMA StoppedShape ==
  ASSUME NEW s, NEW m \in SideType
  PROVE  /\ Stopped(m) \in SideType /\ Stopped(m).pc = "over" /\ Stopped(m).why = m.why
         /\ SideShape(s, Stopped(m))
<1>1. Stopped(m) \in SideType
  BY Zenon DEF Stopped, SideType
<1>2. /\ Stopped(m).pc = "over" /\ Stopped(m).why = m.why
      /\ Stopped(m).child = "dead" /\ Stopped(m).file = FALSE
  BY Zenon DEF Stopped, SideType
<1>. QED BY <1>1, <1>2, Zenon DEF SideShape

LEMMA RunMoves ==
  ASSUME SideInv, NEW s \in Sidecars, RunUntilShutdown(s)
  PROVE  Moved(s)
<1>1. side[s] \in SideType /\ (side[s].why = "config" => Excused)
  BY Zenon DEF SideInv
<1>2. side[s].pc = "run" /\ side' = [side EXCEPT ![s] = Stopped(side[s])]
  BY Zenon DEF RunUntilShutdown
<1>3. /\ Stopped(side[s]) \in SideType /\ Stopped(side[s]).pc = "over"
      /\ Stopped(side[s]).why = side[s].why /\ SideShape(s, Stopped(side[s]))
  BY <1>1, StoppedShape, Zenon
<1>. QED BY <1>1, <1>2, <1>3, Replaced, Zenon

LEMMA ChildExitsMoves ==
  ASSUME SideInv, NEW s \in Sidecars, ChildExits(s)
  PROVE  Moved(s)
<1>. DEFINE m == [side[s] EXCEPT !.child = "dead"]
<1>1. side[s] \in SideType /\ SideShape(s, side[s]) /\ (side[s].why = "config" => Excused)
  BY Zenon DEF SideInv
<1>2. side[s].pc \in Watched /\ side' = [side EXCEPT ![s] = m]
  BY Zenon DEF ChildExits, Watched
<1>3. m \in SideType
  BY <1>1, Zenon DEF SideType
<1>4. m.pc = side[s].pc /\ m.why = side[s].why /\ m.child = "dead" /\ m.file = side[s].file
  BY <1>1, Zenon DEF SideType
<1>5. SideShape(s, m)
  BY <1>1, <1>2, <1>4, Zenon DEF SideShape, Watched
<1>6. side[s].pc # "off"
  BY <1>2, Zenon DEF Watched
<1>. QED BY <1>1, <1>2, <1>3, <1>4, <1>5, <1>6, Replaced, Zenon

LEMMA SideInvHolds == ASSUME ProcessInv PROVE SideInv
BY Zenon DEF ProcessInv, ProcessTypeOK, Excuses, SideInv

(* What makes a manager fail on its configuration is not validated.         *)
LEMMA RenderExcuses ==
  ASSUME ProcessInv
  PROVE  /\ side["awg"].pc # "off" /\ ~render_server_conf(conf) => Excused
         /\ side["awg"].pc # "off" =>
              /\ conf.awg.nat \in {"off", "no_subnet", "on"}
              /\ conf.awg.nat = "no_subnet" => Excused
         /\ side["awg_client"].pc # "off" /\ ~render_client_conf(conf) => Excused
<1>1. ASSUME side["awg"].pc # "off"
      PROVE  /\ ~render_server_conf(conf) => Excused
             /\ conf.awg.nat \in {"off", "no_subnet", "on"}
             /\ conf.awg.nat = "no_subnet" => Excused
  <2>1. command = "run" /\ validate(conf) /\ conf.awg.enabled
    BY <1>1, Zenon DEF ProcessInv, SidePlaces, ServerSidecars, Serves
  <2>2. HasSections(conf, Sections)
    BY <2>1, Zenon DEF ProcessInv, FileTypes
  <2>3. ~render_server_conf(conf) => NotValidated(conf)
    BY <2>1, ValidSections, Zenon
  <2>4. conf.awg.nat \in {"off", "no_subnet", "on"}
    BY <2>2, ServerFileTypes, Zenon
  <2>5. conf.awg.nat = "no_subnet" => NotValidated(conf)
    BY <2>1, Zenon DEF NotValidated
  <2>. QED BY <2>1, <2>3, <2>4, <2>5, Zenon DEF Excused
<1>2. ASSUME side["awg_client"].pc # "off", ~render_client_conf(conf)
      PROVE  Excused
  <2>1. /\ command = "client" /\ validate_client(conf) /\ ~conf.remote.present
        /\ SidecarOf(conf) = "awg_client"
    BY <1>2, Zenon DEF ProcessInv, SidePlaces, ClientSidecars, Connects
  <2>2. HasSections(conf, ClientSections)
    BY <2>1, Zenon DEF ProcessInv, FileTypes
  <2>3. conf.awg.present
    BY <2>1, ValidSidecar, Zenon
  <2>4. ClientNotValidated(conf)
    BY <1>2, <2>1, <2>2, <2>3, ValidClientAwg, Zenon
  <2>. QED BY <2>1, <2>4, Zenon DEF Excused
<1>. QED BY <1>1, <1>2, Zenon

LEMMA ServerManagersMove ==
  ASSUME ProcessInv, ServerSidecar
  PROVE  \E s \in Sidecars : Moved(s)
<1>0. SideInv /\ {"awg", "hysteria2", "tuic"} \subseteq Sidecars
  BY SideInvHolds, Zenon DEF Sidecars
<1>1. CASE find_awg("awg")
  BY <1>0, <1>1, FailsMoves, Zenon DEF find_awg
<1>2. CASE Launch("awg", render_server_conf(conf))
  <2>1. side["awg"].pc # "off"
    BY <1>2, Zenon DEF Launch
  <2>2. ~render_server_conf(conf) => Excused
    BY <2>1, RenderExcuses, Zenon
  <2>. QED BY <1>0, <1>2, <2>2, LaunchMoves, Zenon
<1>3. CASE wait_for_socket("awg")
  BY <1>0, <1>3, SocketWaitMoves, Zenon
<1>4. CASE apply_setconf("awg")
  <2>1. side["awg"].pc = "setconf"
    BY <1>4, Zenon DEF apply_setconf
  <2>2. CASE Continues("awg", "up")
    BY <1>0, <2>1, <2>2, ContinuesMoves, Zenon DEF Watched
  <2>3. CASE Fails("awg", "environment")
    BY <1>0, <2>1, <2>3, FailsMoves, Zenon
  <2>. QED BY <1>4, <2>2, <2>3, Zenon DEF apply_setconf
<1>5. CASE bring_up_interface("awg", "nat")
  <2>1. side["awg"].pc = "up"
    BY <1>5, Zenon DEF bring_up_interface
  <2>2. CASE Continues("awg", "nat")
    BY <1>0, <2>1, <2>2, ContinuesMoves, Zenon DEF Watched
  <2>3. CASE Fails("awg", "environment")
    BY <1>0, <2>1, <2>3, FailsMoves, Zenon
  <2>. QED BY <1>5, <2>2, <2>3, Zenon DEF bring_up_interface
<1>6. CASE apply_nat("awg", conf.awg.nat)
  <2>1. side["awg"].pc # "off"
    BY <1>6, Zenon DEF apply_nat
  <2>2. /\ conf.awg.nat \in {"off", "no_subnet", "on"}
        /\ conf.awg.nat = "no_subnet" => Excused
    BY <2>1, RenderExcuses, Zenon
  <2>. QED BY <1>0, <1>6, <2>2, NatMoves, Zenon
<1>7. CASE Hysteria2Manager_start
  <2>1. Moved("hysteria2")
    BY <1>0, <1>7, PlainStartMoves, Zenon DEF Hysteria2Manager_start, find_hysteria2
  <2>. QED BY <1>0, <2>1, Zenon
<1>8. CASE TuicManager_start
  <2>1. Moved("tuic")
    BY <1>0, <1>8, PlainStartMoves, Zenon DEF TuicManager_start, find_tuic,
      tuic_wait_for_process
  <2>. QED BY <1>0, <2>1, Zenon
<1>9. CASE AwgManager_run \/ Hysteria2Manager_run \/ TuicManager_run
  BY <1>0, <1>9, RunMoves, Zenon DEF AwgManager_run, Hysteria2Manager_run, TuicManager_run
<1>. QED BY <1>1, <1>2, <1>3, <1>4, <1>5, <1>6, <1>7, <1>8, <1>9, Zenon
         DEF ServerSidecar, SidecarStep, AwgManager_start

LEMMA ClientManagersMove ==
  ASSUME ProcessInv, ClientSidecar
  PROVE  \E s \in Sidecars : Moved(s)
<1>0. SideInv /\ {"awg_client", "hysteria2_client", "tuic_client"} \subseteq Sidecars
  BY SideInvHolds, Zenon DEF Sidecars
<1>1. CASE find_awg("awg_client")
  BY <1>0, <1>1, FailsMoves, Zenon DEF find_awg
<1>2. CASE Launch("awg_client", render_client_conf(conf))
  <2>1. side["awg_client"].pc # "off"
    BY <1>2, Zenon DEF Launch
  <2>2. ~render_client_conf(conf) => Excused
    BY <2>1, RenderExcuses, Zenon
  <2>. QED BY <1>0, <1>2, <2>2, LaunchMoves, Zenon
<1>3. CASE wait_for_socket("awg_client")
  BY <1>0, <1>3, SocketWaitMoves, Zenon
<1>4. CASE apply_setconf("awg_client")
  <2>1. side["awg_client"].pc = "setconf"
    BY <1>4, Zenon DEF apply_setconf
  <2>2. CASE Continues("awg_client", "up")
    BY <1>0, <2>1, <2>2, ContinuesMoves, Zenon DEF Watched
  <2>3. CASE Fails("awg_client", "environment")
    BY <1>0, <2>1, <2>3, FailsMoves, Zenon
  <2>. QED BY <1>4, <2>2, <2>3, Zenon DEF apply_setconf
<1>5. CASE bring_up_interface("awg_client", "run")
  <2>1. side["awg_client"].pc = "up"
    BY <1>5, Zenon DEF bring_up_interface
  <2>2. CASE Continues("awg_client", "run")
    BY <1>0, <2>1, <2>2, ContinuesMoves, Zenon DEF Watched
  <2>3. CASE Fails("awg_client", "environment")
    BY <1>0, <2>1, <2>3, FailsMoves, Zenon
  <2>. QED BY <1>5, <2>2, <2>3, Zenon DEF bring_up_interface
<1>6. CASE Hysteria2ClientManager_start
  <2>1. Moved("hysteria2_client")
    BY <1>0, <1>6, PlainStartMoves, Zenon DEF Hysteria2ClientManager_start, find_hysteria2
  <2>. QED BY <1>0, <2>1, Zenon
<1>7. CASE TuicClientManager_start
  <2>1. Moved("tuic_client")
    BY <1>0, <1>7, PlainStartMoves, Zenon DEF TuicClientManager_start, find_tuic,
      tuic_wait_for_process
  <2>. QED BY <1>0, <2>1, Zenon
<1>8. CASE AwgClientManager_run \/ Hysteria2ClientManager_run \/ TuicClientManager_run
  BY <1>0, <1>8, RunMoves, Zenon
  DEF AwgClientManager_run, Hysteria2ClientManager_run, TuicClientManager_run
<1>. QED BY <1>1, <1>2, <1>3, <1>4, <1>5, <1>6, <1>7, <1>8, Zenon
         DEF ClientSidecar, SidecarStep, AwgClientManager_start

(***************************************************************************)
(* The TUN task.                                                           *)
(***************************************************************************)
LEMMA RevertedShape ==
  ASSUME NEW t \in TunType
  PROVE  /\ Reverted(t) \in TunType
         /\ Reverted(t).pc = t.pc /\ Reverted(t).why = t.why
         /\ ~Reverted(t).guard
         /\ t.guard \/ Clean(t) => Clean(Reverted(t))
<1>1. CASE t.guard
  <2>1. Reverted(t) = [t EXCEPT !.routes = {}, !.table = FALSE, !.rule = FALSE, !.guard = FALSE]
    BY <1>1, Zenon DEF Reverted
  <2>2. Reverted(t) \in TunType
    BY <2>1, Zenon DEF TunType
  <2>3. /\ Reverted(t).pc = t.pc /\ Reverted(t).why = t.why
        /\ Reverted(t).guard = FALSE /\ Reverted(t).routes = {}
        /\ Reverted(t).table = FALSE /\ Reverted(t).rule = FALSE
    BY <2>1, Zenon DEF TunType
  <2>. QED BY <2>2, <2>3, Zenon DEF Clean
<1>2. CASE ~t.guard
  <2>1. Reverted(t) = t
    BY <1>2, Zenon DEF Reverted
  <2>. QED BY <1>2, <2>1, Zenon
<1>. QED BY <1>1, <1>2, Zenon

(* The end of the task, with the guard dropped.                             *)
LEMMA TunEndShape ==
  ASSUME NEW t \in TunType, t.guard \/ Clean(t), t.why = "none",
         NEW u, u = [Reverted(t) EXCEPT !.pc = "stopped"]
  PROVE  u \in TunType /\ u.pc = "stopped" /\ u.why = "none" /\ TunShape(u)
<1>1. /\ Reverted(t) \in TunType /\ Reverted(t).why = "none" /\ ~Reverted(t).guard
      /\ Clean(Reverted(t))
  BY RevertedShape, Zenon
<1>2. u \in TunType
  BY <1>1, Zenon DEF TunType
<1>3. /\ u.pc = "stopped" /\ u.why = "none" /\ u.guard = Reverted(t).guard
      /\ u.routes = Reverted(t).routes /\ u.table = Reverted(t).table
      /\ u.rule = Reverted(t).rule
  BY <1>1, Zenon DEF TunType
<1>. QED BY <1>1, <1>2, <1>3, Zenon DEF TunShape, Clean

(* A step of the task that keeps what the invariant says of it.             *)
TunMoved ==
  /\ tun.pc # "off" /\ tun'.pc # "off"
  /\ tun' \in TunType /\ TunShape(tun')
  /\ tun'.why = "config" => Excused

LEMMA TunFailsMoves ==
  ASSUME tun \in TunType, tun.pc # "off", NEW w \in {"config", "environment", "no_device"},
         w = "config" => Excused /\ (tun.guard \/ Clean(tun)), TunFails(w)
  PROVE  TunMoved
<1>1. /\ Reverted(tun) \in TunType /\ ~Reverted(tun).guard
      /\ tun.guard \/ Clean(tun) => Clean(Reverted(tun))
  BY RevertedShape, Zenon
<1>2. tun' = [Reverted(tun) EXCEPT !.pc = "failed", !.why = w]
  BY Zenon DEF TunFails
<1>3. tun' \in TunType
  BY <1>1, <1>2, Zenon DEF TunType
<1>4. /\ tun'.pc = "failed" /\ tun'.why = w /\ tun'.guard = Reverted(tun).guard
      /\ tun'.routes = Reverted(tun).routes /\ tun'.table = Reverted(tun).table
      /\ tun'.rule = Reverted(tun).rule
  BY <1>1, <1>2, Zenon DEF TunType
<1>5. w = "config" => Clean(tun')
  BY <1>1, <1>4, Zenon DEF Clean
<1>6. TunShape(tun')
  BY <1>1, <1>4, <1>5, Zenon DEF TunShape
<1>. QED BY <1>3, <1>4, <1>6, Zenon DEF TunMoved

LEMMA ResolveMoves ==
  ASSUME tun \in TunType, TunShape(tun), NEW dnsOk, NEW auto, NEW addressOk,
         dnsOk, ~addressOk => Excused, ResolveProxy(dnsOk, auto, addressOk)
  PROVE  TunMoved
<1>1. tun.pc = "resolve" /\ Clean(tun) /\ tun.why = "none" /\ ~tun.guard
  BY Zenon DEF ResolveProxy, TunShape
<1>2. CASE TunFails("environment") \/ (~addressOk /\ TunFails("config"))
  BY <1>1, <1>2, TunFailsMoves, Zenon
<1>3. ASSUME NEW p \in {"device", "bypass"}, tun' = [tun EXCEPT !.pc = p]
      PROVE  TunMoved
  <2>1. tun' \in TunType
    BY <1>3, Zenon DEF TunType
  <2>2. /\ tun'.pc = p /\ tun'.why = "none" /\ tun'.guard = tun.guard
        /\ tun'.routes = tun.routes /\ tun'.table = tun.table /\ tun'.rule = tun.rule
    BY <1>1, <1>3, Zenon DEF TunType
  <2>3. Clean(tun')
    BY <1>1, <2>2, Zenon DEF Clean
  <2>. QED BY <1>1, <2>1, <2>2, <2>3, Zenon DEF TunMoved, TunShape
<1>. QED BY <1>2, <1>3, Zenon DEF ResolveProxy

(* The commands of apply, before the guard exists.                          *)
LEMMA RoutingMoves ==
  ASSUME tun \in TunType, TunShape(tun), AddBypass \/ AddDefault \/ AddRule
  PROVE  TunMoved
<1>1. tun.pc \in {"bypass", "default", "rule"} /\ tun.why = "none" /\ ~tun.guard
  BY Zenon DEF AddBypass, AddDefault, AddRule, TunShape
<1>2. CASE TunFails("environment") \/ TunFails("no_device")
  BY <1>1, <1>2, TunFailsMoves, Zenon
<1>3. ASSUME NEW d \in Bypass, tun' = [tun EXCEPT !.routes = @ \cup {d}]
      PROVE  TunMoved
  <2>1. tun' \in TunType
    BY <1>3, Zenon DEF TunType
  <2>2. tun'.pc = tun.pc /\ tun'.why = "none" /\ tun'.guard = tun.guard
    BY <1>1, <1>3, Zenon DEF TunType
  <2>. QED BY <1>1, <2>1, <2>2, Zenon DEF TunMoved, TunShape
<1>4. CASE tun' = [tun EXCEPT !.pc = "default"]
  <2>1. tun' \in TunType
    BY <1>4, Zenon DEF TunType
  <2>2. tun'.pc = "default" /\ tun'.why = "none" /\ tun'.guard = tun.guard
    BY <1>1, <1>4, Zenon DEF TunType
  <2>. QED BY <1>1, <2>1, <2>2, Zenon DEF TunMoved, TunShape
<1>5. CASE tun' = [tun EXCEPT !.pc = "rule", !.table = TRUE]
  <2>1. tun' \in TunType
    BY <1>5, Zenon DEF TunType
  <2>2. tun'.pc = "rule" /\ tun'.why = "none" /\ tun'.guard = tun.guard
    BY <1>1, <1>5, Zenon DEF TunType
  <2>. QED BY <1>1, <2>1, <2>2, Zenon DEF TunMoved, TunShape
<1>6. CASE tun' = [tun EXCEPT !.pc = "device", !.rule = TRUE, !.guard = TRUE]
  <2>1. tun' \in TunType
    BY <1>6, Zenon DEF TunType
  <2>2. tun'.pc = "device" /\ tun'.why = "none" /\ tun'.guard = TRUE
    BY <1>1, <1>6, Zenon DEF TunType
  <2>. QED BY <1>1, <2>1, <2>2, Zenon DEF TunMoved, TunShape
<1>. QED BY <1>2, <1>3, <1>4, <1>5, <1>6, Zenon DEF AddBypass, AddDefault, AddRule

LEMMA DeviceMoves ==
  ASSUME tun \in TunType, TunShape(tun), NEW addressesOk, ~addressesOk => Excused,
         CreateDevice(addressesOk) \/ TunStops
  PROVE  TunMoved
<1>1. /\ tun.pc \in {"device", "running"} /\ tun.why = "none"
      /\ tun.guard \/ Clean(tun)
  BY Zenon DEF CreateDevice, TunStops, TunShape
<1>2. CASE TunFails("environment") \/ (~addressesOk /\ TunFails("config"))
  BY <1>1, <1>2, TunFailsMoves, Zenon
<1>3. CASE tun' = [tun EXCEPT !.pc = "running", !.device = "own"]
  <2>1. tun' \in TunType
    BY <1>3, Zenon DEF TunType
  <2>2. /\ tun'.pc = "running" /\ tun'.why = "none" /\ tun'.guard = tun.guard
        /\ tun'.routes = tun.routes /\ tun'.table = tun.table /\ tun'.rule = tun.rule
    BY <1>1, <1>3, Zenon DEF TunType
  <2>3. tun'.guard \/ Clean(tun')
    BY <1>1, <2>2, Zenon DEF Clean
  <2>. QED BY <1>1, <2>1, <2>2, <2>3, Zenon DEF TunMoved, TunShape
<1>4. CASE tun' = [Reverted(tun) EXCEPT !.pc = "stopped"]
  <2>1. tun' \in TunType /\ tun'.pc = "stopped" /\ tun'.why = "none" /\ TunShape(tun')
    BY <1>1, <1>4, TunEndShape, Zenon
  <2>. QED BY <1>1, <2>1, Zenon DEF TunMoved
<1>. QED BY <1>2, <1>3, <1>4, Zenon DEF CreateDevice, TunStops

(* Every step of the task, under a configuration that was validated.        *)
LEMMA TunMoves ==
  ASSUME ProcessInv, TunStep
  PROVE  TunMoved
<1>1. tun \in TunType /\ TunShape(tun)
  BY Zenon DEF ProcessInv, ProcessTypeOK
<1>2. tun.pc # "off"
  BY Zenon DEF TunStep, ResolveProxy, AddBypass, AddDefault, AddRule, CreateDevice,
    TunStops
<1>3. command = "client" /\ validate_client(conf) /\ conf.tun.enabled
  BY <1>2, Zenon DEF ProcessInv, Places, Connects
<1>4. HasSections(conf, ClientSections)
  BY <1>3, Zenon DEF ProcessInv, FileTypes
<1>5. /\ DnsIntercept_from_config(conf.tun)
      /\ ~(conf.tun.address = "v4") => Excused
      /\ ~create_device(conf.tun) => Excused
  BY <1>3, <1>4, ValidTunDevice, Zenon DEF Excused
<1>6. CASE ResolveProxy(DnsIntercept_from_config(conf.tun), conf.tun.auto,
                        conf.tun.address = "v4")
  BY <1>1, <1>5, <1>6, ResolveMoves, Zenon
<1>7. CASE AddBypass \/ AddDefault \/ AddRule
  BY <1>1, <1>7, RoutingMoves, Zenon
<1>8. CASE CreateDevice(create_device(conf.tun)) \/ TunStops
  BY <1>1, <1>5, <1>8, DeviceMoves, Zenon
<1>. QED BY <1>6, <1>7, <1>8, Zenon DEF TunStep

(* The runner aborts the task.                                              *)
LEMMA TunAbortedShape ==
  ASSUME tun \in TunType, TunShape(tun), ~TunBlocking, tun' = TunAborted(tun)
  PROVE  /\ tun' \in TunType /\ TunShape(tun') /\ tun'.why = tun.why
         /\ tun'.pc \in {"off", "stopped", "failed"}
         /\ tun.pc = "off" => tun'.pc = "off"
<1>1. CASE tun.pc \in {"resolve", "device", "running"}
  <2>1. tun.why = "none" /\ (tun.guard \/ Clean(tun))
    BY <1>1, Zenon DEF TunShape
  <2>2. tun' = [Reverted(tun) EXCEPT !.pc = "stopped"]
    BY <1>1, Zenon DEF TunAborted
  <2>3. tun' \in TunType /\ tun'.pc = "stopped" /\ tun'.why = "none" /\ TunShape(tun')
    BY <2>1, <2>2, TunEndShape, Zenon
  <2>. QED BY <1>1, <2>1, <2>3, Zenon
<1>2. CASE tun.pc \notin {"resolve", "device", "running"}
  <2>1. tun' = tun
    BY <1>2, Zenon DEF TunAborted
  <2>2. tun.pc \in {"off", "stopped", "failed"}
    BY <1>2, Zenon DEF TunBlocking, TunType
  <2>. QED BY <2>1, <2>2, Zenon
<1>. QED BY <1>1, <1>2, Zenon

-----------------------------------------------------------------------------
(***************************************************************************)
(* The steps of the process.  The command and the configuration never      *)
(* change; Still collects what does not depend on anything else.           *)
(***************************************************************************)
LEMMA ProcessInitially == Init => ProcessInv
<1>. SUFFICES ASSUME Init PROVE ProcessInv
  OBVIOUS
<1>1. side = [s \in Sidecars |-> NoSide] /\ NoSide \in SideType
  BY Zenon DEF Init, NoSide, SideType
<1>2. \A s \in Sidecars : side[s] = NoSide
  BY <1>1, Zenon
<1>3. tun \in TunType /\ tun.pc = "off" /\ tun.why = "none" /\ TunShape(tun)
  <2>1. PICK d \in {"none", "other"} : tun = [NoTun EXCEPT !.device = d]
    BY Zenon DEF Init
  <2>2. tun = [pc |-> "off", routes |-> {}, table |-> FALSE, rule |-> FALSE,
               guard |-> FALSE, device |-> d, why |-> "none"]
    BY <2>1, Zenon DEF NoTun
  <2>3. tun \in TunType
    BY <2>2, Zenon DEF TunType
  <2>. QED BY <2>2, <2>3, Zenon DEF TunShape, Clean
<1>4. ProcessTypeOK
  BY <1>1, <1>3, Zenon DEF Init, ProcessTypeOK
<1>5. FileTypes
  BY FilesAssumption, Zenon DEF Init, FileTypes
<1>6. Places /\ Ending
  BY <1>2, <1>3, Zenon DEF Init, Places, Ending, NoSide
<1>7. SidePlaces
  <2>1. \A s \in ServerSidecars \cup ClientSidecars : side[s].pc = "off"
    BY <1>2 DEF NoSide, ServerSidecars, ClientSidecars, Sidecars
  <2>. QED BY <2>1, Zenon DEF SidePlaces
<1>8. \A s \in Sidecars : SideShape(s, side[s])
  BY <1>2 DEF NoSide, SideShape
<1>9. Excuses
  BY <1>2, <1>3, Zenon DEF Init, Excuses, NoSide
<1>. QED BY <1>3, <1>4, <1>5, <1>6, <1>7, <1>8, <1>9, Zenon DEF ProcessInv

Still == UNCHANGED <<command, conf>>

(* The stages of the server go forward.                                     *)
Onwards == \A s \in ServerSidecars : srv' \in Before(s) => srv \in Before(s)

LEMMA StillSame ==
  ASSUME Still
  PROVE  /\ Excused' = Excused /\ Serves' = Serves /\ Connects' = Connects
         /\ FileTypes' = FileTypes
BY Zenon DEF Still, Excused, Serves, Connects, FileTypes

LEMMA SidesStay ==
  ASSUME ProcessInv, Still, Onwards, UNCHANGED side
  PROVE  SideInv' /\ SidePlaces'
<1>1. SideInv /\ Excused' = Excused /\ Serves' = Serves /\ Connects' = Connects
  BY SideInvHolds, StillSame, Zenon
<1>2. SideInv'
  BY <1>1, Zenon DEF SideInv
<1>3. SidePlaces'
  BY <1>1, Zenon DEF ProcessInv, SidePlaces, Onwards, Still
<1>. QED BY <1>2, <1>3, Zenon

(* What the invariant says of the TUN task, and of the flat variables.      *)
TunFine == tun \in TunType /\ TunShape(tun) /\ (tun.why = "config" => Excused)

Settled ==
  /\ main \in {"load", "spawned", "wait", "running", "sidecar", "stopping", "exited"}
  /\ result \in {"none", "ok", "error", "killed"}
  /\ srv \in {"none", "bind", "outbound", "inbound", "xhttp", "api", "metrics", "awg",
              "hysteria2", "tuic", "accept", "serving", "draining", "ended", "failed", "client"}
  /\ why \in {"none", "config", "environment"}
  /\ why = "config" => Excused
  /\ tasks \subseteq {"api", "metrics", "socks5"}
  /\ session \in {"none", "active", "done", "cut"} /\ shutdown \in BOOLEAN

LEMMA TunStays ==
  ASSUME ProcessInv, Still, UNCHANGED tun
  PROVE  TunFine'
BY StillSame, Zenon DEF ProcessInv, ProcessTypeOK, Excuses, TunFine

(* The parts of the invariant, put together.                                *)
LEMMA Together ==
  ASSUME ProcessInv, Still, Settled', SideInv', SidePlaces', Places', Ending', TunFine'
  PROVE  ProcessInv'
<1>1. command' \in Commands
  BY Zenon DEF ProcessInv, ProcessTypeOK, Still
<1>2. side' \in [Sidecars -> SideType] /\ \A s \in Sidecars : SideShape(s, side'[s])
  BY Zenon DEF SideInv
<1>3. ProcessTypeOK'
  BY <1>1, <1>2, Zenon DEF ProcessTypeOK, Settled, TunFine
<1>4. FileTypes'
  BY StillSame, Zenon DEF ProcessInv
<1>5. Excuses'
  BY Zenon DEF Excuses, SideInv, Settled, TunFine
<1>. QED BY <1>2, <1>3, <1>4, <1>5, Zenon DEF ProcessInv, TunFine

LEMMA SettledHolds == ASSUME ProcessInv PROVE Settled
BY Zenon DEF ProcessInv, ProcessTypeOK, Excuses, Settled

(* A manager moves.                                                         *)
LEMMA ManagerStep ==
  ASSUME ProcessInv, ServerSidecar \/ ClientSidecar \/ ChildDies
  PROVE  ProcessInv'
<1>1. PICK s \in Sidecars : Moved(s)
  <2>1. ASSUME ChildDies PROVE \E s \in Sidecars : Moved(s)
    BY <2>1, SideInvHolds, ChildExitsMoves, Zenon DEF ChildDies, SidecarStep
  <2>. QED BY <2>1, ServerManagersMove, ClientManagersMove, Zenon
<1>2. /\ main # "exited" /\ Still
      /\ UNCHANGED <<tun, shutdown, main, result, srv, why, tasks, session>>
  BY Zenon DEF ServerSidecar, ClientSidecar, ChildDies, SidecarStep, Still
<1>3. SideInv /\ Excused' = Excused /\ Serves' = Serves /\ Connects' = Connects
  BY <1>2, SideInvHolds, StillSame, Zenon
<1>4. SideInv'
  BY <1>1, <1>3, Zenon DEF SideInv, Moved
<1>5. SidePlaces'
  <2>1. ASSUME NEW r \in ServerSidecars
        PROVE  /\ side'[r].pc # "off" => Serves' /\ conf'[r].enabled
               /\ srv' \in Before(r) => side'[r].pc = "off"
    <3>1. /\ side[r].pc # "off" => Serves /\ conf[r].enabled
          /\ srv \in Before(r) => side[r].pc = "off"
      BY Zenon DEF ProcessInv, SidePlaces
    <3>2. side'[r] = side[r] \/ (side[r].pc # "off" /\ side'[r].pc # "off")
      BY <1>1, Zenon DEF Moved, ServerSidecars, Sidecars
    <3>. QED BY <1>2, <1>3, <3>1, <3>2, Zenon DEF Still
  <2>2. ASSUME NEW r \in ClientSidecars
        PROVE  side'[r].pc # "off" => Connects' /\ ~conf'.remote.present /\ r = SidecarOf(conf')
    <3>1. side[r].pc # "off" => Connects /\ ~conf.remote.present /\ r = SidecarOf(conf)
      BY Zenon DEF ProcessInv, SidePlaces
    <3>2. side'[r] = side[r] \/ side[r].pc # "off"
      BY <1>1, Zenon DEF Moved, ClientSidecars, Sidecars
    <3>. QED BY <1>2, <1>3, <3>1, <3>2, Zenon DEF Still
  <2>. QED BY <2>1, <2>2, Zenon DEF SidePlaces
<1>6. Places'
  <2>1. main # "load"
    BY <1>1, Zenon DEF ProcessInv, Places, Moved
  <2>. QED BY <1>2, <1>3, <2>1, Zenon DEF ProcessInv, Places, Still
<1>7. Ending'
  BY <1>2, Zenon DEF Ending
<1>settled. Settled'
  BY <1>2, <1>3, <1>4, <1>5, <1>6, <1>7, SettledHolds DEF Settled
<1>. QED BY <1>2, <1>3, <1>4, <1>5, <1>6, <1>7, <1>settled, TunStays, Together, Zenon

(* The TUN task moves.                                                      *)
LEMMA TunTaskStep ==
  ASSUME ProcessInv, TunStep
  PROVE  ProcessInv'
<1>1. TunMoved
  BY TunMoves, Zenon
<1>2. /\ main # "exited" /\ Still
      /\ UNCHANGED <<side, shutdown, main, result, srv, why, tasks, session>>
  BY Zenon DEF TunStep, Still
<1>3. Excused' = Excused /\ Serves' = Serves /\ Connects' = Connects
  BY <1>2, StillSame, Zenon
<1>4. SideInv' /\ SidePlaces'
  BY <1>2, SidesStay, Zenon DEF Onwards
<1>5. Places'
  BY <1>1, <1>2, <1>3, Zenon DEF ProcessInv, Places, TunMoved, Still
<1>6. Ending'
  BY <1>2, Zenon DEF Ending
<1>7. TunFine'
  BY <1>1, <1>3, Zenon DEF TunMoved, TunFine
<1>settled. Settled'
  BY <1>2, <1>3, <1>4, <1>5, <1>6, <1>7, SettledHolds DEF Settled
<1>. QED BY <1>2, <1>3, <1>4, <1>5, <1>6, <1>7, <1>settled, Together, Zenon

(* The commands.                                                            *)
LEMMA LoadStep ==
  ASSUME ProcessInv, check_config \/ ExportAwgClient \/ run_server
  PROVE  ProcessInv'
<1>1. /\ main = "load" /\ Still
      /\ UNCHANGED <<side, tun, shutdown, session, why, tasks>>
  BY Zenon DEF check_config, ExportAwgClient, run_server, Quiet, Still
<1>2. /\ srv = "none" /\ tasks = {} /\ tun.pc = "off"
      /\ \A s \in Sidecars : side[s].pc = "off"
  BY <1>1, Zenon DEF ProcessInv, Places
<1>3. \/ /\ main' = "exited" /\ result' \in {"ok", "error"} /\ srv' = "none"
      \/ /\ main' = "spawned" /\ result' = result /\ srv' = "bind"
         /\ command = "run" /\ validate(conf)
  BY <1>2, Zenon DEF check_config, ExportAwgClient, run_server, Exits
<1>4. Excused' = Excused /\ Serves' = Serves /\ Connects' = Connects
  BY <1>1, StillSame, Zenon
<1>5. Onwards
  BY <1>2, Zenon DEF Onwards, ServerSidecars, Before, Early
<1>6. SideInv' /\ SidePlaces'
  BY <1>1, <1>5, SidesStay, Zenon
<1>7. Places'
  BY <1>1, <1>2, <1>3, <1>4, Zenon DEF Places, Serves
<1>8. Ending'
  BY <1>1, <1>2, <1>3, Zenon DEF Ending
<1>9. TunFine'
  BY <1>1, TunStays, Zenon
<1>settled. Settled'
  BY <1>1, <1>3, <1>4, <1>6, <1>7, <1>8, <1>9, SettledHolds, Zenon DEF Settled
<1>. QED BY <1>1, <1>3, <1>4, <1>6, <1>7, <1>8, <1>9, <1>settled, Together, Zenon

(* A manager is spawned.                                                    *)
LEMMA Spawned ==
  ASSUME ProcessInv, Still, NEW s \in Sidecars, side[s].pc = "off",
         side' = [side EXCEPT ![s].pc = "start"]
  PROVE  /\ SideInv'
         /\ \A r \in Sidecars : r # s => side'[r] = side[r]
<1>1. SideInv /\ Excused' = Excused
  BY SideInvHolds, StillSame, Zenon
<1>. DEFINE m == [side[s] EXCEPT !.pc = "start"]
<1>2. side[s] \in SideType /\ SideShape(s, side[s]) /\ (side[s].why = "config" => Excused)
  BY <1>1, Zenon DEF SideInv
<1>3. m \in SideType
  BY <1>2, Zenon DEF SideType
<1>4. m.pc = "start" /\ m.child = side[s].child /\ m.file = side[s].file /\ m.why = side[s].why
  BY <1>2, Zenon DEF SideType
<1>5. SideShape(s, m)
  BY <1>2, <1>4, Zenon DEF SideShape
<1>6. side'[s] = m /\ \A r \in Sidecars : r # s => side'[r] = side[r]
  BY <1>1, Zenon DEF SideInv
<1>7. side' \in [Sidecars -> SideType]
  BY <1>1, <1>3, Zenon DEF SideInv
<1>. QED BY <1>1, <1>2, <1>4, <1>5, <1>6, <1>7, Zenon DEF SideInv

LEMMA ClientLoadStep ==
  ASSUME ProcessInv, run_client
  PROVE  ProcessInv'
<1>1. /\ main = "load" /\ command = "client" /\ Still
      /\ UNCHANGED <<tun, shutdown, session, srv, why, tasks>>
  BY Zenon DEF run_client, Quiet, Still
<1>2. /\ srv = "none" /\ tasks = {} /\ tun.pc = "off"
      /\ \A s \in Sidecars : side[s].pc = "off"
  BY <1>1, Zenon DEF ProcessInv, Places
<1>3. Excused' = Excused /\ Serves' = Serves /\ Connects' = Connects
  BY <1>1, StillSame, Zenon
<1>4. TunFine'
  BY <1>1, TunStays, Zenon
<1>5. Onwards
  BY <1>1, Zenon DEF Onwards
<1>6. CASE ~validate_client(conf)
  <2>1. UNCHANGED side /\ main' = "exited" /\ result' = "error"
    BY <1>6, Zenon DEF run_client, Exits
  <2>2. SideInv' /\ SidePlaces'
    BY <1>1, <1>5, <2>1, SidesStay, Zenon
  <2>3. Places' /\ Ending'
    BY <1>1, <1>2, <2>1, Zenon DEF Places, Ending
  <2>settled. Settled'
    BY <1>1, <1>3, <1>4, <2>1, <2>2, <2>3, SettledHolds, Zenon DEF Settled
  <2>. QED BY <1>1, <1>3, <1>4, <2>1, <2>2, <2>3, <2>settled, Together, Zenon
<1>7. CASE validate_client(conf) /\ conf.remote.present
  <2>1. UNCHANGED <<side, result>> /\ main' = "running"
    BY <1>7, Zenon DEF run_client
  <2>2. SideInv' /\ SidePlaces'
    BY <1>1, <1>5, <2>1, SidesStay, Zenon
  <2>3. Connects' /\ conf'.remote.present
    BY <1>1, <1>3, <1>7, Zenon DEF Connects, Still
  <2>4. Places' /\ Ending'
    BY <1>1, <1>2, <2>1, <2>3, Zenon DEF Places, Ending
  <2>settled. Settled'
    BY <1>1, <1>3, <1>4, <2>1, <2>2, <2>4, SettledHolds DEF Settled
  <2>. QED BY <1>1, <1>3, <1>4, <2>1, <2>2, <2>4, <2>settled, Together, Zenon
<1>8. CASE validate_client(conf) /\ ~conf.remote.present
  <2>. DEFINE s == SidecarOf(conf)
  <2>1. /\ UNCHANGED result /\ main' = "sidecar"
        /\ side' = [side EXCEPT ![s].pc = "start"]
    BY <1>8, Zenon DEF run_client
  <2>2. s \in ClientSidecars /\ s \in Sidecars
    BY <1>8, ValidSidecar, Zenon DEF ClientSidecars, Sidecars
  <2>3. SideInv' /\ \A r \in Sidecars : r # s => side'[r] = side[r]
    BY <1>1, <1>2, <2>1, <2>2, Spawned, Zenon
  <2>4. Connects' /\ ~conf'.remote.present /\ SidecarOf(conf') = s
    BY <1>1, <1>3, <1>8, Zenon DEF Connects, Still
  <2>5. SidePlaces'
    <3>1. \A r \in ServerSidecars : side'[r].pc = "off"
      BY <1>2, <2>2, <2>3, Zenon DEF ServerSidecars, ClientSidecars, Sidecars
    <3>2. \A r \in ClientSidecars : r # s => side'[r].pc = "off"
      BY <1>2, <2>3, Zenon DEF ClientSidecars, Sidecars
    <3>. QED BY <2>4, <3>1, <3>2, Zenon DEF SidePlaces
  <2>6. Places' /\ Ending'
    BY <1>1, <1>2, <2>1, <2>4, Zenon DEF Places, Ending
  <2>settled. Settled'
    BY <1>1, <1>3, <1>4, <2>1, <2>3, <2>5, <2>6, SettledHolds DEF Settled
  <2>. QED BY <1>1, <1>3, <1>4, <2>1, <2>3, <2>5, <2>6, <2>settled, Together, Zenon
<1>. QED BY <1>6, <1>7, <1>8, Zenon

(* A stage of the server's start-up: it never panics, fails on the          *)
(* configuration only where validate() does not look, and starts a daemon   *)
(* or the API only when its section is enabled.                             *)
StageStep ==
  /\ main # "exited"
  /\ Still /\ UNCHANGED <<main, result, shutdown, session, tun>>
  /\ srv \notin {"none", "client"} /\ srv' \notin {"none", "client"}
  /\ srv' \in {"outbound", "inbound", "xhttp", "api", "metrics", "awg", "hysteria2", "tuic",
               "accept", "serving", "draining", "ended", "failed"}
  /\ why' \in {why, "environment"} \/ (why' = "config" /\ Excused)
  /\ tasks' \subseteq {"api", "metrics", "socks5"}
  /\ "api" \in tasks' => "api" \in tasks \/ conf.api.enabled

StageSides ==
  \/ UNCHANGED side /\ Onwards
  \/ \E s \in ServerSidecars :
       /\ srv \in Before(s) /\ conf[s].enabled
       /\ side' = [side EXCEPT ![s].pc = "start"]
       /\ srv' \notin Before(s) /\ Onwards

LEMMA StageKeeps ==
  ASSUME ProcessInv, StageStep, StageSides
  PROVE  ProcessInv'
<1>1. Still /\ Excused' = Excused /\ Serves' = Serves /\ Connects' = Connects
  BY StillSame, Zenon DEF StageStep
<1>2. Serves
  BY Zenon DEF ProcessInv, Places, StageStep
<1>3. SideInv' /\ SidePlaces'
  <2>1. CASE UNCHANGED side /\ Onwards
    BY <1>1, <2>1, SidesStay, Zenon
  <2>2. ASSUME NEW s \in ServerSidecars, srv \in Before(s), conf[s].enabled,
               side' = [side EXCEPT ![s].pc = "start"], srv' \notin Before(s), Onwards
        PROVE  SideInv' /\ SidePlaces'
    <3>1. s \in Sidecars /\ side[s].pc = "off"
      BY <2>2, Zenon DEF ProcessInv, SidePlaces, ServerSidecars, Sidecars
    <3>2. SideInv' /\ \A r \in Sidecars : r # s => side'[r] = side[r]
      BY <1>1, <2>2, <3>1, Spawned, Zenon
    <3>3. ASSUME NEW r \in ServerSidecars
          PROVE  /\ side'[r].pc # "off" => Serves' /\ conf'[r].enabled
                 /\ srv' \in Before(r) => side'[r].pc = "off"
      <4>1. CASE r = s
        BY <1>1, <1>2, <2>2, <4>1, Zenon DEF Still
      <4>2. CASE r # s
        <5>1. side'[r] = side[r]
          BY <3>2, <4>2 DEF ServerSidecars, Sidecars
        <5>. QED BY <1>1, <2>2, <5>1, Zenon DEF ProcessInv, SidePlaces, Onwards, Still
      <4>. QED BY <4>1, <4>2, Zenon
    <3>4. ASSUME NEW r \in ClientSidecars
          PROVE  side'[r].pc # "off" => Connects' /\ ~conf'.remote.present /\ r = SidecarOf(conf')
      <4>1. side'[r] = side[r]
        BY <3>2, Zenon DEF ServerSidecars, ClientSidecars, Sidecars
      <4>. QED BY <1>1, <4>1, Zenon DEF ProcessInv, SidePlaces, Still
    <3>. QED BY <3>2, <3>3, <3>4, Zenon DEF SidePlaces
  <2>. QED BY <2>1, <2>2, Zenon DEF StageSides
<1>4. TunFine'
  BY <1>1, TunStays, Zenon DEF StageStep
<1>5. Places'
  <2>1. main # "load" /\ tun.pc = "off"
    BY Zenon DEF ProcessInv, Places, StageStep
  <2>. QED BY <1>1, <1>2, <2>1, Zenon DEF ProcessInv, Places, StageStep, Still
<1>6. Ending'
  BY Zenon DEF Ending, StageStep
<1>7. why' = "config" => Excused'
  BY <1>1, Zenon DEF ProcessInv, Excuses, StageStep
<1>settled. Settled'
  BY <1>1, <1>3, <1>4, <1>5, <1>6, <1>7, SettledHolds DEF Settled, StageStep
<1>. QED BY <1>1, <1>3, <1>4, <1>5, <1>6, <1>7, <1>settled, Together, Zenon DEF StageStep

(* Each stage is such a step.                                               *)
LEMMA StageServes ==
  ASSUME ProcessInv, srv \notin {"none", "client"}
  PROVE  /\ command = "run" /\ validate(conf) /\ HasSections(conf, Sections)
         /\ Excused = NotValidated(conf)
<1>1. command = "run" /\ validate(conf)
  BY Zenon DEF ProcessInv, Places, Serves
<1>. QED BY <1>1, Zenon DEF ProcessInv, FileTypes, Excused

LEMMA BuildOutboundStep ==
  ASSUME ProcessInv, BuildOutbound
  PROVE  StageStep /\ StageSides
<1>1. main # "exited" /\ srv = "outbound" /\ Still
      /\ UNCHANGED <<tasks, side, shutdown, session, tun>>
  BY Zenon DEF BuildOutbound, Quiet, Still
<1>2. validate(conf) /\ HasSections(conf, Sections) /\ Excused = NotValidated(conf)
  BY <1>1, StageServes, Zenon
<1>3. ~OutboundPanics(conf)
  BY <1>2, ValidNeverPanics, Zenon
<1>4. /\ UNCHANGED <<main, result>>
      /\ \/ srv' = "inbound" /\ why' = why
         \/ srv' = "failed" /\ why' = "environment"
         \/ srv' = "failed" /\ why' = "config" /\ ~outbound_tcp_transport(conf)
  BY <1>3, Zenon DEF BuildOutbound, Stage, Task, ServerFails
<1>5. ~outbound_tcp_transport(conf) => Excused
  BY <1>2, ValidOutbound, Zenon
<1>6. StageStep
  BY <1>1, <1>4, <1>5, Zenon DEF StageStep, ProcessInv, ProcessTypeOK
<1>7. StageSides
  BY <1>1, <1>4, Zenon DEF StageSides, Onwards, ServerSidecars, Before, Early
<1>. QED BY <1>6, <1>7, Zenon

LEMMA BuildInboundStep ==
  ASSUME ProcessInv, BuildInbound
  PROVE  StageStep /\ StageSides
<1>1. main # "exited" /\ srv = "inbound" /\ Still
      /\ UNCHANGED <<tasks, side, shutdown, session, tun>>
  BY Zenon DEF BuildInbound, Quiet, Still
<1>2. validate(conf) /\ HasSections(conf, Sections) /\ Excused = NotValidated(conf)
  BY <1>1, StageServes, Zenon
<1>3. ~(conf.reality.enabled /\ RealityPanics(conf))
  BY <1>2, ValidNeverPanics, Zenon
<1>. DEFINE ok == CASE conf.reality.enabled -> RealityTransport_new(conf)
                    [] conf.tls.enabled -> TlsTransport_new(conf)
                    [] OTHER -> TRUE
<1>4. Stage("inbound", ok, "xhttp")
  BY <1>3, Zenon DEF BuildInbound
<1>5. /\ UNCHANGED <<main, result>>
      /\ \/ srv' = "xhttp" /\ why' = why
         \/ srv' = "failed" /\ why' = "config" /\ ~ok
  <2>. HIDE DEF ok
  <2>. QED BY <1>4, Zenon DEF Stage, Task, ServerFails
<1>6. ~ok => Excused
  <2>1. CASE conf.reality.enabled
    BY <1>2, <2>1, ValidInbound, Zenon
  <2>2. CASE ~conf.reality.enabled /\ conf.tls.enabled
    BY <1>2, <2>2, ValidInbound, Zenon
  <2>3. CASE ~conf.reality.enabled /\ ~conf.tls.enabled
    BY <2>3, Zenon
  <2>. QED BY <2>1, <2>2, <2>3, Zenon
<1>. HIDE DEF ok
<1>7. StageStep
  BY <1>1, <1>5, <1>6, Zenon DEF StageStep, ProcessInv, ProcessTypeOK
<1>8. StageSides
  BY <1>1, <1>5, Zenon DEF StageSides, Onwards, ServerSidecars, Before, Early
<1>. QED BY <1>7, <1>8, Zenon

LEMMA PlainStageStep ==
  ASSUME ProcessInv,
         bind_listeners \/ BuildXhttp \/ SpawnAcceptLoops \/ AcceptLoopsEnd \/ AwaitTasks
  PROVE  StageStep /\ StageSides
<1>1. /\ main # "exited" /\ Still
      /\ UNCHANGED <<tasks, side, shutdown, session, tun>>
      /\ srv \in {"bind", "xhttp", "accept", "serving", "draining"}
  BY Zenon DEF bind_listeners, BuildXhttp, SpawnAcceptLoops, AcceptLoopsEnd, AwaitTasks,
    Stage,
         Quiet, Still
<1>2. conf.xhttp.enabled => xhttp_config(conf)
  BY <1>1, StageServes, ValidSections, Zenon
<1>3. /\ UNCHANGED <<main, result>>
      /\ \/ srv = "bind" /\ srv' = "outbound" /\ why' = why
         \/ srv = "bind" /\ srv' = "failed" /\ why' = "environment"
         \/ srv = "xhttp" /\ srv' = "api" /\ why' = why
         \/ srv' \in {"draining", "serving", "ended"} /\ why' = why
  BY <1>2, Zenon DEF bind_listeners, BuildXhttp, SpawnAcceptLoops, AcceptLoopsEnd,
    AwaitTasks,
              Stage, Task, ServerFails
<1>4. StageStep
  BY <1>1, <1>3, Zenon DEF StageStep, ProcessInv, ProcessTypeOK
<1>5. Onwards
  BY <1>1, <1>3, Zenon DEF Onwards, ServerSidecars, Before, Early
<1>. QED BY <1>1, <1>4, <1>5, Zenon DEF StageSides

LEMMA SpawnTaskStep ==
  ASSUME ProcessInv, SpawnApi \/ SpawnMetrics
  PROVE  StageStep /\ StageSides
<1>1. /\ main # "exited" /\ Still
      /\ UNCHANGED <<main, result, side, shutdown, session, tun>>
      /\ \/ srv = "api" /\ srv' = "metrics" /\ why' = why
         \/ srv = "metrics" /\ srv' = "awg" /\ why' = why
         \/ srv = "metrics" /\ srv' = "failed" /\ why' = "environment"
  BY Zenon DEF SpawnApi, SpawnMetrics, Stage, Task, ServerFails, Quiet, Still
<1>2. /\ tasks' \subseteq tasks \cup {"api", "metrics"}
      /\ "api" \in tasks' => "api" \in tasks \/ conf.api.enabled
  BY Zenon DEF SpawnApi, SpawnMetrics
<1>3. StageStep
  BY <1>1, <1>2, Zenon DEF StageStep, ProcessInv, ProcessTypeOK
<1>4. Onwards
  BY <1>1, Zenon DEF Onwards, ServerSidecars, Before, Early
<1>. QED BY <1>1, <1>3, <1>4, Zenon DEF StageSides

LEMMA SpawnSidecarStep ==
  ASSUME ProcessInv, SpawnAwg \/ SpawnHysteria2 \/ SpawnTuic
  PROVE  StageStep /\ StageSides
<1>1. ASSUME NEW s \in ServerSidecars, NEW ok, NEW next,
             <<s, next>> \in {<<"awg", "hysteria2">>, <<"hysteria2", "tuic">>,
                              <<"tuic", "accept">>},
             conf[s].enabled => ok, SpawnSidecar(s, ok, next)
      PROVE  StageStep /\ StageSides
  <2>1. /\ main # "exited" /\ Still
        /\ srv = s /\ srv' = next
        /\ UNCHANGED <<main, result, why, tasks, shutdown, session, tun>>
    BY <1>1, Zenon DEF SpawnSidecar, Stage, Task, Quiet, Still
  <2>2. \/ UNCHANGED side
        \/ conf[s].enabled /\ side' = [side EXCEPT ![s].pc = "start"]
    BY <1>1, Zenon DEF SpawnSidecar
  <2>3. StageStep
    BY <1>1, <2>1, Zenon DEF StageStep, ProcessInv, ProcessTypeOK
  <2>4. Onwards /\ srv \in Before(s) /\ srv' \notin Before(s)
    <3>1. CASE s = "awg"
      BY <1>1, <2>1, <3>1, Zenon DEF Onwards, ServerSidecars, Before, Early
    <3>2. CASE s = "hysteria2"
      BY <1>1, <2>1, <3>2, Zenon DEF Onwards, ServerSidecars, Before, Early
    <3>3. CASE s = "tuic"
      BY <1>1, <2>1, <3>3, Zenon DEF Onwards, ServerSidecars, Before, Early
    <3>. QED BY <3>1, <3>2, <3>3, Zenon DEF ServerSidecars
  <2>. QED BY <2>2, <2>3, <2>4, Zenon DEF StageSides
<1>2. srv \notin {"none", "client"}
  BY Zenon DEF SpawnAwg, SpawnHysteria2, SpawnTuic, SpawnSidecar, Stage
<1>3. /\ conf["awg"].enabled => awg_server_config(conf)
      /\ conf["hysteria2"].enabled => hysteria2_server_config(conf)
      /\ conf["tuic"].enabled => tuic_server_config(conf)
  BY <1>2, StageServes, ValidSections, Zenon
<1>4. CASE SpawnAwg
  BY <1>1, <1>3, <1>4 DEF SpawnAwg, ServerSidecars
<1>5. CASE SpawnHysteria2
  BY <1>1, <1>3, <1>5 DEF SpawnHysteria2, ServerSidecars
<1>6. CASE SpawnTuic
  BY <1>1, <1>3, <1>6 DEF SpawnTuic, ServerSidecars
<1>. QED BY <1>4, <1>5, <1>6, Zenon

(* Helper tasks end, and the API never panics.                              *)
LEMMA TaskEndsStep ==
  ASSUME ProcessInv, run_api_server \/ run_metrics_server \/ Socks5TaskEnds
  PROVE  ProcessInv'
<1>1. /\ main # "exited" /\ Still
      /\ UNCHANGED <<side, tun, shutdown, session>>
  BY Zenon DEF run_api_server, run_metrics_server, Socks5TaskEnds, Quiet, Still
<1>2. "api" \in tasks => ~ApiPanics(conf)
  BY ValidNeverPanics, Zenon DEF ProcessInv, Places, Serves
<1>3. UNCHANGED <<main, result, srv, why>> /\ tasks' \subseteq tasks
  BY <1>2, Zenon DEF run_api_server, run_metrics_server, Socks5TaskEnds
<1>4. Excused' = Excused /\ Serves' = Serves /\ Connects' = Connects
  BY <1>1, StillSame, Zenon
<1>5. SideInv' /\ SidePlaces'
  BY <1>1, <1>3, SidesStay, Zenon DEF Onwards
<1>6. TunFine'
  BY <1>1, TunStays, Zenon
<1>7. Places' /\ Ending'
  BY <1>1, <1>3, <1>4, Zenon DEF ProcessInv, Places, Ending, Still
<1>settled. Settled'
  BY <1>1, <1>3, <1>4, <1>5, <1>6, <1>7, SettledHolds DEF Settled
<1>. QED BY <1>1, <1>3, <1>4, <1>5, <1>6, <1>7, <1>settled, Together, Zenon

(* Sessions and signals.                                                    *)
LEMMA SignalStep ==
  ASSUME ProcessInv,
         AcceptSession \/ SessionEnds \/ InstallSignals \/ Signal \/ CtrlC \/ Terminate
  PROVE  ProcessInv'
<1>1. /\ Still /\ UNCHANGED <<side, tun, srv, why, tasks>>
      /\ session' \in {session, "active", "done", "cut"} /\ shutdown' \in {shutdown, TRUE}
  BY Zenon DEF AcceptSession, SessionEnds, InstallSignals, Signal, CtrlC, Terminate, Still
<1>2. \/ main # "exited" /\ UNCHANGED <<main, result>>
      \/ main = "spawned" /\ main' = "wait" /\ UNCHANGED result
      \/ main = "wait" /\ main' = "stopping" /\ UNCHANGED result
      \/ main' = "exited" /\ result' = "killed"
  BY Zenon DEF AcceptSession, SessionEnds, InstallSignals, Signal, CtrlC, Terminate, Exits
<1>3. Excused' = Excused /\ Serves' = Serves /\ Connects' = Connects
  BY <1>1, StillSame, Zenon
<1>4. SideInv' /\ SidePlaces'
  BY <1>1, SidesStay, Zenon DEF Onwards
<1>5. TunFine'
  BY <1>1, TunStays, Zenon
<1>6. Places'
  BY <1>1, <1>2, <1>3, Zenon DEF ProcessInv, Places, Still
<1>7. Ending'
  BY <1>2, Zenon DEF Ending
<1>settled. Settled'
  <2>1. Settled
    BY SettledHolds, Zenon
  <2>2. /\ main' \in {"load", "spawned", "wait", "running", "sidecar", "stopping", "exited"}
        /\ result' \in {"none", "ok", "error", "killed"}
    BY <1>2, <2>1, Zenon DEF Settled
  <2>3. session' \in {"none", "active", "done", "cut"}
    BY <1>1, <2>1, Zenon DEF Settled
  <2>4. shutdown' \in BOOLEAN
    BY <1>1, <2>1, Zenon DEF Settled
  <2>5. srv' = srv /\ why' = why /\ tasks' = tasks
    BY <1>1, Zenon
  <2>. QED BY <1>3, <2>1, <2>2, <2>3, <2>4, <2>5, Zenon DEF Settled
<1>. QED BY <1>1, <1>4, <1>5, <1>6, <1>7, <1>settled, Together, Zenon

(* The runtime is dropped: managers that run stop, and the TUN task ends.   *)
LEMMA DropStep ==
  ASSUME ProcessInv, Still, DropRuntime, ~TunBlocking, \A s \in Sidecars : ~Blocking(s),
         main' = "exited", result' = "ok", UNCHANGED <<shutdown, srv, why>>
  PROVE  ProcessInv'
<1>1. SideInv /\ Excused' = Excused /\ Serves' = Serves /\ Connects' = Connects
  BY SideInvHolds, StillSame, Zenon
<1>2. ASSUME NEW s \in Sidecars
      PROVE  /\ side'[s] \in SideType /\ SideShape(s, side'[s])
             /\ side'[s].why = "config" => Excused
             /\ side'[s].pc \in {"off", "over", "failed"}
             /\ side'[s].pc = "off" <=> side[s].pc = "off"
  <2>1. side[s] \in SideType /\ SideShape(s, side[s]) /\ (side[s].why = "config" => Excused)
    BY <1>1, Zenon DEF SideInv
  <2>2. CASE side[s].pc = "run"
    <3>1. side'[s] = Stopped(side[s])
      BY <2>2, Zenon DEF DropRuntime
    <3>. QED BY <2>1, <2>2, <3>1, StoppedShape, Zenon
  <2>3. CASE side[s].pc # "run"
    <3>1. side'[s] = side[s]
      BY <2>3, Zenon DEF DropRuntime
    <3>2. side[s].pc \in {"off", "over", "failed"}
      BY <2>1, <2>3, Zenon DEF Blocking, SideType
    <3>. QED BY <2>1, <3>1, <3>2, Zenon
  <2>. QED BY <2>2, <2>3, Zenon
<1>3. side' \in [Sidecars -> SideType]
  BY <1>2, Zenon DEF DropRuntime
<1>4. SideInv'
  BY <1>1, <1>2, <1>3, Zenon DEF SideInv
<1>5. SidePlaces'
  <2>1. \A s \in ServerSidecars \cup ClientSidecars : side'[s].pc = "off" <=> side[s].pc = "off"
    BY <1>2, Zenon DEF ServerSidecars, ClientSidecars, Sidecars
  <2>. QED BY <1>1, <2>1, Zenon DEF ProcessInv, SidePlaces, Still
<1>6. /\ tun' \in TunType /\ TunShape(tun') /\ tun'.why = tun.why
      /\ tun'.pc \in {"off", "stopped", "failed"}
      /\ tun.pc = "off" => tun'.pc = "off"
  BY TunAbortedShape, Zenon DEF ProcessInv, ProcessTypeOK, DropRuntime
<1>7. Places'
  BY <1>1, <1>6, Zenon DEF ProcessInv, Places, DropRuntime, Still
<1>8. Ending'
  BY <1>2, <1>6, Zenon DEF Ending
<1>9. session' \in {"none", "active", "done", "cut"} /\ tasks' = {}
  BY Zenon DEF ProcessInv, ProcessTypeOK, DropRuntime
<1>10. TunFine'
  BY <1>1, <1>6, Zenon DEF ProcessInv, Excuses, TunFine
<1>settled. Settled'
  BY <1>1, <1>4, <1>5, <1>6, <1>7, <1>8, <1>9, <1>10, SettledHolds, Zenon DEF Settled
<1>. QED BY <1>1, <1>4, <1>5, <1>6, <1>7, <1>8, <1>9, <1>10, <1>settled, Together, Zenon

LEMMA StopStep ==
  ASSUME ProcessInv, StopServer \/ StopClient
  PROVE  ProcessInv'
<1>1. /\ Still /\ DropRuntime /\ main' = "exited" /\ result' = "ok"
      /\ UNCHANGED <<shutdown, srv, why>>
  BY Zenon DEF StopServer, StopClient, Exits, Still
<1>2. ~TunBlocking
  <2>1. ASSUME StopServer PROVE tun.pc = "off"
    BY <2>1, Zenon DEF StopServer, ProcessInv, Places, Connects
  <2>. QED BY <2>1, Zenon DEF StopClient, TunBlocking
<1>3. ASSUME NEW s \in Sidecars PROVE ~Blocking(s)
  <2>1. CASE StopServer
    BY <2>1, Zenon DEF StopServer
  <2>2. CASE StopClient
    <3>1. command = "client" /\ conf.remote.present
      BY <2>2, Zenon DEF StopClient, ProcessInv, Places, Connects
    <3>2. side[s].pc = "off"
      BY <3>1, Zenon DEF ProcessInv, SidePlaces, Serves, Sidecars, ServerSidecars,
        ClientSidecars
    <3>. QED BY <3>2, Zenon DEF Blocking
  <2>. QED BY <2>1, <2>2, Zenon
<1>. QED BY <1>1, <1>2, <1>3, DropStep, Zenon

(* The client's inbounds are started, or the outbound cannot be built.      *)
LEMMA StartInboundsStep ==
  ASSUME ProcessInv, StartInbounds
  PROVE  ProcessInv'
<1>1. /\ main = "running" /\ srv = "none" /\ Still
      /\ UNCHANGED <<side, shutdown, session>>
  BY Zenon DEF StartInbounds, Still
<1>2. /\ command = "client" /\ validate_client(conf) /\ conf.remote.present
      /\ Connects
  BY <1>1, Zenon DEF ProcessInv, Places, Connects
<1>3. HasSections(conf, ClientSections)
  BY <1>2, Zenon DEF ProcessInv, FileTypes
<1>4. tun \in TunType /\ TunShape(tun) /\ tun.pc = "off"
  BY <1>1, Zenon DEF ProcessInv, ProcessTypeOK, Places
<1>5. tun.why = "none" /\ Clean(tun) /\ ~tun.guard
  BY <1>4, Zenon DEF TunShape
<1>6. "api" \notin tasks
  BY <1>2, Zenon DEF ProcessInv, Places, Serves
<1>7. \A s \in Sidecars : side[s].pc = "off"
  BY <1>2, Zenon DEF ProcessInv, SidePlaces, Serves, Sidecars, ServerSidecars,
    ClientSidecars
<1>8. Excused' = Excused /\ Serves' = Serves /\ Connects' = Connects
  BY <1>1, StillSame, Zenon
<1>9. ~Outbound_from_config(conf) => Excused
  BY <1>2, <1>3, ValidClientOutbound, Zenon DEF Excused
<1>10. CASE srv' = "client" /\ UNCHANGED <<main, result, why>>
            /\ tasks' = (IF conf.client.listen = "none" THEN {} ELSE {"socks5"})
            /\ tun' = (IF conf.tun.enabled THEN [tun EXCEPT !.pc = "resolve"] ELSE tun)
  <2>1. SideInv' /\ SidePlaces'
    <3>1. Onwards
      BY <1>10, Zenon DEF Onwards, ServerSidecars, Before, Early
    <3>. QED BY <1>1, <3>1, SidesStay, Zenon
  <2>2. /\ tun' \in TunType /\ TunShape(tun') /\ tun'.why = "none"
        /\ tun'.pc # "off" => conf.tun.enabled
    <3>1. CASE conf.tun.enabled
      <4>1. tun' = [tun EXCEPT !.pc = "resolve"]
        BY <1>10, <3>1, Zenon
      <4>2. tun' \in TunType
        BY <1>4, <4>1, Zenon DEF TunType
      <4>3. /\ tun'.pc = "resolve" /\ tun'.why = tun.why /\ tun'.guard = tun.guard
            /\ tun'.routes = tun.routes /\ tun'.table = tun.table /\ tun'.rule = tun.rule
        BY <1>4, <4>1, Zenon DEF TunType
      <4>4. Clean(tun')
        BY <1>5, <4>3, Zenon DEF Clean
      <4>. QED BY <1>5, <3>1, <4>2, <4>3, <4>4, Zenon DEF TunShape
    <3>2. CASE ~conf.tun.enabled
      BY <1>4, <1>5, <1>10, <3>2, Zenon
    <3>. QED BY <3>1, <3>2, Zenon
  <2>3. Places' /\ Ending'
    BY <1>1, <1>2, <1>8, <1>10, <2>2, Zenon DEF Places, Ending, Still
  <2>settled. Settled'
    BY <1>1, <1>8, <1>10, <2>1, <2>2, <2>3, SettledHolds, Zenon DEF Settled
  <2>. QED BY <1>1, <1>8, <1>10, <2>1, <2>2, <2>3, <2>settled, Together, Zenon DEF TunFine
<1>11. CASE /\ why' = "environment" \/ (why' = "config" /\ ~Outbound_from_config(conf))
            /\ main' = "exited" /\ result' = "error" /\ UNCHANGED <<srv, tasks, tun>>
  <2>1. SideInv' /\ SidePlaces'
    BY <1>1, <1>11, SidesStay, Zenon DEF Onwards
  <2>2. TunFine'
    BY <1>1, <1>11, TunStays, Zenon
  <2>3. Places'
    BY <1>1, <1>4, <1>6, <1>11, Zenon DEF Places
  <2>4. Ending'
    BY <1>1, <1>4, <1>7, <1>11, Zenon DEF Ending
  <2>settled. Settled'
    BY <1>1, <1>8, <1>9, <1>11, <2>1, <2>2, <2>3, <2>4, SettledHolds, Zenon DEF Settled
  <2>. QED BY <1>1, <1>8, <1>9, <1>11, <2>1, <2>2, <2>3, <2>4, <2>settled, Together, Zenon
<1>. QED BY <1>10, <1>11, Zenon DEF StartInbounds, Exits

(* The client ends with its daemon.                                         *)
LEMMA SidecarReturnsStep ==
  ASSUME ProcessInv, SidecarReturns
  PROVE  ProcessInv'
<1>. DEFINE s == SidecarOf(conf)
<1>1. /\ main = "sidecar" /\ Still /\ side[s].pc \in {"over", "failed"}
      /\ main' = "exited" /\ result' \in {"ok", "error"} /\ why' = side[s].why
      /\ UNCHANGED <<side, tun, shutdown, srv, tasks, session>>
  BY Zenon DEF SidecarReturns, Exits, Still
<1>2. command = "client" /\ validate_client(conf) /\ ~conf.remote.present
  BY <1>1, Zenon DEF ProcessInv, Places, Connects
<1>3. s \in Sidecars
  BY <1>2, ValidSidecar, Zenon DEF ClientSidecars, Sidecars
<1>4. side[s] \in SideType /\ (side[s].why = "config" => Excused)
  BY <1>3, SideInvHolds, Zenon DEF SideInv
<1>5. ASSUME NEW r \in Sidecars PROVE side[r].pc \in {"off", "over", "failed"}
  <2>1. r # s => side[r].pc = "off"
    BY <1>2 DEF ProcessInv, SidePlaces, Serves, Sidecars, ServerSidecars, ClientSidecars
  <2>. QED BY <1>1, <2>1, Zenon
<1>6. tun.pc = "off" /\ "api" \notin tasks
  BY <1>2, Zenon DEF ProcessInv, Places, Serves
<1>7. Excused' = Excused /\ Serves' = Serves /\ Connects' = Connects
  BY <1>1, StillSame, Zenon
<1>8. SideInv' /\ SidePlaces'
  BY <1>1, SidesStay, Zenon DEF Onwards
<1>9. TunFine'
  BY <1>1, TunStays, Zenon
<1>10. Places'
  BY <1>1, <1>6, <1>7, Zenon DEF ProcessInv, Places, Still
<1>11. Ending'
  BY <1>1, <1>5, <1>6, Zenon DEF Ending
<1>12. why' \in {"none", "config", "environment"}
  BY <1>1, <1>4, Zenon DEF SideType
<1>settled. Settled'
  BY <1>1, <1>4, <1>7, <1>8, <1>9, <1>10, <1>11, <1>12, SettledHolds, Zenon DEF Settled
<1>. QED BY <1>1, <1>4, <1>7, <1>8, <1>9, <1>10, <1>11, <1>12, <1>settled, Together, Zenon

-----------------------------------------------------------------------------
(* Every step of the process keeps the invariant.                           *)
LEMMA ProcessInductive == ProcessInv /\ [Next]_vars => ProcessInv'
<1>. SUFFICES ASSUME ProcessInv, [Next]_vars PROVE ProcessInv'
  OBVIOUS
<1>1. CASE UNCHANGED vars
  <2>1. Still /\ UNCHANGED <<side, tun, srv, main, result, why, tasks, session, shutdown>>
    BY <1>1, Zenon DEF vars, Still
  <2>2. SideInv' /\ SidePlaces'
    BY <2>1, SidesStay, Zenon DEF Onwards
  <2>3. TunFine'
    BY <2>1, TunStays, Zenon
  <2>4. Excused' = Excused /\ Serves' = Serves /\ Connects' = Connects
    BY <2>1, StillSame, Zenon
  <2>5. Places' /\ Ending'
    BY <2>1, <2>4, Zenon DEF ProcessInv, Places, Ending, Still
  <2>settled. Settled'
    BY <2>1, <2>2, <2>3, <2>4, <2>5, SettledHolds DEF Settled
  <2>. QED BY <2>1, <2>2, <2>3, <2>4, <2>5, <2>settled, Together, Zenon
<1>2. CASE check_config \/ ExportAwgClient \/ run_server
  BY <1>2, LoadStep, Zenon
<1>3. CASE run_client
  BY <1>3, ClientLoadStep, Zenon
<1>4. CASE ServerStart \/ AcceptLoopsEnd \/ AwaitTasks
  <2>1. StageStep /\ StageSides
    BY <1>4, BuildOutboundStep, BuildInboundStep, PlainStageStep, SpawnTaskStep,
       SpawnSidecarStep, Zenon DEF ServerStart
  <2>. QED BY <2>1, StageKeeps, Zenon
<1>5. CASE AcceptSession \/ SessionEnds \/ InstallSignals \/ Signal \/ CtrlC \/ Terminate
  BY <1>5, SignalStep, Zenon
<1>6. CASE run_api_server \/ run_metrics_server \/ Socks5TaskEnds
  BY <1>6, TaskEndsStep, Zenon
<1>7. CASE ServerSidecar \/ ClientSidecar \/ ChildDies
  BY <1>7, ManagerStep, Zenon
<1>8. CASE StopServer \/ StopClient
  BY <1>8, StopStep, Zenon
<1>9. CASE StartInbounds
  BY <1>9, StartInboundsStep, Zenon
<1>10. CASE TunStep
  BY <1>10, TunTaskStep, Zenon
<1>11. CASE SidecarReturns
  BY <1>11, SidecarReturnsStep, Zenon
<1>12. CASE Exited
  BY <1>1, <1>12, Zenon DEF Exited
<1>. QED BY <1>1, <1>2, <1>3, <1>4, <1>5, <1>6, <1>7, <1>8, <1>9, <1>10, <1>11, <1>12,
           Zenon
         DEF Next

LEMMA ProcessInvariant == Spec => []ProcessInv
BY ProcessInitially, ProcessInductive, PTL DEF Spec

-----------------------------------------------------------------------------
(***************************************************************************)
(* The NAT of the server's AWG.                                            *)
(***************************************************************************)
NatShape(s, m) ==
  /\ m.nat # "none" => s = "awg" /\ conf.awg.nat = "on"
  /\ m.nat = "rule" => m.pc \in {"run", "over"}
  /\ m.nat = "forward" => m.pc = "failed"
  /\ s = "awg" /\ conf.awg.nat = "on" /\ m.pc \in {"run", "over"} => m.nat = "rule"

NatInv ==
  /\ side \in [Sidecars -> SideType]
  /\ \A s \in Sidecars : NatShape(s, side[s])

(* One record is replaced by another.                                       *)
LEMMA NatReplaced ==
  ASSUME NatInv, NEW s \in Sidecars, NEW m \in SideType, conf' = conf,
         side' = [side EXCEPT ![s] = m], NatShape(s, m)
  PROVE  NatInv'
<1>1. side'[s] = m /\ \A r \in Sidecars : r # s => side'[r] = side[r]
  BY Zenon DEF NatInv
<1>2. side' \in [Sidecars -> SideType]
  BY Zenon DEF NatInv
<1>3. ASSUME NEW r \in Sidecars PROVE NatShape(r, side[r])'
  <2>1. CASE r = s
    BY <1>1, <2>1, Zenon DEF NatShape
  <2>2. CASE r # s
    <3>1. NatShape(r, side[r])
      BY Zenon DEF NatInv
    <3>2. side'[r] = side[r]
      BY <1>1, <2>2, Zenon
    <3>. QED BY <3>1, <3>2, Zenon DEF NatShape
  <2>. QED BY <2>1, <2>2, Zenon
<1>. QED BY <1>2, <1>3, Zenon DEF NatInv

(* A step that leaves the NAT alone: start() before its end, a manager that *)
(* has run, or one of another daemon.                                       *)
LEMMA NatKept ==
  ASSUME NatInv, NEW s \in Sidecars, NEW m \in SideType, conf' = conf,
         side' = [side EXCEPT ![s] = m], m.nat = side[s].nat,
         \/ m.pc = side[s].pc
         \/ s # "awg"
         \/ side[s].pc \notin {"run", "over", "failed"} /\ m.pc \notin {"run", "over"}
         \/ conf.awg.nat # "on"
         \/ side[s].pc = "run" /\ m.pc = "over"
  PROVE  NatInv'
<1>1. NatShape(s, side[s]) /\ side[s] \in SideType
  BY Zenon DEF NatInv
<1>2. side[s].nat \in {"none", "forward", "rule"}
  BY <1>1, Zenon DEF SideType
<1>3. NatShape(s, m)
  BY <1>1, <1>2, Zenon DEF NatShape
<1>. QED BY <1>3, NatReplaced, Zenon

LEMMA NatFails ==
  ASSUME NatInv, NEW s \in Sidecars, NEW w \in {"config", "environment"}, conf' = conf,
         side[s].pc \notin {"run", "over", "failed"}, Fails(s, w)
  PROVE  NatInv'
<1>. DEFINE m == [side[s] EXCEPT !.pc = "failed", !.why = w]
<1>1. side[s] \in SideType
  BY Zenon DEF NatInv
<1>2. m \in SideType /\ m.pc = "failed" /\ m.nat = side[s].nat
  BY <1>1, Zenon DEF SideType
<1>3. side' = [side EXCEPT ![s] = m]
  BY Zenon DEF Fails
<1>. HIDE DEF m
<1>. QED BY <1>2, <1>3, NatKept, Zenon

LEMMA NatContinues ==
  ASSUME NatInv, NEW s \in Sidecars, NEW p \in {"setconf", "up", "nat", "run"},
         conf' = conf, side[s].pc \notin {"run", "over", "failed"}, Continues(s, p),
         p = "run" => s # "awg" \/ conf.awg.nat # "on"
  PROVE  NatInv'
<1>. DEFINE m == [side[s] EXCEPT !.pc = p]
<1>1. side[s] \in SideType
  BY Zenon DEF NatInv
<1>2. m \in SideType /\ m.pc = p /\ m.nat = side[s].nat
  BY <1>1, Zenon DEF SideType
<1>3. side' = [side EXCEPT ![s] = m]
  BY Zenon DEF Continues
<1>. HIDE DEF m
<1>. QED BY <1>2, <1>3, NatKept, Zenon

(* The steps of start() that all managers share.                            *)
LEMMA NatStarts ==
  ASSUME NatInv, NEW s \in Sidecars, NEW renders, conf' = conf,
         \/ side[s].pc = "start" /\ Fails(s, "environment")
         \/ Launch(s, renders)
         \/ wait_for_socket(s)
         \/ wait_for_process(s) /\ s # "awg"
         \/ apply_setconf(s)
         \/ \E next \in {"nat", "run"} :
              bring_up_interface(s, next) /\ (next = "run" => s # "awg")
  PROVE  NatInv'
<1>1. side[s] \in SideType
  BY Zenon DEF NatInv
<1>2. CASE side[s].pc = "start" /\ Fails(s, "environment")
  BY <1>2, NatFails, Zenon
<1>3. CASE Launch(s, renders)
  <2>1. side[s].pc = "start"
    BY <1>3, Zenon DEF Launch
  <2>2. CASE Fails(s, "config") \/ Fails(s, "environment")
    BY <2>1, <2>2, NatFails, Zenon
  <2>3. CASE side' = [side EXCEPT ![s].pc = "failed", ![s].why = "environment",
                                  ![s].file = TRUE]
    <3>. DEFINE m == [side[s] EXCEPT !.pc = "failed", !.why = "environment", !.file = TRUE]
    <3>1. m \in SideType /\ m.pc = "failed" /\ m.nat = side[s].nat
      BY <1>1, Zenon DEF SideType
    <3>2. side' = [side EXCEPT ![s] = m]
      BY <2>3, Zenon
    <3>. HIDE DEF m
    <3>. QED BY <2>1, <3>1, <3>2, NatKept, Zenon
  <2>4. CASE side' = [side EXCEPT ![s].pc = "wait", ![s].child = "alive", ![s].file = TRUE]
    <3>. DEFINE m == [side[s] EXCEPT !.pc = "wait", !.child = "alive", !.file = TRUE]
    <3>1. m \in SideType /\ m.pc = "wait" /\ m.nat = side[s].nat
      BY <1>1, Zenon DEF SideType
    <3>2. side' = [side EXCEPT ![s] = m]
      BY <2>4, Zenon
    <3>. HIDE DEF m
    <3>. QED BY <2>1, <3>1, <3>2, NatKept, Zenon
  <2>. QED BY <1>3, <2>2, <2>3, <2>4, Zenon DEF Launch
<1>4. CASE wait_for_socket(s)
  <2>1. side[s].pc = "wait"
    BY <1>4, Zenon DEF wait_for_socket
  <2>2. CASE Continues(s, "setconf") \/ Fails(s, "environment")
    BY <2>1, <2>2, NatContinues, NatFails, Zenon
  <2>3. CASE side' = [side EXCEPT ![s].pc = "failed", ![s].why = "environment",
                                  ![s].child = "dead"]
    <3>. DEFINE m == [side[s] EXCEPT !.pc = "failed", !.why = "environment", !.child = "dead"]
    <3>1. m \in SideType /\ m.pc = "failed" /\ m.nat = side[s].nat
      BY <1>1, Zenon DEF SideType
    <3>2. side' = [side EXCEPT ![s] = m]
      BY <2>3, Zenon
    <3>. HIDE DEF m
    <3>. QED BY <2>1, <3>1, <3>2, NatKept, Zenon
  <2>. QED BY <1>4, <2>2, <2>3, Zenon DEF wait_for_socket
<1>5. CASE wait_for_process(s) /\ s # "awg"
  <2>1. side[s].pc = "wait"
    BY <1>5, Zenon DEF wait_for_process
  <2>. QED BY <1>5, <2>1, NatContinues, NatFails, Zenon DEF wait_for_process
<1>6. CASE apply_setconf(s)
  <2>1. side[s].pc = "setconf"
    BY <1>6, Zenon DEF apply_setconf
  <2>. QED BY <1>6, <2>1, NatContinues, NatFails, Zenon DEF apply_setconf
<1>7. ASSUME NEW next \in {"nat", "run"}, bring_up_interface(s, next),
             next = "run" => s # "awg"
      PROVE  NatInv'
  <2>1. side[s].pc = "up"
    BY <1>7, Zenon DEF bring_up_interface
  <2>. QED BY <1>7, <2>1, NatContinues, NatFails, Zenon DEF bring_up_interface
<1>. QED BY <1>2, <1>3, <1>4, <1>5, <1>6, <1>7, Zenon

LEMMA NatApplied ==
  ASSUME NatInv, conf' = conf, apply_nat("awg", conf.awg.nat),
         conf.awg.nat \in {"off", "no_subnet", "on"}
  PROVE  NatInv'
<1>0. "awg" \in Sidecars
  BY Zenon DEF Sidecars
<1>1. side["awg"] \in SideType /\ side["awg"].pc = "nat"
  BY <1>0, Zenon DEF NatInv, apply_nat
<1>2. CASE conf.awg.nat = "off" /\ Continues("awg", "run")
  BY <1>0, <1>1, <1>2, NatContinues, Zenon
<1>3. CASE Fails("awg", "config") \/ Fails("awg", "environment")
  BY <1>0, <1>1, <1>3, NatFails, Zenon
<1>4. CASE conf.awg.nat = "on" /\ side' = [side EXCEPT !["awg"].pc = "failed",
                                  !["awg"].why = "environment", !["awg"].nat = "forward"]
  <2>. DEFINE m == [side["awg"] EXCEPT !.pc = "failed", !.why = "environment",
                                       !.nat = "forward"]
  <2>1. m \in SideType /\ m.pc = "failed" /\ m.nat = "forward"
    BY <1>1, Zenon DEF SideType
  <2>2. side' = [side EXCEPT !["awg"] = m]
    BY <1>4, Zenon
  <2>. HIDE DEF m
  <2>3. NatShape("awg", m)
    BY <1>4, <2>1, Zenon DEF NatShape
  <2>. QED BY <1>0, <2>1, <2>2, <2>3, NatReplaced, Zenon
<1>5. CASE conf.awg.nat = "on" /\ side' = [side EXCEPT !["awg"].pc = "run",
                                                      !["awg"].nat = "rule"]
  <2>. DEFINE m == [side["awg"] EXCEPT !.pc = "run", !.nat = "rule"]
  <2>1. m \in SideType /\ m.pc = "run" /\ m.nat = "rule"
    BY <1>1, Zenon DEF SideType
  <2>2. side' = [side EXCEPT !["awg"] = m]
    BY <1>5, Zenon
  <2>. HIDE DEF m
  <2>3. NatShape("awg", m)
    BY <1>5, <2>1, Zenon DEF NatShape
  <2>. QED BY <1>0, <2>1, <2>2, <2>3, NatReplaced, Zenon
<1>. QED BY <1>2, <1>3, <1>4, <1>5, Zenon DEF apply_nat

LEMMA StoppedNat ==
  ASSUME NEW m \in SideType
  PROVE  Stopped(m) \in SideType /\ Stopped(m).pc = "over" /\ Stopped(m).nat = m.nat
BY Zenon DEF Stopped, SideType

(* A running manager stops, or its child dies.                              *)
LEMMA NatRuns ==
  ASSUME NatInv, NEW s \in Sidecars, conf' = conf, RunUntilShutdown(s) \/ ChildExits(s)
  PROVE  NatInv'
<1>1. side[s] \in SideType
  BY Zenon DEF NatInv
<1>2. CASE RunUntilShutdown(s)
  <2>1. side[s].pc = "run" /\ side' = [side EXCEPT ![s] = Stopped(side[s])]
    BY <1>2, Zenon DEF RunUntilShutdown
  <2>. QED BY <1>1, <2>1, StoppedNat, NatKept, Zenon
<1>3. CASE ChildExits(s)
  <2>. DEFINE m == [side[s] EXCEPT !.child = "dead"]
  <2>1. m \in SideType /\ m.pc = side[s].pc /\ m.nat = side[s].nat
    BY <1>1, Zenon DEF SideType
  <2>2. side' = [side EXCEPT ![s] = m]
    BY <1>3, Zenon DEF ChildExits
  <2>. HIDE DEF m
  <2>. QED BY <2>1, <2>2, NatKept, Zenon
<1>. QED BY <1>2, <1>3, Zenon

(* A manager is spawned.                                                    *)
LEMMA NatSpawns ==
  ASSUME NatInv, NEW s \in Sidecars, conf' = conf, side[s].pc = "off",
         side' = [side EXCEPT ![s].pc = "start"]
  PROVE  NatInv'
<1>. DEFINE m == [side[s] EXCEPT !.pc = "start"]
<1>1. side[s] \in SideType
  BY Zenon DEF NatInv
<1>2. m \in SideType /\ m.pc = "start" /\ m.nat = side[s].nat
  BY <1>1, Zenon DEF SideType
<1>3. side' = [side EXCEPT ![s] = m]
  BY Zenon
<1>. HIDE DEF m
<1>. QED BY <1>2, <1>3, NatKept, Zenon

(* The managers that run when the runtime is dropped.                       *)
LEMMA NatDropped ==
  ASSUME NatInv, conf' = conf, DropRuntime
  PROVE  NatInv'
<1>1. side' = [s \in Sidecars |-> IF side[s].pc = "run" THEN Stopped(side[s]) ELSE side[s]]
  BY Zenon DEF DropRuntime
<1>2. ASSUME NEW s \in Sidecars
      PROVE  side'[s] \in SideType /\ NatShape(s, side[s])'
  <2>1. side[s] \in SideType /\ NatShape(s, side[s])
    BY Zenon DEF NatInv
  <2>2. CASE side[s].pc = "run"
    <3>1. side'[s] = Stopped(side[s])
      BY <1>1, <2>2, Zenon
    <3>. QED BY <2>1, <2>2, <3>1, StoppedNat, Zenon DEF NatShape
  <2>3. CASE side[s].pc # "run"
    <3>1. side'[s] = side[s]
      BY <1>1, <2>3, Zenon
    <3>. QED BY <2>1, <3>1, Zenon DEF NatShape
  <2>. QED BY <2>2, <2>3, Zenon
<1>3. side' \in [Sidecars -> SideType]
  BY <1>1, <1>2, Zenon
<1>. QED BY <1>2, <1>3, Zenon DEF NatInv

LEMMA NatInitially == Init => NatInv
<1>. SUFFICES ASSUME Init PROVE NatInv
  OBVIOUS
<1>1. NoSide \in SideType /\ NoSide.nat = "none" /\ NoSide.pc = "off"
  BY Zenon DEF NoSide, SideType
<1>2. \A s \in Sidecars : side[s] = NoSide
  BY Zenon DEF Init
<1>3. side \in [Sidecars -> SideType]
  BY <1>1, Zenon DEF Init
<1>. QED BY <1>1, <1>2, <1>3, Zenon DEF NatInv, NatShape

LEMMA NatInductive == ProcessInv /\ NatInv /\ [Next]_vars => NatInv'
<1>. SUFFICES ASSUME ProcessInv, NatInv, [Next]_vars PROVE NatInv'
  OBVIOUS
<1>1. CASE UNCHANGED <<side, conf>>
  BY <1>1, Zenon DEF NatInv, NatShape
<1>2. CASE ServerSidecar
  <2>0. conf' = conf /\ {"awg", "hysteria2", "tuic"} \subseteq Sidecars
    BY <1>2, Zenon DEF ServerSidecar, SidecarStep, Sidecars
  <2>1. CASE AwgManager_start(render_server_conf(conf), conf.awg.nat)
    <3>1. CASE apply_nat("awg", conf.awg.nat)
      <4>1. side["awg"].pc # "off"
        BY <3>1, Zenon DEF apply_nat
      <4>. QED BY <2>0, <3>1, <4>1, RenderExcuses, NatApplied, Zenon
    <3>2. CASE ~apply_nat("awg", conf.awg.nat)
      BY <2>0, <2>1, <3>2, NatStarts, Zenon DEF AwgManager_start, find_awg
    <3>. QED BY <3>1, <3>2, Zenon
  <2>2. CASE Hysteria2Manager_start
    BY <2>0, <2>2, NatStarts, Zenon DEF Hysteria2Manager_start, find_hysteria2
  <2>3. CASE TuicManager_start
    BY <2>0, <2>3, NatStarts, Zenon DEF TuicManager_start, find_tuic, tuic_wait_for_process
  <2>4. CASE AwgManager_run \/ Hysteria2Manager_run \/ TuicManager_run
    BY <2>0, <2>4, NatRuns, Zenon DEF AwgManager_run, Hysteria2Manager_run, TuicManager_run
  <2>. QED BY <1>2, <2>1, <2>2, <2>3, <2>4, Zenon DEF ServerSidecar, SidecarStep
<1>3. CASE ClientSidecar
  <2>0. /\ conf' = conf
        /\ {"awg_client", "hysteria2_client", "tuic_client"} \subseteq Sidecars
    BY <1>3, Zenon DEF ClientSidecar, SidecarStep, Sidecars
  <2>1. CASE AwgClientManager_start(render_client_conf(conf))
    BY <2>0, <2>1, NatStarts, Zenon DEF AwgClientManager_start, find_awg
  <2>2. CASE Hysteria2ClientManager_start
    BY <2>0, <2>2, NatStarts, Zenon DEF Hysteria2ClientManager_start, find_hysteria2
  <2>3. CASE TuicClientManager_start
    BY <2>0, <2>3, NatStarts, Zenon
       DEF TuicClientManager_start, find_tuic, tuic_wait_for_process
  <2>4. CASE AwgClientManager_run \/ Hysteria2ClientManager_run \/ TuicClientManager_run
    BY <2>0, <2>4, NatRuns, Zenon
       DEF AwgClientManager_run, Hysteria2ClientManager_run, TuicClientManager_run
  <2>. QED BY <1>3, <2>1, <2>2, <2>3, <2>4, Zenon DEF ClientSidecar, SidecarStep
<1>4. CASE ChildDies
  BY <1>4, NatRuns, Zenon DEF ChildDies, SidecarStep
<1>5. CASE SpawnAwg \/ SpawnHysteria2 \/ SpawnTuic
  <2>1. PICK s \in {"awg", "hysteria2", "tuic"} :
          /\ srv = s /\ conf' = conf
          /\ side' \in {side, [side EXCEPT ![s].pc = "start"]}
    BY <1>5, Zenon DEF SpawnAwg, SpawnHysteria2, SpawnTuic, SpawnSidecar, Stage, Quiet
  <2>2. s \in Sidecars /\ side[s].pc = "off"
    BY <2>1, Zenon DEF ProcessInv, SidePlaces, ServerSidecars, Sidecars, Before, Early
  <2>3. CASE side' = side
    BY <1>1, <2>1, <2>3, Zenon
  <2>. QED BY <2>1, <2>2, <2>3, NatSpawns, Zenon
<1>6. CASE run_client
  <2>1. main = "load" /\ conf' = conf
    BY <1>6, Zenon DEF run_client, Quiet
  <2>2. CASE side' = side
    BY <1>1, <2>1, <2>2, Zenon
  <2>3. CASE side' # side
    <3>1. /\ validate_client(conf) /\ ~conf.remote.present /\ command = "client"
          /\ side' = [side EXCEPT ![SidecarOf(conf)].pc = "start"]
      BY <1>6, <2>3, Zenon DEF run_client
    <3>2. SidecarOf(conf) \in Sidecars
      BY <3>1, ValidSidecar, Zenon DEF ClientSidecars, Sidecars, ProcessInv, FileTypes
    <3>3. side[SidecarOf(conf)].pc = "off"
      BY <2>1, <3>2, Zenon DEF ProcessInv, Places
    <3>. QED BY <2>1, <3>1, <3>2, <3>3, NatSpawns, Zenon
  <2>. QED BY <2>2, <2>3, Zenon
<1>7. CASE StopServer \/ StopClient
  BY <1>7, NatDropped, Zenon DEF StopServer, StopClient
<1>8. CASE \/ check_config \/ ExportAwgClient \/ run_server \/ bind_listeners
           \/ BuildOutbound \/ BuildInbound \/ BuildXhttp \/ SpawnApi \/ SpawnMetrics
           \/ SpawnAcceptLoops \/ AcceptSession \/ SessionEnds \/ AcceptLoopsEnd
           \/ AwaitTasks \/ run_api_server \/ run_metrics_server
  BY <1>1, <1>8, Zenon DEF check_config, ExportAwgClient, run_server, bind_listeners,
     BuildOutbound, BuildInbound, BuildXhttp, SpawnApi, SpawnMetrics, SpawnAcceptLoops,
     AcceptSession, SessionEnds, AcceptLoopsEnd, AwaitTasks, run_api_server,
     run_metrics_server, Quiet
<1>9. CASE \/ InstallSignals \/ Signal \/ Terminate \/ StartInbounds \/ Socks5TaskEnds
           \/ TunStep \/ CtrlC \/ SidecarReturns \/ Exited \/ UNCHANGED vars
  BY <1>1, <1>9, Zenon DEF InstallSignals, Signal, Terminate, StartInbounds,
     Socks5TaskEnds, TunStep, CtrlC, SidecarReturns, Exited, Quiet, vars
<1>. QED BY <1>2, <1>3, <1>4, <1>5, <1>6, <1>7, <1>8, <1>9, Zenon DEF Next, ServerStart

LEMMA NatInvariant == Spec => []NatInv
BY ProcessInvariant, NatInitially, NatInductive, PTL DEF Spec

-----------------------------------------------------------------------------
(* A configuration that validate() accepts never makes a start-up panic,    *)
(* and fails it only where validate() does not look: for all files, in      *)
(* run_server_with_store, the managers, the client's runner and its TUN     *)
(* task.                                                                    *)
THEOREM ValidConfigsStart == Spec => []CheckedConfigStarts
<1>1. ProcessInv => CheckedConfigStarts
  BY Zenon DEF ProcessInv, Excuses, Excused, CheckedConfigStarts
<1>. QED BY <1>1, ProcessInvariant, PTL

(* A process that ends by itself, on a signal or on an error, leaves a      *)
(* child, a file or a route only behind a start that failed half-way, for   *)
(* any set of routes (the guards dropped with the runtime, stop(), revert); *)
(* the NAT of AWG it leaves whenever it was asked for and set.              *)
THEOREM NothingIsLeftBehind == Spec => []LeftoversExplained
<1>1. ASSUME ProcessInv, NatInv PROVE LeftoversExplained
  <2>. SUFFICES ASSUME main = "exited", result \in {"ok", "error"}
                PROVE  /\ \A s \in Sidecars :
                            /\ side[s].child = "alive" =>
                                 side[s].pc = "failed" /\ s \in {"awg", "awg_client"}
                            /\ side[s].file => side[s].pc = "failed"
                            /\ side[s].nat # "none" => s = "awg" /\ conf.awg.nat = "on"
                            /\ side[s].nat = "forward" => side[s].pc = "failed"
                            /\ side[s].nat = "rule" <=>
                                 s = "awg" /\ side[s].pc = "over" /\ conf.awg.nat = "on"
                       /\ tun.routes # {} \/ tun.table \/ tun.rule =>
                            tun.pc = "failed" /\ tun.why # "config"
    BY Zenon DEF LeftoversExplained
  <2>1. /\ \A s \in Sidecars : side[s].pc \in {"off", "over", "failed"}
        /\ tun.pc \in {"off", "stopped", "failed"}
    BY <1>1, Zenon DEF ProcessInv, Ending
  <2>2. \A s \in Sidecars : SideShape(s, side[s])
    BY <1>1, Zenon DEF ProcessInv
  <2>3. TunShape(tun)
    BY <1>1, Zenon DEF ProcessInv
  <2>4. ASSUME NEW s \in Sidecars
        PROVE  /\ side[s].child = "alive" =>
                    side[s].pc = "failed" /\ s \in {"awg", "awg_client"}
               /\ side[s].file => side[s].pc = "failed"
    BY <2>1, <2>2, Zenon DEF SideShape, Watched
  <2>5. ASSUME NEW s \in Sidecars
        PROVE  /\ side[s].nat # "none" => s = "awg" /\ conf.awg.nat = "on"
               /\ side[s].nat = "forward" => side[s].pc = "failed"
               /\ side[s].nat = "rule" <=>
                    s = "awg" /\ side[s].pc = "over" /\ conf.awg.nat = "on"
    <3>1. NatShape(s, side[s])
      BY <1>1, Zenon DEF NatInv
    <3>2. side[s].pc # "run"
      BY <2>1, Zenon
    <3>. QED BY <3>1, <3>2, Zenon DEF NatShape
  <2>6. tun.routes # {} \/ tun.table \/ tun.rule => tun.pc = "failed" /\ tun.why # "config"
    BY <2>1, <2>3, Zenon DEF TunShape, Clean
  <2>. QED BY <2>4, <2>5, <2>6, Zenon
<1>. QED BY <1>1, ProcessInvariant, NatInvariant, PTL
=============================================================================
