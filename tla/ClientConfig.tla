---------------------------- MODULE ClientConfig ----------------------------
(***************************************************************************)
(* The client's configuration file (skadi-client/src/config.rs): sections, *)
(* defaults, the validation of ClientConfig::load, and the functions the   *)
(* runner calls to turn it into an outbound, a TUN device or a sidecar.    *)
(* Values are classes, as in ServerConfig.  A server is "bad" or parses;   *)
(* an address of the TUN device is "bad", "v4" or "v6"; a DNS server is an  *)
(* address, a host name or a URL.                                          *)
(***************************************************************************)
EXTENDS ServerConfig

(***************************************************************************)
(* Sections.                                                               *)
(***************************************************************************)
ClientListenSection ==
  [listen |-> {"none", "bad", "set"}, auth |-> {"no-auth", "user-pass"},
   users |-> {"none", "blank", "set"}]

ClientListenDefault == [listen |-> "none", auth |-> "no-auth", users |-> "none"]

TunSection ==
  [enabled |-> BOOLEAN, name |-> {"blank", "set"},
   address |-> {"bad", "v4", "v6"}, gateway |-> {"bad", "v4", "v6"},
   netmask |-> {"bad", "v4", "v6"}, mtu |-> {"low", "set"},
   pmtud |-> {"off", "static", "probe", "bad"}, mtu_overhead |-> {"set", "over"},
   auto |-> BOOLEAN, table |-> {"zero", "set", "over"},
   bypass |-> {"none", "bad", "v4", "v6"}, hijack |-> BOOLEAN,
   dns_mode |-> {"udp", "doh", "dot", "bad"},
   dns_server |-> {"none", "bad", "address", "name", "https", "tls"}]

TunDefault ==
  [enabled |-> FALSE, name |-> "set", address |-> "v4", gateway |-> "v4",
   netmask |-> "v4", mtu |-> "set", pmtud |-> "static", mtu_overhead |-> "set",
   auto |-> FALSE, table |-> "set", bypass |-> "none", hijack |-> TRUE,
   dns_mode |-> "udp", dns_server |-> "address"]

(* present: the file has the section at all. *)
RemoteSection ==
  [present |-> BOOLEAN, server |-> {"bad", "set"}, uuid |-> {"bad", "set"}]

RemoteXhttpSection ==
  [enabled |-> BOOLEAN, path |-> {"blank", "set"}, padding |-> {"none", "inverted", "set"},
   mode |-> {"auto", "packet-up", "stream-up", "stream-one", "bad"}]

RemoteRealitySection ==
  [enabled |-> BOOLEAN, password |-> {"none", "bad", "short", "set"},
   short_id |-> {"none", "bad", "long", "set"},
   server_name |-> {"none", "blank", "bad", "set"}, kex_mode |-> Kex]

RemoteTlsSection == [enabled |-> BOOLEAN, ca_file |-> File, kex_mode |-> Kex]

AwgClientSection ==
  [present |-> BOOLEAN, private_key |-> {"blank", "bad", "set"},
   server_public_key |-> {"blank", "bad", "set"}, endpoint |-> {"bad", "set"},
   address |-> {"bad", "set"}, allowed_ips |-> {"none", "bad", "set"},
   obfuscation |-> {"bad", "set"}]

Hysteria2ClientSection ==
  [present |-> BOOLEAN, server |-> {"bad", "set"}, password |-> {"blank", "set"},
   socks5_listen |-> Text \cup {"bad"}, http_listen |-> {"none", "bad", "set"}]

TuicClientSection ==
  [present |-> BOOLEAN, server |-> {"bad", "set"}, uuid |-> {"bad", "set"},
   password |-> {"blank", "set"}, socks5_listen |-> Text \cup {"bad"}]

ClientSections ==
  [client |-> ClientListenSection, tun |-> TunSection, remote |-> RemoteSection,
   remote_xhttp |-> RemoteXhttpSection, remote_reality |-> RemoteRealitySection,
   remote_tls |-> RemoteTlsSection, awg |-> AwgClientSection,
   hysteria2 |-> Hysteria2ClientSection, tuic |-> TuicClientSection]

(* No mode; a section that is present has its obligatory fields. *)
ClientDefault ==
  [client |-> ClientListenDefault, tun |-> TunDefault,
   remote |-> [present |-> FALSE, server |-> "set", uuid |-> "set"],
   remote_xhttp |-> [enabled |-> FALSE, path |-> "set", padding |-> "none",
                     mode |-> "stream-one"],
   remote_reality |-> [enabled |-> FALSE, password |-> "none", short_id |-> "none",
                       server_name |-> "none", kex_mode |-> "classic"],
   remote_tls |-> [enabled |-> FALSE, ca_file |-> "none", kex_mode |-> "classic"],
   awg |-> [present |-> FALSE, private_key |-> "set", server_public_key |-> "set",
            endpoint |-> "set", address |-> "set", allowed_ips |-> "set",
            obfuscation |-> "set"],
   hysteria2 |-> [present |-> FALSE, server |-> "set", password |-> "set",
                  socks5_listen |-> "none", http_listen |-> "none"],
   tuic |-> [present |-> FALSE, server |-> "set", uuid |-> "set", password |-> "set",
             socks5_listen |-> "none"]]

(***************************************************************************)
(* Helpers.                                                                *)
(***************************************************************************)
parse_socket_addr(value) == value # "bad"

parse_ip(value) == value # "bad"

parse_ipv4_list(values) == values \notin {"bad", "v6"}

parse_server_endpoint(value) == value # "bad"

Modes == {"remote", "awg", "hysteria2", "tuic"}

resolve_sidecar_socks5(c, override) ==
  CASE override \notin {"none", "blank"} -> override
    [] c.client.listen # "none" -> c.client.listen
    [] OTHER -> "set"

(***************************************************************************)
(* Validation.                                                             *)
(***************************************************************************)
validate_socks5_auth(c) ==
  /\ c.client.auth = "user-pass" => c.client.users # "none"
  /\ c.client.users # "blank"

parse_dns_upstream(server) == server = "address"

(* tls:// may be left out. *)
parse_dot_upstream(server) == server \in {"address", "name", "tls"}

parse_doh_url(server) == server = "https"

DnsHandler_from_config(tun) ==
  CASE tun.dns_mode = "udp" -> parse_dns_upstream(tun.dns_server)
    [] tun.dns_mode = "doh" -> parse_doh_url(tun.dns_server)
    [] tun.dns_mode = "dot" -> parse_dot_upstream(tun.dns_server)
    [] OTHER -> FALSE

DnsIntercept_from_config(tun) ==
  tun.hijack => tun.dns_server # "none" /\ DnsHandler_from_config(tun)

parse_pmtud_mode(value) == value # "bad"

validate_tun(tun) ==
  tun.enabled =>
    /\ \A f \in {"address", "gateway", "netmask"} : parse_ip(tun[f])
    /\ tun.name # "blank" /\ tun.mtu # "low"
    /\ parse_pmtud_mode(tun.pmtud) /\ tun.mtu_overhead # "over"
    /\ tun.table = "set"
    /\ parse_ipv4_list(tun.bypass)
    /\ DnsIntercept_from_config(tun)

parse_reality_client(cfg) ==
  /\ "none" \notin {cfg.password, cfg.short_id, cfg.server_name}
  /\ cfg.server_name # "blank"
  /\ cfg.password = "set" /\ cfg.short_id = "set"
  /\ parse_tls_kex_mode(cfg.kex_mode)

parse_remote_xhttp(cfg) ==
  cfg.path # "blank" /\ XhttpMode_parse(cfg.mode) /\ cfg.padding # "inverted"

validate_remote(c) ==
  c.remote.present =>
    /\ parse_server_endpoint(c.remote.server) /\ c.remote.uuid # "bad"
    /\ ~(c.remote_tls.enabled /\ c.remote_reality.enabled)
    /\ c.remote_tls.enabled => parse_tls_kex_mode(c.remote_tls.kex_mode)
    /\ c.remote_reality.enabled => parse_reality_client(c.remote_reality)
    /\ c.remote_xhttp.enabled => parse_remote_xhttp(c.remote_xhttp)

validate_awg_client(c) ==
  c.awg.present =>
    /\ "blank" \notin {c.awg.private_key, c.awg.server_public_key}
    /\ parse_socket_addr(c.awg.endpoint)
    /\ c.awg.allowed_ips # "none"

validate_hysteria2_client(c) ==
  c.hysteria2.present =>
    /\ parse_server_endpoint(c.hysteria2.server) /\ c.hysteria2.password # "blank"
    /\ parse_socket_addr(resolve_sidecar_socks5(c, c.hysteria2.socks5_listen))
    /\ parse_socket_addr(c.hysteria2.http_listen)

validate_tuic_client(c) ==
  c.tuic.present =>
    /\ parse_server_endpoint(c.tuic.server) /\ c.tuic.uuid # "bad"
    /\ c.tuic.password # "blank"
    /\ parse_socket_addr(resolve_sidecar_socks5(c, c.tuic.socks5_listen))

validate_client(c) ==
  /\ \E mode \in Modes : {m \in Modes : c[m].present} = {mode}
  /\ c.remote.present => c.client.listen # "none" \/ c.tun.enabled
  /\ IF c.client.listen # "none"
     THEN parse_socket_addr(c.client.listen) /\ validate_socks5_auth(c)
     ELSE c.client.auth = "no-auth" /\ c.client.users = "none"
  /\ validate_remote(c) /\ validate_awg_client(c)
  /\ validate_hysteria2_client(c) /\ validate_tuic_client(c)
  /\ ~((c.hysteria2.present \/ c.tuic.present) /\ c.tun.enabled)
  /\ validate_tun(c.tun)

(***************************************************************************)
(* What the runner makes of a valid configuration.                         *)
(***************************************************************************)
reality_tls_client_config(c) ==
  /\ c.remote_reality.server_name # "none"
  /\ c.remote_reality.password = "set" /\ c.remote_reality.short_id = "set"
  /\ parse_tls_kex_mode(c.remote_reality.kex_mode)

(* The name becomes a ServerName of the TLS library. *)
RealityTlsClient_new(c) == c.remote_reality.server_name \notin {"blank", "bad"}

tls_client_config(c) == parse_tls_kex_mode(c.remote_tls.kex_mode)

build_root_store(c) == c.remote_tls.ca_file \in {"none", "pem"}

xhttp_client_config(c) ==
  c.remote_xhttp.enabled => XhttpMode_parse(c.remote_xhttp.mode)
                              /\ c.remote_xhttp.padding # "inverted"

proxy_endpoint(c) == parse_server_endpoint(c.remote.server)

Outbound_from_config(c) ==
  /\ CASE c.remote_reality.enabled -> reality_tls_client_config(c) /\ RealityTlsClient_new(c)
       [] c.remote_tls.enabled -> tls_client_config(c) /\ build_root_store(c)
       [] OTHER -> TRUE
  /\ proxy_endpoint(c) /\ c.remote.uuid # "bad"
  /\ xhttp_client_config(c)

render_client_conf(c) ==
  /\ c.awg.private_key = "set" /\ c.awg.address # "bad" /\ c.awg.obfuscation # "bad"
  /\ c.awg.allowed_ips # "bad" /\ c.awg.server_public_key = "set"

(* The device wants IPv4 addresses. *)
create_device(tun) == \A f \in {"address", "gateway", "netmask"} : tun[f] = "v4"
=============================================================================
