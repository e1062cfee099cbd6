---------------------------- MODULE ServerConfig ----------------------------
(***************************************************************************)
(* The server's configuration file (skadi-config/src/lib.rs): its sections *)
(* with the values the checks tell apart, the defaults, the validation     *)
(* that Config::load and check-config run, and the functions that turn a   *)
(* section into the settings of a component when the server starts.        *)
(*                                                                         *)
(* Texts, numbers and addresses are classes of values.  "none" is a field  *)
(* left out; a file is "missing", readable but no PEM ("garbage"), or      *)
(* "pem".                                                                  *)
(***************************************************************************)
EXTENDS Naturals

Text == {"none", "blank", "set"}
Count == {"none", "zero", "set"}
File == {"none", "missing", "garbage", "pem"}
Kex == {"classic", "hybrid_pq", "bad"}
Address == {"loopback", "public", "bad"}

(***************************************************************************)
(* Sections: the values of every field, and the section of an empty file.  *)
(***************************************************************************)
ListenAddrs == {"none", "one", "two", "same", "bad"}

ServerSection ==
  [listen |-> ListenAddrs, connect_timeout |-> {"zero", "set"}, idle_timeout |-> Count,
   max_session_lifetime |-> Count, max_connections |-> Count]

ServerDefault ==
  [listen |-> "one", connect_timeout |-> "set", idle_timeout |-> "none",
   max_session_lifetime |-> "none", max_connections |-> "none"]

AuthRateLimitSection ==
  [enabled |-> BOOLEAN, max_failures |-> Count, window |-> {"zero", "set"},
   ban_base |-> {"zero", "set"}, ban_max |-> {"zero", "set"}]

AuthRateLimitDefault ==
  [enabled |-> TRUE, max_failures |-> "set", window |-> "set", ban_base |-> "set",
   ban_max |-> "set"]

Socks5Section ==
  [enabled |-> BOOLEAN, auth |-> {"no-auth", "user-pass"}, users |-> {"none", "set"}]

Socks5Default == [enabled |-> FALSE, auth |-> "no-auth", users |-> "none"]

VlessSection == [enabled |-> BOOLEAN, users |-> {"none", "bad", "set"}]

VlessDefault == [enabled |-> FALSE, users |-> "none"]

OutboundTlsSection ==
  [enabled |-> BOOLEAN, ca_file |-> File, cert |-> File, key |-> File, kex_mode |-> Kex]

OutboundTlsDefault ==
  [enabled |-> FALSE, ca_file |-> "none", cert |-> "none", key |-> "none",
   kex_mode |-> "classic"]

(* certificates: the list of per-name certificates, by what is wrong in it. *)
TlsSection ==
  [enabled |-> BOOLEAN, cert |-> File, key |-> File, kex_mode |-> Kex,
   certificates |-> {"none", "unnamed", "missing", "garbage", "blank_name",
                     "duplicate", "ip_name", "set"}]

TlsDefault ==
  [enabled |-> FALSE, cert |-> "none", key |-> "none", kex_mode |-> "classic",
   certificates |-> "none"]

RealitySection ==
  [enabled |-> BOOLEAN, dest |-> {"none", "blank", "no_port", "set"},
   server_names |-> {"none", "set"},
   private_key |-> {"none", "bad", "short", "set"},
   short_ids |-> {"none", "bad", "long", "set"},
   impersonate_cert |-> {"none", "bad", "set"}, kex_mode |-> Kex]

RealityDefault ==
  [enabled |-> FALSE, dest |-> "none", server_names |-> "none", private_key |-> "none",
   short_ids |-> "none", impersonate_cert |-> "none", kex_mode |-> "classic"]

XhttpSection ==
  [enabled |-> BOOLEAN, path |-> {"blank", "set"}, padding |-> {"none", "inverted", "set"},
   mode |-> {"auto", "packet-up", "stream-up", "stream-one", "bad"}]

XhttpDefault == [enabled |-> FALSE, path |-> "set", padding |-> "none", mode |-> "auto"]

(* A key is a "placeholder" when it is written <...>. *)
AwgSection ==
  [enabled |-> BOOLEAN, listen |-> {"bad", "set"}, interface |-> {"blank", "set"},
   private_key |-> {"none", "blank", "placeholder", "bad", "set"},
   address |-> {"bad", "set"}, obfuscation |-> {"bad", "set"},
   peers |-> {"none", "no_key", "no_ips", "placeholder", "bad", "set"},
   nat |-> {"off", "no_subnet", "on"}]

AwgDefault ==
  [enabled |-> FALSE, listen |-> "set", interface |-> "set", private_key |-> "none",
   address |-> "set", obfuscation |-> "set", peers |-> "none", nat |-> "off"]

Hysteria2Section ==
  [enabled |-> BOOLEAN, listen |-> {"bad", "port", "set"}, password |-> Text,
   cert |-> Text, key |-> Text]

Hysteria2Default ==
  [enabled |-> FALSE, listen |-> "port", password |-> "none", cert |-> "none",
   key |-> "none"]

TuicSection ==
  [enabled |-> BOOLEAN, listen |-> {"bad", "set"}, uuid |-> Text \cup {"bad"},
   password |-> Text, certificate |-> Text, private_key |-> Text]

TuicDefault ==
  [enabled |-> FALSE, listen |-> "set", uuid |-> "none", password |-> "none",
   certificate |-> "none", private_key |-> "none"]

ApiSection ==
  [enabled |-> BOOLEAN, listen |-> Address, token |-> Text, rate_limit |-> Count,
   tls |-> BOOLEAN, cert |-> File, key |-> File]

ApiDefault ==
  [enabled |-> FALSE, listen |-> "loopback", token |-> "none", rate_limit |-> "none",
   tls |-> FALSE, cert |-> "none", key |-> "none"]

MetricsSection == [enabled |-> BOOLEAN, listen |-> Address]

MetricsDefault == [enabled |-> FALSE, listen |-> "loopback"]

Sections ==
  [server |-> ServerSection, auth_rate_limit |-> AuthRateLimitSection,
   socks5 |-> Socks5Section, vless |-> VlessSection, outbound_tls |-> OutboundTlsSection,
   tls |-> TlsSection, reality |-> RealitySection, xhttp |-> XhttpSection,
   awg |-> AwgSection, hysteria2 |-> Hysteria2Section, tuic |-> TuicSection,
   api |-> ApiSection, metrics |-> MetricsSection]

Default ==
  [server |-> ServerDefault, auth_rate_limit |-> AuthRateLimitDefault,
   socks5 |-> Socks5Default, vless |-> VlessDefault, outbound_tls |-> OutboundTlsDefault,
   tls |-> TlsDefault, reality |-> RealityDefault, xhttp |-> XhttpDefault,
   awg |-> AwgDefault, hysteria2 |-> Hysteria2Default, tuic |-> TuicDefault,
   api |-> ApiDefault, metrics |-> MetricsDefault]

(***************************************************************************)
(* Helpers.                                                                *)
(***************************************************************************)
Given(text) == text \notin {"none", "blank"}

ensure_readable_file(file) == file # "missing"

parse_tls_kex_mode(kex) == kex # "bad"

(* Both of a pair of optional fields, or neither. *)
Paired(cert, key) == (cert = "none") <=> (key = "none")

is_loopback(listen) == listen = "loopback"

decode_base64_32(key) == key \notin {"bad", "short"}

XhttpMode_parse(mode) == mode # "bad"

(***************************************************************************)
(* From a section to the settings of its component.  TRUE: the function    *)
(* returns Ok.                                                             *)
(***************************************************************************)
xhttp_config(c) == XhttpMode_parse(c.xhttp.mode) /\ c.xhttp.padding # "inverted"

awg_server_config(c) ==
  /\ c.awg.listen # "bad" /\ Given(c.awg.private_key) /\ c.awg.interface # "blank"
  /\ c.awg.peers \notin {"none", "no_key", "no_ips"}

build_amnezia_settings(obfuscation) == obfuscation # "bad"

build_peer(peers) == peers \notin {"bad", "placeholder"}

render_server_conf(c) ==
  /\ c.awg.private_key \notin {"bad", "placeholder"}
  /\ c.awg.address # "bad"
  /\ build_amnezia_settings(c.awg.obfuscation)
  /\ build_peer(c.awg.peers)

awg_uses_placeholder_keys(c) == "placeholder" \in {c.awg.private_key, c.awg.peers}

hysteria2_server_config(c) ==
  /\ c.hysteria2.listen # "bad"
  /\ Given(c.hysteria2.password) /\ Given(c.hysteria2.cert) /\ Given(c.hysteria2.key)

tuic_server_config(c) ==
  /\ c.tuic.listen # "bad" /\ Given(c.tuic.uuid) /\ c.tuic.uuid # "bad"
  /\ Given(c.tuic.password) /\ Given(c.tuic.certificate) /\ Given(c.tuic.private_key)

tls_server_config(c) ==
  /\ Paired(c.tls.cert, c.tls.key)
  /\ c.tls.cert # "none" \/ c.tls.certificates # "none"
  /\ parse_tls_kex_mode(c.tls.kex_mode)

(* Panics on a key or a dest that is left out, see RealityPanics. *)
reality_server_config(c) ==
  /\ decode_base64_32(c.reality.private_key)
  /\ c.reality.short_ids # "bad" /\ c.reality.impersonate_cert # "bad"
  /\ parse_tls_kex_mode(c.reality.kex_mode)

RealityPanics(c) == "none" \in {c.reality.private_key, c.reality.dest}

(***************************************************************************)
(* Validation.                                                             *)
(***************************************************************************)
validate_listen(c) == c.server.listen \in {"one", "two"}

validate_xhttp(c) ==
  c.xhttp.enabled => c.xhttp.path # "blank" /\ XhttpMode_parse(c.xhttp.mode)
                       /\ c.xhttp.padding # "inverted"

validate_awg(c) ==
  c.awg.enabled =>
    awg_server_config(c) /\ (awg_uses_placeholder_keys(c) \/ render_server_conf(c))

validate_hysteria2(c) == c.hysteria2.enabled => hysteria2_server_config(c)

validate_tuic(c) == c.tuic.enabled => tuic_server_config(c)

(* Mutant: the mode of the key exchange is left to the start-up. *)
validate_outbound_tls_NoKex(c) ==
  LET tls == c.outbound_tls IN
  tls.enabled =>
    /\ Paired(tls.cert, tls.key)
    /\ \A file \in {tls.cert, tls.key, tls.ca_file} : ensure_readable_file(file)

validate_outbound_tls(c) ==
  LET tls == c.outbound_tls IN
  tls.enabled =>
    /\ Paired(tls.cert, tls.key)
    /\ \A file \in {tls.cert, tls.key, tls.ca_file} : ensure_readable_file(file)
    /\ parse_tls_kex_mode(tls.kex_mode)

validate_tls(c) ==
  /\ Paired(c.tls.cert, c.tls.key)
  /\ c.tls.cert # "none" \/ c.tls.certificates # "none"
  /\ ensure_readable_file(c.tls.cert) /\ ensure_readable_file(c.tls.key)
  /\ parse_tls_kex_mode(c.tls.kex_mode)
  /\ c.tls.certificates \notin {"unnamed", "missing", "blank_name", "duplicate"}

validate_reality(c) ==
  /\ Given(c.reality.dest) /\ c.reality.dest # "no_port"
  /\ c.reality.server_names # "none"
  /\ c.reality.private_key # "none" /\ decode_base64_32(c.reality.private_key)
  /\ c.reality.short_ids \notin {"none", "bad", "long"}
  /\ parse_tls_kex_mode(c.reality.kex_mode)

validate_api(c) ==
  /\ is_loopback(c.api.listen)
  /\ Given(c.api.token)
  /\ IF c.api.tls
     THEN \A file \in {c.api.cert, c.api.key} : file # "none" /\ ensure_readable_file(file)
     ELSE c.api.cert = "none" /\ c.api.key = "none"
  /\ c.api.rate_limit # "zero"

validate_metrics(c) == is_loopback(c.metrics.listen)

validate_auth_rate_limit(c) ==
  c.auth_rate_limit.enabled =>
    \A f \in {"max_failures", "window", "ban_base", "ban_max"} :
       c.auth_rate_limit[f] # "zero"

validate_protocols(c) ==
  /\ \E s \in {"socks5", "vless", "awg", "hysteria2", "tuic"} : c[s].enabled
  /\ c.socks5.enabled /\ c.socks5.auth = "user-pass" => c.socks5.users # "none"
  /\ c.vless.enabled => c.vless.users = "set"

validate(c) ==
  /\ validate_listen(c)
  /\ \A f \in {"connect_timeout", "idle_timeout", "max_connections",
               "max_session_lifetime"} : c.server[f] # "zero"
  /\ validate_auth_rate_limit(c)
  /\ validate_protocols(c)
  /\ ~(c.tls.enabled /\ c.reality.enabled)
  /\ validate_xhttp(c) /\ validate_awg(c) /\ validate_hysteria2(c) /\ validate_tuic(c)
  /\ validate_outbound_tls(c)
  /\ c.tls.enabled => validate_tls(c) /\ tls_server_config(c)
  /\ c.reality.enabled => validate_reality(c) /\ reality_server_config(c)
  /\ c.api.enabled => validate_api(c)
  /\ c.metrics.enabled => validate_metrics(c)

(***************************************************************************)
(* What start-up makes of a valid configuration.                           *)
(***************************************************************************)
enabled_protocols(c) == {p \in {"socks5", "vless"} : c[p].enabled}

(* OutboundTcpTransport::tls_with_policy: files are parsed here. *)
outbound_tcp_transport(c) ==
  LET tls == c.outbound_tls IN
  tls.enabled =>
    /\ Paired(tls.cert, tls.key)
    /\ \A file \in {tls.cert, tls.key, tls.ca_file} : file \in {"none", "pem"}

(* outbound_tls_client_config expects a mode that parses. *)
OutboundPanics(c) ==
  c.outbound_tls.enabled /\ ~parse_tls_kex_mode(c.outbound_tls.kex_mode)

load_certified_key(cert, key) == cert = "pem" /\ key = "pem"

normalize_server_name(certificates) == certificates \notin {"blank_name", "ip_name"}

build_resolver(c) ==
  /\ c.tls.cert # "none" \/ c.tls.certificates # "none"
  /\ c.tls.cert # "none" => load_certified_key(c.tls.cert, c.tls.key)
  /\ c.tls.certificates \notin {"unnamed", "missing", "garbage", "duplicate"}
  /\ normalize_server_name(c.tls.certificates)

TlsTransport_new(c) == tls_server_config(c) /\ build_resolver(c)

RealityTransport_new(c) ==
  reality_server_config(c) /\ c.reality.short_ids \notin {"none", "long"}

(* run_api_server and build_server_tls_config expect a token and, with TLS, *)
(* both files.                                                              *)
ApiPanics(c) ==
  c.api.token = "none" \/ (c.api.tls /\ "none" \in {c.api.cert, c.api.key})
=============================================================================
