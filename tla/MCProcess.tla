----------------------------- MODULE MCProcess ------------------------------
(***************************************************************************)
(* Process with every configuration that differs from a working one in at  *)
(* most one field, for a working server behind plain TCP, TLS and REALITY, *)
(* one with the API, metrics and an outbound TLS, one for each daemon, and *)
(* a working client of each mode.                                          *)
(***************************************************************************)
EXTENDS Process

Socks == [Default EXCEPT !.socks5.enabled = TRUE]

Working ==
  {[Socks EXCEPT !.vless = [enabled |-> TRUE, users |-> "set"], !.xhttp.enabled = TRUE],
   [Socks EXCEPT !.tls = [TlsDefault EXCEPT !.enabled = TRUE, !.cert = "pem", !.key = "pem"]],
   [Socks EXCEPT !.tls = [TlsDefault EXCEPT !.enabled = TRUE, !.certificates = "set"]],
   [Socks EXCEPT !.reality =
      [enabled |-> TRUE, dest |-> "set", server_names |-> "set", private_key |-> "set",
       short_ids |-> "set", impersonate_cert |-> "none", kex_mode |-> "classic"]],
   [Socks EXCEPT !.api = [ApiDefault EXCEPT !.enabled = TRUE, !.token = "set", !.tls = TRUE,
                                            !.cert = "pem", !.key = "pem"],
                 !.metrics.enabled = TRUE,
                 !.outbound_tls = [enabled |-> TRUE, ca_file |-> "pem", cert |-> "pem",
                                   key |-> "pem", kex_mode |-> "classic"]],
   [Default EXCEPT !.awg = [AwgDefault EXCEPT !.enabled = TRUE, !.private_key = "set",
                                              !.peers = "set", !.nat = "on"]],
   [Default EXCEPT !.hysteria2 = [enabled |-> TRUE, listen |-> "port", password |-> "set",
                                  cert |-> "set", key |-> "set"]],
   [Default EXCEPT !.tuic = [enabled |-> TRUE, listen |-> "set", uuid |-> "set",
                             password |-> "set", certificate |-> "set",
                             private_key |-> "set"]]}

WorkingClients ==
  {[ClientDefault EXCEPT !.remote.present = TRUE, !.client.listen = "set",
                         !.remote_xhttp.enabled = TRUE],
   [ClientDefault EXCEPT !.remote.present = TRUE, !.client.listen = "set",
                         !.remote_tls.enabled = TRUE],
   [ClientDefault EXCEPT !.remote.present = TRUE, !.client.listen = "set",
                         !.remote_reality = [enabled |-> TRUE, password |-> "set",
                                             short_id |-> "set", server_name |-> "set",
                                             kex_mode |-> "classic"]],
   [ClientDefault EXCEPT !.remote.present = TRUE, !.tun.enabled = TRUE, !.tun.auto = TRUE],
   [ClientDefault EXCEPT !.awg.present = TRUE],
   [ClientDefault EXCEPT !.hysteria2.present = TRUE],
   [ClientDefault EXCEPT !.tuic.present = TRUE]}

(* c with any one field replaced by any value of the field. *)
Variants(c, sections) ==
  UNION {UNION {{[c EXCEPT ![s][f] = v] : v \in sections[s][f]} : f \in DOMAIN sections[s]} :
           s \in DOMAIN sections}

MCServerFiles == UNION {Variants(c, Sections) : c \in Working}

MCClientFiles == UNION {Variants(c, ClientSections) : c \in WorkingClients}
=============================================================================
