----------------------------- MODULE MCDataPath -----------------------------
(* Small instances of the parts of DataPath: addresses of every kind, right *)
(* and wrong requests, streams and answers around each limit.               *)
EXTENDS DataPath

V4 == Ip(<<10, 0, 0, 1>>, 443)
V6 == Ip([i \in 1 .. 16 |-> i], 80)
Named == Domain(<<97, 98>>, 53)

(* Handshake *)
MCUuid == [i \in 1 .. 16 |-> 9]
OtherUuid == [i \in 1 .. 16 |-> 8]
Unknown == [i \in 1 .. 16 |-> 7]
MCUsers == {[uuid |-> MCUuid, flow |-> {}], [uuid |-> OtherUuid, flow |-> {<<118>>}]}

SocksAddress(e) == Slice(encode_udp_datagram(e, <<>>), 3, Len(encode_udp_datagram(e, <<>>)))
Connect(command, e) == <<5, command, 0>> \o SocksAddress(e)
Payload == <<1, 2>>

Greetings ==
  {<<5, 1, 0>>, <<5, 2, 0, 2, 1, 1, 97, 1, 98>>, <<5, 1, 2, 1, 1, 97, 0>>, <<5, 1, 2, 1, 0>>,
   <<4, 1, 0>>, <<5, 0>>, <<5, 17>>}

Input(greeting, request, t) ==
  [bytes |-> greeting \o request \o Payload, target |-> t, payload |-> Payload]

MCInputs ==
  {Input(g, Connect(1, t), t) : g \in Greetings, t \in {V4, V6, Named}}
  \cup {Input(g, Connect(c, V4), Nowhere) : g \in Greetings, c \in {2, 3, 9}}
  \cup {Input(<<5, 1, 0>>, r, Nowhere) :
          r \in {<<5, 1, 0, 9>>, <<5, 1, 0, 3, 0>>, <<5, 1, 1, 1, 1, 1, 1, 1, 1, 1>>,
                 <<5, 1, 0, 3, 1, 200, 1, 1>>, <<5, 1, 0, 1>>}}

VlessRequest(uuid, addons, command, rest) ==
  <<0>> \o uuid \o <<Len(addons)>> \o addons \o <<command>> \o rest

MCRequests ==
  {VlessRequest(u, a, 1, encode_port_address(t)) :
     u \in {MCUuid, OtherUuid, Unknown}, t \in {V4, V6, Named},
     a \in {<<>>, build_addons_with_flow(<<118>>), build_addons_with_flow(<<>>),
            <<8, 1>>, <<13>>, <<9, 0>>, <<11>>, <<18, 1>>}}
  \cup {VlessRequest(MCUuid, <<>>, c, <<0, 53, 2, 0, 7>>) : c \in 1 .. 4}
  \cup {VlessRequest(MCUuid, <<>>, 1, <<0, 53, 9, 0>>), <<1>> \o MCUuid \o <<0, 1>>, <<0, 1>>}

(* Codec *)
Message(form, bytes, means) == [form |-> form, bytes |-> bytes, means |-> means]

Meta(s, st_, opt, n, t, id) ==
  [session_id |-> s, status |-> st_, option |-> opt, network |-> n, target |-> t, global_id |-> id]

Frame(m) ==
  Message("frame", encode_data_frame(m, Payload).value, [meta |-> m, payload |-> {Payload}])

Random == [i \in 1 .. 32 |-> i]
Sni == U16(5) \o <<0>> \o U16(2) \o <<97, 98>>
KeyShare == U16(36 + 5) \o U16(23) \o U16(1) \o <<4>> \o U16(29) \o U16(32) \o Random
Extension(k, data) == U16(k) \o U16(Len(data)) \o data
Block(extensions) == U16(Len(extensions)) \o extensions
TlsHello(sid, block) ==
  LET all == U16(771) \o Random \o <<Len(sid)>> \o sid \o U16(2) \o <<19, 1>> \o <<1, 0>>
               \o block
      handshake == <<1, 0>> \o U16(Len(all)) \o all
  IN  <<22, 3, 1>> \o U16(Len(handshake)) \o handshake

MCMessages ==
  {Message("greeting", <<5, 2, 0, 2>>, <<0, 2>>),
   Message("auth", <<1, 1, 97, 2, 98, 99>>, [user |-> <<97>>, pass |-> <<98, 99>>])}
  \cup {Message("request", Connect(c, t), [command |-> c, target |-> t]) :
          c \in 1 .. 3, t \in {V4, V6, Named}}
  \cup {Message("udp", encode_udp_datagram(t, <<>>), t) : t \in {V4, V6, Named}}
  \cup {Message("vless", VlessRequest(MCUuid, a, c, encode_port_address(t)),
                [uuid |-> MCUuid, addons |-> a, command |-> c, target |-> t]) :
          a \in {<<>>, build_addons_with_flow(<<118>>)}, c \in {1, 2}, t \in {V4, V6, Named}}
  \cup {Message("vless", build_mux_request(MCUuid),
                [uuid |-> MCUuid, addons |-> <<>>, command |-> 3, target |-> MuxTarget])}
  \cup {Frame(Meta(258, STATUS_NEW, OPTION_DATA, {n}, {t}, {})) :
          n \in {NETWORK_TCP, NETWORK_UDP}, t \in {V4, V6, Named}}
  \cup {Frame(Meta(1, STATUS_NEW, OPTION_DATA, {NETWORK_UDP}, {V4}, {[i \in 1 .. 8 |-> i]})),
        Frame(Meta(1, STATUS_KEEP, OPTION_DATA, {NETWORK_UDP}, {Named}, {})),
        Frame(Meta(1, STATUS_KEEP, OPTION_DATA, {}, {}, {}))}
  \cup {Message("frame", encode_end_frame(7, e),
                [meta |-> Meta(7, STATUS_END, IF e THEN OPTION_ERROR ELSE 0, {}, {}, {}),
                 payload |-> {}]) : e \in BOOLEAN}
  \cup {Message("hello", TlsHello(sid, Block(Extension(10, <<0, 29>>) \o x[1])),
                [session_id |-> sid, random |-> Random, key |-> x[2], name |-> x[3]]) :
          sid \in {<<>>, Random},
          x \in {<<<<>>, {}, {}>>,
                 <<Extension(0, Sni) \o Extension(51, KeyShare), {Random}, {<<97, 98>>}>>,
                 <<Extension(51, KeyShare) \o Extension(0, Sni), {Random}, {<<97, 98>>}>>}}
  \cup {Message("bare", TlsHello(<<7>>, <<>>),
                [session_id |-> <<7>>, random |-> Random, key |-> {}, name |-> {}])}

MCFollowing == <<5, 1>>

(* TunUdp *)
MCRemotes == {Ip(<<8, 8, 8, 8>>, 53), V6}
MCUpstream == Ip(<<1, 1, 1, 1>>, 53)
MCLocal == Ip(<<10, 9, 0, 2>>, 5000)

(* Peek *)
MCStreams ==
  {s \in [tls : BOOLEAN, record : {7, 12}, total : {3, 6, 9, 13},
          name : {"doh", "listed", "other"}, verified : BOOLEAN] :
     /\ ~s.tls => s.record = 7 /\ s.name = "other"
     /\ s.name # "listed" => ~s.verified}

(* DnsUpstream *)
MCAnswers == [header : {2, 5}, ok : BOOLEAN, declared : {-1, 0, 3, 5, 60}, body : {0, 2, 3, 6}]

(* XhttpRegistry: requests on connections of their own, HTTP/1, and requests *)
(* of which three share a connection, HTTP/2.                                *)
XhttpRequest(m, f, s, q) == [method |-> m, fault |-> f, session |-> s, seq |-> q]
Get == XhttpRequest("GET", "", TRUE, "")
Post == XhttpRequest("POST", "", TRUE, "")
NoSession == XhttpRequest("POST", "", FALSE, "")
On(conns, requests) == [i \in DOMAIN requests |-> [conn |-> conns[i]] @@ requests[i]]
MCScenarios ==
  {On(<<1, 2, 3, 4, 5>>, <<Get, Get, Post, Post, XhttpRequest("POST", "", TRUE, "number")>>),
   On(<<1, 1, 1, 2>>, <<Get, Post, NoSession, Get>>),
   On(<<1, 2, 3, 4, 5, 6, 7>>,
      <<XhttpRequest("OPTIONS", "", TRUE, ""), XhttpRequest("PUT", "", TRUE, ""),
        XhttpRequest("PUT", "", TRUE, "number"), XhttpRequest("POST", "", TRUE, "text"),
        XhttpRequest("POST", "path", TRUE, "number"), XhttpRequest("POST", "padding", FALSE, ""),
        NoSession>>)}
=============================================================================
