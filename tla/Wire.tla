-------------------------------- MODULE Wire --------------------------------
(***************************************************************************)
(* The wire formats of the two protocols, byte by byte: the SOCKS5 and     *)
(* VLESS parsers, the addons of VLESS, the frames of the mux, and the      *)
(* functions that build what the parsers read (skadi-protocol).            *)
(*                                                                         *)
(* A parser returns an error, "incomplete" when it wants more bytes, or a  *)
(* value with the number of bytes it used.  Texts are ASCII; a byte from   *)
(* 128 on stands for text that is not UTF-8.                               *)
(***************************************************************************)
EXTENDS Naturals, Sequences, SequencesExt, FiniteSetsExt

Err(e) == [err |-> e]
Incomplete == Err("incomplete")
Ok(v, n) == [err |-> "none", value |-> v, used |-> n]

(* The ? operator: go on with what a parser returned, or return its error. *)
Then(r, F(_)) == IF r.err = "none" THEN F(r) ELSE r

Utf8(s) == \A i \in DOMAIN s : s[i] < 128

(* The bytes from+1 .. to, the slice [from..to] of the source. *)
Slice(s, from, to) == SubSeq(s, from + 1, to)

At(s, i) == s[i + 1]

U16(n) == <<n \div 256, n % 256>>

Word(s, i) == 256 * At(s, i) + At(s, i + 1)

Ip(octets, port) == [kind |-> "ip", addr |-> octets, port |-> port]
Domain(name, port) == [kind |-> "domain", addr |-> name, port |-> port]

(***************************************************************************)
(* SOCKS5.                                                                 *)
(***************************************************************************)
MAX_METHODS == 16

parse_greeting(in) ==
  CASE Len(in) < 2 -> Incomplete
    [] OTHER ->
       LET nmethods == At(in, 1) IN
       CASE At(in, 0) # 5 -> Err("version")
         [] nmethods = 0 -> Err("zero methods")
         [] nmethods > MAX_METHODS -> Err("too many methods")
         [] Len(in) < 2 + nmethods -> Incomplete
         [] OTHER -> Ok(Slice(in, 2, 2 + nmethods), 2 + nmethods)

parse_auth(in) ==
  CASE Len(in) < 2 -> Incomplete
    [] At(in, 0) # 1 -> Err("auth version")
    [] At(in, 1) = 0 -> Err("empty username")
    [] OTHER ->
       LET after == 2 + At(in, 1) IN
       CASE Len(in) < after + 1 -> Incomplete
         [] At(in, after) = 0 -> Err("empty password")
         [] Len(in) < after + 1 + At(in, after) -> Incomplete
         [] OTHER ->
            LET total == after + 1 + At(in, after) IN
            IF ~Utf8(Slice(in, 2, after) \o Slice(in, after + 1, total)) THEN Err("utf8")
            ELSE Ok([user |-> Slice(in, 2, after), pass |-> Slice(in, after + 1, total)], total)

(* An address of n octets, then the port. *)
FixedTarget(in, offset, n) ==
  IF Len(in) < offset + n + 2 THEN Incomplete
  ELSE Ok(Ip(Slice(in, offset, offset + n), Word(in, offset + n)), offset + n + 2)

parse_target(in, atyp, offset) ==
  CASE atyp = 1 -> FixedTarget(in, offset, 4)
    [] atyp = 4 -> FixedTarget(in, offset, 16)
    [] atyp = 3 ->
       CASE Len(in) < offset + 1 -> Incomplete
         [] At(in, offset) = 0 -> Err("empty domain")
         [] OTHER ->
            LET end == offset + 1 + At(in, offset) IN
            CASE Len(in) < end + 2 -> Incomplete
              [] ~Utf8(Slice(in, offset + 1, end)) -> Err("utf8")
              [] OTHER -> Ok(Domain(Slice(in, offset + 1, end), Word(in, end)), end + 2)
    [] OTHER -> Err("address type")

socks5_parse_request(in) ==
  CASE Len(in) < 4 -> Incomplete
    [] At(in, 0) # 5 -> Err("version")
    [] At(in, 2) # 0 -> Err("rsv")
    [] At(in, 1) \notin {1, 2, 3} -> Err("command")
    [] OTHER ->
       Then(parse_target(in, At(in, 3), 4),
            LAMBDA t : Ok([command |-> At(in, 1), target |-> t.value], t.used))

parse_udp_datagram(in) ==
  CASE Len(in) < 4 -> Incomplete
    [] At(in, 0) # 0 \/ At(in, 1) # 0 -> Err("rsv")
    [] At(in, 2) # 0 -> Err("command")
    [] OTHER -> parse_target(in, At(in, 3), 4)

encode_udp_datagram(target, payload) ==
  LET atyp == CASE target.kind = "domain" -> 3
                [] Len(target.addr) = 4 -> 1
                [] OTHER -> 4
      dlen == Min({Len(target.addr), 255})
  IN  <<0, 0, 0, atyp>>
        \o (IF atyp = 3 THEN <<dlen>> \o Slice(target.addr, 0, dlen) ELSE target.addr)
        \o U16(target.port) \o payload

(***************************************************************************)
(* VLESS.                                                                  *)
(***************************************************************************)
CMD_TCP == 1
CMD_UDP == 2
CMD_MUX == 3

MuxTarget == Domain(<<>>, 0)          \* the placeholder v1.mux.cool:0

parse_port_address(in) ==
  CASE Len(in) < 3 -> Incomplete
    [] At(in, 2) \in {1, 3} ->
       LET n == IF At(in, 2) = 1 THEN 4 ELSE 16 IN
       IF Len(in) < 3 + n THEN Incomplete ELSE Ok(Ip(Slice(in, 3, 3 + n), Word(in, 0)), 3 + n)
    [] At(in, 2) = 2 ->
       CASE Len(in) < 4 -> Incomplete
         [] At(in, 3) = 0 -> Err("empty domain")
         [] OTHER ->
            LET end == 4 + At(in, 3) IN
            CASE Len(in) < end -> Incomplete
              [] ~Utf8(Slice(in, 4, end)) -> Err("utf8")
              [] OTHER -> Ok(Domain(Slice(in, 4, end), Word(in, 0)), end)
    [] OTHER -> Err("address type")

vless_parse_request(in) ==
  CASE Len(in) < 18 -> Incomplete
    [] At(in, 0) # 0 -> Err("version")
    [] OTHER ->
       LET end == 18 + At(in, 17)
           request(target) == [uuid |-> Slice(in, 1, 17), addons |-> Slice(in, 18, end),
                               command |-> At(in, end), target |-> target]
       IN CASE Len(in) < end + 1 -> Incomplete
            [] At(in, end) \notin {CMD_TCP, CMD_UDP, CMD_MUX} -> Err("command")
            [] At(in, end) = CMD_MUX -> Ok(request(MuxTarget), end + 1)
            [] OTHER ->
               Then(parse_port_address(Slice(in, end + 1, Len(in))),
                    LAMBDA t : Ok(request(t.value), end + 1 + t.used))

(* The length of a domain is cut to a byte. *)
encode_port_address(e) ==
  U16(e.port) \o
    CASE e.kind = "domain" -> <<2, Len(e.addr) % 256>> \o e.addr
      [] Len(e.addr) = 4 -> <<1>> \o e.addr
      [] OTHER -> <<3>> \o e.addr

build_request(uuid, command, e) == <<0>> \o uuid \o <<0, command>> \o encode_port_address(e)

build_tcp_endpoint_request(uuid, e) == build_request(uuid, CMD_TCP, e)

build_udp_endpoint_request(uuid, e) == build_request(uuid, CMD_UDP, e)

build_mux_request(uuid) == <<0>> \o uuid \o <<0, CMD_MUX>>

build_response_header == <<0, 0>>

(***************************************************************************)
(* The addons: protobuf fields.  The value of a varint is kept below 2^28  *)
(* by the inputs, so that the arithmetic of the model does not overflow.   *)
(***************************************************************************)
read_varint(data, offset) ==
  LET ends == {p \in offset .. Len(data) - 1 : At(data, p) < 128} IN
  IF ends = {} \/ Min(ends) >= offset + 10 THEN Err("truncated")
  ELSE LET Term(p) == (At(data, p) % 128) * 128 ^ (p - offset)
       IN  Ok(MapThenSumSet(Term, offset .. Min(ends)), Min(ends) + 1)

read_length_delimited(data, offset, max) ==
  Then(read_varint(data, offset), LAMBDA n :
    CASE n.value > max -> Err("too large")
      [] n.used + n.value > Len(data) -> Err("truncated")
      [] OTHER -> Ok(Slice(data, n.used, n.used + n.value), n.used + n.value))

(* The length-delimited fields of a message, in order; varints and fixed   *)
(* fields are skipped, a fixed one even past the end.  The field of tag t  *)
(* has at most limits[t] bytes, that of a tag without an entry max_other.  *)
Fields(data, limits, max_other) ==
  LET Limit(t) == IF t \in DOMAIN limits THEN limits[t] ELSE max_other
      from[o \in 0 .. Len(data) + 8] ==
        IF o >= Len(data) THEN Ok(<<>>, o)
        ELSE Then(read_varint(data, o), LAMBDA tag :
               CASE tag.value % 8 = 0 ->
                      Then(read_varint(data, tag.used), LAMBDA skip : from[skip.used])
                 [] tag.value % 8 = 1 -> from[tag.used + 8]
                 [] tag.value % 8 = 5 -> from[tag.used + 4]
                 [] tag.value % 8 = 2 ->
                      Then(read_length_delimited(data, tag.used, Limit(tag.value \div 8)),
                           LAMBDA field : Then(from[field.used], LAMBDA rest :
                             Ok(<<[tag |-> tag.value \div 8, bytes |-> field.value]>>
                                  \o rest.value, rest.used)))
                 [] OTHER -> Err("wire type"))
  IN  from[0]

Tagged(fields, n) == SelectSeq(fields, LAMBDA f : f.tag = n)

MAX_NESTED == 128
MAX_SEED == 64
MAX_ADDONS_SKIP == 512

parse_flow_message(data) ==
  Then(Fields(data, <<>>, MAX_NESTED), LAMBDA r :
    LET types == Tagged(r.value, 1) IN
    IF \E i \in DOMAIN types : ~Utf8(types[i].bytes) THEN Err("truncated")
    ELSE Ok(IF types = <<>> THEN <<>> ELSE Last(types).bytes, r.used))

(* The flow that the addons name, a set with at most one text. *)
parse_addons(data) ==
  Then(Fields(data, <<MAX_NESTED, MAX_SEED>>, MAX_ADDONS_SKIP), LAMBDA r :
    LET flows == [i \in DOMAIN Tagged(r.value, 1) |->
                    parse_flow_message(Tagged(r.value, 1)[i].bytes)]
        bad == {i \in DOMAIN flows : flows[i].err # "none"}
    IN CASE bad # {} -> flows[Min(bad)]
         [] flows = <<>> -> Ok({}, r.used)
         [] OTHER -> Ok({Last(flows).value}, r.used))

build_flow_message(flow) == <<10, Len(flow)>> \o flow

build_addons_with_flow(flow) ==
  <<10, Len(build_flow_message(flow))>> \o build_flow_message(flow)

(* No flow with a name is supported, and a user's own flow is required. *)
validate_flow(flow, user_flow) ==
  /\ flow \subseteq {<<>>}
  /\ user_flow \subseteq {<<>>} \/ flow = user_flow

(***************************************************************************)
(* The frames of the mux.  The optional parts of the metadata are sets     *)
(* with at most one element.                                               *)
(***************************************************************************)
STATUS_NEW == 1
STATUS_KEEP == 2
STATUS_END == 3
OPTION_DATA == 1
OPTION_ERROR == 2
NETWORK_TCP == 1
NETWORK_UDP == 2
MAX_META_LEN == 512
MAX_CHUNK_SIZE == 8 * 1024
GLOBAL_ID_LEN == 8

has_data(meta) == meta.option % 2 = 1

parse_meta_body(body) ==
  LET meta(network, target, id) ==
        [session_id |-> Word(body, 0), status |-> At(body, 2), option |-> At(body, 3),
         network |-> network, target |-> target, global_id |-> id]
      needs_target ==
        /\ Len(body) > 4
        /\ \/ At(body, 2) = STATUS_NEW /\ At(body, 4) \in {NETWORK_TCP, NETWORK_UDP}
           \/ At(body, 2) = STATUS_KEEP /\ At(body, 4) = NETWORK_UDP
  IN CASE Len(body) < 4 -> Incomplete
       [] ~needs_target -> Ok(meta({}, {}, {}), Len(body))
       [] OTHER ->
          LET t == parse_port_address(Slice(body, 5, Len(body))) IN
          IF t.err # "none" THEN Err("address")
          ELSE LET at == 5 + t.used
                   id == IF /\ At(body, 2) = STATUS_NEW
                            /\ At(body, 4) = NETWORK_UDP
                            /\ Len(body) >= at + GLOBAL_ID_LEN
                         THEN {Slice(body, at, at + GLOBAL_ID_LEN)} ELSE {}
               IN  Ok(meta({At(body, 4)}, {t.value}, id), Len(body))

(* Mutant: the global id is written before the address. *)
encode_meta_IdFirst(meta) ==
  LET Bytes(parts) == IF parts = {} THEN <<>> ELSE CHOOSE b \in parts : TRUE
      body == U16(meta.session_id) \o <<meta.status, meta.option>> \o
                (IF meta.status = STATUS_NEW /\ meta.network # {}
                 THEN <<Bytes({<<n>> : n \in meta.network})[1]>> \o Bytes(meta.global_id)
                        \o Bytes({encode_port_address(t) : t \in meta.target})
                 ELSE <<>>)
  IN  U16(Len(body)) \o body

encode_meta(meta) ==
  LET Bytes(parts) == IF parts = {} THEN <<>> ELSE CHOOSE b \in parts : TRUE
      Address(n) == <<n>> \o Bytes({encode_port_address(t) : t \in meta.target})
      body == U16(meta.session_id) \o <<meta.status, meta.option>> \o
                CASE meta.status = STATUS_NEW /\ meta.network # {} /\ meta.target # {} ->
                       (CHOOSE b \in {Address(n) : n \in meta.network} : TRUE)
                         \o (IF meta.network = {NETWORK_UDP} THEN Bytes(meta.global_id) ELSE <<>>)
                  [] meta.status = STATUS_KEEP /\ meta.network = {NETWORK_UDP}
                       /\ meta.target # {} -> Address(NETWORK_UDP)
                  [] OTHER -> <<>>
  IN  U16(Len(body)) \o body

encode_data_frame(meta, payload) ==
  IF Len(payload) > MAX_CHUNK_SIZE THEN Err("chunk too large")
  ELSE Ok(encode_meta(meta) \o U16(Len(payload)) \o payload, 0)

encode_end_frame(session_id, with_error) ==
  encode_meta([session_id |-> session_id, status |-> STATUS_END,
               option |-> IF with_error THEN OPTION_ERROR ELSE 0,
               network |-> {}, target |-> {}, global_id |-> {}])

parse_frame(in) ==
  LET end == 2 + Word(in, 0)
      meta == parse_meta_body(Slice(in, 2, end))
      chunk == Word(in, end)
  IN CASE Len(in) < 2 -> Incomplete
       [] Word(in, 0) > MAX_META_LEN -> Err("meta too large")
       [] Len(in) < end -> Incomplete
       [] meta.err # "none" -> meta
       [] ~has_data(meta.value) -> Ok([meta |-> meta.value, payload |-> {}], end)
       [] Len(in) < end + 2 -> Incomplete
       [] chunk > MAX_CHUNK_SIZE -> Err("chunk too large")
       [] Len(in) < end + 2 + chunk -> Incomplete
       [] OTHER -> Ok([meta |-> meta.value,
                       payload |-> {Slice(in, end + 2, end + 2 + chunk)}], end + 2 + chunk)
=============================================================================
