----------------------------- MODULE Handshake -----------------------------
(***************************************************************************)
(* One connection of an application through the client's SOCKS5 port and   *)
(* the remote proxy: the application negotiates SOCKS5 with the client,    *)
(* which opens a VLESS connection for the target and then relays.          *)
(*                                                                         *)
(* Every reader uses read_exact, so how the bytes are split on the way     *)
(* does not matter: `input' is all the application ever sends, and at its  *)
(* end it has either closed or gone silent.                                *)
(***************************************************************************)
EXTENDS Wire

CONSTANTS
  Inputs,    \* what an application may send: records [bytes, target, payload]
  Auths,     \* the configured method: "no-auth", "user-pass"
  Uuid,      \* the client's id, 16 bytes
  Requests,  \* what other VLESS clients may send, each then closing
  Users      \* the remote proxy's users: records [uuid, flow]

VARIABLES
  app,       \* what this application sends, then closing or going silent
  auth,      \* the method the client is configured for
  client,    \* where the client's session is
  read,      \* bytes of the input it has read
  buf,       \* the message being read
  told,      \* the final replies written to the application, in order
  target,    \* the target of the request
  up,        \* bytes on the way to the proxy
  server,    \* where the proxy's handshake is
  head,      \* the bytes it has read
  accepted   \* what the proxy's handshake returned

hsVars == <<app, auth, client, read, buf, told, target, up, server, head, accepted>>

Nowhere == Domain(<<>>, 0)
NoApp == [bytes |-> <<>>, target |-> Nowhere, payload |-> <<>>]
Nothing == [command |-> 0, target |-> Nowhere]

REP_SUCCEEDED == 0
REP_GENERAL_FAILURE == 1
REP_CONNECTION_REFUSED == 5
REP_COMMAND_NOT_SUPPORTED == 7
REP_ADDRESS_NOT_SUPPORTED == 8

HsInit ==
  /\ auth \in Auths
  /\ \/ client = "greeting" /\ app \in Inputs /\ up = <<>> /\ server = "idle"
     \/ client = "other" /\ app = NoApp /\ up \in Requests /\ server = "handshake"
  /\ read = 0
  /\ buf = <<>>
  /\ told = <<>>
  /\ target = Nowhere
  /\ head = <<>>
  /\ accepted = Nothing

(***************************************************************************)
(* The client's negotiation.  Each reader asks for a length that depends   *)
(* on what it has already read; a length it has reached means a message.   *)
(***************************************************************************)
read_greeting == IF Len(buf) < 2 THEN 2 ELSE 2 + buf[2]

perform_auth ==
  CASE Len(buf) < 2 -> 2
    [] Len(buf) < 2 + buf[2] -> 2 + buf[2]
    [] Len(buf) = 2 + buf[2] -> 3 + buf[2]
    [] OTHER -> 3 + buf[2] + buf[3 + buf[2]]

read_request ==
  CASE Len(buf) < 4 -> 4
    [] buf[4] = 1 -> 10
    [] buf[4] = 4 -> 22
    [] Len(buf) < 5 -> 5
    [] OTHER -> 5 + buf[5] + 2

Wanted ==
  CASE client = "greeting" -> read_greeting
    [] client = "auth" -> perform_auth
    [] client = "request" -> read_request

(* What ends the negotiation before the message is complete, and the reply *)
(* that read_request sends by itself.                                      *)
RefusedEarly ==
  \/ client = "greeting" /\ Len(buf) = 2 /\ buf[2] > MAX_METHODS
  \/ client = "auth" /\ Len(buf) = 2 /\ buf[2] = 0
  \/ client = "auth" /\ Len(buf) > 2 /\ Len(buf) = 3 + buf[2] /\ buf[Len(buf)] = 0
  \/ client = "request" /\ Len(buf) = 4 /\ buf[4] \notin {1, 3, 4}
  \/ client = "request" /\ Len(buf) = 5 /\ buf[4] = 3 /\ buf[5] = 0

InputLeft == Len(app.bytes) - read

ReadExact ==
  /\ client \in {"greeting", "auth", "request"}
  /\ ~RefusedEarly
  /\ Len(buf) < Wanted
  /\ InputLeft >= Wanted - Len(buf)
  /\ read' = read + Wanted - Len(buf)
  /\ buf' = buf \o Slice(app.bytes, read, read')
  /\ UNCHANGED <<app, auth, client, told, target, up, server, head, accepted>>

(* handle_session answers every failed negotiation, also one that was      *)
(* already answered.                                                       *)
FailNegotiation(sent) ==
  /\ told' = told \o sent \o <<REP_GENERAL_FAILURE>>
  /\ client' = "failed"
  /\ UNCHANGED <<app, auth, read, buf, target, up, server, head, accepted>>

RefuseEarly ==
  /\ RefusedEarly
  /\ FailNegotiation(IF client = "request" THEN <<REP_ADDRESS_NOT_SUPPORTED>> ELSE <<>>)

(* The end of the input, or ten seconds, while bytes are missing. *)
GiveUp ==
  /\ client \in {"greeting", "auth", "request"}
  /\ ~RefusedEarly
  /\ Len(buf) < Wanted
  /\ InputLeft < Wanted - Len(buf)
  /\ FailNegotiation(<<>>)

Complete(phase) == client = phase /\ ~RefusedEarly /\ Len(buf) = Wanted

select_method(methods) ==
  LET wanted == IF auth = "no-auth" THEN 0 ELSE 2
  IN  IF wanted \in ToSet(methods) THEN wanted ELSE 255

Greeted ==
  /\ Complete("greeting")
  /\ LET r == parse_greeting(buf)
         method == IF r.err = "none" THEN select_method(r.value) ELSE 255
     IN IF method = 255 THEN FailNegotiation(<<>>)
        ELSE /\ client' = IF method = 2 THEN "auth" ELSE "request"
             /\ buf' = <<>>
             /\ UNCHANGED <<app, auth, read, told, target, up, server, head, accepted>>

(* Whether the credentials are right is left open. *)
Authenticated ==
  /\ Complete("auth")
  /\ \/ FailNegotiation(<<>>)
     \/ /\ parse_auth(buf).err = "none"
        /\ client' = "request"
        /\ buf' = <<>>
        /\ UNCHANGED <<app, auth, read, told, target, up, server, head, accepted>>

(* Mutant: the command of the request is not looked at. *)
Requested_AnyCommand ==
  /\ Complete("request")
  /\ LET r == socks5_parse_request(buf) IN
     IF r.err # "none" THEN FailNegotiation(<<>>)
     ELSE /\ client' = "connecting"
          /\ target' = r.value.target
          /\ up' = build_tcp_endpoint_request(Uuid, r.value.target)
          /\ server' = "handshake"
          /\ UNCHANGED <<app, auth, read, buf, told, head, accepted>>

(* The client serves CONNECT only; open_tcp sends the VLESS request.       *)
Requested ==
  /\ Complete("request")
  /\ LET r == socks5_parse_request(buf) IN
     CASE r.err # "none" -> FailNegotiation(<<>>)
       [] r.err = "none" /\ r.value.command # 1 -> FailNegotiation(<<REP_COMMAND_NOT_SUPPORTED>>)
       [] OTHER ->
          /\ client' = "connecting"
          /\ target' = r.value.target
          /\ up' = build_tcp_endpoint_request(Uuid, r.value.target)
          /\ server' = "handshake"
          /\ UNCHANGED <<app, auth, read, buf, told, head, accepted>>

(* The proxy cannot be reached, answers wrongly or late, or has closed. *)
ConnectFails ==
  /\ client = "connecting"
  /\ told' = Append(told, REP_CONNECTION_REFUSED)
  /\ client' = "failed"
  /\ server' = IF server = "handshake" THEN "closed" ELSE server
  /\ UNCHANGED <<app, auth, read, buf, target, up, head, accepted>>

(* The two bytes of the response have come. *)
Connected ==
  /\ client = "connecting"
  /\ server = "accepted"
  /\ told' = Append(told, REP_SUCCEEDED)
  /\ client' = "relay"
  /\ UNCHANGED <<app, auth, read, buf, target, up, server, head, accepted>>

RelayUp ==
  /\ client = "relay"
  /\ InputLeft > 0
  /\ read' = read + 1
  /\ up' = Append(up, app.bytes[read + 1])
  /\ UNCHANGED <<app, auth, client, buf, told, target, server, head, accepted>>

(***************************************************************************)
(* The proxy's handshake.                                                  *)
(***************************************************************************)
AddonsEnd == 18 + head[18]

(* The length handshake_inner reads up to next. *)
HeadWanted ==
  CASE Len(head) < 18 -> 18
    [] Len(head) < AddonsEnd -> AddonsEnd
    [] Len(head) = AddonsEnd -> AddonsEnd + 1
    [] head[AddonsEnd + 1] = CMD_MUX -> AddonsEnd + 1
    [] Len(head) < AddonsEnd + 4 -> AddonsEnd + 4
    [] head[AddonsEnd + 4] = 1 -> AddonsEnd + 8
    [] head[AddonsEnd + 4] = 3 -> AddonsEnd + 20
    [] Len(head) < AddonsEnd + 5 -> AddonsEnd + 5
    [] OTHER -> AddonsEnd + 5 + head[AddonsEnd + 5]

HeadRefused ==
  \/ Len(head) = 18 /\ head[1] # 0
  \/ Len(head) > 18 /\ Len(head) = AddonsEnd + 4 /\ head[AddonsEnd + 1] # CMD_MUX
       /\ head[AddonsEnd + 4] \notin {1, 2, 3}

ServerReads ==
  /\ server = "handshake"
  /\ Len(head) < HeadWanted
  /\ IF ~HeadRefused /\ Len(up) >= HeadWanted
     THEN head' = Slice(up, 0, HeadWanted) /\ UNCHANGED server
     ELSE server' = "closed" /\ UNCHANGED head
  /\ UNCHANGED <<app, auth, client, read, buf, told, target, up, accepted>>

(* Authentication, parsing, the flow; then the response.  Every refusal    *)
(* closes the connection without a word.                                   *)
ServerDecides ==
  /\ server = "handshake"
  /\ Len(head) = HeadWanted
  /\ LET r == vless_parse_request(head)
         user == {u \in Users : u.uuid = Slice(head, 1, 17)}
         flow == parse_addons(r.value.addons)
     IN IF /\ user # {}
           /\ r.err = "none"
           /\ flow.err = "none"
           /\ \E u \in user : validate_flow(flow.value, u.flow)
        THEN /\ server' = "accepted"
             /\ accepted' = [command |-> r.value.command, target |-> r.value.target]
        ELSE server' = "closed" /\ UNCHANGED accepted
  /\ UNCHANGED <<app, auth, client, read, buf, told, target, up, head>>

HsNext ==
  \/ ReadExact \/ RefuseEarly \/ GiveUp \/ Greeted \/ Authenticated \/ Requested
  \/ ConnectFails \/ Connected \/ RelayUp
  \/ ServerReads \/ ServerDecides

HsSpec == HsInit /\ [][HsNext]_hsVars

(***************************************************************************)
(* What the proxy's handshake returns is what the application asked for:   *)
(* a TCP connection to its target (handle_session, handshake_inner).  The  *)
(* readers consume exactly their messages: the proxy relays the input      *)
(* after the request, and it reads as many bytes of any client's request   *)
(* as the parser then uses.  The application is told of success only after *)
(* the proxy has accepted, and then of nothing else.                       *)
(***************************************************************************)
TunnelCarriesRequest ==
  /\ server = "accepted" => vless_parse_request(up).used = Len(head)
  /\ server = "accepted" /\ client # "other" =>
       /\ accepted = [command |-> CMD_TCP, target |-> app.target]
       /\ IsPrefix(Slice(up, Len(head), Len(up)), app.payload)
  /\ REP_SUCCEEDED \in ToSet(told) => server = "accepted" /\ Len(told) = 1
=============================================================================
