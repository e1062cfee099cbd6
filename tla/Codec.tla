------------------------------- MODULE Codec -------------------------------
(***************************************************************************)
(* A reader that gives a parser of Wire a message one byte after another,  *)
(* the bytes of the next message following it.                             *)
(***************************************************************************)
EXTENDS Hello

CONSTANTS
  Messages,  \* records [form, bytes, means]
  Following  \* the bytes after the message

VARIABLES
  message,   \* the message on the wire
  have       \* how many bytes have arrived

codecVars == <<message, have>>

Arrived == Slice(message.bytes \o Following, 0, have)

Parsed ==
  CASE message.form = "greeting" -> parse_greeting(Arrived)
    [] message.form = "auth" -> parse_auth(Arrived)
    [] message.form = "request" -> socks5_parse_request(Arrived)
    [] message.form = "udp" -> parse_udp_datagram(Arrived)
    [] message.form = "vless" -> vless_parse_request(Arrived)
    [] message.form = "frame" -> parse_frame(Arrived)
    [] message.form \in {"hello", "bare"} -> parse_client_hello(Arrived)

CodecInit == message \in Messages /\ have = 0

ByteArrives ==
  /\ have < Len(message.bytes) + Len(Following)
  /\ have' = have + 1
  /\ UNCHANGED message

(***************************************************************************)
(* A parser asks for more until the last byte of the message is there, and *)
(* then returns what was built, using exactly the bytes of the message     *)
(* whatever follows it (the hello parser does not say what it used).  The  *)
(* one message whose end is not seen is a hello that leaves out the block  *)
(* of extensions (bare): two bytes after it are taken for the length of    *)
(* one, and it is refused when fewer bytes than that follow.               *)
(***************************************************************************)
ParsersAreExact ==
  LET size == Len(message.bytes) IN
  CASE have < size -> Parsed.err = "incomplete"
    [] message.form = "bare" /\ have > size + 1 ->
         Word(Following, 0) > have - size - 2 => Parsed.err = "short"
    [] OTHER -> /\ Parsed.err = "none"
                /\ Parsed.value = message.means
                /\ Parsed.used = IF message.form \in {"hello", "bare"} THEN have ELSE size
=============================================================================
