------------------------------- MODULE Xhttp -------------------------------
(***************************************************************************)
(* XHTTP on the server: the registry that brings GETs and POSTs together   *)
(* (XhttpRegistry), the reassembly of numbered POSTs (PacketUp), and the   *)
(* response body (Downlink).                                               *)
(***************************************************************************)
EXTENDS PacketUp, XhttpRegistry

CONSTANTS
  Capacity,   \* places of the channel of a response body
  MaxChunks   \* bound: chunks the relay writes into it

VARIABLES
  body, bodyQueue, bodyPending, bodyCaller, bodyAccepted, bodyLast,
  bodyStalled, bodyRepeated   \* of Downlink

Body == INSTANCE Downlink WITH
  queue <- bodyQueue, pending <- bodyPending, caller <- bodyCaller,
  accepted <- bodyAccepted, last <- bodyLast, stalled <- bodyStalled,
  repeated <- bodyRepeated

bodyVars == <<body, bodyQueue, bodyPending, bodyCaller, bodyAccepted, bodyLast,
              bodyStalled, bodyRepeated>>

(* The response body of an XHTTP session under back-pressure: the chunks    *)
(* come in order, none is left out, and none comes twice unless a write met *)
(* a full channel (ChannelWriter).                                          *)
BodyInOrder == Body!NoChunkSkipped /\ Body!ExactUnlessStalled

(* A chunk ChannelWriter reported as written is sent to a client that goes  *)
(* on reading.                                                              *)
AcceptedIsSent == Body!AcceptedIsSent
=============================================================================
