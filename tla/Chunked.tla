------------------------------ MODULE Chunked ------------------------------
(***************************************************************************)
(* The body of an XHTTP stream in HTTP/1.1 chunks, as the client of this   *)
(* repository writes and reads it (ChunkedEncoder and ChunkedDecoder of    *)
(* xhttp/client.rs), the decoder at the end of the encoder's stream.  The  *)
(* headers of the response come first; what read_http_headers has read     *)
(* past them goes to the decoder.                                          *)
(*                                                                         *)
(* The stream is a sequence of bytes: "size" is the hexadecimal length, a  *)
(* byte of the payload is its number.  It may break anywhere.              *)
(***************************************************************************)
EXTENDS Naturals, Sequences, SequencesExt, FiniteSetsExt

CONSTANTS
  WriteSizes,  \* lengths of the caller's writes
  MaxWritten,    \* bound: bytes written
  ReadSize     \* the most one read of the stream returns

VARIABLES
  written,     \* bytes the encoder has framed
  encoder,     \* "open", "closing", "closed" or "failed"
  framed,      \* ChunkedEncoder.pending
  wire,        \* the stream, not yet read
  broken,      \* the connection is gone: no byte is added to the stream
  decoder,     \* "headers", a ChunkState, "eof" or an error
  leftover,    \* bytes read and not yet decoded
  remaining,   \* chunk_remaining
  decoded      \* bytes given to the reader

chunkVars == <<written, encoder, framed, wire, broken, decoder, leftover, remaining, decoded>>

Byte(k, v) == [k |-> k, v |-> v]
Crlf == <<Byte("cr", 0), Byte("lf", 0)>>
HeaderEnd == <<Byte("header", 0)>>

ChunkInit ==
  /\ written = 0
  /\ encoder = "open"
  /\ framed = <<>>
  /\ wire = HeaderEnd
  /\ broken = FALSE
  /\ decoder = "headers"
  /\ leftover = <<>>
  /\ remaining = 0
  /\ decoded = <<>>

(* poll_write frames the whole buffer; bytes are known by their number. *)
PollWrite(n) ==
  /\ encoder = "open" /\ framed = <<>>
  /\ written + n <= MaxWritten
  /\ framed' = <<Byte("size", n)>> \o Crlf \o [i \in 1 .. n |-> Byte("data", written + i)] \o Crlf
  /\ written' = written + n
  /\ UNCHANGED <<encoder, wire, broken, decoder, leftover, remaining, decoded>>

(* The inner stream takes part of it, or fails. *)
PollWritePending ==
  /\ framed # <<>>
  /\ encoder # "failed"
  /\ IF broken THEN encoder' = "failed" /\ UNCHANGED <<framed, wire>>
     ELSE \E n \in 1 .. Len(framed) :
            /\ wire' = wire \o SubSeq(framed, 1, n)
            /\ framed' = SubSeq(framed, n + 1, Len(framed))
            /\ encoder' = IF encoder = "closing" /\ n = Len(framed) THEN "closed" ELSE encoder
  /\ UNCHANGED <<written, broken, decoder, leftover, remaining, decoded>>

(* Mutant: the last chunk is not waited for. *)
PollShutdown_Cuts ==
  /\ encoder = "open"
  /\ encoder' = "closing"
  /\ framed' = <<Byte("size", 0)>> \o Crlf \o Crlf
  /\ UNCHANGED <<written, wire, broken, decoder, leftover, remaining, decoded>>

PollShutdown ==
  /\ encoder = "open" /\ framed = <<>>
  /\ encoder' = "closing"
  /\ framed' = <<Byte("size", 0)>> \o Crlf \o Crlf
  /\ UNCHANGED <<written, wire, broken, decoder, leftover, remaining, decoded>>

(* The connection breaks and takes bytes under way with it. *)
Break ==
  /\ ~broken
  /\ broken' = TRUE
  /\ \E n \in 0 .. Len(wire) : wire' = SubSeq(wire, 1, n)
  /\ UNCHANGED <<written, encoder, framed, decoder, leftover, remaining, decoded>>

AtEnd == wire = <<>> /\ (broken \/ encoder = "closed")

(* A read of at most `most' bytes into the leftover, or else the end. *)
Fill(most, AtEof) ==
  \/ /\ AtEnd
     /\ decoder' = AtEof
     /\ UNCHANGED <<wire, leftover>>
  \/ \E n \in 1 .. Min({most, Len(wire)}) :
       /\ leftover' = leftover \o SubSeq(wire, 1, n)
       /\ wire' = SubSeq(wire, n + 1, Len(wire))
       /\ UNCHANGED decoder

read_http_headers ==
  /\ decoder = "headers"
  /\ IF \E i \in DOMAIN leftover : leftover[i].k = "header"
     THEN /\ leftover' = Tail(leftover)
          /\ decoder' = "size_line"
          /\ UNCHANGED wire
     ELSE Fill(ReadSize, "error")
  /\ UNCHANGED <<written, encoder, framed, broken, remaining, decoded>>

LineEnds == {i \in 1 .. Len(leftover) - 1 : SubSeq(leftover, i, i + 1) = Crlf}

SizeLine ==
  /\ decoder = "size_line"
  /\ IF LineEnds # {}
     THEN LET end == Min(LineEnds)
              size == leftover[1]
          IN /\ leftover' = SubSeq(leftover, end + 2, Len(leftover))
             /\ decoder' = CASE end # 2 \/ size.k # "size" -> "error"
                             [] size.v = 0 -> "eof"
                             [] OTHER -> "data"
             /\ remaining' = IF end = 2 THEN size.v ELSE remaining
             /\ UNCHANGED wire
     ELSE Fill(ReadSize, "eof") /\ UNCHANGED remaining
  /\ UNCHANGED <<written, encoder, framed, broken, decoded>>

(* From the leftover while there is some, then straight from the stream. *)
DataRead ==
  /\ decoder = "data" /\ remaining > 0
  /\ IF leftover # <<>>
     THEN \E n \in 1 .. Min({remaining, Len(leftover)}) :
            /\ decoded' = decoded \o SubSeq(leftover, 1, n)
            /\ leftover' = SubSeq(leftover, n + 1, Len(leftover))
            /\ remaining' = remaining - n
            /\ UNCHANGED <<wire, decoder>>
     ELSE \/ AtEnd /\ decoder' = "error" /\ UNCHANGED <<decoded, leftover, remaining, wire>>
          \/ \E n \in 1 .. Min({remaining, ReadSize, Len(wire)}) :
               /\ decoded' = decoded \o SubSeq(wire, 1, n)
               /\ wire' = SubSeq(wire, n + 1, Len(wire))
               /\ remaining' = remaining - n
               /\ UNCHANGED <<leftover, decoder>>
  /\ UNCHANGED <<written, encoder, framed, broken>>

DataEnds ==
  /\ decoder = "data" /\ remaining = 0
  /\ decoder' = "data_crlf"
  /\ UNCHANGED <<written, encoder, framed, wire, broken, leftover, remaining, decoded>>

DataCrlf ==
  /\ decoder = "data_crlf"
  /\ IF Len(leftover) < 2 THEN Fill(2, "error")
     ELSE /\ decoder' = IF SubSeq(leftover, 1, 2) = Crlf THEN "size_line" ELSE "error"
          /\ leftover' = SubSeq(leftover, 3, Len(leftover))
          /\ UNCHANGED wire
  /\ UNCHANGED <<written, encoder, framed, broken, remaining, decoded>>

ChunkNext ==
  \/ \E n \in WriteSizes : PollWrite(n)
  \/ PollWritePending \/ PollShutdown \/ Break
  \/ read_http_headers \/ SizeLine \/ DataRead \/ DataEnds \/ DataCrlf

ChunkSpec == ChunkInit /\ [][ChunkNext]_chunkVars

(***************************************************************************)
(* The reader gets the written bytes in order, however writes and reads    *)
(* split them.  It is told of the end without an error only when it has    *)
(* all of them and the encoder has ended the body, or when the connection  *)
(* broke between two chunks, which the decoder takes for an end.           *)
(***************************************************************************)
ChunksAreExact ==
  /\ decoded = [i \in 1 .. Len(decoded) |-> Byte("data", i)]
  /\ Len(decoded) <= written
  /\ decoder = "eof" =>
       \/ encoder \in {"closing", "closed"} /\ Len(decoded) = written
       \/ broken /\ remaining = 0
  /\ decoder = "error" => broken
=============================================================================
