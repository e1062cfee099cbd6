------------------------------- MODULE Hello -------------------------------
(***************************************************************************)
(* The parser of the TLS ClientHello that the REALITY listener and the TUN *)
(* device look into (reality/hello_parser.rs).  An optional value is a set *)
(* with at most one element.                                               *)
(***************************************************************************)
EXTENDS Wire

(* The entries of a list of kind, length and bytes; a last one that does   *)
(* not fit ends the walk.                                                  *)
Entries(data, start, end, width) ==
  LET from[o \in 0 .. end] ==
        IF o + width + 2 > end THEN <<>>
        ELSE LET first == o + width + 2
                 past == first + Word(data, o + width)
             IN  IF past > end THEN <<>>
                 ELSE <<[kind |-> IF width = 1 THEN At(data, o) ELSE Word(data, o),
                         bytes |-> Slice(data, first, past)]>> \o from[past]
  IN  from[start]

(* A list with its own length in front. *)
List(data, width) ==
  IF Len(data) < 2 \/ Len(data) < 2 + Word(data, 0) THEN <<>>
  ELSE Entries(data, 2, 2 + Word(data, 0), width)

parse_sni(data) ==
  LET names == SelectSeq(List(data, 1), LAMBDA e : e.kind = 0)
  IN  IF names # <<>> /\ Utf8(names[1].bytes) THEN {names[1].bytes} ELSE {}

parse_key_share(data) ==
  LET keys == SelectSeq(List(data, 2), LAMBDA e : e.kind = 29 /\ Len(e.bytes) = 32)
  IN  IF keys # <<>> THEN {keys[1].bytes} ELSE {}

(* The walk stops at the extension after which both are known. *)
parse_extensions(data) ==
  LET Step(found, e) ==
        CASE found.key # {} /\ found.name # {} -> found
          [] e.kind = 0 -> [found EXCEPT !.name = parse_sni(e.bytes)]
          [] e.kind = 51 -> [found EXCEPT !.key = parse_key_share(e.bytes)]
          [] OTHER -> found
  IN  FoldLeft(Step, [key |-> {}, name |-> {}], Entries(data, 0, Len(data), 2))

(* The lengths are held against the buffer, not against the record: bytes  *)
(* after a hello without extensions are taken for some.                    *)
parse_client_hello(in) ==
  LET sid == 44 + At(in, 43)                     \* past the session id
      suites == sid + 2 + Word(in, sid)
      methods == suites + 1 + At(in, suites)
      ext == methods + 2 + Word(in, methods)
      Info(found) == Ok([session_id |-> Slice(in, 44, sid), random |-> Slice(in, 11, 43),
                         key |-> found.key, name |-> found.name], Len(in))
  IN CASE Len(in) < 5 -> Incomplete
       [] At(in, 0) # 22 \/ Len(in) < 5 + Word(in, 3) -> Incomplete
       [] Len(in) < 9 -> Err("short")
       [] At(in, 5) # 1 -> Incomplete
       [] Len(in) < 44 -> Err("short")
       [] Len(in) < sid + 2 -> Err("short")
       [] Len(in) < suites + 1 -> Err("short")
       [] Len(in) < methods -> Err("short")
       [] Len(in) < methods + 2 -> Info([key |-> {}, name |-> {}])
       [] Len(in) < ext -> Err("short")
       [] OTHER -> Info(parse_extensions(Slice(in, methods + 2, ext)))
=============================================================================
