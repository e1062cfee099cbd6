------------------------------- MODULE TunUdp -------------------------------
(***************************************************************************)
(* The ICMP packet that a flow of TunFlows injects when a datagram is too  *)
(* large for the MTU, byte by byte (tun/mod.rs and pmtud.rs of the client).*)
(***************************************************************************)
EXTENDS Wire, TunFlows

CONSTANT Local   \* the address of the application

(* The sum is 16 bits wide with the carries added back, then inverted. *)
internet_checksum(data) ==
  LET Term(i) == 256 * data[2 * i - 1] + data[2 * i]
      sum == MapThenSumSet(Term, 1 .. Len(data) \div 2)
      folded == (sum % 65536) + (sum \div 65536)
  IN  65535 - ((folded % 65536) + (folded \div 65536))

write_ipv4_header(src, dst, protocol, payload_len) ==
  <<69, 0>> \o U16(IPV4_HEADER_LEN + payload_len) \o <<0, 0, 0, 0, 64, protocol, 0, 0>>
    \o src \o dst

PutWord(packet, i, word) == [packet EXCEPT ![i + 1] = word \div 256, ![i + 2] = word % 256]

(* Both checksums go to bytes 2 and 3, of the ICMP message and of the      *)
(* IPv4 packet, where an IPv4 header has its length.                       *)
build_icmp_frag_needed_v4(from, to, m) ==
  LET inner == write_ipv4_header(from.addr, to.addr, 17, UDP_HEADER_LEN)
                 \o U16(from.port) \o U16(to.port) \o <<0, 0, 0, 0>>
      message == <<3, 4, 0, 0, 0, 0>> \o U16(m) \o inner
      header == write_ipv4_header(to.addr, from.addr, 1, Len(message))
  IN  PutWord(header, 2, internet_checksum(header))
        \o PutWord(message, 2, internet_checksum(message))

(***************************************************************************)
(* The packet that tells the application of the MTU is a valid IPv4        *)
(* packet: its length is in its header, whose checksum holds               *)
(* (build_icmp_frag_needed_v4).                                            *)
(***************************************************************************)
IcmpIsValid ==
  icmp # <<>> =>
    LET packet == build_icmp_frag_needed_v4(Local, icmp[1], icmp[2])
    IN  /\ Word(packet, 2) = Len(packet)
        /\ internet_checksum(Slice(packet, 0, IPV4_HEADER_LEN)) = 0
=============================================================================
