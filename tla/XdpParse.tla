------------------------------ MODULE XdpParse ------------------------------
(***************************************************************************)
(* The header parser of the packet filter (xdp/parse.h).  A frame is a     *)
(* record of the values found where the parser looks for them, and of the  *)
(* number of bytes captured; a value beyond the captured bytes or beyond   *)
(* the IP packet is whatever the padding holds there.                      *)
(***************************************************************************)
EXTENDS Integers

\* be16()
UShort == 0..(256 * 256 - 1)

\* Addresses and ports are compared, never computed with.
Frame ==
  [size : Nat,                            \* end - data
   tags : Nat,                            \* VLAN tags in a row
   ether : {"ipv4", "ipv6", "other"},     \* EtherType behind the tags
   version : 0..15, ihl : 0..15,          \* first byte of the IP header
   len : UShort,                          \* its length field
   proto : {"tcp", "udp", "icmp", "other"},
   fragment : BOOLEAN,
   offset : 0..15, flags : SUBSET {"fin", "syn", "rst", "ack"},   \* TCP
   length : UShort,                       \* UDP
   src : STRING, dst : STRING, port : STRING]

MaxTags == 2

Tags(f) == IF f.tags > MaxTags THEN MaxTags ELSE f.tags

Off(f) == 14 + 4 * Tags(f)

\* A third tag is an EtherType like any other that is left to the kernel.
Type(f) == IF f.tags > MaxTags THEN "other" ELSE f.ether

\* The fixed header is there, which is enough to know the destination.
FixedHeader(f) ==
  \/ Type(f) = "ipv4" /\ f.size >= Off(f) + 20 /\ f.version = 4
  \/ Type(f) = "ipv6" /\ f.size >= Off(f) + 40 /\ f.version = 6

L4(f) == Off(f) + (IF Type(f) = "ipv4" THEN 4 * f.ihl ELSE 40)

IpEnd(f) == Off(f) + (IF Type(f) = "ipv4" THEN f.len ELSE 40 + f.len)

LengthsFit(f) ==
  /\ IpEnd(f) <= f.size
  /\ Type(f) = "ipv4" => /\ 4 * f.ihl >= 20 /\ f.len >= 4 * f.ihl
                         /\ L4(f) <= f.size

\* parse_ip(): "parsed", "delegated", or the reason it returns.
ParseIp(f) ==
  IF f.size < Off(f) THEN "malformed_l2"
  ELSE IF Type(f) = "other" THEN "delegated"
  ELSE IF FixedHeader(f) /\ LengthsFit(f) THEN "parsed"
  ELSE IF Type(f) = "ipv4" THEN "malformed_ipv4" ELSE "other"

KnowsDst(f) == f.size >= Off(f) /\ FixedHeader(f)

Fragment(f) == Type(f) = "ipv4" /\ f.fragment

Deferred(f) == Type(f) = "ipv6" /\ (f.len = 0 \/ f.proto = "other")

\* Mutant: Ethernet padding counts as part of the packet.
FitsFrame(f, n) == L4(f) + n <= f.size

Fits(f, n) == L4(f) + n <= IpEnd(f) /\ L4(f) + n <= f.size

TcpFlagsBad(f) ==
  \/ "syn" \in f.flags /\ f.flags \cap {"fin", "rst"} # {}
  \/ {"fin", "rst"} \subseteq f.flags

TcpFits(f) ==
  Fits(f, 20) /\ 4 * f.offset >= 20 /\ Fits(f, 4 * f.offset) /\ ~TcpFlagsBad(f)

UdpFits(f) == Fits(f, 8) /\ f.length >= 8 /\ Fits(f, f.length)

\* parse_transport(), for a frame that parse_ip() parsed.
ParseTransport(f) ==
  IF Fragment(f) \/ Deferred(f) THEN "delegated"
  ELSE IF L4(f) > 128 \/ L4(f) > IpEnd(f) THEN "other"
  ELSE IF f.proto = "tcp" THEN (IF TcpFits(f) THEN "parsed" ELSE "invalid_tcp")
  ELSE IF f.proto = "udp" THEN (IF UdpFits(f) THEN "parsed" ELSE "other")
  ELSE "parsed"
=============================================================================
