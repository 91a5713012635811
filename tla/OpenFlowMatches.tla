--------------------------- MODULE OpenFlowMatches ---------------------------
(***************************************************************************)
(* How the matches of OpenFlow become wildcard vectors and come back       *)
(* (Parser.cpp, Mapping.hpp and Mapping.cpp).  Of the fields the type of   *)
(* the frame, the IP protocol and the source address are here: the first   *)
(* two have fewer bits than in a packet, and the last stands for those     *)
(* that keep their bits and their mask.                                    *)
(***************************************************************************)
EXTENDS HeaderSpaces

CONSTANTS
  AnyPort,   (* SpecialPort::ANY                                           *)
  AnyValue   (* a field that a match does not have                         *)

(* Where the fields lie in a header (Mapping::EthType, IPProto, IPv4Src).  *)
TypeBits == 1..2
ProtoBits == 3..3
AddressBits == 4..Width

ASSUME HeaderHoldsFields == Width >= 4

Types == {"ipv4", "arp", "lldp", "ipv6"}
Protos == {"tcp", "udp", "icmp"}
Addresses == [AddressBits -> {0, 1}]

Packets ==
  [type : {"ipv4"}, proto : Protos, address : Addresses] \cup
  [type : Types \ {"ipv4"}]

(* Mapping::EthType and Mapping::IPProto: all the types that are not known *)
(* share a number, and so do all the protocols but TCP.  On the way back a *)
(* number becomes one type (or none: 0x0000) and one protocol.             *)
TypeNumber(type) ==
  CASE type = "ipv4" -> 1 [] type = "arp" -> 2 [] type = "lldp" -> 3 [] OTHER -> 0
TypeOfNumber(n) ==
  CASE n = 1 -> "ipv4" [] n = 2 -> "arp" [] n = 3 -> "lldp" [] OTHER -> "zero"
ProtoNumber(proto) == IF proto = "tcp" THEN 1 ELSE 0
ProtoOfNumber(n) == IF n = 1 THEN "tcp" ELSE "udp"

(* Bit k of a number, from the lowest, as a bit of a vector.               *)
NumberBit(n, k) == {(n \div 2^k) % 2}

(* setField: the bits of a field that a match has; of the address those    *)
(* that its mask has, which are kept as bits of a vector here.             *)
FieldBit(value, number, k) == IF value = AnyValue THEN X ELSE NumberBit(number, k)

(* Parser::get_match, without the port                                     *)
GetMatch(m) ==
  [i \in Bits |->
     CASE i \in TypeBits  -> FieldBit(m.type, TypeNumber(m.type), i - 1)
       [] i \in ProtoBits -> FieldBit(m.proto, ProtoNumber(m.proto), i - 3)
       [] OTHER           -> m.address[i]]

(* getField for a field without a mask: no field if all bits are x, and a  *)
(* single x is read as 0.                                                  *)
NumberIn(a, bits) ==
  FoldLeft(LAMBDA n, i : 2 * n + (IF a[i] = One THEN 1 ELSE 0), 0,
           SetToSortSeq(bits, LAMBDA i, j : i > j))
Present(a, bits) == \E i \in bits : a[i] # X

AnyAddress == [i \in AddressBits |-> X]

(* The fields that the bits of a vector stand for.                         *)
FieldsOf(port, a) ==
  [port    |-> port,
   type    |-> IF Present(a, TypeBits) THEN TypeOfNumber(NumberIn(a, TypeBits))
               ELSE AnyValue,
   proto   |-> IF Present(a, ProtoBits) THEN ProtoOfNumber(NumberIn(a, ProtoBits))
               ELSE AnyValue,
   address |-> [i \in AddressBits |-> a[i]]]

(* Parser::get_of_match: the fields of IP come back for the type of IP.    *)
GetOFMatch(port, a) ==
  LET m == FieldsOf(port, a)
  IN  IF m.type = "ipv4" THEN m
      ELSE [m EXCEPT !.proto = AnyValue, !.address = AnyAddress]

(* What a switch does with a match: a packet with a header at a port.      *)
Matches(m, port, packet) ==
  /\ m.port \in {AnyPort, port}
  /\ m.type \in {AnyValue, packet.type}
  /\ packet.type = "ipv4" =>
       /\ m.proto \in {AnyValue, packet.proto}
       /\ \A i \in AddressBits : packet.address[i] \in m.address[i]
====
