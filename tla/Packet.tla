------------------------------- MODULE Packet ------------------------------
(* What a Packet or Packet6 takes from a datagram that netfilter delivers,    *)
(* and the datagram that the outputs have libnet build from it again.         *)
(*                                                                            *)
(* A datagram is a record of the fields that the code reads or writes; "data" *)
(* is the rest of what follows the IP header, "options" what makes an IPv4    *)
(* header longer than 20 bytes.  The transport header has two ports (UDP, TCP)*)
(* or an id (ICMP).  Numbers in a datagram are as ntohs() gives them; hosts   *)
(* are little-endian.  Datagrams are whole: of a later fragment the code      *)
(* would take the first bytes for a transport header, and of the first one of *)
(* UDP the length of the whole datagram for its own.                          *)
EXTENDS Integers

HasPorts(proto) == proto \in {"udp", "tcp"}

\* A number of 16 bits that is read without ntohs().
Unconverted(n) == (n % 256) * 256 + n \div 256

\* decodeTransportProtocol(): an ICMP id stands for both ports.  Of another
\* protocol the ports are never set; only a NAT looks at them.
Ports(datagram) ==
  CASE HasPorts(datagram.proto) -> [s |-> datagram.sport, d |-> datagram.dport]
    [] datagram.proto \in {"icmp", "icmp6"} ->
         [s |-> Unconverted(datagram.icmpId), d |-> Unconverted(datagram.icmpId)]
    [] OTHER -> [s |-> 0, d |-> 0]

\* The constructor of Packet, for IPv4 ...
ReadIpv4(datagram) ==
  [packetData_ |-> datagram,
   srcIp_ |-> datagram.src, dstIp_ |-> datagram.dst,
   sport_ |-> Ports(datagram).s, dport_ |-> Ports(datagram).d,
   ipFrag_ |-> datagram.fragOff]

\* ... and of Packet6, which keeps version, class and flow label (the first four
\* bytes, lowest address first) as they are in memory.
ReadIpv6(datagram) ==
  [packetData_ |-> datagram,
   srcIp_ |-> datagram.src, dstIp_ |-> datagram.dst,
   sport_ |-> Ports(datagram).s, dport_ |-> Ports(datagram).d,
   flow_ |-> datagram.flow]

getFragmentFlags(pkt) == (pkt.ipFrag_ \div 8192) * 8192
getFragmentID(pkt) == pkt.ipFrag_ % 8192

\* The 20 lowest bits of a little-endian word, and those above them, of which
\* libnet takes the eight lowest: none.
getFlowLabel(pkt) == pkt.flow_[1] + 256 * pkt.flow_[2] + 65536 * (pkt.flow_[3] % 16)
getTclass(pkt) == 0

\* Mutant of popHandler(): an ICMP id is made of the packet's port, too.
BuildIpv4Id(pkt) ==
  LET ip == pkt.packetData_ IN
  [ip EXCEPT !.id = getFragmentID(pkt), !.fragOff = getFragmentFlags(pkt), !.options = "none",
             !.src = pkt.srcIp_, !.dst = pkt.dstIp_,
             !.sport = IF HasPorts(ip.proto) THEN pkt.sport_ ELSE @,
             !.dport = IF HasPorts(ip.proto) THEN pkt.dport_ ELSE @,
             !.icmpId = IF HasPorts(ip.proto) THEN @ ELSE pkt.sport_]

\* OutputLibnet::popHandler(): UDP and TCP headers are made anew from the packet's
\* ports, what else there is is copied; the IP header is made of 20 bytes.
BuildIpv4(pkt) ==
  LET ip == pkt.packetData_ IN
  [ip EXCEPT !.id = getFragmentID(pkt), !.fragOff = getFragmentFlags(pkt), !.options = "none",
             !.src = pkt.srcIp_, !.dst = pkt.dstIp_,
             !.sport = IF HasPorts(ip.proto) THEN pkt.sport_ ELSE @,
             !.dport = IF HasPorts(ip.proto) THEN pkt.dport_ ELSE @]

\* libnet_build_ipv6()'s first four bytes.
FlowBytes(tclass, label) ==
  <<96 + tclass \div 16, (tclass % 16) * 16 + label \div 65536, (label \div 256) % 256, label % 256>>

\* Output6Libnet::popHandler() copies all that follows the IP header.
BuildIpv6(pkt) ==
  [pkt.packetData_ EXCEPT !.flow = FlowBytes(getTclass(pkt), getFlowLabel(pkt)),
                          !.src = pkt.srcIp_, !.dst = pkt.dstIp_]
=============================================================================
