---------------------------- MODULE PacketParser ----------------------------
(***************************************************************************)
(* PacketParser::parse() of src/packet_parser.cpp, one action per header.  *)
(* Addresses are kept as the four octets the strings are made from; MAC    *)
(* addresses, TTL and sequence numbers decide nothing and are left out.    *)
(***************************************************************************)
EXTENDS FrameBuffer

VARIABLE parsed     \* ParsedPacket

ETH_LEN     == 14
MIN_IP_LEN  == 20
MIN_TCP_LEN == 20
UDP_LEN     == 8
IPv4 == 2048     \* EtherType::IPv4, 0x0800
TCP  == 6
UDP  == 17

NoPacket == [has_ip |-> FALSE, has_tcp |-> FALSE, has_udp |-> FALSE, protocol |-> 0,
             src_ip |-> <<>>, dest_ip |-> <<>>, src_port |-> 0, dest_port |-> 0, tcp_flags |-> 0]

swapBytes16(v) == (v % 256) * 256 + v \div 256

(* Two octets as a little-endian host loads them, then ntohs(). *)
netToHost16(i) == swapBytes16(Byte(i) + 256 * Byte(i + 1))

(* parse() returns false, and the engines skip the packet. *)
Reject == pc' = "skip" /\ UNCHANGED <<offset, parsed>>

ParseEthernet ==
    /\ pc = "ethernet"
    /\ \/ Len(frame) < ETH_LEN /\ Reject /\ UNCHANGED touched
       \/ /\ Len(frame) >= ETH_LEN
          /\ Reads(ETH_LEN)
          /\ offset' = ETH_LEN
          /\ pc' = IF netToHost16(12) = IPv4 THEN "ipv4" ELSE "parsed"
          /\ UNCHANGED parsed
    /\ UNCHANGED frame

(* The header says how long it is; all of it must be there. *)
IPHeaderFits(at, n) == n >= MIN_IP_LEN /\ Len(frame) >= at + n

AfterIP(protocol) == CASE protocol = TCP -> "tcp" [] protocol = UDP -> "udp" [] OTHER -> "parsed"

ParseIPv4 ==
    LET version    == Byte(offset) \div 16
        ip_hdr_len == (Byte(offset) % 16) * 4
        protocol   == Byte(offset + 9)
    IN /\ pc = "ipv4"
       /\ \/ Len(frame) < offset + MIN_IP_LEN /\ Reject /\ UNCHANGED touched
          \/ /\ Len(frame) >= offset + MIN_IP_LEN
             /\ version # 4 \/ ~IPHeaderFits(offset, ip_hdr_len)
             /\ Reads(offset + 1) /\ Reject
          \/ /\ Len(frame) >= offset + MIN_IP_LEN
             /\ version = 4 /\ IPHeaderFits(offset, ip_hdr_len)
             /\ Reads(offset + 20)
             /\ parsed' = [parsed EXCEPT !.has_ip = TRUE, !.protocol = protocol,
                              !.src_ip = Bytes(offset + 12, 4), !.dest_ip = Bytes(offset + 16, 4)]
             /\ offset' = offset + ip_hdr_len
             /\ pc' = AfterIP(protocol)
       /\ UNCHANGED frame

ParseTCP ==
    LET tcp_hdr_len == (Byte(offset + 12) \div 16) * 4
        fits        == tcp_hdr_len >= MIN_TCP_LEN /\ Len(frame) >= offset + tcp_hdr_len
    IN /\ pc = "tcp"
       /\ \/ Len(frame) < offset + MIN_TCP_LEN /\ Reject /\ UNCHANGED touched
          \/ /\ Len(frame) >= offset + MIN_TCP_LEN
             /\ Reads(offset + 14)
             /\ parsed' = [parsed EXCEPT !.src_port = netToHost16(offset),
                              !.dest_port = netToHost16(offset + 2),
                              !.tcp_flags = Byte(offset + 13), !.has_tcp = fits]
             /\ offset' = IF fits THEN offset + tcp_hdr_len ELSE offset
             /\ pc' = IF fits THEN "parsed" ELSE "skip"
       /\ UNCHANGED frame

ParseUDP ==
    /\ pc = "udp"
    /\ \/ Len(frame) < offset + UDP_LEN /\ Reject /\ UNCHANGED touched
       \/ /\ Len(frame) >= offset + UDP_LEN
          /\ Reads(offset + 4)
          /\ parsed' = [parsed EXCEPT !.src_port = netToHost16(offset),
                           !.dest_port = netToHost16(offset + 2), !.has_udp = TRUE]
          /\ offset' = offset + UDP_LEN
          /\ pc' = "parsed"
    /\ UNCHANGED frame

Parse == ParseEthernet \/ ParseIPv4 \/ ParseTCP \/ ParseUDP
=============================================================================
