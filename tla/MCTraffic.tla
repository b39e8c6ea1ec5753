----------------------------- MODULE MCTraffic -----------------------------
(* Packets and rules for the TLC instances of FastPath and FlowHistory. *)
EXTENDS Classifier

FiveTuple(si, di, sp, dp, pr) ==
    [src_ip |-> si, dst_ip |-> di, src_port |-> sp, dst_port |-> dp, protocol |-> pr]

(* Two HTTPS clients, an HTTP client and a DNS query. *)
https1 == FiveTuple(1, 9, 1000, 443, 6)
https2 == FiveTuple(2, 9, 1000, 443, 6)
http   == FiveTuple(1, 9, 1001, 80, 6)
dns    == FiveTuple(1, 9, 1002, 53, 17)
reply1 == FiveTuple(9, 1, 443, 1000, 6)

Packet(t, fl, pay) == [tuple |-> t, flags |-> fl, payload |-> pay]

(* A name with the keys of YouTube and of its owner, one with the keys of  *)
(* Netflix and, by chance, of Twitter, and one without any.                *)
tube  == "YouTube.GoogleAPIs.com"
flix  == "www.netflix.com"
plain == "example.org"

(* What a TCP flow may carry: the handshake seen on one tuple, names,      *)
(* payloads without a name, the two ways to close.                         *)
TCPPackets(t) == {Packet(t, {"SYN"}, "none"), Packet(t, {"SYN", "ACK"}, "none"),
                  Packet(t, {"ACK"}, "none"), Packet(t, {"ACK"}, "opaque"),
                  Packet(t, {"ACK"}, tube), Packet(t, {"ACK"}, plain),
                  Packet(t, {"FIN", "ACK"}, "none"), Packet(t, {"RST"}, "none")}

MCHosts   == {tube, flix, plain, ""}
MCLower   == [h \in MCHosts |-> IF h = tube THEN "youtube.googleapis.com" ELSE h]
AppOfHost == [h \in MCHosts |-> SniToAppType(h)]
MCAppOf   == AppOfHost     \* through a second name TLC evaluates it once

Rules(i, p, a, d) == [ips |-> i, ports |-> p, apps |-> a, domains |-> d]

NameTuples  == {https1}
NamePackets == {Packet(https1, {"ACK"}, tube), Packet(https1, {"ACK"}, "none"),
                Packet(https1, {"FIN", "ACK"}, "none")}
NameRules   == {Rules({}, {}, {"YOUTUBE"}, {})}
OpenRules   == {Rules({}, {}, {}, {})}

FlixPackets == TCPPackets(https1) \cup {Packet(https1, {"ACK"}, flix)}

ShakeTuples  == {https1, reply1}
ShakePackets == {Packet(https1, {"SYN"}, "none"), Packet(reply1, {"SYN", "ACK"}, "none"),
                 Packet(https1, {"ACK"}, "none")}
=============================================================================
