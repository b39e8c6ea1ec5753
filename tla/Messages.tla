------------------------------ MODULE Messages ------------------------------
(***************************************************************************)
(* Well-formed frames, put together as src/generate_test_pcap.py does it   *)
(* (RFC 791, 793, 768, 8446, 1035), with the parts it leaves constant as   *)
(* parameters: options in the headers, a session, further extensions.      *)
(***************************************************************************)
EXTENDS Naturals, Sequences

LOCAL INSTANCE SequencesExt

U16(n) == <<n \div 256, n % 256>>

Zeros(n) == [i \in 1..n |-> 0]

WithLength8(s)  == <<Len(s)>> \o s
WithLength16(s) == U16(Len(s)) \o s

Ethernet(type, payload) == Zeros(12) \o U16(type) \o payload

(* words: the length of the header in 32-bit words. *)
IPPacket(words, protocol, src, payload) ==
    <<64 + words>> \o Zeros(8) \o <<protocol, 0, 0>> \o src \o Zeros(4 + 4 * (words - 5)) \o payload

TCPSegment(words, sport, dport, flags, payload) ==
    U16(sport) \o U16(dport) \o Zeros(8) \o <<16 * words, flags>> \o Zeros(6 + 4 * (words - 5))
    \o payload

UDPDatagram(sport, dport, payload) ==
    U16(sport) \o U16(dport) \o U16(8 + Len(payload)) \o Zeros(2) \o payload

Extension(type, body) == U16(type) \o WithLength16(body)

ServerNameExtension(host) == Extension(0, WithLength16(<<0>> \o WithLength16(host)))

SupportedVersions == Extension(43, <<2, 3, 4>>)

ClientHello(session, extensions) ==
    LET body      == <<3, 3>> \o Zeros(32) \o WithLength8(session) \o WithLength16(<<19, 1>>)
                     \o WithLength8(<<0>>) \o WithLength16(FlattenSeq(extensions))
        handshake == <<1, 0>> \o WithLength16(body)
    IN <<22, 3, 1>> \o WithLength16(handshake)

CRLF == <<13, 10>>

(* GET / and the Host header, with blanks in front of the value. *)
HTTPRequest(headers, blanks, host) ==
    <<71, 69, 84, 32, 47>> \o CRLF \o FlattenSeq(headers)
    \o <<72, 111, 115, 116, 58>> \o blanks \o host \o CRLF \o CRLF

DNSQuery(labels) ==
    Zeros(2) \o <<1, 0>> \o U16(1) \o Zeros(6)
    \o FlattenSeq([i \in DOMAIN labels |-> WithLength8(labels[i])]) \o <<0>> \o U16(1) \o U16(1)
=============================================================================
