--------------------------- MODULE MCCaptureCopy ---------------------------
(***************************************************************************)
(* TLC instance of CaptureCopy: captures of one record with requests of    *)
(* each kind, whole, cut at every byte or with one byte changed; captures  *)
(* of several records in either byte order, and such files damaged.        *)
(***************************************************************************)
EXTENDS CaptureCopy, Messages

LOCAL INSTANCE SequencesExt

client == <<192, 168, 1, 50>>

OverTCP(ip, tcp, port, payload) ==
    Ethernet(2048, IPPacket(ip, 6, client, TCPSegment(tcp, 1000, port, 24, payload)))
OverUDP(sport, dport, payload) ==
    Ethernet(2048, IPPacket(5, 17, client, UDPDatagram(sport, dport, payload)))

tt == <<116, 46, 116>>     \* t.t

(* Where item k begins when the first begins at. *)
Behind(items, at) ==
    [k \in 1..(Len(items) + 1) |-> at + Len(FlattenSeq(SubSeq(items, 1, k - 1)))]

(* sni: which of the extensions has the server name t.t. *)
Hello(ip, tcp, session, extensions, sni) ==
    LET after == 52 + Len(session)
    IN [kind |-> "tls", name |-> tt,
        frame |-> OverTCP(ip, tcp, 443, ClientHello(session, extensions)),
        transport |-> 14 + 4 * ip, payload |-> 14 + 4 * (ip + tcp),
        ciphers |-> after - 8, compression |-> after - 4, extensions |-> after - 2,
        entries |-> SubSeq(Behind(extensions, after), 1, sni)]

(* The name first or last, a session or none, options in IP and TCP. *)
Hellos ==
    {Hello(5, 5, <<>>, <<ServerNameExtension(tt), SupportedVersions>>, 1),
     Hello(6, 5, <<7>>, <<SupportedVersions, ServerNameExtension(tt)>>, 2),
     Hello(5, 6, <<>>, <<ServerNameExtension(tt)>>, 1)}

Request(ip, tcp, headers, blanks, port) ==
    LET host  == 7 + Len(FlattenSeq(headers))
        value == host + 5 + Len(blanks)
    IN [kind |-> "http", name |-> tt,
        frame |-> OverTCP(ip, tcp, 80, HTTPRequest(headers, blanks, tt \o port)),
        transport |-> 14 + 4 * ip, payload |-> 14 + 4 * (ip + tcp),
        host |-> host, value |-> value, colon |-> value + 3, end |-> value + 3 + Len(port)]

(* The header Accept: h in front; a port and a blank beside the name. *)
HTTPRequests ==
    {Request(5, 5, <<>>, <<32>>, <<>>),
     Request(5, 6, <<<<65, 58, 104>> \o CRLF>>, <<32, 9>>, <<58, 56>>)}

Question(sport, dport, labels, host) ==
    [kind |-> "dns", name |-> host, frame |-> OverUDP(sport, dport, DNSQuery(labels)),
     transport |-> 34, payload |-> 42,
     labels |-> Behind([k \in DOMAIN labels |-> WithLength8(labels[k])], 12)]

Queries == {Question(1000, 53, <<<<116>>, <<116>>>>, tt),
            Question(53, 1000, <<<<116, 118>>>>, <<116, 118>>)}

AllRequests == Hellos \cup HTTPRequests \cup Queries
MCRequests  == AllRequests

RequestFrames == {r.frame : r \in AllRequests}

Cut(f) == {SubSeq(f, 1, n) : n \in 0..(Len(f) - 1)}

(* The bytes that steer the parser: the type, version and lengths of the   *)
(* headers and the whole of the payload.                                   *)
Steering(f) == {13, 14, 15, 24, 47} \cup {i \in 36..Len(f) : i > 50 \/ f[i] # 0}

Changed(f) == {[f EXCEPT ![i] = b] : i \in Steering(f) \cap DOMAIN f, b \in {0, 1, 64, 255}}

NoIP == Ethernet(2054, Zeros(28))
ICMP == Ethernet(2048, IPPacket(5, 1, client, Zeros(8)))
NoName == OverTCP(5, 5, 443, ClientHello(<<>>, <<SupportedVersions>>))

(* A question for t.tv, cut anywhere behind the Ethernet header. *)
TwoLabels      == OverUDP(1000, 53, DNSQuery(<<<<116>>, <<116, 118>>>>))
CutQueryFrames == {SubSeq(TwoLabels, 1, n) : n \in 14..(Len(TwoLabels) - 1)}

(* An empty segment, a short one, Client Hellos in UDP datagrams. *)
Others == {NoIP, ICMP, OverTCP(5, 5, 443, <<>>), OverTCP(5, 5, 443, <<22, 3, 1>>),
           OverUDP(1000, 443, ClientHello(<<>>, <<ServerNameExtension(tt)>>)),
           OverUDP(53, 443, ClientHello(<<>>, <<SupportedVersions>>))}

CutFrames == CutQueryFrames \cup UNION {Cut(f) : f \in RequestFrames}

AllFrames == RequestFrames \cup CutFrames \cup Others
             \cup UNION {Changed(f) : f \in RequestFrames \cup {NoName}}
MCFrames == AllFrames

-----------------------------------------------------------------------------
(* Version 2.4, Ethernet, as the host of the engine has it in memory. *)
Header == [magic_number |-> PCAP_MAGIC_NATIVE, version_major |-> <<2, 0>>,
           version_minor |-> <<4, 0>>, thiszone |-> <<16, 14, 0, 0>>, sigfigs |-> <<0, 0, 0, 0>>,
           snaplen |-> <<0, 1, 0, 0>>, network |-> <<1, 0, 0, 0>>]

Rec(data, n) == [ts_sec |-> <<n, 2, 3, 4>>, ts_usec |-> <<5, n, 0, 0>>, data |-> data,
                 orig_len |-> LengthOf(data)]

(* The frame was longer on the wire. *)
Snapped(data, n) == [Rec(data, n) EXCEPT !.orig_len = <<220, 5, 0, 0>>]

(* Where record i starts. *)
Start(records, i) == 24 + FoldFunction(+, 0, [k \in 1..(i - 1) |-> 16 + Len(records[k].data)])

Capture(order, records, whole, octets) ==
    [order |-> order, header |-> Header, records |-> records, whole |-> whole, file |-> octets,
     starts |-> [i \in 1..(whole + 1) |-> Start(records, i)]]

FileOf(order, h, records) ==
    HeaderOctets(order, h)
    \o FlattenSeq([i \in DOMAIN records |-> RecordOctets(order, records[i])])

Whole(order, records) ==
    Capture(order, records, Len(records), FileOf(order, Header, records))

Orders == {"native", "swapped"}

(* One record; a frame that was cut was cut by the capture. *)
OneFrame == {Whole("native", <<IF f \in CutFrames THEN Snapped(f, 1) ELSE Rec(f, 1)>>) :
                 f \in AllFrames}

Plain == OverTCP(5, 5, 443, <<>>)
Query == OverUDP(1000, 53, DNSQuery(<<<<116>>, <<116>>>>))
Three == <<Rec(Plain, 1), Rec(NoIP, 2), Snapped(Query, 3)>>
Two   == <<Rec(Query, 1), Snapped(Plain, 2)>>

(* The records of Two that are whole in the first n bytes of its file. *)
WholeIn(n) == CASE n >= Start(Two, 3) -> 2
                [] n >= Start(Two, 2) -> 1
                [] OTHER -> 0

CutFiles == {Capture(o, Two, WholeIn(n), SubSeq(FileOf(o, Header, Two), 1, n)) :
                o \in Orders, n \in 0..Start(Two, 3)}

(* The length of the second record has its third octet set; no magic. *)
LengthAt(o) == Start(Two, 2) + 8 + (IF o = "native" THEN 3 ELSE 2)
Damaged == {Capture(o, Two, 1, [FileOf(o, Header, Two) EXCEPT ![LengthAt(o)] = 1]) : o \in Orders}
           \cup {Capture(o, Two, 0, [FileOf(o, Header, Two) EXCEPT ![1] = 0]) : o \in Orders}

AllCaptures == OneFrame \cup {Whole(o, Three) : o \in Orders} \cup CutFiles \cup Damaged
MCCaptures  == AllCaptures

SwappedCaptures == {Whole("swapped", Two)}
NoRequests == {}
=============================================================================
