-------------------------- MODULE InspectionProofs --------------------------
(***************************************************************************)
(* Proofs about Inspection for every set of frames and every set of        *)
(* well-formed requests: no read leaves the frame, the parser and the two  *)
(* engines agree on where the payload of a frame begins, a name is found   *)
(* whole or not at all, that of a well-formed request is found, and every  *)
(* inspection comes to its end.                                            *)
(***************************************************************************)
EXTENDS Inspection, SequenceTheorems, TLAPS

Octet      == 0..255
Extractors == {"tls", "http", "dns"}

(* The steps that look at the payload. *)
OnPayload == Extractors \cup {"try", "session", "ciphers", "compression", "extensions",
                              "extension", "server_name", "scan", "blanks", "value", "label"}

Steps == {"idle", "ethernet", "ipv4", "tcp", "udp", "parsed", "skip", "done"} \cup OnPayload

ParsedPackets == [has_ip : BOOLEAN, has_tcp : BOOLEAN, has_udp : BOOLEAN, protocol : Octet,
                  src_ip : [1..4 -> Octet] \cup {<<>>}, dest_ip : [1..4 -> Octet] \cup {<<>>},
                  src_port : Nat, dest_port : Nat, tcp_flags : Nat]

Types == /\ frame \in Seq(Octet) /\ pc \in Steps
         /\ offset \in Nat /\ touched \in Nat
         /\ base \in Nat /\ length \in Nat
         /\ ext_end \in Nat /\ ext_len \in Nat
         /\ parsed \in ParsedPackets
         /\ engine \in {"mt", "simple"}
         /\ todo \in Seq(Extractors)

(* What the parser has behind it at each of its steps. *)
Headers ==
    /\ pc = "idle" => touched = 0
    /\ pc = "ethernet" => ~parsed.has_ip /\ ~parsed.has_tcp /\ ~parsed.has_udp
    /\ pc = "ipv4" => /\ ~parsed.has_ip /\ ~parsed.has_tcp /\ ~parsed.has_udp
                      /\ offset = 14 /\ offset <= Len(frame)
    /\ pc \in {"tcp", "udp"} => /\ ~parsed.has_tcp /\ ~parsed.has_udp
                                /\ offset = Transport /\ 34 <= offset /\ offset <= Len(frame)
    /\ pc = "parsed" =>
          /\ offset <= Len(frame)
          /\ parsed.has_tcp => /\ ~parsed.has_udp
                               /\ offset = SegmentStart /\ Transport + 20 <= offset
          /\ parsed.has_udp => offset = Transport + 8
          /\ parsed.has_tcp \/ parsed.has_udp => 34 <= Transport

(* The payload ends with the frame, and the extensions within it. *)
Payload ==
    /\ pc \in OnPayload => base + length = Len(frame)
    /\ pc = "extension" => ext_end <= length
    /\ pc = "server_name" => offset + ext_len <= length

IInv == Types /\ Headers /\ Payload /\ InBounds

-----------------------------------------------------------------------------
(* Whatever is read is an octet. *)
LEMMA ByteType == ASSUME frame \in Seq(Octet), NEW i \in Int PROVE Byte(i) \in Octet
<1>1. CASE i \in 0..(Len(frame) - 1)
  <2>1. i + 1 \in 1..Len(frame)
    BY <1>1, LenProperties
  <2>2. frame[i + 1] \in Octet
    BY <2>1, ElementOfSeq
  <2> QED
    BY <1>1, <2>2 DEF Byte
<1>2. CASE i \notin 0..(Len(frame) - 1)
  BY <1>2 DEF Byte, Octet
<1> QED
  BY <1>1, <1>2

(* A length that fills half an octet counts words: at most 60 bytes. *)
LEMMA WordsType == ASSUME NEW b \in Octet
                   PROVE (b % 16) * 4 \in 0..60 /\ (b \div 16) * 4 \in 0..60
BY SMT DEF Octet

LEMMA ShortType == ASSUME frame \in Seq(Octet), NEW i \in Int PROVE readUint16BE(i) \in Nat
<1>1. Byte(i) \in Octet
  BY ByteType
<1>2. i + 1 \in Int
  OBVIOUS
<1>3. Byte(i + 1) \in Octet
  BY <1>2, ByteType
<1>4. \A x, y \in Octet : x * 256 + y \in Nat
  BY SMT DEF Octet
<1> QED
  BY <1>1, <1>3, <1>4, Zenon DEF readUint16BE

LEMMA NetShortType == ASSUME frame \in Seq(Octet), NEW i \in Int PROVE netToHost16(i) \in Nat
<1>1. Byte(i) \in Octet
  BY ByteType
<1>2. i + 1 \in Int
  OBVIOUS
<1>3. Byte(i + 1) \in Octet
  BY <1>2, ByteType
<1>4. \A x, y \in Octet : swapBytes16(x + 256 * y) \in Nat
  BY SMT DEF Octet, swapBytes16
<1> QED
  BY <1>1, <1>3, <1>4, Zenon DEF netToHost16

LEMMA TransportType == ASSUME frame \in Seq(Octet) PROVE Transport \in 14..74
<1>1. Byte(14) \in Octet
  BY ByteType
<1>2. \A b \in Octet : 14 + (b % 16) * 4 \in 14..74
  BY SMT DEF Octet
<1> QED
  BY <1>1, <1>2, Zenon DEF Transport

(* The parser and both engines walk over the same headers. *)
LEMMA SamePayload ==
    ASSUME Types, Headers, pc = "parsed", HasPorts
    PROVE /\ offset = JobPayloadOffset
          /\ offset = calculatePayloadOffset
          /\ offset <= Len(frame)
<1>1. frame \in Seq(Octet) /\ Len(frame) \in Nat
  BY LenProperties DEF Types
<1>2. Transport \in 14..74
  BY <1>1, TransportType
<1>3. SegmentStart = Transport + (Byte(Transport + 12) \div 16) * 4
  BY DEF SegmentStart
<1>4. offset \in Nat /\ offset <= Len(frame)
  BY DEF Types, Headers
<1>5. CASE parsed.has_tcp
  <2>1. ~parsed.has_udp /\ offset = SegmentStart /\ Transport + 20 <= offset
    BY <1>5 DEF Headers
  <2>2. Len(frame) > Transport + 12 /\ Len(frame) > 14
    BY <1>1, <1>2, <1>4, <2>1, SMT
  <2>3. ~(Len(frame) <= Transport + 12) /\ ~(Len(frame) <= 14)
    BY <1>1, <1>2, <2>2, SMT
  <2> QED
    BY <1>3, <1>4, <1>5, <2>1, <2>2, <2>3 DEF JobPayloadOffset, calculatePayloadOffset
<1>6. CASE ~parsed.has_tcp /\ parsed.has_udp
  <2>1. offset = Transport + 8 /\ 34 <= Transport
    BY <1>6 DEF Headers
  <2>2. ~(Len(frame) <= 14)
    BY <1>1, <1>2, <1>4, <2>1, SMT
  <2> QED
    BY <1>4, <1>6, <2>1, <2>2 DEF JobPayloadOffset, calculatePayloadOffset
<1> QED
  BY <1>5, <1>6 DEF HasPorts

-----------------------------------------------------------------------------
(* A read that ends within the frame keeps InBounds. *)
LEMMA ReadsInside ==
    ASSUME Types, InBounds, NEW end \in Int, end <= Len(frame), Reads(end)
    PROVE touched' \in Nat /\ touched' <= Len(frame)
<1>1. touched \in Nat /\ touched <= Len(frame)
  BY DEF Types, InBounds
<1>2. CASE end > touched
  <2>1. touched' = end
    BY <1>2 DEF Reads
  <2> QED
    BY <1>1, <1>2, <2>1, SMT
<1>3. CASE ~(end > touched)
  BY <1>1, <1>3 DEF Reads
<1> QED
  BY <1>2, <1>3

(* On the same frame the headers end where they ended. *)
LEMMA SameHeaders == ASSUME frame' = frame
                     PROVE Transport' = Transport /\ SegmentStart' = SegmentStart
BY DEF Transport, SegmentStart, Byte

(* Every frame starts inside its bounds. *)
LEMMA InitHolds == Init => IInv
<1> SUFFICES ASSUME Init PROVE IInv
  OBVIOUS
<1>1. frame = <<>> /\ Len(frame) = 0 /\ frame \in Seq(Octet)
  BY EmptySeq DEF Init, NoFrame
<1>2. todo \in Seq(Extractors)
  BY EmptySeq DEF Init
<1>3. parsed \in ParsedPackets
  BY SMT DEF Init, NoPacket, ParsedPackets, Octet
<1>4. Types
  BY <1>1, <1>2, <1>3 DEF Init, Types, Steps
<1>5. Headers
  BY DEF Init, Headers
<1>6. Payload
  BY DEF Init, Payload, OnPayload, Extractors
<1> QED
  BY <1>1, <1>4, <1>5, <1>6 DEF IInv, InBounds, Init

(* A new frame: nothing of it has been read. *)
LEMMA BeginHolds == ASSUME IInv, NextFrame PROVE IInv'
<1>1. PICK f \in Frames : Begin(f)
  BY DEF NextFrame
<1>2. frame' \in Seq(Octet) /\ Len(frame') \in Nat
  BY <1>1, FramesAssumption, LenProperties DEF Begin, Octet
<1>3. touched' = 0
  BY <1>1 DEF Begin, IInv, Headers
<1>4. parsed' \in ParsedPackets /\ ~parsed'.has_ip /\ ~parsed'.has_tcp /\ ~parsed'.has_udp
  BY <1>1, SMT DEF Begin, Fresh, NoPacket, ParsedPackets, Octet
<1>5. Types'
  BY <1>1, <1>2, <1>3, <1>4 DEF IInv, Types, Begin, Steps, locals
<1>6. Headers'
  BY <1>1, <1>4 DEF Headers, Begin
<1>7. Payload'
  BY <1>1 DEF Payload, Begin, OnPayload, Extractors
<1>8. InBounds'
  BY <1>2, <1>3, SMT DEF InBounds
<1> QED
  BY <1>5, <1>6, <1>7, <1>8 DEF IInv

LEMMA FinishHolds == ASSUME IInv, Finish PROVE IInv'
<1>1. frame' = <<>> /\ Len(frame') = 0 /\ frame' \in Seq(Octet)
  BY EmptySeq DEF Finish, NoFrame
<1>2. todo' \in Seq(Extractors)
  BY EmptySeq DEF Finish
<1>3. Types'
  BY <1>1, <1>2 DEF Finish, IInv, Types, Steps
<1>4. Headers'
  BY DEF Finish, Headers
<1>5. Payload'
  BY DEF Finish, Payload, OnPayload, Extractors
<1> QED
  BY <1>1, <1>3, <1>4, <1>5 DEF IInv, InBounds, Finish

-----------------------------------------------------------------------------
(* PacketParser *)

(* What the header steps have in common: the frame stays, the payload is   *)
(* not known yet.                                                          *)
LEMMA HeaderStep ==
    ASSUME IInv, ParseStep, frame' = frame,
           pc' \in {"ipv4", "tcp", "udp", "parsed", "skip"},
           offset' \in Nat, parsed' \in ParsedPackets,
           touched' \in Nat, touched' <= Len(frame), Headers'
    PROVE IInv'
<1>1. Types'
  BY DEF IInv, Types, ParseStep, Steps, locals
<1>2. Payload'
  BY DEF Payload, OnPayload, Extractors
<1> QED
  BY <1>1, <1>2 DEF IInv, InBounds

LEMMA EthernetHolds == ASSUME IInv, ParseStep, ParseEthernet PROVE IInv'
<1>1. /\ frame' = frame /\ pc = "ethernet" /\ parsed' = parsed
      /\ ~parsed.has_ip /\ ~parsed.has_tcp /\ ~parsed.has_udp
  BY DEF ParseEthernet, Reject, IInv, Headers
<1>2. parsed' \in ParsedPackets /\ Len(frame) \in Nat
  BY <1>1, LenProperties DEF IInv, Types
<1>3. CASE Len(frame) < ETH_LEN
  <2>1. pc' = "skip" /\ offset' = offset /\ touched' = touched
    BY <1>2, <1>3, SMT DEF ParseEthernet, Reject, ETH_LEN
  <2>2. Headers'
    BY <2>1 DEF Headers
  <2> QED
    BY <1>1, <1>2, <2>1, <2>2, HeaderStep DEF IInv, Types, InBounds
<1>4. CASE Len(frame) >= ETH_LEN
  <2>1. pc' \in {"ipv4", "parsed"} /\ offset' = 14 /\ Reads(14) /\ 14 <= Len(frame)
    BY <1>2, <1>4, SMT DEF ParseEthernet, ETH_LEN
  <2>2. touched' \in Nat /\ touched' <= Len(frame)
    BY <2>1, ReadsInside DEF IInv
  <2>3. Headers'
    BY <1>1, <2>1 DEF Headers
  <2> QED
    BY <1>1, <1>2, <2>1, <2>2, <2>3, HeaderStep
<1> QED
  BY <1>2, <1>3, <1>4, SMT DEF ETH_LEN

(* Four octets of an address. *)
LEMMA AddressType == ASSUME frame \in Seq(Octet), NEW i \in Int
                     PROVE Bytes(i, 4) \in [1..4 -> Octet]
<1>1. \A k \in 1..4 : i + k - 1 \in Int
  OBVIOUS
<1>2. \A k \in 1..4 : Byte(i + k - 1) \in Octet
  BY <1>1, ByteType
<1> QED
  BY <1>2 DEF Bytes

LEMMA IPv4Holds == ASSUME IInv, ParseStep, ParseIPv4 PROVE IInv'
<1> DEFINE n == (Byte(offset) % 16) * 4
           protocol == Byte(offset + 9)
<1> HIDE DEF n, protocol
<1>1. /\ frame' = frame /\ pc = "ipv4" /\ frame \in Seq(Octet) /\ parsed \in ParsedPackets
      /\ ~parsed.has_ip /\ ~parsed.has_tcp /\ ~parsed.has_udp /\ offset = 14
  BY DEF ParseIPv4, IInv, Headers, Types
<1>2. Len(frame) \in Nat
  BY <1>1, LenProperties
<1>3. CASE pc' = "skip" /\ offset' = offset /\ parsed' = parsed
           /\ (touched' = touched \/ (Reads(15) /\ 15 <= Len(frame)))
  <2>1. Headers'
    BY <1>3 DEF Headers
  <2>2. touched' \in Nat /\ touched' <= Len(frame)
    BY <1>3, ReadsInside DEF IInv, Types, InBounds
  <2> QED
    BY <1>1, <1>3, <2>1, <2>2, HeaderStep DEF IInv, Types
<1>4. CASE /\ IPHeaderFits(offset, n)
           /\ Reads(34)
           /\ parsed' = [parsed EXCEPT !.has_ip = TRUE, !.protocol = protocol,
                              !.src_ip = Bytes(26, 4), !.dest_ip = Bytes(30, 4)]
           /\ offset' = offset + n
           /\ pc' = AfterIP(protocol)
  <2>1. n >= 20 /\ Len(frame) >= 14 + n
    BY <1>1, <1>4 DEF IPHeaderFits, MIN_IP_LEN
  <2>2. Transport = 14 + n /\ n \in 0..60
    <3>1. Byte(14) \in Octet
      BY <1>1, ByteType
    <3> QED
      BY <1>1, <3>1, WordsType DEF Transport, n
  <2>3. offset' = Transport /\ offset' \in Nat /\ 34 <= offset' /\ offset' <= Len(frame)
    <3>1. offset' = 14 + n
      BY <1>1, <1>4
    <3>2. 14 + n \in Nat /\ 34 <= 14 + n
      BY <2>1, <2>2, SMT
    <3> QED
      BY <2>1, <2>2, <3>1, <3>2, Zenon
  <2>4. touched' \in Nat /\ touched' <= Len(frame)
    <3>1. 34 <= Len(frame)
      BY <1>2, <2>1, <2>2, SMT
    <3> QED
      BY <1>4, <3>1, ReadsInside DEF IInv
  <2>5. /\ parsed' \in ParsedPackets
        /\ ~parsed'.has_tcp /\ ~parsed'.has_udp
    <3>1. protocol \in Octet
      BY <1>1, ByteType DEF protocol
    <3>2. Bytes(26, 4) \in [1..4 -> Octet] /\ Bytes(30, 4) \in [1..4 -> Octet]
      BY <1>1, AddressType
    <3> QED
      BY <1>1, <1>4, <3>1, <3>2 DEF ParsedPackets
  <2>6. pc' \in {"tcp", "udp", "parsed"}
    BY <1>4 DEF AfterIP
  <2>7. Headers'
    BY <1>1, <2>3, <2>5, <2>6, SameHeaders DEF Headers
  <2> QED
    BY <1>1, <2>3, <2>4, <2>5, <2>6, <2>7, HeaderStep
<1> QED
  <2>1. 14 + 20 = 34 /\ 14 + 12 = 26 /\ 14 + 16 = 30 /\ 14 + 1 = 15
    OBVIOUS
  <2>2. Len(frame) >= offset + MIN_IP_LEN => 15 <= Len(frame)
    BY <1>1, <1>2, SMT DEF MIN_IP_LEN
  <2> QED
    BY <1>1, <1>3, <1>4, <2>1, <2>2 DEF ParseIPv4, Reject, n, protocol

(* A header that is not there: the packet is skipped. *)
LEMMA RejectHolds ==
    ASSUME IInv, ParseStep, frame' = frame, Reject, UNCHANGED touched PROVE IInv'
<1>1. Headers'
  BY DEF Reject, Headers
<1> QED
  BY <1>1, HeaderStep DEF Reject, IInv, Types, InBounds

LEMMA TCPHolds == ASSUME IInv, ParseStep, ParseTCP PROVE IInv'
<1> DEFINE n == (Byte(offset + 12) \div 16) * 4
           fits == n >= MIN_TCP_LEN /\ Len(frame) >= offset + n
           end == offset + n
<1> HIDE DEF n, fits, end
<1>1. /\ frame' = frame /\ pc = "tcp" /\ frame \in Seq(Octet) /\ parsed \in ParsedPackets
      /\ ~parsed.has_tcp /\ ~parsed.has_udp
      /\ offset = Transport /\ 34 <= offset /\ offset <= Len(frame) /\ offset \in Nat
  BY DEF ParseTCP, IInv, Headers, Types
<1>2. Len(frame) \in Nat
  BY <1>1, LenProperties
<1>3. CASE Len(frame) < offset + MIN_TCP_LEN
  <2>1. ~(Len(frame) >= offset + MIN_TCP_LEN)
    BY <1>1, <1>2, <1>3, SMT DEF MIN_TCP_LEN
  <2> QED
    BY <1>1, <2>1, RejectHolds DEF ParseTCP
<1>4. CASE Len(frame) >= offset + MIN_TCP_LEN
  <2>1. /\ Reads(offset + 14)
        /\ parsed' = [parsed EXCEPT !.src_port = netToHost16(offset),
                          !.dest_port = netToHost16(offset + 2),
                          !.tcp_flags = Byte(offset + 13), !.has_tcp = fits]
        /\ offset' = IF fits THEN end ELSE offset
        /\ pc' = IF fits THEN "parsed" ELSE "skip"
    <3>1. ~(Len(frame) < offset + MIN_TCP_LEN)
      BY <1>1, <1>2, <1>4, SMT DEF MIN_TCP_LEN
    <3> QED
      BY <3>1 DEF ParseTCP, fits, n, end
  <2>2. touched' \in Nat /\ touched' <= Len(frame)
    <3>1. offset + 14 \in Int /\ offset + 14 <= Len(frame)
      BY <1>1, <1>2, <1>4, SMT DEF MIN_TCP_LEN
    <3> QED
      BY <2>1, <3>1, ReadsInside DEF IInv
  <2>3. n \in 0..60 /\ end = SegmentStart
    <3>1. offset + 12 \in Int
      BY <1>1
    <3>2. Byte(offset + 12) \in Octet
      BY <1>1, <3>1, ByteType
    <3> QED
      BY <1>1, <3>2, WordsType DEF SegmentStart, n, end
  <2>4. /\ parsed' \in ParsedPackets
        /\ parsed'.has_tcp = fits /\ ~parsed'.has_udp
    <3>1. offset + 2 \in Int /\ offset + 13 \in Int /\ offset \in Int
      BY <1>1
    <3>2. netToHost16(offset) \in Nat /\ netToHost16(offset + 2) \in Nat
      BY <1>1, <3>1, NetShortType
    <3>3. Byte(offset + 13) \in Octet /\ Octet \subseteq Nat
      <4>1. Byte(offset + 13) \in Octet
        BY <1>1, <3>1, ByteType
      <4>2. Octet \subseteq Nat
        BY DEF Octet
      <4> QED
        BY <4>1, <4>2
    <3>4. fits \in BOOLEAN
      BY DEF fits
    <3> QED
      BY <1>1, <2>1, <3>2, <3>3, <3>4 DEF ParsedPackets
  <2>5. CASE fits
    <3>1. n >= 20 /\ end <= Len(frame) /\ end \in Nat /\ offset + 20 <= end
      <4>1. n >= 20 /\ Len(frame) >= offset + n
        BY <2>5 DEF fits, MIN_TCP_LEN
      <4> QED
        BY <1>1, <1>2, <2>3, <4>1, SMT DEF end
    <3>2. offset' = SegmentStart /\ pc' = "parsed" /\ offset' \in Nat /\ offset' <= Len(frame)
          /\ Transport + 20 <= offset' /\ 34 <= Transport
      BY <1>1, <2>1, <2>3, <2>5, <3>1
    <3>3. Headers'
      BY <1>1, <2>4, <3>2, SameHeaders DEF Headers
    <3> QED
      BY <1>1, <2>2, <2>4, <3>2, <3>3, HeaderStep
  <2>6. CASE ~fits
    <3>1. pc' = "skip" /\ offset' = offset
      BY <2>1, <2>6
    <3>2. Headers'
      BY <3>1 DEF Headers
    <3> QED
      BY <1>1, <2>2, <2>4, <3>1, <3>2, HeaderStep
  <2> QED
    BY <2>5, <2>6
<1> QED
  BY <1>1, <1>2, <1>3, <1>4, SMT DEF MIN_TCP_LEN

LEMMA UDPHolds == ASSUME IInv, ParseStep, ParseUDP PROVE IInv'
<1>1. /\ frame' = frame /\ pc = "udp" /\ frame \in Seq(Octet) /\ parsed \in ParsedPackets
      /\ ~parsed.has_tcp /\ ~parsed.has_udp
      /\ offset = Transport /\ 34 <= offset /\ offset <= Len(frame) /\ offset \in Nat
  BY DEF ParseUDP, IInv, Headers, Types
<1>2. Len(frame) \in Nat
  BY <1>1, LenProperties
<1>3. CASE Len(frame) < offset + UDP_LEN
  <2>1. ~(Len(frame) >= offset + UDP_LEN)
    BY <1>1, <1>2, <1>3, SMT DEF UDP_LEN
  <2> QED
    BY <1>1, <2>1, RejectHolds DEF ParseUDP
<1>4. CASE Len(frame) >= offset + UDP_LEN
  <2>1. /\ Reads(offset + 4)
        /\ parsed' = [parsed EXCEPT !.src_port = netToHost16(offset),
                          !.dest_port = netToHost16(offset + 2), !.has_udp = TRUE]
        /\ offset' = offset + 8
        /\ pc' = "parsed"
    <3>1. ~(Len(frame) < offset + UDP_LEN)
      BY <1>1, <1>2, <1>4, SMT DEF UDP_LEN
    <3> QED
      BY <3>1 DEF ParseUDP, UDP_LEN
  <2>2. /\ offset + 4 \in Int /\ offset + 4 <= Len(frame)
        /\ offset + 8 \in Nat /\ offset + 8 <= Len(frame)
    BY <1>1, <1>2, <1>4, SMT DEF UDP_LEN
  <2>3. touched' \in Nat /\ touched' <= Len(frame)
    BY <2>1, <2>2, ReadsInside DEF IInv
  <2>4. /\ parsed' \in ParsedPackets
        /\ ~parsed'.has_tcp /\ parsed'.has_udp
    <3>1. offset + 2 \in Int /\ offset \in Int
      BY <1>1
    <3>2. netToHost16(offset) \in Nat /\ netToHost16(offset + 2) \in Nat
      BY <1>1, <3>1, NetShortType
    <3> QED
      BY <1>1, <2>1, <3>2 DEF ParsedPackets
  <2>5. offset' = Transport + 8 /\ offset' \in Nat /\ offset' <= Len(frame) /\ 34 <= Transport
    BY <1>1, <2>1, <2>2
  <2>6. Headers'
    BY <1>1, <2>1, <2>4, <2>5, SameHeaders DEF Headers
  <2> QED
    BY <1>1, <2>1, <2>3, <2>4, <2>5, <2>6, HeaderStep
<1> QED
  BY <1>1, <1>2, <1>3, <1>4, SMT DEF UDP_LEN

-----------------------------------------------------------------------------
(* The choice of extractors *)

LEMMA TriesType == ASSUME NEW n \in Int
                   PROVE FastPathTries(n) \in Seq(Extractors) /\ SimpleTries(n) \in Seq(Extractors)
<1>1. \A e \in Extractors : \A c \in BOOLEAN : If(e, c) \in Seq(Extractors)
  <2> SUFFICES ASSUME NEW e \in Extractors, NEW c \in BOOLEAN PROVE If(e, c) \in Seq(Extractors)
    OBVIOUS
  <2>1. <<e>> \in Seq(Extractors) /\ <<>> \in Seq(Extractors)
    OBVIOUS
  <2> QED
    BY <2>1 DEF If
<1>2. "tls" \in Extractors /\ "http" \in Extractors /\ "dns" \in Extractors
  BY DEF Extractors
<1>3. \A a, b, c \in Seq(Extractors) : a \o b \o c \in Seq(Extractors)
  OBVIOUS
<1>4. FastPathTries(n) \in Seq(Extractors)
  <2> DEFINE tls  == If("tls", parsed.dest_port = 443 /\ n > 5)
             http == If("http", parsed.dest_port = 80 /\ n > 10)
             dns  == If("dns", OnDNSPort /\ n > 0)
  <2>1. tls \in Seq(Extractors) /\ http \in Seq(Extractors) /\ dns \in Seq(Extractors)
    BY <1>2, <1>1, Zenon DEF OnDNSPort
  <2>2. FastPathTries(n) = tls \o http \o dns
    BY DEF FastPathTries
  <2> HIDE DEF tls, http, dns
  <2> QED
    BY <1>3, <2>1, <2>2
<1>5. SimpleTries(n) \in Seq(Extractors)
  <2> DEFINE onTLS  == parsed.has_tcp /\ parsed.dest_port = 443 /\ n > 5
             onHTTP == parsed.has_tcp /\ parsed.dest_port = 80 /\ n > 10
             tls  == If("tls", onTLS)
             http == If("http", onHTTP)
             dns  == If("dns", ~onTLS /\ ~onHTTP /\ parsed.has_udp /\ OnDNSPort)
  <2>1. onTLS \in BOOLEAN /\ onHTTP \in BOOLEAN
        /\ (~onTLS /\ ~onHTTP /\ parsed.has_udp /\ OnDNSPort) \in BOOLEAN
    BY DEF OnDNSPort
  <2>2. SimpleTries(n) = tls \o http \o dns
    BY DEF SimpleTries
  <2> HIDE DEF onTLS, onHTTP
  <2>3. tls \in Seq(Extractors) /\ http \in Seq(Extractors) /\ dns \in Seq(Extractors)
    BY <1>2, <1>1, <2>1, Zenon
  <2> HIDE DEF tls, http, dns
  <2> QED
    BY <1>3, <2>2, <2>3
<1> QED
  BY <1>4, <1>5

LEMMA InspectPayloadHolds == ASSUME IInv, InspectPayload PROVE IInv'
<1>1. /\ frame' = frame /\ pc = "parsed" /\ frame \in Seq(Octet) /\ offset' = offset
      /\ parsed' = parsed /\ engine' = engine /\ ext_end' = ext_end /\ ext_len' = ext_len
  BY DEF InspectPayload, locals, IInv, Types
<1>2. Len(frame) \in Nat
  BY <1>1, LenProperties
<1>3. CASE ~HasPorts
  <2>1. pc' = "skip" /\ UNCHANGED <<base, length, todo, touched>>
    BY <1>3 DEF InspectPayload
  <2>2. Types'
    BY <1>1, <2>1 DEF IInv, Types, Steps
  <2>3. Headers' /\ Payload'
    BY <2>1 DEF Headers, Payload, OnPayload, Extractors
  <2> QED
    BY <1>1, <2>1, <2>2, <2>3 DEF IInv, InBounds
<1>4. CASE HasPorts
  <2> DEFINE n == IF offset < Len(frame) THEN Len(frame) - offset ELSE 0
             end == IF parsed.has_tcp THEN Transport + 13 ELSE 15
  <2>1. PayloadOffset = offset /\ offset <= Len(frame) /\ offset \in Nat
    BY <1>1, <1>4, SamePayload DEF PayloadOffset, IInv, Types
  <2>2. n \in Nat /\ offset + n = Len(frame)
    BY <1>2, <2>1, SMT
  <2>3. /\ base' = offset /\ length' = n
        /\ todo' = IF engine = "mt" THEN FastPathTries(n) ELSE SimpleTries(n)
        /\ Reads(end) /\ pc' = "try"
    BY <1>4, <2>1 DEF InspectPayload
  <2>4. todo' \in Seq(Extractors)
    <3> HIDE DEF n
    <3>1. FastPathTries(n) \in Seq(Extractors) /\ SimpleTries(n) \in Seq(Extractors)
      BY <2>2, TriesType
    <3> QED
      BY <2>3, <3>1
  <2>5. end \in Int /\ end <= Len(frame)
    <3>1. Transport \in 14..74
      BY <1>1, TransportType
    <3>2. /\ parsed.has_tcp => Transport + 20 <= offset
          /\ ~parsed.has_tcp => offset = Transport + 8 /\ 34 <= Transport
      BY <1>1, <1>4 DEF IInv, Headers, HasPorts
    <3> QED
      BY <1>2, <2>1, <3>1, <3>2, SMT
  <2>6. touched' \in Nat /\ touched' <= Len(frame)
    BY <2>3, <2>5, ReadsInside DEF IInv
  <2>7. Types'
    BY <1>1, <2>1, <2>2, <2>3, <2>4, <2>6 DEF IInv, Types, Steps, OnPayload
  <2>8. Headers'
    BY <2>3 DEF Headers
  <2>9. Payload'
    BY <1>1, <2>2, <2>3 DEF Payload
  <2> QED
    BY <1>1, <2>6, <2>7, <2>8, <2>9 DEF IInv, InBounds
<1> QED
  BY <1>3, <1>4

LEMMA TryExtractorHolds == ASSUME IInv, TryExtractor PROVE IInv'
<1>1. /\ pc = "try" /\ todo \in Seq(Extractors) /\ offset \in Nat
      /\ UNCHANGED <<frame, touched, parsed, base, length, locals, name, found, engine>>
  BY DEF TryExtractor, IInv, Types
<1>2. pc' \in Extractors \cup {"done"} /\ offset' \in Nat /\ todo' \in Seq(Extractors)
  <2>1. CASE todo = <<>>
    BY <1>1, <2>1 DEF TryExtractor
  <2>2. CASE todo # <<>>
    <3>1. Head(todo) \in Extractors /\ Tail(todo) \in Seq(Extractors)
      BY <1>1, <2>2, HeadTailProperties
    <3> QED
      BY <2>2, <3>1 DEF TryExtractor
  <2> QED
    BY <2>1, <2>2
<1>3. Types'
  BY <1>1, <1>2 DEF IInv, Types, Steps, OnPayload, locals
<1>4. Headers'
  BY <1>2 DEF Headers, Extractors
<1>5. Payload'
  BY <1>1, <1>2 DEF IInv, Payload, OnPayload, Extractors
<1> QED
  BY <1>1, <1>3, <1>4, <1>5 DEF IInv, InBounds

-----------------------------------------------------------------------------
(* The extractors.  What each of their steps has to keep: *)
StaysInside ==
    /\ pc' \in OnPayload \cup {"done"}
    /\ offset' \in Nat /\ ext_end' \in Nat /\ ext_len' \in Nat
    /\ touched' \in Nat /\ touched' <= Len(frame)
    /\ pc' = "extension" => ext_end' <= length
    /\ pc' = "server_name" => offset' + ext_len' <= length

LEMMA ExtractHolds == ASSUME IInv, ExtractStep, pc \in OnPayload, StaysInside PROVE IInv'
<1>1. UNCHANGED <<frame, base, length, parsed, engine, todo>>
  BY DEF ExtractStep, Extract
<1>2. Types'
  BY <1>1 DEF IInv, Types, Steps, StaysInside
<1>3. Headers'
  BY DEF Headers, StaysInside, OnPayload, Extractors
<1>4. Payload'
  BY <1>1 DEF IInv, Payload, StaysInside, OnPayload, Extractors
<1> QED
  BY <1>1, <1>2, <1>3, <1>4 DEF IInv, InBounds, StaysInside

LEMMA AtType == ASSUME Types, NEW i \in Nat PROVE At(i) \in Nat /\ At16(i) \in Nat
<1>1. base + i \in Int /\ frame \in Seq(Octet)
  BY DEF Types
<1>2. Byte(base + i) \in Octet /\ Octet \subseteq Nat
  <2>1. Byte(base + i) \in Octet
    BY <1>1, ByteType
  <2> QED
    BY <2>1 DEF Octet
<1>3. readUint16BE(base + i) \in Nat
  BY <1>1, ShortType
<1> QED
  BY <1>2, <1>3 DEF At, At16

(* A read within the payload is a read within the frame. *)
LEMMA ReadsToInside ==
    ASSUME IInv, pc \in OnPayload, NEW i \in Nat, i <= length, ReadsTo(i)
    PROVE touched' \in Nat /\ touched' <= Len(frame)
<1>1. base + length = Len(frame) /\ base \in Nat /\ length \in Nat
  BY DEF IInv, Payload, Types
<1>2. base + i \in Int /\ base + i <= Len(frame)
  BY <1>1, SMT
<1> QED
  BY <1>2, ReadsInside DEF IInv, ReadsTo

LEMMA NothingRead == ASSUME IInv, UNCHANGED touched PROVE touched' \in Nat /\ touched' <= Len(frame)
BY DEF IInv, Types, InBounds

(* The extraction ends, without a name or with one. *)
LEMMA GiveUpStays ==
    ASSUME IInv, GiveUp, touched' \in Nat, touched' <= Len(frame) PROVE StaysInside
BY DEF GiveUp, StaysInside, IInv, Types, locals, OnPayload

LEMMA ReturnStays ==
    ASSUME IInv, NEW host, Return(host), touched' \in Nat, touched' <= Len(frame)
    PROVE StaysInside
BY DEF Return, StaysInside, IInv, Types, locals, OnPayload

(* It goes on, not yet or no longer among the extensions. *)
LEMMA GoToStays ==
    ASSUME IInv, NEW step \in OnPayload \ {"extension", "server_name"}, NEW at \in Nat,
           GoTo(step, at), ext_end' = ext_end, ext_len' = ext_len,
           touched' \in Nat, touched' <= Len(frame)
    PROVE StaysInside
BY DEF GoTo, StaysInside, IInv, Types, OnPayload, Extractors

(* A step that begins an extractor: nothing, or bytes that are there. *)
LEMMA FirstStep ==
    ASSUME IInv, pc \in Extractors, NEW n \in Nat, NEW m \in Nat, m <= n,
           IF length < n THEN UNCHANGED touched ELSE ReadsTo(m)
    PROVE touched' \in Nat /\ touched' <= Len(frame)
<1>1. CASE length < n
  BY <1>1, NothingRead
<1>2. CASE ~(length < n)
  <2>1. length \in Nat /\ m <= length
    BY <1>2, SMT DEF IInv, Types
  <2>2. ReadsTo(m) /\ pc \in OnPayload
    BY <1>2 DEF OnPayload
  <2> QED
    BY <2>1, <2>2, ReadsToInside
<1> QED
  BY <1>1, <1>2

LEMMA HelloStays == ASSUME IInv, ReadHello PROVE StaysInside
<1>1. touched' \in Nat /\ touched' <= Len(frame)
  <2>1. pc \in Extractors /\ (IF length < 6 THEN UNCHANGED touched ELSE ReadsTo(6))
    BY DEF ReadHello, Extractors
  <2> QED
    BY <2>1, FirstStep
<1>2. "session" \in OnPayload \ {"extension", "server_name"} /\ 5 + 4 + 34 \in Nat
  BY DEF OnPayload
<1>3. CASE GoTo("session", 5 + 4 + 34) /\ UNCHANGED locals
  BY <1>1, <1>2, <1>3, GoToStays DEF locals
<1> QED
  BY <1>1, <1>3, GiveUpStays DEF ReadHello

LEMMA SkipFieldStays ==
    ASSUME IInv, NEW step \in OnPayload, NEW width \in {1, 2},
           NEW next \in OnPayload \ {"extension", "server_name"},
           SkipField(step, width, next)
    PROVE StaysInside
<1> DEFINE end == offset + width + (IF width = 1 THEN At(offset) ELSE At16(offset))
<1>1. offset \in Nat /\ end \in Nat /\ offset + width \in Nat /\ pc \in OnPayload
  <2>1. At(offset) \in Nat /\ At16(offset) \in Nat /\ offset \in Nat
    BY AtType DEF IInv, Types
  <2> QED
    BY <2>1 DEF SkipField
<1> HIDE DEF end
<1>2. CASE offset + width > length /\ GiveUp /\ UNCHANGED touched
  BY <1>2, NothingRead, GiveUpStays
<1>3. CASE /\ offset + width <= length /\ ReadsTo(offset + width)
           /\ IF end <= length THEN GoTo(next, end) /\ UNCHANGED locals ELSE GiveUp
  <2>1. touched' \in Nat /\ touched' <= Len(frame)
    BY <1>1, <1>3, ReadsToInside
  <2>2. CASE GoTo(next, end) /\ UNCHANGED locals
    BY <1>1, <2>1, <2>2, GoToStays DEF locals
  <2> QED
    BY <1>3, <2>1, <2>2, GiveUpStays
<1> QED
  BY <1>2, <1>3 DEF SkipField, end

LEMMA ExtensionsStay == ASSUME IInv, ReadExtensions PROVE StaysInside
<1>1. offset \in Nat /\ length \in Nat /\ At16(offset) \in Nat /\ ext_len \in Nat
  BY AtType DEF IInv, Types
<1>2. CASE GiveUp /\ UNCHANGED touched
  BY <1>2, NothingRead, GiveUpStays
<1>3. CASE /\ offset + 2 <= length /\ ReadsTo(offset + 2)
           /\ ext_end' = ExtensionsEnd(offset + 2 + At16(offset))
           /\ GoTo("extension", offset + 2)
           /\ UNCHANGED <<ext_len, start>>
  <2>1. pc \in OnPayload /\ offset + 2 \in Nat
    BY <1>1 DEF ReadExtensions, OnPayload
  <2>2. touched' \in Nat /\ touched' <= Len(frame)
    BY <1>3, <2>1, ReadsToInside
  <2>3. ext_end' \in Nat /\ ext_end' <= length
    BY <1>1, <1>3, SMT DEF ExtensionsEnd
  <2> QED
    BY <1>1, <1>3, <2>1, <2>2, <2>3 DEF StaysInside, GoTo, OnPayload
<1> QED
  BY <1>2, <1>3 DEF ReadExtensions

LEMMA NextExtensionStays == ASSUME IInv, NextExtension PROVE StaysInside
<1> DEFINE len == At16(offset + 2)
<1>1. /\ offset \in Nat /\ length \in Nat /\ ext_end \in Nat /\ ext_len \in Nat
      /\ ext_end <= length /\ pc \in OnPayload
  BY DEF IInv, Types, Payload, NextExtension, OnPayload
<1>2. len \in Nat /\ offset + 4 \in Nat
  <2>1. offset + 2 \in Nat
    BY <1>1
  <2> QED
    BY <1>1, <2>1, AtType DEF IInv
<1> HIDE DEF len
<1>3. CASE GiveUp /\ UNCHANGED touched
  BY <1>3, NothingRead, GiveUpStays
<1>4. CASE offset + 4 <= ext_end /\ ReadsTo(offset + 4)
  <2>1. offset + 4 <= length
    BY <1>1, <1>4, SMT
  <2>2. touched' \in Nat /\ touched' <= Len(frame)
    BY <1>1, <1>2, <1>4, <2>1, ReadsToInside
  <2>3. CASE GiveUp
    BY <2>2, <2>3, GiveUpStays
  <2>4. CASE /\ offset + 4 + len <= ext_end /\ ext_len' = len
             /\ GoTo("server_name", offset + 4) /\ UNCHANGED <<ext_end, start>>
    <3>1. offset + 4 + len <= length
      BY <1>1, <1>2, <2>4, SMT
    <3> QED
      BY <1>1, <1>2, <2>2, <2>4, <3>1 DEF StaysInside, GoTo, OnPayload
  <2>5. CASE GoTo("extension", SkipExtension(len)) /\ UNCHANGED locals
    <3>1. SkipExtension(len) \in Nat
      BY <1>1, <1>2, SMT DEF SkipExtension
    <3> QED
      BY <1>1, <2>2, <2>5, <3>1 DEF StaysInside, GoTo, OnPayload, locals
  <2> QED
    BY <1>4, <1>1, <2>3, <2>4, <2>5, SMT DEF NextExtension, len
<1> QED
  BY <1>3, <1>4 DEF NextExtension

LEMMA ServerNameStays == ASSUME IInv, ServerName PROVE StaysInside
<1> DEFINE host_len == At16(offset + 3)
<1>1. /\ offset \in Nat /\ length \in Nat /\ ext_len \in Nat
      /\ offset + ext_len <= length /\ pc \in OnPayload
  BY DEF IInv, Types, Payload, ServerName, OnPayload
<1>2. host_len \in Nat
  <2>1. offset + 3 \in Nat
    BY <1>1
  <2> QED
    BY <2>1, AtType DEF IInv
<1> HIDE DEF host_len
<1>3. CASE GiveUp /\ UNCHANGED touched
  BY <1>3, NothingRead, GiveUpStays
<1>4. CASE /\ ext_len >= 5 /\ HostFits(host_len) /\ ReadsTo(offset + 5 + host_len)
           /\ Return(Bytes(base + offset + 5, host_len))
  <2>1. offset + 5 + host_len \in Nat /\ offset + 5 + host_len <= length
    BY <1>1, <1>2, <1>4, SMT DEF HostFits
  <2>2. touched' \in Nat /\ touched' <= Len(frame)
    BY <1>1, <1>4, <2>1, ReadsToInside
  <2> QED
    BY <1>4, <2>2, ReturnStays
<1>5. CASE ext_len >= 5 /\ ReadsTo(offset + 5) /\ GiveUp
  <2>1. offset + 5 \in Nat /\ offset + 5 <= length
    BY <1>1, <1>5, SMT
  <2>2. touched' \in Nat /\ touched' <= Len(frame)
    BY <1>1, <1>5, <2>1, ReadsToInside
  <2> QED
    BY <1>5, <2>2, GiveUpStays
<1> QED
  BY <1>3, <1>4, <1>5 DEF ServerName, host_len

LEMMA RequestStays == ASSUME IInv, ReadRequest PROVE StaysInside
<1>1. touched' \in Nat /\ touched' <= Len(frame)
  <2>1. pc \in Extractors /\ (IF length < 4 THEN UNCHANGED touched ELSE ReadsTo(4))
    BY DEF ReadRequest, Extractors
  <2> QED
    BY <2>1, FirstStep
<1>2. CASE GoTo("scan", 0) /\ UNCHANGED locals
  <2>1. "scan" \in OnPayload \ {"extension", "server_name"}
    BY DEF OnPayload
  <2> QED
    BY <1>1, <1>2, <2>1, GoToStays DEF locals
<1> QED
  BY <1>1, <1>2, GiveUpStays DEF ReadRequest

LEMMA ScanStays == ASSUME IInv, Scan PROVE StaysInside
<1>1. /\ offset \in Nat /\ length \in Nat /\ pc \in OnPayload
      /\ offset + 5 \in Nat /\ offset + 1 \in Nat
  BY DEF IInv, Types, Scan, OnPayload
<1>2. CASE GiveUp /\ UNCHANGED touched
  BY <1>2, NothingRead, GiveUpStays
<1>3. CASE /\ MayScan(offset) /\ ReadsTo(offset + 5)
           /\ GoTo("blanks", offset + 5) \/ GoTo("scan", offset + 1)
           /\ UNCHANGED locals
  <2>1. offset + 5 <= length
    BY <1>1, <1>3, SMT DEF MayScan
  <2>2. touched' \in Nat /\ touched' <= Len(frame)
    BY <1>1, <1>3, <2>1, ReadsToInside
  <2>3. {"blanks", "scan"} \subseteq OnPayload \ {"extension", "server_name"}
    BY DEF OnPayload
  <2> QED
    BY <1>1, <1>3, <2>2, <2>3, GoToStays DEF locals
<1> QED
  BY <1>2, <1>3 DEF Scan

(* The loops that read one byte at a time. *)
LEMMA NextByte ==
    ASSUME IInv, pc \in OnPayload, IF offset < length THEN ReadsTo(offset + 1) ELSE UNCHANGED touched
    PROVE touched' \in Nat /\ touched' <= Len(frame)
<1>1. offset \in Nat /\ length \in Nat /\ offset + 1 \in Nat
  BY DEF IInv, Types
<1>2. CASE offset < length
  <2>1. offset + 1 <= length
    BY <1>1, <1>2, SMT
  <2> QED
    BY <1>1, <1>2, <2>1, ReadsToInside
<1>3. CASE ~(offset < length)
  BY <1>3, NothingRead
<1> QED
  BY <1>2, <1>3

LEMMA BlankStays == ASSUME IInv, SkipBlank PROVE StaysInside
<1>1. /\ offset \in Nat /\ offset + 1 \in Nat
      /\ {"blanks", "value"} \subseteq OnPayload \ {"extension", "server_name"}
  BY DEF IInv, Types, OnPayload
<1>2. touched' \in Nat /\ touched' <= Len(frame)
  BY NextByte DEF SkipBlank, OnPayload
<1>3. CASE GoTo("blanks", offset + 1) /\ UNCHANGED locals
  BY <1>1, <1>2, <1>3, GoToStays DEF locals
<1>4. CASE GoTo("value", offset) /\ UNCHANGED <<ext_end, ext_len>>
  BY <1>1, <1>2, <1>4, GoToStays
<1> QED
  BY <1>3, <1>4 DEF SkipBlank

LEMMA ValueStays == ASSUME IInv, ReadValue PROVE StaysInside
<1>1. /\ offset \in Nat /\ offset + 1 \in Nat
      /\ "value" \in OnPayload \ {"extension", "server_name"}
  BY DEF IInv, Types, OnPayload
<1>2. touched' \in Nat /\ touched' <= Len(frame)
  BY NextByte DEF ReadValue, OnPayload
<1>3. CASE GoTo("value", offset + 1) /\ UNCHANGED locals
  BY <1>1, <1>2, <1>3, GoToStays DEF locals
<1>4. CASE GiveUp
  BY <1>2, <1>4, GiveUpStays
<1>5. CASE Return(UpToColon(Bytes(base + start, offset - start)))
  BY <1>2, <1>5, ReturnStays
<1> QED
  BY <1>3, <1>4, <1>5 DEF ReadValue

LEMMA QueryStays == ASSUME IInv, ReadQuery PROVE StaysInside
<1>1. touched' \in Nat /\ touched' <= Len(frame)
  <2>1. pc \in Extractors /\ (IF length < 12 THEN UNCHANGED touched ELSE ReadsTo(6))
    BY DEF ReadQuery, Extractors
  <2> QED
    BY <2>1, FirstStep
<1>2. CASE GoTo("label", 12) /\ UNCHANGED locals
  <2>1. "label" \in OnPayload \ {"extension", "server_name"}
    BY DEF OnPayload
  <2> QED
    BY <1>1, <1>2, <2>1, GoToStays DEF locals
<1> QED
  BY <1>1, <1>2, GiveUpStays DEF ReadQuery

LEMMA LabelStays == ASSUME IInv, ReadLabel PROVE StaysInside
<1> DEFINE label_len == At(offset)
<1>1. /\ offset \in Nat /\ length \in Nat /\ label_len \in Nat /\ pc = "label"
      /\ pc \in OnPayload
  BY AtType DEF IInv, Types, ReadLabel, OnPayload
<1> HIDE DEF label_len
<1>2. ASSUME EndOfQuery, touched' \in Nat, touched' <= Len(frame) PROVE StaysInside
  BY <1>2, GiveUpStays, ReturnStays DEF EndOfQuery
<1>3. CASE EndOfQuery /\ UNCHANGED touched
  BY <1>2, <1>3, NothingRead
<1>4. CASE offset < length /\ ReadsTo(offset + 1) /\ EndOfQuery
  <2>1. offset + 1 \in Nat /\ offset + 1 <= length
    BY <1>1, <1>4, SMT
  <2> QED
    BY <1>1, <1>2, <1>4, <2>1, ReadsToInside
<1>5. CASE /\ LabelFits(label_len) /\ ReadsTo(offset + 1 + label_len)
           /\ offset' = offset + 1 + label_len
           /\ UNCHANGED <<pc, found, locals>>
  <2>1. offset + 1 + label_len \in Nat /\ offset + 1 + label_len <= length
    BY <1>1, <1>5, SMT DEF LabelFits
  <2>2. touched' \in Nat /\ touched' <= Len(frame)
    BY <1>1, <1>5, <2>1, ReadsToInside
  <2> QED
    BY <1>1, <1>5, <2>1, <2>2 DEF StaysInside, IInv, Types, locals
<1> QED
  BY <1>3, <1>4, <1>5 DEF ReadLabel, label_len

-----------------------------------------------------------------------------
LEMMA ExtractStepStays == ASSUME IInv, ExtractStep PROVE pc \in OnPayload /\ StaysInside
<1>1. pc \in OnPayload
  BY DEF ExtractStep, Extract, TLSStep, HTTPStep, DNSStep, ReadHello, SkipSession, SkipCiphers,
         SkipCompression, SkipField, ReadExtensions, NextExtension, ServerName, ReadRequest,
         Scan, SkipBlank, ReadValue, ReadQuery, ReadLabel, OnPayload, Extractors
<1>2. CASE TLSStep
  <2>1. /\ {"session", "ciphers", "compression", "extensions"}
             \subseteq OnPayload \ {"extension", "server_name"}
        /\ 1 \in {1, 2} /\ 2 \in {1, 2}
    BY DEF OnPayload
  <2>2. ASSUME SkipSession \/ SkipCiphers \/ SkipCompression PROVE StaysInside
    BY <2>1, <2>2, SkipFieldStays DEF SkipSession, SkipCiphers, SkipCompression
  <2> QED
    BY <1>1, <1>2, <2>2, HelloStays, ExtensionsStay, NextExtensionStays, ServerNameStays
       DEF TLSStep
<1>3. CASE HTTPStep
  BY <1>1, <1>3, RequestStays, ScanStays, BlankStays, ValueStays DEF HTTPStep
<1>4. CASE DNSStep
  BY <1>1, <1>4, QueryStays, LabelStays DEF DNSStep
<1> QED
  BY <1>2, <1>3, <1>4 DEF ExtractStep, Extract

LEMMA ExtractStepHolds == ASSUME IInv, ExtractStep PROVE IInv'
BY ExtractStepStays, ExtractHolds

LEMMA ParseStepHolds == ASSUME IInv, ParseStep PROVE IInv'
BY EthernetHolds, IPv4Holds, TCPHolds, UDPHolds DEF ParseStep, Parse

(* One step per action, each by its lemma above. *)
LEMMA NextHolds == IInv /\ [Next]_inspectionVars => IInv'
<1> SUFFICES ASSUME IInv, [Next]_inspectionVars PROVE IInv'
  OBVIOUS
<1>1. CASE Next
  BY <1>1, BeginHolds, FinishHolds, ParseStepHolds, InspectPayloadHolds, TryExtractorHolds,
     ExtractStepHolds DEF Next, Inspect
<1>2. CASE UNCHANGED inspectionVars
  <2>1. UNCHANGED <<frame, pc, offset, touched, parsed, base, length, ext_end, ext_len,
                    engine, todo>>
    BY <1>2 DEF inspectionVars, locals
  <2>2. Transport' = Transport /\ SegmentStart' = SegmentStart
    BY <2>1, SameHeaders
  <2>3. Headers'
    BY <2>1, <2>2 DEF IInv, Headers
  <2> QED
    BY <2>1, <2>3 DEF IInv, Types, Payload, InBounds
<1> QED
  BY <1>1, <1>2

(* The inductive invariant holds in every run, for any frames. *)
THEOREM Inductive == Spec => []IInv
<1>1. Init => IInv
  BY InitHolds
<1>2. IInv /\ [Next]_inspectionVars => IInv'
  BY NextHolds
<1> QED
  BY <1>1, <1>2, PTL DEF Spec

(* No frame makes the parser, the two computations of the payload or an    *)
(* extractor read behind its last byte: "NEVER read past the end of the    *)
(* buffer" (sni_extractor.cpp:11).                                         *)
THEOREM ReadsStayInside == Spec => []InBounds
<1>1. IInv => InBounds
  BY DEF IInv
<1> QED
  BY <1>1, Inductive, PTL

(* parse(), buildPacketJob() and calculatePayloadOffset() find the payload *)
(* of every accepted frame at the same place.                              *)
THEOREM PayloadsAgree == Spec => []OffsetsAgree
<1>1. IInv => OffsetsAgree
  <2> SUFFICES ASSUME IInv, pc = "parsed", HasPorts
               PROVE /\ offset = JobPayloadOffset
                     /\ offset = calculatePayloadOffset
                     /\ offset <= Len(frame)
    BY DEF OffsetsAgree
  <2> QED
    BY SamePayload DEF IInv
<1> QED
  BY <1>1, Inductive, PTL

-----------------------------------------------------------------------------
(* What is known of the names while a frame is inspected. *)

(* Nothing before an extractor returns, but the labels of a question. *)
Quiet == /\ found => pc = "done"
         /\ name # <<>> => pc \in {"label", "done"}
         /\ pc = "label" => name \in Seq(Octet)

(* The parser's choice, and the ports of a segment, in the octets. *)
Protocols ==
    /\ pc = "tcp" => Byte(23) = TCP
    /\ pc = "udp" => Byte(23) = UDP
    /\ pc = "parsed" =>
          /\ parsed.has_udp => Byte(23) = UDP
          /\ parsed.has_tcp => /\ Byte(23) = TCP
                               /\ parsed.src_port = readUint16BE(Transport)
                               /\ parsed.dest_port = readUint16BE(Transport + 2)

(* A Client Hello that was cut is shown to the TLS extractor only. *)
HelloOnly ==
    CutHello => /\ ~found
                /\ pc \in OnPayload => /\ pc \in {"try", "tls"} /\ todo \in {<<>>, <<"tls">>}
                                       /\ base = SegmentStart

(* A question is shown to the DNS extractor only, which has come to where  *)
(* the name read so far ends.                                              *)
QuestionOnly ==
    OnlyDNS => /\ pc \in OnPayload => pc \in {"try", "dns", "label"} /\ todo \in {<<>>, <<"dns">>}
               /\ pc = "label" => IF name = <<>> THEN offset = 12
                                  ELSE offset = 13 + Len(name) /\ WholeLabels
               /\ found => WholeLabels

NameInv == Quiet /\ Protocols /\ HelloOnly /\ QuestionOnly

LEMMA SameBytes == ASSUME frame' = frame
                   PROVE  /\ \A i : Byte(i)' = Byte(i)
                          /\ CutHello' = CutHello
                          /\ \A i : readUint16BE(i)' = readUint16BE(i)
BY DEF CutHello, Byte, readUint16BE, Transport, SegmentStart

(* The octets of a port, as the parser converts them. *)
LEMMA PortRead == ASSUME frame \in Seq(Octet), NEW i \in Int PROVE netToHost16(i) = readUint16BE(i)
<1>1. Byte(i) \in Octet
  BY ByteType
<1>2. i + 1 \in Int
  OBVIOUS
<1>3. Byte(i + 1) \in Octet
  BY <1>2, ByteType
<1>4. \A x, y \in Octet : swapBytes16(x + 256 * y) = x * 256 + y
  <2> TAKE x, y \in Octet
  <2>1. x \in 0..255 /\ y \in 0..255
    BY DEF Octet
  <2>2. (x + 256 * y) % 256 = x /\ (x + 256 * y) \div 256 = y
    BY <2>1, SMT
  <2> QED
    BY <2>1, <2>2 DEF swapBytes16
<1> QED
  BY <1>1, <1>3, <1>4, Zenon DEF netToHost16, readUint16BE

-----------------------------------------------------------------------------
(* A step of the parser: no name, and nothing is found. *)
LEMMA ParserNames ==
    ASSUME NameInv, UNCHANGED <<found, name>>, pc \notin {"label", "done"},
           pc' \notin OnPayload, Protocols'
    PROVE  NameInv'
<1>1. ~found /\ name = <<>>
  BY DEF NameInv, Quiet
<1>2. pc' # "label"
  BY DEF OnPayload
<1> QED
  BY <1>1, <1>2 DEF NameInv, Quiet, HelloOnly, QuestionOnly

LEMMA ParseNames == ASSUME IInv, NameInv, ParseStep PROVE NameInv'
<1>0. /\ UNCHANGED <<found, name, frame>> /\ pc \in {"ethernet", "ipv4", "tcp", "udp"}
      /\ pc' \in {"ipv4", "tcp", "udp", "parsed", "skip"}
  BY DEF ParseStep, Parse, ParseEthernet, ParseIPv4, ParseTCP, ParseUDP, Reject, AfterIP
<1>1. ASSUME Protocols' PROVE NameInv'
  <2>1. pc \notin {"label", "done"} /\ pc' \notin OnPayload
    BY <1>0 DEF OnPayload, Extractors
  <2> QED
    BY <1>0, <1>1, <2>1, ParserNames
<1>2. frame \in Seq(Octet) /\ offset \in Nat /\ Byte(23)' = Byte(23)
      /\ \A i : readUint16BE(i)' = readUint16BE(i)
  BY <1>0, SameBytes DEF IInv, Types
<1>3. Transport' = Transport
  BY <1>0, SameHeaders
<1>4. CASE pc' = "skip"
  BY <1>1, <1>4 DEF Protocols
<1>5. CASE ParseEthernet /\ pc' # "skip"
  <2>1. pc' \in {"ipv4", "parsed"} /\ parsed' = parsed /\ ~parsed.has_tcp /\ ~parsed.has_udp
    BY <1>5 DEF ParseEthernet, Reject, IInv, Headers
  <2> QED
    BY <1>1, <2>1 DEF Protocols
<1>6. CASE ParseIPv4 /\ pc' # "skip"
  <2>1. /\ pc = "ipv4" /\ offset = 14 /\ ~parsed.has_tcp /\ ~parsed.has_udp
        /\ parsed \in ParsedPackets
    BY <1>6 DEF ParseIPv4, IInv, Headers, Types
  <2>2. /\ pc' = AfterIP(Byte(14 + 9))
        /\ parsed' = [parsed EXCEPT !.has_ip = TRUE, !.protocol = Byte(14 + 9),
                          !.src_ip = Bytes(14 + 12, 4), !.dest_ip = Bytes(14 + 16, 4)]
    BY <1>6, <2>1 DEF ParseIPv4, Reject
  <2>3. ~parsed'.has_tcp /\ ~parsed'.has_udp
    BY <2>1, <2>2 DEF ParsedPackets
  <2>4. 14 + 9 = 23
    OBVIOUS
  <2>5. /\ pc' = "tcp" => Byte(23) = TCP
        /\ pc' = "udp" => Byte(23) = UDP
    BY <2>2, <2>4 DEF AfterIP, TCP, UDP
  <2> QED
    BY <1>1, <1>2, <2>3, <2>5 DEF Protocols
<1>7. CASE ParseTCP /\ pc' # "skip"
  <2>1. /\ pc = "tcp" /\ offset = Transport /\ ~parsed.has_udp /\ parsed \in ParsedPackets
        /\ Byte(23) = TCP
    BY <1>7 DEF ParseTCP, IInv, Headers, Types, NameInv, Protocols
  <2>2. PICK fits \in BOOLEAN :
           /\ parsed' = [parsed EXCEPT !.src_port = netToHost16(offset),
                             !.dest_port = netToHost16(offset + 2),
                             !.tcp_flags = Byte(offset + 13), !.has_tcp = fits]
           /\ pc' = "parsed"
    BY <1>7 DEF ParseTCP, Reject
  <2>3. /\ netToHost16(offset) = readUint16BE(Transport)
        /\ netToHost16(offset + 2) = readUint16BE(Transport + 2)
    <3>1. offset \in Int /\ offset + 2 \in Int
      BY <1>2
    <3> QED
      BY <1>2, <2>1, <3>1, PortRead
  <2>4. /\ ~parsed'.has_udp /\ parsed'.src_port = netToHost16(offset)
        /\ parsed'.dest_port = netToHost16(offset + 2)
    BY <2>1, <2>2 DEF ParsedPackets
  <2> QED
    BY <1>1, <1>2, <1>3, <2>1, <2>2, <2>3, <2>4 DEF Protocols
<1>8. CASE ParseUDP /\ pc' # "skip"
  <2>1. pc = "udp" /\ ~parsed.has_tcp /\ parsed \in ParsedPackets /\ Byte(23) = UDP
    BY <1>8 DEF ParseUDP, IInv, Headers, Types, NameInv, Protocols
  <2>2. /\ parsed' = [parsed EXCEPT !.src_port = netToHost16(offset),
                          !.dest_port = netToHost16(offset + 2), !.has_udp = TRUE]
        /\ pc' = "parsed"
    BY <1>8 DEF ParseUDP, Reject
  <2>3. ~parsed'.has_tcp
    BY <2>1, <2>2 DEF ParsedPackets
  <2> QED
    BY <1>1, <1>2, <2>1, <2>2, <2>3 DEF Protocols
<1> QED
  BY <1>4, <1>5, <1>6, <1>7, <1>8 DEF ParseStep, Parse

(* The extractors that are chosen. *)
LEMMA HelloTries ==
    ASSUME NEW n \in Int, parsed.dest_port = 443, parsed.src_port # 53
    PROVE  FastPathTries(n) \in {<<>>, <<"tls">>}
           /\ (~parsed.has_udp => SimpleTries(n) \in {<<>>, <<"tls">>})
<1>1. ~OnDNSPort
  BY DEF OnDNSPort
<1>2. /\ <<>> \o <<>> = <<>> /\ <<"tls">> \o <<>> = <<"tls">>
  OBVIOUS
<1>3. FastPathTries(n) \in {<<>>, <<"tls">>}
  BY <1>1, <1>2 DEF FastPathTries, If
<1>4. ASSUME ~parsed.has_udp PROVE SimpleTries(n) \in {<<>>, <<"tls">>}
  BY <1>2, <1>4 DEF SimpleTries, If
<1> QED
  BY <1>3, <1>4

LEMMA QuestionTries ==
    ASSUME NEW n \in Int, OnlyDNS
    PROVE  FastPathTries(n) \in {<<>>, <<"dns">>} /\ SimpleTries(n) \in {<<>>, <<"dns">>}
<1>1. parsed.dest_port # 443 /\ parsed.dest_port # 80
  BY DEF OnlyDNS
<1>2. /\ <<>> \o <<>> = <<>> /\ <<>> \o <<"dns">> = <<"dns">>
  OBVIOUS
<1>3. FastPathTries(n) \in {<<>>, <<"dns">>}
  BY <1>1, <1>2 DEF FastPathTries, If
<1>4. SimpleTries(n) \in {<<>>, <<"dns">>}
  BY <1>1, <1>2 DEF SimpleTries, If
<1> QED
  BY <1>3, <1>4

LEMMA PayloadNames == ASSUME IInv, NameInv, InspectPayload PROVE NameInv'
<1>1. /\ pc = "parsed" /\ UNCHANGED <<frame, parsed, name, found, engine>>
      /\ ~found /\ name = <<>> /\ pc' \in {"try", "skip"}
  BY DEF InspectPayload, NameInv, Quiet
<1>2. CutHello' = CutHello /\ SegmentStart' = SegmentStart /\ OnlyDNS' = OnlyDNS
  BY <1>1, SameBytes, SameHeaders DEF OnlyDNS, OnDNSPort
<1>3. Quiet' /\ Protocols'
  BY <1>1 DEF Quiet, Protocols
<1>4. CASE pc' = "skip"
  BY <1>1, <1>2, <1>3, <1>4 DEF NameInv, HelloOnly, QuestionOnly, OnPayload, Extractors
<1>5. CASE pc' = "try"
  <2> DEFINE n == IF PayloadOffset < Len(frame) THEN Len(frame) - PayloadOffset ELSE 0
  <2>1. /\ HasPorts /\ base' = PayloadOffset
        /\ todo' = IF engine = "mt" THEN FastPathTries(n) ELSE SimpleTries(n)
    BY <1>5 DEF InspectPayload
  <2>2. PayloadOffset = offset /\ offset \in Nat /\ Len(frame) \in Nat
    BY <1>1, <2>1, SamePayload, LenProperties DEF PayloadOffset, IInv, Types
  <2>3. n \in Int
    BY <2>2
  <2> HIDE DEF n
  <2>4. ASSUME CutHello PROVE todo' \in {<<>>, <<"tls">>} /\ base' = SegmentStart
    <3>1. Byte(23) = TCP /\ readUint16BE(Transport) # 53 /\ readUint16BE(Transport + 2) = 443
      BY <2>4 DEF CutHello
    <3>2. ~parsed.has_udp /\ parsed.has_tcp
      BY <1>1, <2>1, <3>1 DEF NameInv, Protocols, HasPorts, TCP, UDP
    <3>3. parsed.dest_port = 443 /\ parsed.src_port # 53 /\ offset = SegmentStart
      BY <1>1, <3>1, <3>2 DEF NameInv, Protocols, IInv, Headers
    <3>4. FastPathTries(n) \in {<<>>, <<"tls">>} /\ SimpleTries(n) \in {<<>>, <<"tls">>}
      BY <2>3, <3>2, <3>3, HelloTries
    <3> QED
      BY <2>1, <2>2, <3>3, <3>4
  <2>5. ASSUME OnlyDNS PROVE todo' \in {<<>>, <<"dns">>}
    BY <2>1, <2>3, <2>5, QuestionTries
  <2>6. HelloOnly'
    BY <1>1, <1>2, <1>5, <2>4 DEF HelloOnly
  <2>7. QuestionOnly'
    BY <1>1, <1>2, <1>5, <2>5 DEF QuestionOnly
  <2> QED
    BY <1>3, <2>6, <2>7 DEF NameInv
<1> QED
  BY <1>1, <1>4, <1>5

LEMMA TryNames == ASSUME IInv, NameInv, TryExtractor PROVE NameInv'
<1>1. /\ pc = "try" /\ ~found /\ name = <<>>
      /\ UNCHANGED <<frame, parsed, base, length, name, found>>
      /\ \/ todo = <<>> /\ pc' = "done"
         \/ todo # <<>> /\ pc' = Head(todo) /\ todo' = Tail(todo)
      /\ pc \in OnPayload /\ todo \in Seq(Extractors)
  BY DEF TryExtractor, NameInv, Quiet, OnPayload, IInv, Types
<1>2. CutHello' = CutHello /\ SegmentStart' = SegmentStart /\ OnlyDNS' = OnlyDNS
  BY <1>1, SameBytes, SameHeaders DEF OnlyDNS, OnDNSPort
<1>3. pc' \in Extractors \cup {"done"}
  <2>1. todo # <<>> => Head(todo) \in Extractors
    BY <1>1, HeadTailProperties
  <2> QED
    BY <1>1, <2>1
<1>4. Quiet' /\ Protocols'
  BY <1>1, <1>3 DEF Quiet, Protocols, Extractors
<1>5. ASSUME NEW e, todo \in {<<>>, <<e>>} PROVE pc' = "done" \/ (pc' = e /\ todo' = <<>>)
  <2>1. Head(<<e>>) = e /\ Tail(<<e>>) = <<>>
    OBVIOUS
  <2> QED
    BY <1>1, <1>5, <2>1
<1>6. HelloOnly'
  <2>1. CutHello => todo \in {<<>>, <<"tls">>} /\ base = SegmentStart
    BY <1>1 DEF NameInv, HelloOnly
  <2>2. "done" \notin OnPayload
    BY DEF OnPayload, Extractors
  <2> QED
    BY <1>1, <1>2, <1>5, <2>1, <2>2 DEF HelloOnly
<1>7. QuestionOnly'
  <2>1. OnlyDNS => todo \in {<<>>, <<"dns">>}
    BY <1>1 DEF NameInv, QuestionOnly
  <2>2. "done" \notin OnPayload
    BY DEF OnPayload, Extractors
  <2> QED
    BY <1>1, <1>2, <1>5, <2>1, <2>2 DEF QuestionOnly
<1> QED
  BY <1>4, <1>6, <1>7 DEF NameInv

-----------------------------------------------------------------------------
(* The TLS extractor asks whether the record is there. *)
LEMMA CutIsNoHello ==
    ASSUME IInv, CutHello, pc \in OnPayload, base = SegmentStart PROVE ~isTLSClientHello
<1>1. base + length = Len(frame) /\ base \in Nat /\ length \in Nat /\ Len(frame) \in Nat
  BY LenProperties DEF IInv, Payload, Types
<1>2. PICK r : r = readUint16BE(base + 3)
  OBVIOUS
<1>3. r \in Nat
  <2>1. base + 3 \in Int /\ frame \in Seq(Octet)
    BY <1>1 DEF IInv, Types
  <2> QED
    BY <1>2, <2>1, ShortType
<1>4. r > Len(frame) - base - 5
  BY <1>2 DEF CutHello
<1>5. ~(r <= length - 5)
  BY <1>1, <1>3, <1>4
<1> QED
  BY <1>2, <1>5 DEF isTLSClientHello, At16

(* What the extractors of TLS and HTTP do with the name. *)
OtherSteps == OnPayload \ {"try", "dns", "label"}

LEMMA OtherExtract ==
    ASSUME TLSStep \/ HTTPStep
    PROVE  /\ pc \in OtherSteps
           /\ \/ UNCHANGED <<name, found>> /\ pc' \in OnPayload \ {"label", "dns", "tls", "http"}
              \/ found' = TRUE /\ pc' = "done"
BY DEF TLSStep, HTTPStep, ReadHello, SkipSession, SkipCiphers, SkipCompression, SkipField,
       ReadExtensions, NextExtension, ServerName, ReadRequest, Scan, SkipBlank, ReadValue,
       GiveUp, Return, GoTo, OnPayload, Extractors, OtherSteps


(* A label of l octets behind octet i of the payload. *)
LEMMA LabelRead ==
    ASSUME Types, NEW i \in Nat, NEW l \in Nat
    PROVE  /\ Bytes(base + i + 1, l) \in Seq(Octet) /\ Len(Bytes(base + i + 1, l)) = l
           /\ \A k \in 1..l : Bytes(base + i + 1, l)[k] = At(i + k)
<1> DEFINE b == Bytes(base + i + 1, l)
<1>1. base \in Nat /\ frame \in Seq(Octet)
  BY DEF Types
<1>2. b = [k \in 1..l |-> Byte(base + i + 1 + k - 1)]
  BY DEF Bytes
<1>3. \A k \in 1..l : base + i + 1 + k - 1 = base + (i + k) /\ base + (i + k) \in Int
  BY <1>1
<1>4. \A k \in 1..l : Byte(base + (i + k)) \in Octet
  BY <1>1, <1>3, ByteType
<1> HIDE DEF b
<1>5. b = [k \in 1..l |-> Byte(base + (i + k))]
  BY <1>2, <1>3
<1>6. b \in Seq(Octet) /\ Len(b) = l
  BY <1>4, <1>5
<1>7. \A k \in 1..l : b[k] = Byte(base + (i + k))
  BY <1>5
<1> QED
  BY <1>6, <1>7 DEF b, At

(* The first label ... *)
LEMMA FirstLabel ==
    ASSUME Types, UNCHANGED <<frame, base, length>>,
           NEW l \in 1..63, At(12) = l, 12 + 1 + l <= length,
           name' = Bytes(base + 12 + 1, l)
    PROVE  WholeLabels' /\ Len(name') = l /\ name' \in Seq(Octet)
<1>1. /\ name' \in Seq(Octet) /\ Len(name') = l
      /\ \A k \in 1..l : name'[k] = At(12 + k)
  <2>1. l \in Nat /\ 12 \in Nat
    OBVIOUS
  <2> QED
    BY <2>1, LabelRead
<1>2. \A k : At(k)' = At(k)
  BY DEF At, Byte
<1> DEFINE S == {0}
<1>3. /\ S \in SUBSET (0..Len(name')) /\ 0 \in S
      /\ \A s \in S : LET end == s + At(12 + s)'
                      IN /\ At(12 + s)' \in 1..63
                         /\ end = Len(name') \/ end + 1 \in S
                         /\ \A k \in (s + 1)..end : name'[k] = At(12 + k)'
                         /\ s # 0 => name'[s] = 46
  <2>1. At(12 + 0)' = l
    BY <1>2
  <2>2. 0 + l = Len(name') /\ 0 + 1 = 1 /\ 0 \in 0..Len(name')
    BY <1>1
  <2>3. \A k \in (0 + 1)..(0 + l) : name'[k] = At(12 + k)'
    BY <1>1, <1>2
  <2> QED
    BY <2>1, <2>2, <2>3
<1>4. 13 + Len(name') <= length'
  BY <1>1
<1> QED
  BY <1>1, <1>3, <1>4 DEF WholeLabels

(* ... and a label behind others. *)
LEMMA LabelAppended ==
    ASSUME Types, name \in Seq(Octet), WholeLabels,
           UNCHANGED <<frame, base, length>>, NEW L \in Nat, L = Len(name),
           NEW l \in 1..63, At(13 + L) = l, 13 + L + 1 + l <= length,
           name' = name \o Dot \o Bytes(base + (13 + L) + 1, l)
    PROVE  WholeLabels' /\ Len(name') = L + 1 + l /\ name' \in Seq(Octet)
<1> DEFINE label == Bytes(base + (13 + L) + 1, l)
<1>1. /\ label \in Seq(Octet) /\ Len(label) = l
      /\ \A k \in 1..l : label[k] = At((13 + L) + k)
  <2>1. l \in Nat /\ 13 + L \in Nat
    OBVIOUS
  <2> QED
    BY <2>1, LabelRead
<1>2. name' = (name \o <<46>>) \o label
  BY DEF Dot
<1>3. name \in Seq(Octet) /\ L = Len(name) /\ L \in Nat /\ <<46>> \in Seq(Octet)
  BY DEF Octet
<1> HIDE DEF label
<1>4. /\ name' \in Seq(Octet) /\ Len(name') = L + 1 + l /\ name'[L + 1] = 46
      /\ \A k \in 1..L : name'[k] = name[k]
      /\ \A k \in 1..l : name'[(L + 1) + k] = label[k]
  <2>1. l \in 1..63
    OBVIOUS
  <2> QED
    BY ONLY <1>1, <1>2, <1>3, <2>1
<1>5. \A k : At(k)' = At(k)
  BY DEF At, Byte
<1>6. PICK S \in SUBSET (0..L) :
         /\ 0 \in S
         /\ \A s \in S : /\ At(12 + s) \in 1..63
                         /\ s + At(12 + s) = L \/ s + At(12 + s) + 1 \in S
                         /\ \A k \in (s + 1)..(s + At(12 + s)) : name[k] = At(12 + k)
                         /\ s # 0 => name[s] = 46
  BY DEF WholeLabels
<1> DEFINE T == S \cup {L + 1}
<1>7. T \in SUBSET (0..Len(name')) /\ 0 \in T
  <2>1. L + 1 \in 0..Len(name')
    BY <1>3, <1>4
  <2>2. \A s \in 0..L : s \in 0..Len(name')
    BY <1>3, <1>4
  <2> QED
    BY <1>6, <2>1, <2>2
<1>8. ASSUME NEW s \in T
      PROVE  /\ At(12 + s)' \in 1..63
             /\ s + At(12 + s)' = Len(name') \/ s + At(12 + s)' + 1 \in T
             /\ \A k \in (s + 1)..(s + At(12 + s)') : name'[k] = At(12 + k)'
             /\ s # 0 => name'[s] = 46
  <2>1. CASE s \in S
    <3>1. PICK b \in 1..63 : b = At(12 + s)
      BY <1>6, <2>1
    <3>2. s \in 0..L /\ (s + b = L \/ s + b + 1 \in S)
      BY <1>6, <2>1, <3>1
    <3>3. s + b <= L /\ s + b + 1 \in T
      BY <1>3, <1>6, <3>1, <3>2
    <3>4. \A k \in (s + 1)..(s + b) : name'[k] = At(12 + k)
      <4> TAKE k \in (s + 1)..(s + b)
      <4>1. k \in 1..L
        BY <1>3, <3>1, <3>2, <3>3
      <4> QED
        BY <1>4, <1>6, <2>1, <3>1, <4>1
    <3>5. s # 0 => name'[s] = 46
      BY <1>3, <1>4, <1>6, <2>1, <3>2
    <3> QED
      BY <1>5, <3>1, <3>3, <3>4, <3>5
  <2>2. CASE s = L + 1
    <3>1. At(12 + s) = l
      <4>1. 12 + s = 13 + L
        BY <1>3, <2>2
      <4> QED
        BY <4>1
    <3>2. s + l = Len(name')
      BY <1>4, <2>2
    <3>3. \A k \in (s + 1)..(s + l) : name'[k] = At(12 + k)
      <4> TAKE k \in (s + 1)..(s + l)
      <4>1. PICK j \in 1..l : k = (L + 1) + j
        <5>1. k - (L + 1) \in 1..l /\ k = (L + 1) + (k - (L + 1))
          BY <1>3, <2>2
        <5> QED
          BY <5>1
      <4>2. (13 + L) + j = 12 + k
        BY <1>3, <4>1
      <4> QED
        BY <1>1, <1>4, <4>1, <4>2
    <3> QED
      BY <1>4, <1>5, <2>2, <3>1, <3>2, <3>3
  <2> QED
    BY <2>1, <2>2
<1>9. 13 + Len(name') <= length'
  BY <1>3, <1>4
<1> HIDE DEF T
<1>10. WholeLabels'
  BY <1>7, <1>8, <1>9 DEF WholeLabels
<1> QED
  BY <1>4, <1>10

LEMMA LabelNames ==
    ASSUME IInv, NameInv, ExtractStep, ReadLabel
    PROVE  Quiet' /\ (OnlyDNS => /\ pc' = "label" => IF name' = <<>> THEN offset' = 12
                                                   ELSE offset' = 13 + Len(name') /\ WholeLabels'
                                 /\ found' => WholeLabels'
                                 /\ pc' \in {"try", "label", "done"})
<1> DEFINE l == At(offset)
           label == Bytes(base + offset + 1, l)
<1>1. /\ pc = "label" /\ ~found /\ name \in Seq(Octet) /\ Types /\ offset \in Nat
      /\ UNCHANGED <<frame, base, length, parsed>>
  BY DEF ReadLabel, NameInv, Quiet, IInv, Types, ExtractStep, Extract
<1>2. OnlyDNS => IF name = <<>> THEN offset = 12 ELSE offset = 13 + Len(name) /\ WholeLabels
  BY <1>1 DEF NameInv, QuestionOnly
<1> HIDE DEF l, label
<1>3. CASE EndOfQuery
  <2>1. CASE name = <<>> /\ GiveUp
    BY <1>1, <2>1 DEF GiveUp, Quiet
  <2>2. CASE name # <<>> /\ Return(name)
    <3>1. WholeLabels' = WholeLabels
      BY <1>1, <2>2 DEF Return, WholeLabels, At, Byte
    <3> QED
      BY <1>1, <1>2, <2>2, <3>1 DEF Return, Quiet
  <2> QED
    BY <1>3, <2>1, <2>2 DEF EndOfQuery
<1>4. CASE /\ LabelFits(l)
           /\ name' = IF name = <<>> THEN label ELSE name \o Dot \o label
           /\ offset' = offset + 1 + l
           /\ UNCHANGED <<pc, found, locals>>
  <2>1. l \in 1..63 /\ offset + 1 + l <= length
    BY <1>4 DEF LabelFits
  <2>2. label \in Seq(Octet) /\ Len(label) = l
    <3>1. l \in Nat
      BY <2>1
    <3> QED
      BY <1>1, <3>1, LabelRead DEF label
  <2>3. name' \in Seq(Octet) /\ name' # <<>>
    <3>1. Dot \in Seq(Octet)
      BY DEF Dot, Octet
    <3>2. CASE name = <<>>
      BY <1>4, <2>1, <2>2, <3>2
    <3>3. CASE name # <<>>
      <4>1. name' = (name \o Dot) \o label
        BY <1>4, <3>3
      <4> QED
        BY ONLY <1>1, <2>1, <2>2, <3>1, <4>1
    <3> QED
      BY <3>2, <3>3
  <2>4. Quiet'
    BY <1>1, <1>4, <2>3 DEF Quiet
  <2>5. ASSUME OnlyDNS PROVE offset' = 13 + Len(name') /\ WholeLabels'
    <3>1. CASE name = <<>>
      <4>1. offset = 12 /\ name' = Bytes(base + 12 + 1, l) /\ At(12) = l
        BY <1>2, <1>4, <2>5, <3>1 DEF l, label
      <4>2. WholeLabels' /\ Len(name') = l
        BY ONLY <1>1, <2>1, <4>1, FirstLabel
      <4>3. 12 + 1 + l = 13 + l
        BY <2>1
      <4> QED
        BY <1>4, <4>1, <4>2, <4>3
    <3>2. CASE name # <<>>
      <4>1. PICK L \in Nat : L = Len(name)
        BY <1>1
      <4>2. offset = 13 + L /\ WholeLabels
        BY <1>2, <2>5, <3>2, <4>1
      <4>3. /\ name' = name \o Dot \o Bytes(base + (13 + L) + 1, l) /\ At(13 + L) = l
            /\ 13 + L + 1 + l <= length
        BY <1>4, <2>1, <3>2, <4>2 DEF l, label
      <4>4. WholeLabels' /\ Len(name') = L + 1 + l
        BY ONLY <1>1, <2>1, <4>1, <4>2, <4>3, LabelAppended
      <4>5. 13 + L + 1 + l = 13 + (L + 1 + l)
        BY <2>1
      <4> QED
        BY <1>4, <4>2, <4>4, <4>5
    <3> QED
      BY <3>1, <3>2
  <2> QED
    BY <1>1, <1>4, <2>3, <2>4, <2>5
<1> QED
  BY <1>3, <1>4, Zenon DEF ReadLabel, l, label

LEMMA ExtractNames == ASSUME IInv, NameInv, ExtractStep PROVE NameInv'
<1>1. /\ UNCHANGED <<frame, base, length, parsed, todo>>
      /\ TLSStep \/ HTTPStep \/ ReadQuery \/ ReadLabel
  BY DEF ExtractStep, Extract, DNSStep
<1>2. CutHello' = CutHello /\ SegmentStart' = SegmentStart /\ OnlyDNS' = OnlyDNS
  BY <1>1, SameBytes, SameHeaders DEF OnlyDNS, OnDNSPort
<1>3. pc \in OnPayload /\ pc' \in OnPayload \cup {"done"} /\ pc # "done"
  BY ExtractStepStays DEF StaysInside, OnPayload, Extractors
<1>4. Protocols'
  BY <1>3 DEF Protocols, OnPayload, Extractors
<1>5. ~found
  BY <1>3 DEF NameInv, Quiet
<1>6. HelloOnly'
  <2> SUFFICES ASSUME CutHello
               PROVE  pc' = "try" /\ ~found'
    <3>1. CutHello => todo \in {<<>>, <<"tls">>} /\ base = SegmentStart
      BY <1>3 DEF NameInv, HelloOnly
    <3> QED
      BY <1>1, <1>2, <3>1 DEF HelloOnly
  <2>1. pc \in {"try", "tls"} /\ base = SegmentStart
    BY <1>3 DEF NameInv, HelloOnly
  <2>2. ~isTLSClientHello
    BY <1>3, <2>1, CutIsNoHello
  <2>3. ReadHello
    BY <1>1, <2>1 DEF TLSStep, HTTPStep, SkipSession, SkipCiphers, SkipCompression, SkipField,
         ReadExtensions, NextExtension, ServerName, ReadRequest, Scan, SkipBlank, ReadValue,
         ReadQuery, ReadLabel
  <2> QED
    BY <1>5, <2>2, <2>3 DEF ReadHello, GiveUp
<1>7. CASE TLSStep \/ HTTPStep
  <2>1. /\ pc \in OtherSteps
        /\ \/ UNCHANGED <<name, found>> /\ pc' \in OnPayload \ {"label", "dns", "tls", "http"}
           \/ found' = TRUE /\ pc' = "done"
    BY <1>7, OtherExtract
  <2>2. Quiet'
    <3>1. name = <<>>
      BY <1>3, <2>1 DEF NameInv, Quiet, OtherSteps
    <3>2. CASE UNCHANGED <<name, found>> /\ pc' # "label"
      BY <1>5, <3>1, <3>2 DEF Quiet
    <3>3. CASE found' = TRUE /\ pc' = "done"
      BY <3>3 DEF Quiet
    <3> QED
      BY <2>1, <3>2, <3>3
  <2>3. ~OnlyDNS
    BY <1>3, <2>1 DEF NameInv, QuestionOnly, OtherSteps
  <2>4. QuestionOnly'
    BY <1>2, <2>3 DEF QuestionOnly
  <2> QED
    BY <1>4, <1>6, <2>2, <2>4 DEF NameInv
<1>8. CASE ReadQuery
  <2>1. /\ pc = "dns" /\ UNCHANGED <<name, found>>
        /\ \/ pc' = "try"
           \/ pc' = "label" /\ offset' = 12
    BY <1>8 DEF ReadQuery, GoTo, GiveUp
  <2>2. name = <<>>
    BY <2>1 DEF NameInv, Quiet
  <2>3. Quiet'
    BY <1>5, <2>1, <2>2 DEF Quiet
  <2>4. OnlyDNS => todo \in {<<>>, <<"dns">>}
    BY <1>3 DEF NameInv, QuestionOnly
  <2>5. QuestionOnly'
    BY <1>1, <1>2, <1>5, <2>1, <2>2, <2>4 DEF QuestionOnly
  <2> QED
    BY <1>4, <1>6, <2>3, <2>5 DEF NameInv
<1>9. CASE ReadLabel
  <2>1. OnlyDNS => todo \in {<<>>, <<"dns">>}
    BY <1>3 DEF NameInv, QuestionOnly
  <2>2. QuestionOnly'
    BY <1>1, <1>2, <1>9, <2>1, LabelNames DEF QuestionOnly, OnPayload, Extractors
  <2>3. Quiet'
    BY <1>9, LabelNames
  <2> QED
    BY <1>4, <1>6, <2>2, <2>3 DEF NameInv
<1> QED
  BY <1>1, <1>7, <1>8, <1>9

LEMMA NamesHold == IInv /\ NameInv /\ [Next]_inspectionVars => NameInv'
<1> SUFFICES ASSUME IInv, NameInv, [Next]_inspectionVars PROVE NameInv'
  OBVIOUS
<1>1. CASE NextFrame
  <2>1. pc = "idle" /\ pc' = "ethernet" /\ UNCHANGED <<found, name>>
    BY <1>1 DEF NextFrame, Begin
  <2>2. Protocols'
    BY <2>1 DEF Protocols
  <2> QED
    BY <2>1, <2>2, ParserNames DEF OnPayload, Extractors
<1>2. CASE Finish
  BY <1>2 DEF Finish, NameInv, Quiet, Protocols, HelloOnly, QuestionOnly, OnPayload, Extractors
<1>3. CASE Inspect
  BY <1>3, ParseNames, PayloadNames, TryNames, ExtractNames DEF Inspect
<1>4. CASE UNCHANGED inspectionVars
  <2>1. UNCHANGED <<frame, pc, offset, parsed, base, length, name, found, todo>>
    BY <1>4 DEF inspectionVars
  <2>2. /\ CutHello' = CutHello /\ SegmentStart' = SegmentStart /\ OnlyDNS' = OnlyDNS
        /\ WholeLabels' = WholeLabels /\ Transport' = Transport
        /\ Byte(23)' = Byte(23) /\ \A i : readUint16BE(i)' = readUint16BE(i)
    BY <2>1, SameBytes, SameHeaders DEF OnlyDNS, OnDNSPort, WholeLabels, At, Byte
  <2> QED
    BY <2>1, <2>2 DEF NameInv, Quiet, Protocols, HelloOnly, QuestionOnly
<1> QED
  BY <1>1, <1>2, <1>3, <1>4 DEF Next

LEMMA NamesInductive == Spec => []NameInv
<1>1. Init => NameInv
  BY DEF Init, NameInv, Quiet, Protocols, HelloOnly, QuestionOnly, OnPayload, Extractors
<1>2. IInv /\ NameInv /\ [Next]_inspectionVars => NameInv'
  BY NamesHold
<1> QED
  BY <1>1, <1>2, Inductive, PTL DEF Spec

(* A Client Hello of which a part is missing yields no name, whatever its  *)
(* lengths say (isTLSClientHello() compares the length of the record).     *)
THEOREM CutHellosAreSilent == Spec => []CutHelloHasNoName
<1>1. NameInv => CutHelloHasNoName
  BY DEF NameInv, HelloOnly, CutHelloHasNoName
<1> QED
  BY <1>1, NamesInductive, PTL

(* A name from a DNS question is made of whole labels of it, from the      *)
(* first one on (extractQuery()).                                          *)
THEOREM LabelsStayWhole == Spec => []LabelsAreWhole
<1>1. NameInv => LabelsAreWhole
  BY DEF NameInv, QuestionOnly, LabelsAreWhole
<1> QED
  BY <1>1, NamesInductive, PTL

-----------------------------------------------------------------------------
(* Where the engine is in a well-formed request, at each step.             *)
ThroughHeaders(r) ==
    /\ pc # "skip"
    /\ pc \in {"tcp", "udp"} => parsed.has_ip /\ pc = IF r.kind = "dns" THEN "udp" ELSE "tcp"
    /\ pc = "parsed" =>
          /\ parsed.has_ip
          /\ parsed.has_tcp <=> r.kind # "dns"
          /\ parsed.has_udp <=> r.kind = "dns"
          /\ parsed.src_port = ShortIn(r.frame, r.transport)
          /\ parsed.dest_port = ShortIn(r.frame, r.transport + 2)

ToExtractor(r) ==
    /\ pc \in OnPayload => base = r.payload
    /\ pc = "try" => todo # <<>> /\ Head(todo) = r.kind
    /\ pc \in Extractors => pc = r.kind
    /\ pc = "done" => found /\ name = r.name

HelloSteps == {"session", "ciphers", "compression", "extensions", "extension", "server_name"}

AlongHello(r) ==
    /\ pc \in HelloSteps => r.kind = "tls"
    /\ pc = "session" => offset = 43
    /\ pc = "ciphers" => offset = r.ciphers
    /\ pc = "compression" => offset = r.compression
    /\ pc = "extensions" => offset = r.extensions
    /\ pc = "extension" => /\ ext_end = EntriesEnd(r)
                           /\ \E k \in 1..Len(r.entries) : offset = r.entries[k]
    /\ pc = "server_name" => /\ offset = r.entries[Len(r.entries)] + 4
                             /\ ext_len = BodyLength(r, Len(r.entries))

RequestSteps == {"scan", "blanks", "value"}

AlongRequest(r) ==
    /\ pc \in RequestSteps => r.kind = "http"
    /\ pc = "scan" => offset <= r.host
    /\ pc = "blanks" => r.host + 5 <= offset /\ offset <= r.value
    /\ pc = "value" => start = r.value /\ r.value <= offset /\ offset <= r.end

AlongQuestion(r) ==
    pc = "label" =>
        /\ r.kind = "dns"
        /\ \E k \in 1..Len(r.labels) :
              /\ offset = r.labels[k]
              /\ name = IF k = 1 THEN <<>> ELSE SubSeq(r.name, 1, r.labels[k] - 13)

Along(r) == ThroughHeaders(r) /\ ToExtractor(r) /\ AlongHello(r) /\ AlongRequest(r)
            /\ AlongQuestion(r)

WalkInv == \A r \in Requests : frame = r.frame => Along(r)

-----------------------------------------------------------------------------
(* The octets of a request, as the code reads them. *)
LEMMA Here == ASSUME NEW r, frame = r.frame
              PROVE  \A i : Byte(i) = OctetIn(r.frame, i) /\ readUint16BE(i) = ShortIn(r.frame, i)
BY DEF Byte, readUint16BE, OctetIn, ShortIn

LEMMA There == ASSUME NEW r, frame = r.frame, base = r.payload
               PROVE  \A i : At(i) = Oct(r, i) /\ At16(i) = Oct16(r, i)
BY Here DEF At, At16, Oct, Oct16

LEMMA OctType == ASSUME NEW f \in Seq(Octet), NEW i \in Int
                 PROVE OctetIn(f, i) \in Octet /\ ShortIn(f, i) \in Nat
<1>1. \A j \in Int : OctetIn(f, j) \in Octet
  <2> TAKE j \in Int
  <2>1. CASE j \in 0..(Len(f) - 1)
    <3>1. j + 1 \in 1..Len(f)
      BY <2>1, LenProperties
    <3> QED
      BY <2>1, <3>1, ElementOfSeq DEF OctetIn
  <2>2. CASE j \notin 0..(Len(f) - 1)
    BY <2>2 DEF OctetIn, Octet
  <2> QED
    BY <2>1, <2>2
<1>2. i + 1 \in Int
  OBVIOUS
<1>3. \A x, y \in Octet : x * 256 + y \in Nat
  BY SMT DEF Octet
<1> QED
  BY <1>1, <1>2, <1>3, Zenon DEF ShortIn

LEMMA Kinds ==
    ASSUME NEW r \in Requests
    PROVE  /\ r.frame \in Seq(Octet) /\ r.name \in Seq(Octet) /\ r.name # <<>>
           /\ r.transport \in Nat /\ r.payload \in Nat
           /\ r.kind \in Extractors
           /\ r.kind = "tls" => IsClientHello(r)
           /\ r.kind = "http" => IsRequest(r) /\ [i \in 1..4 |-> Oct(r, i - 1)] \in Methods
           /\ r.kind = "dns" => IsQuestion(r)
<1>1. IsWellFormed(r) /\ (r.kind = "http" => [i \in 1..4 |-> Oct(r, i - 1)] \in Methods)
  BY RequestsAssumption
<1>2. /\ r.frame \in Seq(Octet) /\ r.name \in Seq(Octet) /\ r.name # <<>>
      /\ r.transport \in Nat /\ r.payload \in Nat
  BY <1>1 DEF IsWellFormed, Octet
<1>3. \/ r.kind = "tls" /\ IsClientHello(r)
      \/ r.kind = "http" /\ IsRequest(r)
      \/ r.kind = "dns" /\ IsQuestion(r)
  BY <1>1, Zenon DEF IsWellFormed
<1> QED
  BY <1>1, <1>2, <1>3 DEF Extractors

LEMMA RequestOctets ==
    ASSUME NEW r \in Requests, NEW i \in Nat
    PROVE  Oct(r, i) \in Octet /\ Oct(r, i) \in Nat /\ Oct16(r, i) \in Nat
<1>1. r.frame \in Seq(Octet) /\ r.payload \in Nat
  BY Kinds
<1>2. r.payload + i \in Int
  BY <1>1
<1>3. \A o \in Octet : o \in Nat
  BY DEF Octet
<1> QED
  BY <1>1, <1>2, <1>3, OctType DEF Oct, Oct16

(* The headers of a request, and a payload the engines do not take for     *)
(* one that is too short.                                                  *)
LEMMA RequestHeaders ==
    ASSUME NEW r \in Requests
    PROVE  /\ r.frame \in Seq(Octet) /\ Len(r.frame) \in Nat
           /\ r.transport \in Nat /\ r.payload \in Nat /\ 34 <= r.transport
           /\ r.kind \in Extractors
           /\ InIPv4(r, IF r.kind = "dns" THEN UDP ELSE TCP)
           /\ r.kind = "dns" => r.payload = r.transport + 8
           /\ r.kind # "dns" =>
                 /\ OctetIn(r.frame, r.transport + 12) \in Octet
                 /\ OctetIn(r.frame, r.transport + 12) \div 16 >= 5
                 /\ r.payload = r.transport + (OctetIn(r.frame, r.transport + 12) \div 16) * 4
                 /\ r.transport + 20 <= r.payload
           /\ r.payload <= Len(r.frame)
<1>1. /\ r.frame \in Seq(Octet) /\ r.transport \in Nat /\ r.payload \in Nat
      /\ r.kind \in Extractors
  BY Kinds
<1>2. /\ r.kind = "dns" => InUDP(r)
      /\ r.kind # "dns" => \E port \in {80, 443} : InTCP(r, port)
  <2>1. ASSUME r.kind = "dns" PROVE InUDP(r)
    <3>1. IsQuestion(r)
      BY <2>1, Kinds
    <3> QED
      BY <3>1, Zenon DEF IsQuestion
  <2>2. r.kind = "tls" => InTCP(r, 443)
    BY Kinds DEF IsClientHello
  <2>3. r.kind = "http" => InTCP(r, 80)
    BY Kinds DEF IsRequest
  <2> QED
    BY <1>1, <2>1, <2>2, <2>3 DEF Extractors
<1>3. InIPv4(r, IF r.kind = "dns" THEN UDP ELSE TCP)
  BY <1>2 DEF InUDP, InTCP, UDP, TCP
<1>4. Len(r.frame) \in Nat
  BY <1>1, LenProperties
<1>5. 34 <= r.transport /\ r.payload <= Len(r.frame)
  <2>1. PICK w : w = OctetIn(r.frame, 14) % 16
    OBVIOUS
  <2>2. OctetIn(r.frame, 14) \in Octet
    BY <1>1, OctType
  <2>3. \A o \in Octet : o % 16 \in Nat
    BY SMT DEF Octet
  <2>4. w \in Nat /\ w >= 5 /\ r.transport = 14 + w * 4
    BY <1>3, <2>1, <2>2, <2>3 DEF InIPv4
  <2> QED
    BY <1>3, <2>4 DEF InIPv4
<1>6. ASSUME r.kind # "dns"
      PROVE  /\ OctetIn(r.frame, r.transport + 12) \in Octet
             /\ OctetIn(r.frame, r.transport + 12) \div 16 >= 5
             /\ r.payload = r.transport + (OctetIn(r.frame, r.transport + 12) \div 16) * 4
             /\ r.transport + 20 <= r.payload
  <2>1. r.transport + 12 \in Int
    BY <1>1
  <2>2. OctetIn(r.frame, r.transport + 12) \in Octet
    BY <1>1, <2>1, OctType
  <2>3. PICK w : w = OctetIn(r.frame, r.transport + 12) \div 16
    OBVIOUS
  <2>4. \A o \in Octet : o \div 16 \in Nat
    BY SMT DEF Octet
  <2>5. w \in Nat /\ w >= 5 /\ r.payload = r.transport + w * 4
    BY <1>2, <1>6, <2>2, <2>3, <2>4 DEF InTCP
  <2>6. r.transport + 20 <= r.payload
    BY <1>1, <2>5
  <2> QED
    BY <2>2, <2>3, <2>5, <2>6
<1>7. r.kind = "dns" => r.payload = r.transport + 8
  BY <1>2 DEF InUDP
<1> QED
  BY <1>1, <1>3, <1>4, <1>5, <1>6, <1>7

(* The places of a Client Hello lie in its payload, in their order. *)
LEMMA HelloPlaces ==
    ASSUME NEW r \in Requests, r.kind = "tls"
    PROVE  /\ IsClientHello(r) /\ r.ciphers \in Nat /\ r.compression \in Nat /\ r.extensions \in Nat
           /\ 44 <= r.ciphers /\ r.ciphers + 2 <= r.compression
           /\ r.compression + 1 <= r.extensions /\ r.extensions + 2 <= EntriesEnd(r)
           /\ EntriesEnd(r) \in Nat /\ EntriesEnd(r) <= PayloadSize(r) /\ PayloadSize(r) \in Nat
<1>1. IsClientHello(r)
  BY Kinds
<1>2. /\ r.ciphers = 44 + Oct(r, 43)
      /\ r.compression = r.ciphers + 2 + Oct16(r, r.ciphers)
      /\ r.extensions = r.compression + 1 + Oct(r, r.compression)
      /\ EntriesEnd(r) <= PayloadSize(r)
  BY <1>1 DEF IsClientHello, HelloFields
<1>3. Oct(r, 43) \in Nat
  BY RequestOctets
<1>4. r.ciphers \in Nat /\ 44 <= r.ciphers
  BY <1>2, <1>3
<1>5. Oct16(r, r.ciphers) \in Nat
  BY <1>4, RequestOctets
<1>6. r.compression \in Nat /\ r.ciphers + 2 <= r.compression
  BY <1>2, <1>4, <1>5
<1>7. Oct(r, r.compression) \in Nat
  BY <1>6, RequestOctets
<1>8. r.extensions \in Nat /\ r.compression + 1 <= r.extensions
  BY <1>2, <1>6, <1>7
<1>9. Oct16(r, r.extensions) \in Nat
  BY <1>8, RequestOctets
<1>10. EntriesEnd(r) \in Nat /\ r.extensions + 2 <= EntriesEnd(r)
  BY <1>8, <1>9 DEF EntriesEnd
<1>11. PayloadSize(r) \in Int
  BY RequestHeaders DEF PayloadSize
<1> QED
  BY <1>1, <1>2, <1>4, <1>6, <1>8, <1>10, <1>11

(* None is too short for the engines to look at. *)
LEMMA RequestSize == ASSUME NEW r \in Requests
                     PROVE  /\ PayloadSize(r) \in Nat /\ PayloadSize(r) > 10
                            /\ r.kind = "dns" => PayloadSize(r) >= 12
<1>1. r.kind \in Extractors /\ PayloadSize(r) \in Int
  BY RequestHeaders DEF PayloadSize
<1>2. CASE r.kind = "tls"
  BY <1>2, HelloPlaces
<1>3. CASE r.kind = "http"
  <2>1. /\ r.host \in Nat /\ r.value \in Nat /\ r.colon \in Nat /\ r.end \in Nat
        /\ 4 < r.host /\ r.host + 5 <= r.value /\ r.value < r.colon /\ r.colon <= r.end
        /\ r.end + 2 <= PayloadSize(r)
    BY <1>3, Kinds DEF IsRequest
  <2> QED
    BY <1>1, <2>1
<1>4. CASE r.kind = "dns"
  <2>1. /\ r.labels \in Seq(Nat) /\ Len(r.labels) > 1 /\ r.labels[1] = 12
        /\ \A k \in 1..(Len(r.labels) - 1) : r.labels[k + 1] <= r.labels[Len(r.labels)]
        /\ r.labels[1 + 1] = r.labels[1] + 1 + Oct(r, r.labels[1])
        /\ r.labels[Len(r.labels)] + 5 <= PayloadSize(r)
    <3>1. Labels(r)
      <4>1. IsQuestion(r)
        BY <1>4, Kinds
      <4> QED
        BY <4>1, Zenon DEF IsQuestion
    <3>2. Len(r.labels) \in Nat /\ Len(r.labels) > 1
      BY <3>1, LenProperties DEF Labels
    <3>3. 1 \in 1..(Len(r.labels) - 1)
      BY <3>2
    <3> QED
      BY <3>1, <3>3 DEF Labels
  <2>2. Oct(r, 12) \in Nat
    BY RequestOctets
  <2>3. Len(r.labels) \in Nat
    BY <2>1, LenProperties
  <2>4. 2 \in 1..Len(r.labels) /\ 1 \in 1..(Len(r.labels) - 1)
    BY <2>1, <2>3
  <2>5. r.labels[2] <= r.labels[Len(r.labels)] /\ r.labels[2] = 13 + Oct(r, 12)
    BY <2>1, <2>2, <2>4
  <2>6. r.labels[Len(r.labels)] \in Nat
    BY <2>1, <2>3, <2>4, ElementOfSeq
  <2> QED
    BY <1>1, <2>1, <2>2, <2>5, <2>6
<1>5. r.kind = "tls" \/ r.kind = "http" \/ r.kind = "dns"
  BY <1>1, Zenon DEF Extractors
<1> QED
  BY <1>2, <1>3, <1>4, <1>5

-----------------------------------------------------------------------------
(* The parser accepts a request and keeps its ports. *)
LEMMA OnlyHeaders == ASSUME NEW r, pc' \notin OnPayload \cup {"done"}, ThroughHeaders(r)'
                     PROVE  Along(r)'
BY DEF Along, ToExtractor, AlongHello, AlongRequest, AlongQuestion, OnPayload, Extractors,
       HelloSteps, RequestSteps

LEMMA EthernetAlong ==
    ASSUME IInv, NEW r \in Requests, frame = r.frame, ParseEthernet
    PROVE  pc' = "ipv4"
<1>1. /\ Len(frame) \in Nat /\ Len(frame) >= 34 /\ frame \in Seq(Octet)
      /\ ShortIn(r.frame, 12) = IPv4
  <2>1. /\ r.frame \in Seq(Octet) /\ Len(r.frame) \in Nat
        /\ InIPv4(r, IF r.kind = "dns" THEN UDP ELSE TCP)
    BY RequestHeaders
  <2>2. ShortIn(r.frame, 12) = IPv4
    BY ONLY <2>1 DEF InIPv4, IPv4
  <2>3. PICK t \in Nat, p \in Nat, n \in Nat :
            /\ n = Len(r.frame) /\ 34 <= t /\ p <= n
            /\ p = t + 8 \/ t + 20 <= p
    BY RequestHeaders
  <2>4. n >= 34
    BY ONLY <2>3, t \in Nat, p \in Nat, n \in Nat
  <2> QED
    BY <2>1, <2>2, <2>3, <2>4
<1>2. netToHost16(12) = IPv4
  BY <1>1, PortRead, Here
<1>3. Len(frame) >= ETH_LEN
  BY <1>1 DEF ETH_LEN
<1> QED
  BY <1>1, <1>2, <1>3 DEF ParseEthernet, ETH_LEN

LEMMA IPv4Along ==
    ASSUME IInv, NEW r \in Requests, frame = r.frame, ParseIPv4
    PROVE  parsed'.has_ip /\ pc' = IF r.kind = "dns" THEN "udp" ELSE "tcp"
<1>1. /\ pc = "ipv4" /\ offset = 14 /\ parsed \in ParsedPackets /\ Len(frame) \in Nat
  BY RequestHeaders DEF ParseIPv4, IInv, Headers, Types
<1>2. /\ InIPv4(r, IF r.kind = "dns" THEN UDP ELSE TCP)
      /\ r.transport \in Nat /\ r.payload \in Nat /\ 34 <= r.transport /\ r.payload <= Len(frame)
      /\ r.transport <= r.payload
  <2>1. /\ r.transport \in Nat /\ r.payload \in Nat
        /\ r.kind = "dns" => r.payload = r.transport + 8
        /\ r.kind # "dns" => r.transport + 20 <= r.payload
    BY RequestHeaders
  <2>2. r.transport <= r.payload
    BY <2>1
  <2> QED
    BY <2>1, <2>2, RequestHeaders
<1>3. PICK n : n = (Byte(14) % 16) * 4
  OBVIOUS
<1>4. Byte(14) \div 16 = 4 /\ r.transport = 14 + n
  BY <1>2, <1>3, Here DEF InIPv4
<1>5. Byte(23) = IF r.kind = "dns" THEN UDP ELSE TCP
  BY <1>2, Here DEF InIPv4
<1>6. n \in Nat
  <2>1. Byte(14) \in Octet
    BY ByteType DEF IInv, Types
  <2> QED
    BY <1>3, <2>1, WordsType
<1>7. IPHeaderFits(14, n) /\ Len(frame) >= 14 + MIN_IP_LEN
  BY <1>1, <1>2, <1>4, <1>6 DEF IPHeaderFits, MIN_IP_LEN
<1>8. 14 + 9 = 23
  OBVIOUS
<1>9. /\ pc' = AfterIP(Byte(23))
      /\ parsed' = [parsed EXCEPT !.has_ip = TRUE, !.protocol = Byte(23),
                          !.src_ip = Bytes(14 + 12, 4), !.dest_ip = Bytes(14 + 16, 4)]
  <2>1. ~(Len(frame) < 14 + MIN_IP_LEN)
    BY <1>1, <1>7 DEF MIN_IP_LEN
  <2> QED
    BY <1>1, <1>3, <1>4, <1>7, <1>8, <2>1 DEF ParseIPv4
<1>10. parsed'.has_ip
  BY <1>1, <1>9 DEF ParsedPackets
<1> QED
  BY <1>5, <1>9, <1>10 DEF AfterIP, TCP, UDP

LEMMA TransportAlong ==
    ASSUME IInv, NEW r \in Requests, frame = r.frame, pc \in {"tcp", "udp"}
    PROVE  /\ offset = r.transport /\ parsed \in ParsedPackets
           /\ ~parsed.has_tcp /\ ~parsed.has_udp
           /\ netToHost16(offset) = ShortIn(r.frame, r.transport)
           /\ netToHost16(offset + 2) = ShortIn(r.frame, r.transport + 2)
<1>1. /\ offset = Transport /\ parsed \in ParsedPackets /\ frame \in Seq(Octet)
      /\ ~parsed.has_tcp /\ ~parsed.has_udp
  BY DEF IInv, Headers, Types
<1>2. Transport = r.transport
  BY RequestHeaders, Here DEF Transport, InIPv4
<1>3. r.transport \in Int /\ r.transport + 2 \in Int
  BY RequestHeaders
<1> QED
  BY <1>1, <1>2, <1>3, PortRead, Here

LEMMA TCPAlong ==
    ASSUME IInv, NEW r \in Requests, frame = r.frame, ThroughHeaders(r), ParseTCP
    PROVE  ThroughHeaders(r)' /\ pc' = "parsed"
<1>1. pc = "tcp" /\ r.kind # "dns" /\ parsed.has_ip
  BY DEF ParseTCP, ThroughHeaders
<1>2. /\ offset = r.transport /\ parsed \in ParsedPackets
      /\ ~parsed.has_tcp /\ ~parsed.has_udp
      /\ netToHost16(offset) = ShortIn(r.frame, r.transport)
      /\ netToHost16(offset + 2) = ShortIn(r.frame, r.transport + 2)
  BY <1>1, TransportAlong
<1>3. PICK n : n = (Byte(offset + 12) \div 16) * 4
  OBVIOUS
<1>4. /\ r.transport \in Nat /\ r.payload \in Nat /\ r.payload <= Len(frame)
      /\ r.payload = r.transport + n /\ r.transport + 20 <= r.payload /\ Len(frame) \in Nat
  BY <1>1, <1>2, <1>3, RequestHeaders, Here
<1>5. n \in Int
  <2>1. Byte(offset + 12) \in Octet
    <3>1. offset + 12 \in Int
      BY <1>2, <1>4
    <3> QED
      BY <3>1, ByteType DEF IInv, Types
  <2> QED
    BY <1>3, <2>1, WordsType
<1>6. n >= MIN_TCP_LEN /\ Len(frame) >= offset + n /\ ~(Len(frame) < offset + MIN_TCP_LEN)
  BY <1>2, <1>4, <1>5 DEF MIN_TCP_LEN
<1>7. /\ pc' = "parsed"
      /\ parsed' = [parsed EXCEPT !.src_port = netToHost16(offset),
                        !.dest_port = netToHost16(offset + 2),
                        !.tcp_flags = Byte(offset + 13), !.has_tcp = TRUE]
  BY <1>3, <1>6 DEF ParseTCP
<1>8. /\ parsed'.has_ip /\ parsed'.has_tcp /\ ~parsed'.has_udp
      /\ parsed'.src_port = netToHost16(offset) /\ parsed'.dest_port = netToHost16(offset + 2)
  BY <1>1, <1>2, <1>7 DEF ParsedPackets
<1> QED
  BY <1>1, <1>2, <1>7, <1>8 DEF ThroughHeaders

LEMMA UDPAlong ==
    ASSUME IInv, NEW r \in Requests, frame = r.frame, ThroughHeaders(r), ParseUDP
    PROVE  ThroughHeaders(r)' /\ pc' = "parsed"
<1>1. pc = "udp" /\ r.kind = "dns" /\ parsed.has_ip
  BY DEF ParseUDP, ThroughHeaders
<1>2. /\ offset = r.transport /\ parsed \in ParsedPackets
      /\ ~parsed.has_tcp /\ ~parsed.has_udp
      /\ netToHost16(offset) = ShortIn(r.frame, r.transport)
      /\ netToHost16(offset + 2) = ShortIn(r.frame, r.transport + 2)
  BY <1>1, TransportAlong
<1>3. /\ r.transport \in Nat /\ r.payload = r.transport + 8 /\ r.payload <= Len(frame)
      /\ Len(frame) \in Nat
  BY <1>1, RequestHeaders
<1>4. ~(Len(frame) < offset + UDP_LEN)
  BY <1>2, <1>3 DEF UDP_LEN
<1>5. /\ pc' = "parsed"
      /\ parsed' = [parsed EXCEPT !.src_port = netToHost16(offset),
                        !.dest_port = netToHost16(offset + 2), !.has_udp = TRUE]
  BY <1>4 DEF ParseUDP
<1>6. /\ parsed'.has_ip /\ ~parsed'.has_tcp /\ parsed'.has_udp
      /\ parsed'.src_port = netToHost16(offset) /\ parsed'.dest_port = netToHost16(offset + 2)
  BY <1>1, <1>2, <1>5 DEF ParsedPackets
<1> QED
  BY <1>1, <1>2, <1>5, <1>6 DEF ThroughHeaders

LEMMA ParseAlong ==
    ASSUME IInv, NEW r \in Requests, frame = r.frame, Along(r), ParseStep
    PROVE  Along(r)'
<1>1. ThroughHeaders(r)
  BY DEF Along
<1>2. pc' \in {"ipv4", "tcp", "udp", "parsed", "skip"}
  BY DEF ParseStep, Parse, ParseEthernet, ParseIPv4, ParseTCP, ParseUDP, Reject, AfterIP
<1>3. pc' \notin OnPayload \cup {"done"}
  BY <1>2 DEF OnPayload, Extractors
<1>4. ThroughHeaders(r)'
  <2>1. CASE ParseEthernet
    BY <2>1, EthernetAlong DEF ThroughHeaders
  <2>2. CASE ParseIPv4
    BY <2>2, IPv4Along DEF ThroughHeaders
  <2> QED
    BY <1>1, <2>1, <2>2, TCPAlong, UDPAlong DEF ParseStep, Parse
<1> QED
  BY <1>3, <1>4, OnlyHeaders

-----------------------------------------------------------------------------
(* The extractor for a request is the first to be tried. *)
LEMMA FirstTried ==
    ASSUME NEW e \in Extractors, NEW t \in Seq(Extractors)
    PROVE  <<e>> \o t # <<>> /\ Head(<<e>> \o t) = e
<1>1. <<e>> \in Seq(Extractors) /\ Len(<<e>>) = 1 /\ <<e>>[1] = e
  OBVIOUS
<1>2. /\ <<e>> \o t \in Seq(Extractors) /\ Len(<<e>> \o t) = 1 + Len(t)
      /\ (<<e>> \o t)[1] = e /\ Len(t) \in Nat
  BY <1>1, ConcatProperties, LenProperties
<1> QED
  BY <1>2

LEMMA RequestTries ==
    ASSUME NEW r \in Requests, NEW n \in Nat, n > 10,
           parsed.has_tcp <=> r.kind # "dns", parsed.has_udp <=> r.kind = "dns",
           parsed.src_port = ShortIn(r.frame, r.transport),
           parsed.dest_port = ShortIn(r.frame, r.transport + 2)
    PROVE  /\ FastPathTries(n) # <<>> /\ Head(FastPathTries(n)) = r.kind
           /\ SimpleTries(n) # <<>> /\ Head(SimpleTries(n)) = r.kind
<1>1. n > 5 /\ n > 0
  OBVIOUS
<1>2. /\ <<>> \o <<>> = <<>> /\ <<>> \o <<"dns">> = <<"dns">>
      /\ <<"tls">> \o <<>> = <<"tls">> /\ <<>> \o <<"http">> = <<"http">>
      /\ <<"http">> \o <<>> = <<"http">> /\ <<"dns">> \o <<>> = <<"dns">>
  OBVIOUS
<1>3. /\ <<>> \in Seq(Extractors) /\ <<"dns">> \in Seq(Extractors)
      /\ {"tls", "http", "dns"} \subseteq Extractors
  BY DEF Extractors
<1>4. CASE r.kind = "tls"
  <2>1. parsed.dest_port = 443 /\ parsed.has_tcp
    BY <1>4, Kinds DEF IsClientHello, InTCP
  <2>2. PICK t \in Seq(Extractors) : FastPathTries(n) = <<"tls">> \o t
    <3>1. /\ If("tls", parsed.dest_port = 443 /\ n > 5) = <<"tls">>
          /\ If("http", parsed.dest_port = 80 /\ n > 10) = <<>>
          /\ If("dns", OnDNSPort /\ n > 0) \in {<<>>, <<"dns">>}
      BY <1>1, <2>1 DEF If
    <3>2. FastPathTries(n) = <<"tls">> \o If("dns", OnDNSPort /\ n > 0)
      BY ONLY <1>2, <3>1 DEF FastPathTries
    <3> QED
      BY <1>3, <3>1, <3>2
  <2>3. SimpleTries(n) = <<"tls">> \o <<>>
    <3>1. /\ If("tls", parsed.has_tcp /\ parsed.dest_port = 443 /\ n > 5) = <<"tls">>
          /\ If("http", parsed.has_tcp /\ parsed.dest_port = 80 /\ n > 10) = <<>>
          /\ If("dns", /\ ~(parsed.has_tcp /\ parsed.dest_port = 443 /\ n > 5)
                       /\ ~(parsed.has_tcp /\ parsed.dest_port = 80 /\ n > 10)
                       /\ parsed.has_udp /\ OnDNSPort) = <<>>
      BY <1>1, <2>1 DEF If
    <3> QED
      BY ONLY <1>2, <3>1 DEF SimpleTries
  <2> QED
    BY <1>3, <1>4, <2>2, <2>3, FirstTried
<1>5. CASE r.kind = "http"
  <2>1. parsed.dest_port = 80 /\ parsed.has_tcp
    BY <1>5, Kinds DEF IsRequest, InTCP
  <2>2. PICK t \in Seq(Extractors) : FastPathTries(n) = <<"http">> \o t
    <3>1. /\ If("tls", parsed.dest_port = 443 /\ n > 5) = <<>>
          /\ If("http", parsed.dest_port = 80 /\ n > 10) = <<"http">>
          /\ If("dns", OnDNSPort /\ n > 0) \in {<<>>, <<"dns">>}
      BY <1>1, <2>1 DEF If
    <3>2. FastPathTries(n) = <<"http">> \o If("dns", OnDNSPort /\ n > 0)
      BY ONLY <1>2, <3>1 DEF FastPathTries
    <3> QED
      BY <1>3, <3>1, <3>2
  <2>3. SimpleTries(n) = <<"http">> \o <<>>
    <3>1. /\ If("tls", parsed.has_tcp /\ parsed.dest_port = 443 /\ n > 5) = <<>>
          /\ If("http", parsed.has_tcp /\ parsed.dest_port = 80 /\ n > 10) = <<"http">>
          /\ If("dns", /\ ~(parsed.has_tcp /\ parsed.dest_port = 443 /\ n > 5)
                       /\ ~(parsed.has_tcp /\ parsed.dest_port = 80 /\ n > 10)
                       /\ parsed.has_udp /\ OnDNSPort) = <<>>
      BY <1>1, <2>1 DEF If
    <3> QED
      BY ONLY <1>2, <3>1 DEF SimpleTries
  <2> QED
    BY <1>3, <1>5, <2>2, <2>3, FirstTried
<1>6. CASE r.kind = "dns"
  <2>1. OnDNSPort /\ parsed.dest_port \notin {80, 443} /\ parsed.has_udp
    <3>1. IsQuestion(r)
      BY <1>6, Kinds
    <3>2. /\ 53 \in {ShortIn(r.frame, r.transport), ShortIn(r.frame, r.transport + 2)}
          /\ ShortIn(r.frame, r.transport + 2) \notin {80, 443}
      BY <3>1, Zenon DEF IsQuestion
    <3> QED
      BY <1>6, <3>2 DEF OnDNSPort
  <2>2. FastPathTries(n) = <<"dns">> \o <<>>
    BY <1>1, <1>2, <2>1 DEF FastPathTries, If
  <2>3. SimpleTries(n) = <<"dns">> \o <<>>
    BY <1>1, <1>2, <2>1 DEF SimpleTries, If
  <2> QED
    BY <1>3, <1>6, <2>2, <2>3, FirstTried
<1> QED
  BY <1>4, <1>5, <1>6, Kinds DEF Extractors

LEMMA PayloadAlong ==
    ASSUME IInv, NEW r \in Requests, frame = r.frame, Along(r), InspectPayload
    PROVE  Along(r)'
<1>1. /\ pc = "parsed" /\ parsed.has_ip
      /\ parsed.has_tcp <=> r.kind # "dns"
      /\ parsed.has_udp <=> r.kind = "dns"
      /\ parsed.src_port = ShortIn(r.frame, r.transport)
      /\ parsed.dest_port = ShortIn(r.frame, r.transport + 2)
  BY DEF InspectPayload, Along, ThroughHeaders
<1>2. HasPorts
  BY <1>1 DEF HasPorts
<1> DEFINE n == IF PayloadOffset < Len(frame) THEN Len(frame) - PayloadOffset ELSE 0
<1>3. /\ pc' = "try" /\ base' = PayloadOffset
      /\ todo' = IF engine = "mt" THEN FastPathTries(n) ELSE SimpleTries(n)
  BY <1>2 DEF InspectPayload
<1>4. PayloadOffset = r.payload
  <2>1. PayloadOffset = offset
    BY <1>1, <1>2, SamePayload DEF PayloadOffset, IInv
  <2>2. Transport = r.transport
    BY RequestHeaders, Here DEF Transport, InIPv4
  <2>3. CASE parsed.has_tcp
    BY <1>1, <2>1, <2>2, <2>3, RequestHeaders, Here DEF IInv, Headers, SegmentStart
  <2>4. CASE parsed.has_udp
    BY <1>1, <2>1, <2>2, <2>4, RequestHeaders DEF IInv, Headers
  <2> QED
    BY <1>1, <2>3, <2>4
<1>5. n = PayloadSize(r) /\ n \in Nat /\ n > 10
  <2>1. /\ PayloadSize(r) \in Nat /\ PayloadSize(r) > 10 /\ PayloadSize(r) = Len(frame) - r.payload
        /\ Len(frame) \in Nat /\ r.payload \in Nat
    BY RequestSize, RequestHeaders DEF PayloadSize
  <2>2. r.payload < Len(frame)
    BY <2>1
  <2> QED
    BY <1>4, <2>1, <2>2
<1> HIDE DEF n
<1>6. todo' # <<>> /\ Head(todo') = r.kind
  BY <1>1, <1>3, <1>5, RequestTries
<1> QED
  BY <1>3, <1>4, <1>6 DEF Along, ThroughHeaders, ToExtractor, AlongHello, AlongRequest,
       AlongQuestion, OnPayload, Extractors, HelloSteps, RequestSteps

LEMMA TryAlong ==
    ASSUME IInv, NEW r \in Requests, frame = r.frame, Along(r), TryExtractor
    PROVE  Along(r)'
<1>1. pc = "try" /\ todo # <<>> /\ Head(todo) = r.kind /\ base = r.payload
  BY DEF TryExtractor, Along, ToExtractor, OnPayload
<1>2. pc' = r.kind /\ base' = base
  BY <1>1 DEF TryExtractor
<1>3. r.kind \in {"tls", "http", "dns"}
  BY Kinds DEF Extractors
<1> QED
  BY <1>1, <1>2, <1>3 DEF Along, ThroughHeaders, ToExtractor, AlongHello, AlongRequest,
       AlongQuestion, OnPayload, Extractors, HelloSteps, RequestSteps

-----------------------------------------------------------------------------
(* What an extractor is told of a request. *)
LEMMA InPayload ==
    ASSUME IInv, NEW r \in Requests, frame = r.frame, Along(r), pc \in OnPayload
    PROVE  /\ base = r.payload /\ length = PayloadSize(r) /\ length \in Nat /\ length > 10
           /\ \A i : At(i) = Oct(r, i) /\ At16(i) = Oct16(r, i)
<1>1. base = r.payload
  BY DEF Along, ToExtractor
<1>2. /\ base + length = Len(frame) /\ base \in Nat /\ length \in Nat /\ Len(frame) \in Nat
  BY RequestHeaders DEF IInv, Payload, Types
<1>3. length = PayloadSize(r)
  BY <1>1, <1>2 DEF PayloadSize
<1> QED
  BY <1>1, <1>2, <1>3, There, RequestSize

(* On to the next step of the walk. *)
LEMMA GoAlong ==
    ASSUME NEW r, UNCHANGED base, base = r.payload,
           pc' \in HelloSteps \cup RequestSteps \cup {"label"},
           AlongHello(r)', AlongRequest(r)', AlongQuestion(r)'
    PROVE  Along(r)'
BY DEF Along, ThroughHeaders, ToExtractor, OnPayload, Extractors, HelloSteps, RequestSteps

(* The end of it. *)
LEMMA ReturnAlong == ASSUME NEW r, Return(r.name) PROVE Along(r)'
BY DEF Return, Along, ThroughHeaders, ToExtractor, AlongHello, AlongRequest, AlongQuestion,
       OnPayload, Extractors, HelloSteps, RequestSteps

LEMMA HelloAlong ==
    ASSUME IInv, NEW r \in Requests, frame = r.frame, Along(r), UNCHANGED base,
           \/ ReadHello \/ SkipSession \/ SkipCiphers \/ SkipCompression \/ ReadExtensions
    PROVE  Along(r)'
<1>1. pc \in OnPayload /\ r.kind = "tls"
  <2>1. pc \in {"tls", "session", "ciphers", "compression", "extensions"}
    BY DEF ReadHello, SkipSession, SkipCiphers, SkipCompression, ReadExtensions, SkipField
  <2> QED
    BY <2>1 DEF Along, ToExtractor, AlongHello, OnPayload, Extractors, HelloSteps
<1>2. /\ base = r.payload /\ length = PayloadSize(r) /\ length \in Nat
      /\ \A i : At(i) = Oct(r, i) /\ At16(i) = Oct16(r, i)
  BY <1>1, InPayload
<1>3. /\ r.ciphers \in Nat /\ r.compression \in Nat /\ r.extensions \in Nat
      /\ 44 <= r.ciphers /\ r.ciphers + 2 <= r.compression
      /\ r.compression + 1 <= r.extensions /\ r.extensions + 2 <= EntriesEnd(r)
      /\ EntriesEnd(r) \in Nat /\ EntriesEnd(r) <= length
  BY <1>1, <1>2, HelloPlaces
<1>4. IsClientHello(r)
  BY <1>1, Kinds
<1>5. HelloFields(r) /\ Entries(r)
  BY <1>4 DEF IsClientHello
<1>6. CASE ReadHello
  <2>1. length >= 43 /\ isTLSClientHello
    <3>1. Oct16(r, 3) \in Nat /\ length >= 43
      BY <1>2, <1>3, RequestOctets
    <3>2. Oct16(r, 3) <= length - 5
      BY <1>2, <1>5, <3>1 DEF HelloFields
    <3> QED
      BY <1>2, <1>5, <3>1, <3>2 DEF HelloFields, isTLSClientHello
  <2>2. pc' = "session" /\ offset' = 43
    BY <1>2, <1>6, <2>1 DEF ReadHello, GoTo
  <2> QED
    BY <1>1, <1>2, <2>2, GoAlong DEF AlongHello, AlongRequest, AlongQuestion, HelloSteps, RequestSteps
<1>7. CASE SkipSession
  <2>1. offset = 43
    BY <1>7 DEF SkipSession, SkipField, Along, AlongHello
  <2>2. offset + 1 <= length /\ offset + 1 + At(offset) = r.ciphers
    <3>1. Oct(r, 43) \in Nat /\ r.ciphers = 44 + Oct(r, 43)
      BY <1>5, RequestOctets DEF HelloFields
    <3> QED
      BY <1>2, <1>3, <2>1, <3>1
  <2>3. r.ciphers <= length /\ ~(offset + 1 > length)
    BY <1>2, <1>3, <2>1, <2>2
  <2>4. pc' = "ciphers" /\ offset' = r.ciphers
    BY <1>7, <2>2, <2>3 DEF SkipSession, SkipField, GoTo
  <2> QED
    BY <1>1, <1>2, <2>4, GoAlong DEF AlongHello, AlongRequest, AlongQuestion, HelloSteps, RequestSteps
<1>8. CASE SkipCiphers
  <2>1. offset = r.ciphers
    BY <1>8 DEF SkipCiphers, SkipField, Along, AlongHello
  <2>2. offset + 2 + At16(offset) = r.compression
    BY <1>2, <1>5, <2>1 DEF HelloFields
  <2>3. r.compression <= length /\ ~(offset + 2 > length) /\ offset + 2 <= length
    BY <1>2, <1>3, <2>1
  <2>4. pc' = "compression" /\ offset' = r.compression
    BY <1>8, <2>2, <2>3 DEF SkipCiphers, SkipField, GoTo
  <2> QED
    BY <1>1, <1>2, <2>4, GoAlong DEF AlongHello, AlongRequest, AlongQuestion, HelloSteps, RequestSteps
<1>9. CASE SkipCompression
  <2>1. offset = r.compression
    BY <1>9 DEF SkipCompression, SkipField, Along, AlongHello
  <2>2. offset + 1 + At(offset) = r.extensions
    BY <1>2, <1>5, <2>1 DEF HelloFields
  <2>3. r.extensions <= length /\ ~(offset + 1 > length) /\ offset + 1 <= length
    BY <1>2, <1>3, <2>1
  <2>4. pc' = "extensions" /\ offset' = r.extensions
    BY <1>9, <2>2, <2>3 DEF SkipCompression, SkipField, GoTo
  <2> QED
    BY <1>1, <1>2, <2>4, GoAlong DEF AlongHello, AlongRequest, AlongQuestion, HelloSteps, RequestSteps
<1>10. CASE ReadExtensions
  <2>1. offset = r.extensions
    BY <1>10 DEF ReadExtensions, Along, AlongHello
  <2>2. offset + 2 + At16(offset) = EntriesEnd(r)
    BY <1>2, <2>1 DEF EntriesEnd
  <2>3. ~(offset + 2 > length)
    BY <1>2, <1>3, <2>1
  <2>4. pc' = "extension" /\ offset' = r.entries[1] /\ ext_end' = EntriesEnd(r)
    <3>1. r.entries[1] = offset + 2
      BY <1>5, <2>1 DEF Entries
    <3>2. ExtensionsEnd(EntriesEnd(r)) = EntriesEnd(r)
      BY <1>3 DEF ExtensionsEnd
    <3> QED
      BY <1>10, <2>2, <2>3, <3>1, <3>2 DEF ReadExtensions, GoTo
  <2>5. 1 \in 1..Len(r.entries)
    BY <1>5, LenProperties, EmptySeq DEF Entries
  <2> QED
    BY <1>1, <1>2, <2>4, <2>5, GoAlong DEF AlongHello, AlongRequest, AlongQuestion, HelloSteps, RequestSteps
<1> QED
  BY <1>6, <1>7, <1>8, <1>9, <1>10

(* The extensions up to the server name, one after the other. *)
LEMMA EntriesAlong ==
    ASSUME IInv, NEW r \in Requests, frame = r.frame, Along(r), UNCHANGED base, NextExtension
    PROVE  Along(r)'
<1>1. pc = "extension" /\ pc \in OnPayload /\ r.kind = "tls" /\ ext_end = EntriesEnd(r)
  BY DEF NextExtension, OnPayload, Along, AlongHello, HelloSteps
<1>2. /\ base = r.payload
      /\ \A i : At(i) = Oct(r, i) /\ At16(i) = Oct16(r, i)
  BY <1>1, InPayload
<1>3. PICK k \in 1..Len(r.entries) : offset = r.entries[k]
  BY <1>1 DEF Along, AlongHello
<1>4. Entries(r) /\ HostName(r) /\ Len(r.entries) \in Nat /\ r.entries \in Seq(Nat)
  <2>1. IsClientHello(r)
    BY <1>1, Kinds
  <2> QED
    BY <2>1, LenProperties DEF IsClientHello, Entries
<1>5. PICK len : len = BodyLength(r, k)
  OBVIOUS
<1>6. At16(offset + 2) = len /\ len \in Nat /\ offset \in Nat
  <2>1. r.entries[k] \in Nat /\ r.entries[k] + 2 \in Nat
    BY <1>3, <1>4, ElementOfSeq
  <2> QED
    BY <1>2, <1>3, <1>5, <2>1, RequestOctets DEF BodyLength
<1>7. EntriesEnd(r) \in Nat /\ offset + 4 + len <= EntriesEnd(r)
  BY <1>1, <1>3, <1>4, <1>5, HelloPlaces DEF Entries
<1>8. ~(offset + 4 > ext_end) /\ ~(offset + 4 + len > ext_end)
  BY <1>1, <1>6, <1>7
<1>9. CASE k # Len(r.entries)
  <2>1. k \in 1..(Len(r.entries) - 1) /\ k + 1 \in 1..Len(r.entries)
    BY <1>3, <1>4, <1>9
  <2>2. At16(offset) # 0 /\ r.entries[k + 1] = offset + 4 + len
    BY <1>2, <1>3, <1>4, <1>5, <2>1 DEF Entries
  <2>3. pc' = "extension" /\ offset' = r.entries[k + 1] /\ ext_end' = ext_end
    BY <1>6, <1>8, <2>2 DEF NextExtension, GoTo, SkipExtension, locals
  <2> QED
    BY <1>1, <1>2, <2>1, <2>3, GoAlong DEF AlongHello, AlongRequest, AlongQuestion, HelloSteps, RequestSteps
<1>10. CASE k = Len(r.entries)
  <2>1. At16(offset) = 0
    BY <1>2, <1>3, <1>4, <1>10 DEF HostName
  <2>2. pc' = "server_name" /\ offset' = r.entries[k] + 4 /\ ext_len' = len
    BY <1>3, <1>6, <1>8, <2>1 DEF NextExtension, GoTo
  <2> QED
    BY <1>1, <1>2, <1>5, <1>10, <2>2, GoAlong DEF AlongHello, AlongRequest, AlongQuestion, HelloSteps, RequestSteps
<1> QED
  BY <1>9, <1>10

(* The octets that spell a name are read as the name. *)
LEMMA Spelled ==
    ASSUME NEW r \in Requests, frame = r.frame, base = r.payload, NEW from \in Nat,
           NEW word \in Seq(Octet), Spells(r, from, word)
    PROVE  Bytes(base + from, Len(word)) = word
<1>1. base \in Nat /\ Len(word) \in Nat
  BY Kinds, LenProperties
<1>2. ASSUME NEW i \in 1..Len(word) PROVE Byte(base + from + i - 1) = word[i]
  <2>1. word[i] = Oct(r, from + i - 1)
    BY DEF Spells
  <2>2. Oct(r, from + i - 1) = Byte(r.payload + (from + i - 1))
    BY Here DEF Oct
  <2>3. r.payload + (from + i - 1) = base + from + i - 1
    BY <1>1
  <2> QED
    BY <2>1, <2>2, <2>3
<1>3. word = [i \in 1..Len(word) |-> word[i]]
  OBVIOUS
<1> QED
  BY <1>2, <1>3 DEF Bytes

LEMMA ServerNameAlong ==
    ASSUME IInv, NEW r \in Requests, frame = r.frame, Along(r), ServerName
    PROVE  Along(r)'
<1>1. /\ pc = "server_name" /\ pc \in OnPayload /\ r.kind = "tls"
      /\ offset = r.entries[Len(r.entries)] + 4 /\ ext_len = BodyLength(r, Len(r.entries))
      /\ offset \in Nat /\ ext_len \in Nat
  BY DEF ServerName, OnPayload, Along, AlongHello, HelloSteps, IInv, Types
<1>2. /\ base = r.payload
      /\ \A i : At(i) = Oct(r, i) /\ At16(i) = Oct16(r, i)
  BY <1>1, InPayload
<1>3. /\ Oct(r, offset + 2) = 0 /\ Oct16(r, offset + 3) = Len(r.name)
      /\ 5 + Len(r.name) <= ext_len /\ Spells(r, offset + 5, r.name)
  BY <1>1, Kinds DEF IsClientHello, HostName
<1>4. r.name \in Seq(Octet) /\ Len(r.name) \in Nat /\ Len(r.name) > 0
  <2>1. r.name \in Seq(Octet) /\ r.name # <<>>
    BY Kinds
  <2> QED
    BY <2>1, LenProperties, EmptySeq
<1>5. HostFits(Len(r.name)) /\ ~(ext_len < 5)
  BY <1>1, <1>3, <1>4 DEF HostFits
<1>6. Bytes(base + offset + 5, Len(r.name)) = r.name
  <2>1. offset + 5 \in Nat /\ base + (offset + 5) = base + offset + 5
    <3>1. base \in Nat
      BY DEF IInv, Types
    <3> QED
      BY <1>1, <3>1
  <2> QED
    BY <1>2, <1>3, <1>4, <2>1, Spelled
<1>7. Return(r.name)
  BY <1>2, <1>3, <1>5, <1>6 DEF ServerName
<1> QED
  BY <1>7, ReturnAlong

-----------------------------------------------------------------------------
(* The name ends in front of the first colon. *)
LEMMA CutAtColon ==
    ASSUME NEW h \in Seq(Octet), NEW n \in Nat, n <= Len(h),
           \A i \in 1..n : h[i] # 58,
           n < Len(h) => h[n + 1] = 58
    PROVE  UpToColon(h) = SubSeq(h, 1, n)
<1>1. Len(h) \in Nat /\ DOMAIN h = 1..Len(h)
  BY LenProperties
<1>2. CASE n = Len(h)
  <2>1. ~\E i \in DOMAIN h : i \in DOMAIN h /\ h[i] = 58
    BY <1>1, <1>2
  <2>2. SubSeq(h, 1, Len(h)) = h
    OBVIOUS
  <2> QED
    BY <1>2, <2>1, <2>2 DEF UpToColon
<1>3. CASE n < Len(h)
  <2> DEFINE First(i) == (i \in DOMAIN h /\ h[i] = 58)
                         /\ \A j \in 1..(i - 1) : ~(j \in DOMAIN h /\ h[j] = 58)
             c == CHOOSE i \in DOMAIN h : First(i)
  <2>1. n + 1 \in DOMAIN h /\ h[n + 1] = 58
    BY <1>1, <1>3
  <2>2. First(n + 1)
    <3>1. n + 1 - 1 = n
      OBVIOUS
    <3> QED
      BY <2>1, <3>1
  <2>3. c \in DOMAIN h /\ First(c)
    BY <2>1, <2>2
  <2>4. c = n + 1
    <3>1. c \in Nat /\ h[c] = 58 /\ \A j \in 1..(c - 1) : ~(j \in DOMAIN h /\ h[j] = 58)
      BY <1>1, <2>3
    <3>2. ~(c <= n)
      <4>1. c >= 1
        BY <1>1, <2>3
      <4> QED
        BY <3>1, <4>1
    <3>3. ~(n + 1 < c)
      BY <2>1, <3>1
    <3> QED
      BY <3>1, <3>2, <3>3
  <2>5. UpToColon(h) = SubSeq(h, 1, c - 1)
    BY <2>1 DEF UpToColon
  <2> HIDE DEF c, First
  <2>6. c - 1 = n
    BY <2>4
  <2> QED
    BY <2>5, <2>6
<1>4. n = Len(h) \/ n < Len(h)
  <2>1. \A m \in Nat : n <= m => n = m \/ n < m
    BY ONLY n \in Nat
  <2> QED
    BY <1>1, <2>1
<1> QED
  BY <1>2, <1>3, <1>4

LEMMA HostPlaces ==
    ASSUME NEW r \in Requests, r.kind = "http"
    PROVE  /\ r.host \in Nat /\ r.value \in Nat /\ r.colon \in Nat /\ r.end \in Nat
           /\ 4 < r.host /\ r.host + 5 <= r.value /\ r.value < r.colon /\ r.colon <= r.end
           /\ r.end + 2 <= PayloadSize(r)
           /\ HostFieldAt(r, r.host) /\ \A i \in 0..(r.host - 1) : ~HostFieldAt(r, i)
           /\ HostValue(r)
<1>1. IsRequest(r)
  BY Kinds
<1> QED
  BY <1>1 DEF IsRequest

(* The value of the field, up to a port. *)
LEMMA ValueRead ==
    ASSUME NEW r \in Requests, r.kind = "http", frame = r.frame, base = r.payload, Types
    PROVE  UpToColon(Bytes(base + r.value, r.end - r.value)) = r.name
<1> DEFINE h == Bytes(base + r.value, r.end - r.value)
           n == r.colon - r.value
<1>1. /\ r.value \in Nat /\ r.colon \in Nat /\ r.end \in Nat
      /\ r.value < r.colon /\ r.colon <= r.end /\ HostValue(r)
  BY HostPlaces
<1>2. PICK m \in Nat : m = r.end - r.value
  BY <1>1
<1>3. n \in Nat /\ n <= m /\ (n = m <=> r.colon = r.end)
  BY <1>1, <1>2
<1>4. h = [i \in 1..m |-> Oct(r, r.value + i - 1)]
  <2>1. ASSUME NEW i \in 1..m PROVE Byte(base + r.value + i - 1) = Oct(r, r.value + i - 1)
    <3>1. base + r.value + i - 1 = r.payload + (r.value + i - 1)
      BY <1>1 DEF Types
    <3> QED
      BY <3>1, Here DEF Oct
  <2> QED
    BY <1>2, <2>1 DEF Bytes
<1>5. \A i \in 1..m : Oct(r, r.value + i - 1) \in Octet
  <2> TAKE i \in 1..m
  <2>1. r.value + i - 1 \in Nat
    BY <1>1
  <2> QED
    BY <2>1, RequestOctets
<1> HIDE DEF h
<1>6. h \in Seq(Octet) /\ Len(h) = m /\ \A i \in 1..m : h[i] = Oct(r, r.value + i - 1)
  BY <1>4, <1>5
<1>7. \A i \in 1..n : h[i] # 58
  <2> TAKE i \in 1..n
  <2>1. r.value + i - 1 \in r.value..(r.colon - 1) /\ i \in 1..m
    BY <1>1, <1>3
  <2>2. Oct(r, r.value + i - 1) # 58
    BY <1>1, <2>1 DEF HostValue
  <2> QED
    BY <1>6, <2>1, <2>2
<1>8. ASSUME n < m PROVE h[n + 1] = 58
  <2>1. Oct(r, r.colon) = 58
    BY <1>1, <1>3, <1>8 DEF HostValue
  <2>2. r.value + (n + 1) - 1 = r.colon /\ n + 1 \in 1..m
    BY <1>1, <1>3, <1>8
  <2> QED
    BY <1>6, <2>1, <2>2
<1>9. UpToColon(h) = SubSeq(h, 1, n)
  <2> HIDE DEF n
  <2> QED
    BY <1>3, <1>6, <1>7, <1>8, CutAtColon
<1>10. SubSeq(h, 1, n) = r.name
  <2>1. r.name \in Seq(Octet)
    BY Kinds
  <2>2. Len(r.name) = n /\ \A i \in 1..n : r.name[i] = Oct(r, r.value + i - 1)
    BY <1>1 DEF HostValue, Spells
  <2> HIDE DEF n
  <2>3. /\ SubSeq(h, 1, n) \in Seq(Octet) /\ Len(SubSeq(h, 1, n)) = n
        /\ \A i \in 1..n : SubSeq(h, 1, n)[i] = h[i]
    BY <1>3, <1>6
  <2>4. \A i \in 1..n : h[i] = r.name[i]
    BY <1>3, <1>6, <2>2
  <2> QED
    BY <2>1, <2>2, <2>3, <2>4
<1> QED
  BY <1>9, <1>10 DEF h

LEMMA RequestAlong ==
    ASSUME IInv, NEW r \in Requests, frame = r.frame, Along(r), UNCHANGED base, HTTPStep
    PROVE  Along(r)'
<1>1. pc \in OnPayload /\ r.kind = "http"
  <2>1. pc \in {"http", "scan", "blanks", "value"}
    BY DEF HTTPStep, ReadRequest, Scan, SkipBlank, ReadValue
  <2> QED
    BY <2>1 DEF Along, ToExtractor, AlongRequest, OnPayload, Extractors, RequestSteps
<1>2. /\ base = r.payload /\ length = PayloadSize(r) /\ length \in Nat /\ offset \in Nat
      /\ \A i : At(i) = Oct(r, i)
  BY <1>1, InPayload DEF IInv, Types
<1>3. /\ r.host \in Nat /\ r.value \in Nat /\ r.colon \in Nat /\ r.end \in Nat
      /\ 4 < r.host /\ r.host + 5 <= r.value /\ r.value < r.colon /\ r.colon <= r.end
      /\ r.end + 2 <= length
      /\ HostFieldAt(r, r.host) /\ \A i \in 0..(r.host - 1) : ~HostFieldAt(r, i)
      /\ HostValue(r)
  BY <1>1, <1>2, HostPlaces
<1>4. CASE ReadRequest
  <2>1. Bytes(base, 4) = [i \in 1..4 |-> Oct(r, i - 1)]
    <3>1. ASSUME NEW i \in 1..4 PROVE Byte(base + i - 1) = Oct(r, i - 1)
      <4>1. base + i - 1 = r.payload + (i - 1)
        BY <1>2 DEF IInv, Types
      <4> QED
        BY <4>1, Here DEF Oct
    <3> QED
      BY <3>1 DEF Bytes
  <2>2. IsHTTPRequest
    BY <1>1, <1>2, <1>3, <2>1, RequestsAssumption DEF IsHTTPRequest
  <2>3. pc' = "scan" /\ offset' = 0
    BY <1>4, <2>2 DEF ReadRequest, GoTo
  <2>4. 0 <= r.host
    BY <1>3
  <2> QED
    BY <1>1, <1>2, <2>3, <2>4, GoAlong DEF AlongHello, AlongRequest, AlongQuestion, HelloSteps, RequestSteps
<1>5. CASE Scan
  <2>1. pc = "scan" /\ offset <= r.host
    BY <1>5 DEF Scan, Along, AlongRequest
  <2>2. MayScan(offset)
    BY <1>2, <1>3, <2>1 DEF MayScan
  <2>3. HostAt(offset) <=> HostFieldAt(r, offset)
    BY <1>2 DEF HostAt, HostFieldAt
  <2>4. \/ pc' = "blanks" /\ offset' = offset + 5 /\ HostFieldAt(r, offset)
        \/ pc' = "scan" /\ offset' = offset + 1 /\ ~HostFieldAt(r, offset)
    BY <1>5, <2>2, <2>3 DEF Scan, GoTo
  <2>5. \/ pc' = "blanks" /\ offset' = r.host + 5
        \/ pc' = "scan" /\ offset' <= r.host
    <3>1. CASE offset = r.host
      BY <1>3, <2>4, <3>1
    <3>2. CASE offset < r.host
      <4>1. offset \in 0..(r.host - 1) /\ offset + 1 <= r.host
        BY <1>2, <1>3, <3>2
      <4> QED
        BY <1>3, <2>4, <4>1
    <3> QED
      BY <1>2, <1>3, <2>1, <3>1, <3>2
  <2>6. r.host + 5 <= r.host + 5
    BY <1>3
  <2> QED
    BY <1>1, <1>2, <1>3, <2>5, <2>6, GoAlong DEF AlongHello, AlongRequest, AlongQuestion, HelloSteps, RequestSteps
<1>6. CASE SkipBlank
  <2>1. pc = "blanks" /\ r.host + 5 <= offset /\ offset <= r.value /\ offset < length
    <3>1. pc = "blanks" /\ r.host + 5 <= offset /\ offset <= r.value
      BY <1>6 DEF SkipBlank, Along, AlongRequest
    <3> QED
      BY <1>2, <1>3, <3>1
  <2>2. CASE offset < r.value
    <3>1. offset \in (r.host + 5)..(r.value - 1)
      BY <1>2, <1>3, <2>1, <2>2
    <3>2. At(offset) \in {32, 9}
      BY <1>2, <1>3, <3>1 DEF HostValue
    <3>3. pc' = "blanks" /\ offset' = offset + 1
      BY <1>6, <2>1, <3>2 DEF SkipBlank, GoTo
    <3>4. r.host + 5 <= offset + 1 /\ offset + 1 <= r.value
      BY <1>2, <1>3, <2>1, <2>2
    <3> QED
      BY <1>1, <1>2, <3>3, <3>4, GoAlong DEF AlongHello, AlongRequest, AlongQuestion, HelloSteps, RequestSteps
  <2>3. CASE offset = r.value
    <3>1. offset \in r.value..(r.end - 1)
      BY <1>2, <1>3, <2>3
    <3>2. At(offset) \notin {32, 9}
      BY <1>2, <1>3, <3>1 DEF HostValue
    <3>3. pc' = "value" /\ offset' = r.value /\ start' = r.value
      BY <1>6, <2>3, <3>2 DEF SkipBlank, GoTo
    <3>4. r.value <= r.value /\ r.value <= r.end
      BY <1>3
    <3> QED
      BY <1>1, <1>2, <3>3, <3>4, GoAlong DEF AlongHello, AlongRequest, AlongQuestion, HelloSteps, RequestSteps
  <2> QED
    BY <1>2, <1>3, <2>1, <2>2, <2>3
<1>7. CASE ReadValue
  <2>1. /\ pc = "value" /\ start = r.value /\ r.value <= offset /\ offset <= r.end
        /\ offset < length
    <3>1. pc = "value" /\ start = r.value /\ r.value <= offset /\ offset <= r.end
      BY <1>7 DEF ReadValue, Along, AlongRequest
    <3> QED
      BY <1>2, <1>3, <3>1
  <2>2. CASE offset < r.end
    <3>1. offset \in r.value..(r.end - 1)
      BY <1>2, <1>3, <2>1, <2>2
    <3>2. At(offset) \notin {13, 10}
      BY <1>2, <1>3, <3>1 DEF HostValue
    <3>3. pc' = "value" /\ offset' = offset + 1 /\ start' = r.value
      BY <1>7, <2>1, <3>2 DEF ReadValue, GoTo, locals
    <3>4. r.value <= offset + 1 /\ offset + 1 <= r.end
      BY <1>2, <1>3, <2>1, <2>2
    <3> QED
      BY <1>1, <1>2, <3>3, <3>4, GoAlong DEF AlongHello, AlongRequest, AlongQuestion, HelloSteps, RequestSteps
  <2>3. CASE offset = r.end
    <3>1. At(offset) = 13
      BY <1>2, <1>3, <2>3 DEF HostValue
    <3>2. ~(offset <= start)
      BY <1>3, <2>1, <2>3
    <3>3. Return(UpToColon(Bytes(base + start, offset - start)))
      BY <1>7, <3>1, <3>2 DEF ReadValue
    <3>4. UpToColon(Bytes(base + start, offset - start)) = r.name
      BY <1>1, <1>2, <2>1, <2>3, ValueRead DEF IInv
    <3> QED
      BY <3>3, <3>4, ReturnAlong
  <2> QED
    BY <1>2, <1>3, <2>1, <2>2, <2>3
<1> QED
  BY <1>4, <1>5, <1>6, <1>7 DEF HTTPStep

-----------------------------------------------------------------------------
(* The labels of a question, as DNSExtractor joins them. *)
LEMMA LabelPlaces ==
    ASSUME NEW r \in Requests, r.kind = "dns"
    PROVE  /\ r.labels \in Seq(Nat) /\ Len(r.labels) \in Nat /\ Len(r.labels) > 1
           /\ r.labels[1] = 12 /\ Labels(r) /\ LabelsSpell(r)
           /\ Oct(r, 2) < 128 /\ Oct16(r, 4) # 0
<1>1. IsQuestion(r)
  BY Kinds
<1>2. Labels(r) /\ LabelsSpell(r) /\ Oct(r, 2) < 128 /\ Oct16(r, 4) # 0
  BY <1>1, Zenon DEF IsQuestion
<1>3. r.labels \in Seq(Nat) /\ Len(r.labels) > 1 /\ r.labels[1] = 12
  BY <1>2 DEF Labels
<1> QED
  BY <1>2, <1>3, LenProperties

LEMMA Joined ==
    ASSUME NEW u \in Seq(Octet), NEW v \in Seq(Octet)
    PROVE  /\ u \o v \in Seq(Octet) /\ Len(u \o v) = Len(u) + Len(v)
           /\ \A i \in 1..Len(u) : (u \o v)[i] = u[i]
           /\ \A i \in 1..Len(v) : (u \o v)[Len(u) + i] = v[i]
<1>1. /\ u \o v \in Seq(Octet) /\ Len(u \o v) = Len(u) + Len(v)
      /\ \A i \in 1..(Len(u) + Len(v)) : (u \o v)[i] = IF i <= Len(u) THEN u[i] ELSE v[i - Len(u)]
  BY ConcatProperties
<1> DEFINE c == u \o v
<1> HIDE DEF c
<1>2. PICK m \in Nat, n \in Nat : m = Len(u) /\ n = Len(v)
  BY LenProperties
<1>3. \A i \in 1..(m + n) : c[i] = IF i <= m THEN u[i] ELSE v[i - m]
  BY <1>1, <1>2 DEF c
<1>4. ASSUME NEW i \in 1..m PROVE c[i] = u[i]
  <2>1. i \in 1..(m + n) /\ i <= m
    OBVIOUS
  <2> QED
    BY <1>3, <2>1
<1>5. ASSUME NEW i \in 1..n PROVE c[m + i] = v[i]
  <2>1. m + i \in 1..(m + n) /\ ~(m + i <= m) /\ m + i - m = i
    OBVIOUS
  <2> QED
    BY <1>3, <2>1
<1> QED
  BY <1>1, <1>2, <1>4, <1>5 DEF c

LEMMA LabelJoined ==
    ASSUME NEW w \in Seq(Octet), NEW p \in Nat, NEW x \in Seq(Octet),
           p + 1 + Len(x) <= Len(w), w[p + 1] = 46,
           \A j \in 1..Len(x) : w[p + 1 + j] = x[j]
    PROVE  SubSeq(w, 1, p) \o Dot \o x = SubSeq(w, 1, p + 1 + Len(x))
<1>1. PICK l \in Nat : l = Len(x)
  BY LenProperties
<1>2. Len(w) \in Nat
  BY LenProperties
<1>3. Dot \in Seq(Octet) /\ Len(Dot) = 1 /\ Dot[1] = 46
  BY DEF Dot, Octet
<1> DEFINE a == SubSeq(w, 1, p)
           d == a \o Dot
           s == d \o x
           t == SubSeq(w, 1, p + 1 + l)
<1>4. a \in Seq(Octet) /\ Len(a) = p /\ \A i \in 1..p : a[i] = w[i]
  BY <1>1, <1>2
<1>5. t \in Seq(Octet) /\ Len(t) = p + 1 + l /\ \A i \in 1..(p + 1 + l) : t[i] = w[i]
  BY <1>1, <1>2
<1> HIDE DEF a, t
<1>6. /\ d \in Seq(Octet) /\ Len(d) = p + 1
      /\ \A i \in 1..p : d[i] = a[i]
      /\ \A i \in 1..1 : d[p + i] = Dot[i]
  <2>1. /\ d \in Seq(Octet) /\ Len(d) = Len(a) + Len(Dot)
        /\ \A i \in 1..Len(a) : d[i] = a[i]
        /\ \A i \in 1..Len(Dot) : d[Len(a) + i] = Dot[i]
    <3>1. a \in Seq(Octet) /\ Dot \in Seq(Octet)
      BY <1>3, <1>4
    <3> QED
      BY ONLY <3>1, Joined, Zenon DEF d
  <2> HIDE DEF d
  <2> QED
    BY <1>3, <1>4, <2>1
<1> HIDE DEF d
<1>7. /\ s \in Seq(Octet) /\ Len(s) = p + 1 + l
      /\ \A i \in 1..(p + 1) : s[i] = d[i]
      /\ \A i \in 1..l : s[p + 1 + i] = x[i]
  <2>1. /\ s \in Seq(Octet) /\ Len(s) = Len(d) + Len(x)
        /\ \A i \in 1..Len(d) : s[i] = d[i]
        /\ \A i \in 1..Len(x) : s[Len(d) + i] = x[i]
    <3>1. d \in Seq(Octet) /\ x \in Seq(Octet)
      BY <1>6
    <3> QED
      BY ONLY <3>1, Joined, Zenon DEF s
  <2> HIDE DEF s
  <2> QED
    BY <1>1, <1>6, <2>1
<1> HIDE DEF s
<1>8. ASSUME NEW i \in 1..(p + 1 + l) PROVE s[i] = t[i]
  <2>1. CASE i <= p
    <3>1. i \in 1..p /\ i \in 1..(p + 1)
      BY <2>1
    <3> QED
      BY <1>4, <1>5, <1>6, <1>7, <3>1
  <2>2. CASE i = p + 1
    <3>1. i \in 1..(p + 1) /\ 1 \in 1..1
      BY <2>2
    <3>2. s[i] = Dot[1]
      BY <1>6, <1>7, <2>2, <3>1
    <3> QED
      BY <1>3, <1>5, <2>2, <3>2
  <2>3. CASE i > p + 1
    <3>1. PICK j \in 1..l : i = p + 1 + j
      <4>1. i - (p + 1) \in 1..l /\ i = p + 1 + (i - (p + 1))
        BY <2>3
      <4> QED
        BY <4>1
    <3>2. s[i] = x[j] /\ t[i] = w[p + 1 + j]
      BY <1>5, <1>7, <3>1
    <3> QED
      BY <1>1, <3>1, <3>2
  <2> QED
    BY <2>1, <2>2, <2>3
<1>9. s = t
  BY <1>5, <1>7, <1>8
<1> QED
  BY <1>1, <1>9 DEF s, t, d, a

LEMMA LabelAt ==
    ASSUME NEW r \in Requests, r.kind = "dns", NEW k \in 1..(Len(r.labels) - 1)
    PROVE  \E o \in Nat, l \in 1..63 :
              /\ o = r.labels[k] /\ l = Oct(r, o) /\ 12 <= o
              /\ o + 1 + l <= r.labels[Len(r.labels)] /\ r.labels[k + 1] = o + 1 + l
              /\ \A j \in 1..l : r.name[o - 12 + j] = Oct(r, o + j)
              /\ k > 1 => r.name[o - 12] = 46
<1>1. /\ r.labels \in Seq(Nat) /\ Len(r.labels) \in Nat /\ Len(r.labels) > 1
      /\ Labels(r) /\ LabelsSpell(r)
  BY LabelPlaces
<1>2. PICK o, l : o = r.labels[k] /\ l = Oct(r, o)
  OBVIOUS
<1>3. /\ 12 <= o /\ l \in 1..63 /\ r.labels[k + 1] = o + 1 + l
      /\ r.labels[k + 1] <= r.labels[Len(r.labels)]
  BY <1>1, <1>2 DEF Labels
<1>4. /\ \A j \in 1..l : r.name[o - 12 + j] = Oct(r, o + j)
      /\ k > 1 => r.name[o - 12] = 46
  BY <1>1, <1>2, Zenon DEF LabelsSpell
<1>5. k \in 1..Len(r.labels)
  BY <1>1
<1>6. o \in Nat
  BY <1>1, <1>2, <1>5, ElementOfSeq
<1>7. o + 1 + l <= r.labels[Len(r.labels)]
  BY <1>3
<1> QED
  BY <1>2, <1>3, <1>4, <1>6, <1>7, Zenon

(* The name is read up to the label that comes next. *)
LEMMA LabelAlong ==
    ASSUME IInv, NEW r \in Requests, frame = r.frame, Along(r), UNCHANGED base, ReadLabel
    PROVE  Along(r)'
<1>1. pc = "label" /\ pc \in OnPayload /\ r.kind = "dns"
  BY DEF ReadLabel, OnPayload, Along, AlongQuestion
<1>2. /\ base = r.payload /\ length = PayloadSize(r) /\ length \in Nat
      /\ \A i : At(i) = Oct(r, i)
  BY <1>1, InPayload
<1>3. PICK k \in 1..Len(r.labels) :
          /\ offset = r.labels[k]
          /\ name = IF k = 1 THEN <<>> ELSE SubSeq(r.name, 1, r.labels[k] - 13)
  BY <1>1 DEF Along, AlongQuestion
<1>4. /\ r.labels \in Seq(Nat) /\ Len(r.labels) \in Nat /\ Len(r.labels) > 1
      /\ r.labels[1] = 12 /\ Labels(r) /\ LabelsSpell(r)
  BY <1>1, LabelPlaces
<1>5. PICK end \in Nat : end = r.labels[Len(r.labels)]
  <2>1. Len(r.labels) \in 1..Len(r.labels)
    BY <1>4
  <2> QED
    BY <1>4, <2>1, ElementOfSeq
<1>6. /\ end + 5 <= length /\ Oct(r, end) = 0 /\ Len(r.name) = end - 13 /\ r.name \in Seq(Octet)
      /\ r.name # <<>>
  <2>1. r.name \in Seq(Octet) /\ r.name # <<>>
    BY Kinds
  <2> QED
    BY <1>2, <1>4, <1>5, <2>1 DEF Labels, LabelsSpell
<1>7. offset \in Nat
  BY DEF IInv, Types
<1>8. PICK l : l = At(offset)
  OBVIOUS
<1>9. CASE k = Len(r.labels)
  <2>1. offset = end /\ l = 0 /\ offset < length
    BY <1>2, <1>3, <1>5, <1>6, <1>8, <1>9
  <2>2. ~LabelFits(l) /\ ~(offset >= length)
    BY <1>2, <1>7, <2>1 DEF LabelFits
  <2>3. EndOfQuery
    BY <1>8, <2>2 DEF ReadLabel
  <2>4. name = r.name
    <3>1. k # 1 /\ Len(r.name) = r.labels[k] - 13
      BY <1>3, <1>4, <1>5, <1>6, <1>9
    <3>2. SubSeq(r.name, 1, Len(r.name)) = r.name
      BY <1>6
    <3> QED
      BY <1>3, <3>1, <3>2
  <2> QED
    BY <1>6, <2>3, <2>4, ReturnAlong DEF EndOfQuery
<1>10. CASE k # Len(r.labels)
  <2>1. k \in 1..(Len(r.labels) - 1) /\ k + 1 \in 1..Len(r.labels)
    BY <1>3, <1>4, <1>10
  <2>2. /\ l \in 1..63 /\ r.labels[k + 1] = offset + 1 + l /\ offset + 1 + l <= end
        /\ \A j \in 1..l : r.name[offset - 12 + j] = Oct(r, offset + j)
        /\ k > 1 => r.name[offset - 12] = 46
    <3>1. PICK o \in Nat, m \in 1..63 :
              /\ o = r.labels[k] /\ m = Oct(r, o) /\ 12 <= o
              /\ o + 1 + m <= r.labels[Len(r.labels)] /\ r.labels[k + 1] = o + 1 + m
              /\ \A j \in 1..m : r.name[o - 12 + j] = Oct(r, o + j)
              /\ k > 1 => r.name[o - 12] = 46
      BY <1>1, <2>1, LabelAt, Zenon
    <3>2. o = offset /\ m = l
      BY <1>2, <1>3, <1>8, <3>1, Zenon
    <3> QED
      BY <1>5, <3>1, <3>2, Zenon
  <2>3. LabelFits(l) /\ ~(offset >= length)
    <3>1. \A n \in Nat, o \in Nat, m \in 1..63 :
             o + 1 + m <= end /\ end + 5 <= n => o + 1 + m <= n /\ ~(o >= n)
      BY ONLY end \in Nat
    <3>2. end + 5 <= length /\ offset + 1 + l <= end /\ l \in 1..63
      BY <1>6, <2>2, Zenon
    <3> QED
      BY ONLY <1>2, <1>7, <3>1, <3>2, Zenon DEF LabelFits
  <2> DEFINE x == Bytes(base + offset + 1, l)
  <2>4. /\ name' = IF name = <<>> THEN x ELSE name \o Dot \o x
        /\ offset' = offset + 1 + l /\ pc' = "label"
    BY <1>1, <1>8, <2>3 DEF ReadLabel
  <2>5. x \in Seq(Octet) /\ Len(x) = l /\ \A j \in 1..l : x[j] = At(offset + j)
    <3>1. l \in Nat
      BY <2>2
    <3> QED
      BY <1>7, <3>1, LabelRead DEF IInv
  <2> HIDE DEF x
  <2>6. name' = SubSeq(r.name, 1, r.labels[k + 1] - 13)
    <3>1. CASE k = 1
      <4>1. offset = 12 /\ r.labels[k + 1] - 13 = l
        BY <1>3, <1>4, <2>2, <3>1
      <4>2. ASSUME NEW j \in 1..l PROVE r.name[j] = x[j]
        <5>1. offset - 12 + j = j
          BY <4>1
        <5> QED
          BY <1>2, <1>3, <2>2, <2>5, <5>1
      <4>3. l <= Len(r.name)
        <5>1. 12 + 1 + l <= end /\ Len(r.name) = end - 13
          BY <1>6, <2>2, <4>1
        <5>2. \A m \in 1..63 : 12 + 1 + m <= end => m <= end - 13
          BY ONLY end \in Nat
        <5> QED
          BY <2>2, <5>1, <5>2, Zenon
      <4>4. /\ SubSeq(r.name, 1, l) \in Seq(Octet) /\ Len(SubSeq(r.name, 1, l)) = l
            /\ \A j \in 1..l : SubSeq(r.name, 1, l)[j] = r.name[j]
        BY <1>6, <2>2, <4>3
      <4>5. SubSeq(r.name, 1, l) = x
        BY <2>5, <4>2, <4>4
      <4> QED
        BY <1>3, <2>4, <3>1, <4>1, <4>5
    <3>2. CASE k # 1
      <4>1. PICK p \in Nat : offset = 13 + p /\ p > 0
        <5>1. k - 1 \in 1..(Len(r.labels) - 1) /\ k - 1 + 1 = k
          BY <1>3, <1>4, <3>2
        <5>2. PICK o \in Nat, m \in 1..63 : 12 <= o /\ r.labels[k - 1 + 1] = o + 1 + m
          BY <1>1, <5>1, LabelAt, Zenon
        <5>3. offset = o + 1 + m
          BY <1>3, <5>1, <5>2
        <5>4. offset - 13 \in Nat /\ offset - 13 > 0 /\ offset = 13 + (offset - 13)
          BY <5>2, <5>3
        <5> QED
          BY <5>4
      <4>2. name = SubSeq(r.name, 1, p)
        <5>1. r.labels[k] - 13 = p
          BY <1>3, <4>1
        <5> QED
          BY <1>3, <3>2, <5>1
      <4>3. p + 1 + l <= Len(r.name) /\ r.name[p + 1] = 46
        <5>1. offset - 12 = p + 1 /\ k > 1
          BY <1>3, <1>4, <3>2, <4>1
        <5>2. Len(r.name) = end - 13 /\ 13 + p + 1 + l <= end
          BY <1>6, <2>2, <4>1
        <5>3. p + 1 + l <= Len(r.name)
          BY <1>5, <2>2, <5>2
        <5> QED
          BY <2>2, <5>1, <5>3
      <4>4. \A j \in 1..l : r.name[p + 1 + j] = x[j]
        <5> TAKE j \in 1..l
        <5>1. offset - 12 + j = p + 1 + j
          BY <4>1
        <5> QED
          BY <1>2, <1>3, <2>2, <2>5, <5>1
      <4>5. name # <<>>
        <5>1. Len(SubSeq(r.name, 1, p)) = p
          BY <1>6, <2>2, <4>3
        <5>2. Len(name) > 0
          BY <4>1, <4>2, <5>1
        <5> QED
          BY <5>2
      <4>6. SubSeq(r.name, 1, p) \o Dot \o x = SubSeq(r.name, 1, p + 1 + l)
        BY <1>6, <2>5, <4>3, <4>4, LabelJoined
      <4>7. r.labels[k + 1] - 13 = p + 1 + l
        BY <2>2, <4>1
      <4> QED
        BY <2>4, <4>2, <4>5, <4>6, <4>7
    <3> QED
      BY <3>1, <3>2
  <2>7. offset' = r.labels[k + 1] /\ k + 1 # 1
    BY <1>3, <2>2, <2>4
  <2> QED
    BY <1>1, <1>2, <2>1, <2>4, <2>6, <2>7, GoAlong
    DEF AlongHello, AlongRequest, AlongQuestion, HelloSteps, RequestSteps
<1> QED
  BY <1>9, <1>10

LEMMA QueryAlong ==
    ASSUME IInv, Quiet, NEW r \in Requests, frame = r.frame, Along(r), UNCHANGED base, ReadQuery
    PROVE  Along(r)'
<1>1. pc = "dns" /\ pc \in OnPayload /\ r.kind = "dns" /\ name = <<>>
  BY DEF ReadQuery, OnPayload, Extractors, Along, ToExtractor, Quiet
<1>2. /\ base = r.payload /\ length = PayloadSize(r) /\ length \in Nat
      /\ \A i : At(i) = Oct(r, i) /\ At16(i) = Oct16(r, i)
  BY <1>1, InPayload
<1>3. /\ Len(r.labels) \in Nat /\ Len(r.labels) > 1 /\ r.labels[1] = 12
      /\ Oct(r, 2) < 128 /\ Oct16(r, 4) # 0
  BY <1>1, LabelPlaces
<1>4. length >= 12
  BY <1>1, <1>2, RequestSize
<1>5. IsDNSQuery
  BY <1>2, <1>3, <1>4 DEF IsDNSQuery
<1>6. pc' = "label" /\ offset' = r.labels[1] /\ name' = <<>>
  BY <1>1, <1>3, <1>5 DEF ReadQuery, GoTo
<1>7. 1 \in 1..Len(r.labels)
  BY <1>3
<1> QED
  BY <1>1, <1>2, <1>6, <1>7, GoAlong DEF AlongHello, AlongRequest, AlongQuestion, HelloSteps, RequestSteps

-----------------------------------------------------------------------------
(* Each step of the engine on a request takes it to the next place. *)
LEMMA ExtractAlong ==
    ASSUME IInv, NameInv, NEW r \in Requests, frame = r.frame, Along(r), ExtractStep
    PROVE  Along(r)'
<1>1. UNCHANGED base /\ (TLSStep \/ HTTPStep \/ DNSStep)
  BY DEF ExtractStep, Extract
<1>2. CASE TLSStep
  BY <1>1, <1>2, HelloAlong, EntriesAlong, ServerNameAlong DEF TLSStep
<1>3. CASE HTTPStep
  BY <1>1, <1>3, RequestAlong
<1>4. CASE DNSStep
  BY <1>1, <1>4, QueryAlong, LabelAlong DEF DNSStep, NameInv
<1> QED
  BY <1>1, <1>2, <1>3, <1>4

LEMMA StepAlong ==
    ASSUME IInv, NameInv, NEW r \in Requests, frame = r.frame, Along(r), Inspect
    PROVE  Along(r)'
BY ParseAlong, PayloadAlong, TryAlong, ExtractAlong DEF Inspect

LEMMA WalkHolds == IInv /\ NameInv /\ WalkInv /\ [Next]_inspectionVars => WalkInv'
<1> SUFFICES ASSUME IInv, NameInv, WalkInv, [Next]_inspectionVars, NEW r \in Requests,
                    frame' = r.frame
             PROVE  Along(r)'
  BY DEF WalkInv
<1>1. CASE NextFrame
  <2>1. pc' = "ethernet"
    BY <1>1 DEF NextFrame, Begin
  <2> QED
    BY <2>1, OnlyHeaders DEF ThroughHeaders, OnPayload, Extractors
<1>2. CASE Finish
  <2>1. pc' = "idle"
    BY <1>2 DEF Finish
  <2> QED
    BY <2>1, OnlyHeaders DEF ThroughHeaders, OnPayload, Extractors
<1>3. CASE Inspect
  <2>1. UNCHANGED frame
    <3>1. Parse => UNCHANGED frame
      BY DEF Parse, ParseEthernet, ParseIPv4, ParseTCP, ParseUDP
    <3>2. InspectPayload \/ TryExtractor \/ ExtractStep => UNCHANGED frame
      BY DEF InspectPayload, TryExtractor, ExtractStep, Extract
    <3> QED
      BY <1>3, <3>1, <3>2 DEF Inspect, ParseStep
  <2>2. frame = r.frame /\ Along(r)
    BY <2>1 DEF WalkInv
  <2> QED
    BY <1>3, <2>2, StepAlong
<1>4. CASE UNCHANGED inspectionVars
  <2>1. UNCHANGED <<frame, pc, offset, parsed, base, ext_end, ext_len, start, name, found, todo>>
    BY <1>4 DEF inspectionVars, locals
  <2>2. Along(r)
    BY <2>1 DEF WalkInv
  <2> QED
    BY <2>1, <2>2 DEF Along, ThroughHeaders, ToExtractor, AlongHello, AlongRequest, AlongQuestion
<1> QED
  BY <1>1, <1>2, <1>3, <1>4 DEF Next

LEMMA WalkInductive == Spec => []WalkInv
<1>1. Init => WalkInv
  <2> SUFFICES ASSUME Init, NEW r \in Requests PROVE Along(r)
    BY DEF WalkInv
  <2>1. pc = "idle"
    BY DEF Init
  <2> QED
    BY <2>1 DEF Along, ThroughHeaders, ToExtractor, AlongHello, AlongRequest, AlongQuestion,
                OnPayload, Extractors, HelloSteps, RequestSteps
<1>2. IInv /\ NameInv /\ WalkInv /\ [Next]_inspectionVars => WalkInv'
  BY WalkHolds
<1> QED
  BY <1>1, <1>2, Inductive, NamesInductive, PTL DEF Spec

(* In every well-formed Client Hello, HTTP request and DNS question both   *)
(* engines find the name that was sent: they skip no request, take the     *)
(* right extractor (inspectPayload(), main_simple.cpp) and extract(), in   *)
(* all three of them, leaves nothing out and takes nothing else for it.    *)
THEOREM RequestsAreFound == Spec => []WellFormedIsFound
<1>1. WalkInv => WellFormedIsFound
  BY DEF WalkInv, WellFormedIsFound, Along, ThroughHeaders, ToExtractor
<1> QED
  BY <1>1, WalkInductive, PTL

-----------------------------------------------------------------------------
(* The steps an inspection has left.                                       *)
Extracting == OnPayload \ (Extractors \cup {"try"})

LEMMA Weights ==
    ASSUME Types
    PROVE  /\ StagesLeft \in Nat /\ StagesLeft <= 6
           /\ BytesLeft \in Nat /\ BytesLeft <= length /\ length \in Nat /\ offset \in Nat
           /\ Len(todo) \in Nat /\ Len(todo) * (length + 8) \in Nat
<1>1. StagesLeft \in Nat /\ StagesLeft <= 6
  BY DEF StagesLeft
<1>2. length \in Nat /\ offset \in Nat /\ todo \in Seq(Extractors)
  BY DEF Types
<1>3. BytesLeft \in Nat /\ BytesLeft <= length
  BY <1>2 DEF BytesLeft
<1>4. Len(todo) \in Nat
  BY <1>2, LenProperties
<1>5. \A k, m \in Nat : k * (m + 8) \in Nat
  OBVIOUS
<1> QED
  BY <1>1, <1>2, <1>3, <1>4, <1>5

LEMMA StepsInside ==
    ASSUME Types, pc \in Extracting
    PROVE  StepsLeft = 1 + StagesLeft + BytesLeft + Len(todo) * (length + 8)
BY DEF StepsLeft, Extracting, OnPayload, Extractors

LEMMA StepsOver ==
    ASSUME NEW n \in Nat, StepsLeft = n, n > 0, pc' \in {"done", "skip", "idle"}
    PROVE  StepsLeft' \in 0..(StepsLeft - 1)
<1>1. StepsLeft' = 0
  BY DEF StepsLeft
<1> QED
  BY <1>1

(* An extractor goes on to a later stage or past bytes of the payload. *)
Onward == \/ pc' \in {"try", "done"}
          \/ /\ pc' \in Extracting /\ offset <= offset'
             /\ \/ StagesLeft' < StagesLeft
                \/ StagesLeft' = StagesLeft /\ offset < offset' /\ offset < length

LEMMA OnwardAdvances ==
    ASSUME Types, Types', pc \in Extracting, UNCHANGED <<length, todo>>, Onward
    PROVE  StepsLeft' \in 0..(StepsLeft - 1)
<1>1. PICK rest \in Nat : rest = Len(todo) * (length + 8)
  BY Weights
<1>2. StepsLeft = 1 + StagesLeft + BytesLeft + rest
  BY <1>1, StepsInside
<1>3. /\ StagesLeft \in Nat /\ BytesLeft \in Nat /\ length \in Nat /\ offset \in Nat
  BY Weights
<1>4. StagesLeft' \in Nat /\ offset' \in Nat
  BY DEF StagesLeft, Types
<1>8. /\ BytesLeft = IF offset < length THEN length - offset ELSE 0
      /\ BytesLeft' = IF offset' < length THEN length - offset' ELSE 0
  BY DEF BytesLeft
<1>5. CASE pc' = "try"
  <2>1. StepsLeft' = 1 + rest
    BY <1>1, <1>5 DEF StepsLeft
  <2>2. StagesLeft > 0
    BY DEF StagesLeft, Extracting, OnPayload, Extractors
  <2> QED
    BY <1>1, <1>2, <1>3, <2>1, <2>2
<1>6. CASE pc' = "done"
  BY <1>1, <1>2, <1>3, <1>6, StepsOver
<1>7. CASE pc' \in Extracting /\ offset <= offset'
           /\ \/ StagesLeft' < StagesLeft
              \/ StagesLeft' = StagesLeft /\ offset < offset' /\ offset < length
  <2>1. StepsLeft' = 1 + StagesLeft' + BytesLeft' + rest
    BY <1>1, <1>7 DEF StepsLeft, Extracting, OnPayload, Extractors
  <2>2. PICK o \in Nat, p \in Nat, n \in Nat : o = offset /\ p = offset' /\ n = length
    BY <1>3, <1>4
  <2>3. PICK x \in Nat, y \in Nat :
            /\ x = BytesLeft /\ y = BytesLeft' /\ y <= x
            /\ (o < p /\ o < n) => y < x
    <3>1. o <= p /\ BytesLeft = (IF o < n THEN n - o ELSE 0)
          /\ BytesLeft' = (IF p < n THEN n - p ELSE 0)
      BY <1>7, <1>8, <2>2
    <3> DEFINE x == BytesLeft
               y == BytesLeft'
    <3> HIDE DEF x, y
    <3>2. x = (IF o < n THEN n - o ELSE 0) /\ y = (IF p < n THEN n - p ELSE 0)
      BY <3>1 DEF x, y
    <3>3. x \in Nat /\ y \in Nat /\ y <= x /\ ((o < p /\ o < n) => y < x)
      BY ONLY <3>1, <3>2, o \in Nat, p \in Nat, n \in Nat
    <3> QED
      BY <3>3 DEF x, y
  <2>4. PICK s \in Nat, t \in Nat : s = StagesLeft /\ t = StagesLeft'
    BY <1>3, <1>4
  <2>5. StepsLeft = 1 + s + x + rest /\ StepsLeft' = 1 + t + y + rest
    BY <1>2, <2>1, <2>3, <2>4
  <2>6. t < s \/ (t = s /\ y < x)
    BY <1>7, <2>2, <2>3, <2>4
  <2>7. t + y < s + x
    <3>1. y <= x
      BY <2>3
    <3> QED
      BY ONLY <2>6, <3>1, s \in Nat, t \in Nat, x \in Nat, y \in Nat
  <2> QED
    BY <2>5, <2>7
<1> QED
  BY <1>5, <1>6, <1>7 DEF Onward

LEMMA FieldOnward ==
    ASSUME IInv, \/ SkipSession \/ SkipCiphers \/ SkipCompression
    PROVE  pc \in Extracting /\ Onward
<1>1. offset \in Nat /\ At(offset) \in Nat /\ At16(offset) \in Nat
  <2>1. offset \in Nat
    BY DEF IInv, Types
  <2> QED
    BY <2>1, AtType DEF IInv
<1>2. ASSUME NEW step, NEW next, NEW width \in {1, 2}, SkipField(step, width, next)
      PROVE  pc = step /\ (pc' = "try" \/ (pc' = next /\ offset <= offset'))
  <2> DEFINE end == offset + width + (IF width = 1 THEN At(offset) ELSE At16(offset))
  <2>1. offset <= end
    BY <1>1
  <2> HIDE DEF end
  <2>2. pc = step /\ (pc' = "try" \/ (pc' = next /\ offset' = end))
    <3>1. CASE GiveUp
      BY <1>2, <3>1 DEF SkipField, GiveUp
    <3>2. CASE ~GiveUp
      BY <1>2, <3>2 DEF SkipField, GoTo, end
    <3> QED
      BY <3>1, <3>2
  <2> QED
    BY <2>1, <2>2
<1>3. \/ pc = "session" /\ (pc' = "try" \/ (pc' = "ciphers" /\ offset <= offset'))
      \/ pc = "ciphers" /\ (pc' = "try" \/ (pc' = "compression" /\ offset <= offset'))
      \/ pc = "compression" /\ (pc' = "try" \/ (pc' = "extensions" /\ offset <= offset'))
  BY <1>2 DEF SkipSession, SkipCiphers, SkipCompression
<1> QED
  BY <1>3 DEF Onward, StagesLeft, Extracting, OnPayload, Extractors

LEMMA ExtensionOnward ==
    ASSUME IInv, \/ ReadExtensions \/ NextExtension \/ ServerName
    PROVE  pc \in Extracting /\ Onward
<1>1. offset \in Nat /\ length \in Nat /\ ext_end \in Nat /\ At16(offset + 2) \in Nat
  <2>1. offset \in Nat /\ length \in Nat /\ ext_end \in Nat
    BY DEF IInv, Types
  <2>2. offset + 2 \in Nat
    BY <2>1
  <2> QED
    BY <2>1, <2>2, AtType DEF IInv
<1>2. CASE ReadExtensions
  <2>1. pc = "extensions" /\ (pc' = "try" \/ (pc' = "extension" /\ offset' = offset + 2))
    BY <1>2 DEF ReadExtensions, GoTo, GiveUp
  <2> QED
    BY <1>1, <2>1 DEF Onward, StagesLeft, Extracting, OnPayload, Extractors
<1>3. CASE NextExtension
  <2> DEFINE len == At16(offset + 2)
  <2>1. /\ pc = "extension"
        /\ \/ pc' = "try"
           \/ offset + 4 <= ext_end /\ pc' = "server_name" /\ offset' = offset + 4
           \/ offset + 4 <= ext_end /\ pc' = "extension" /\ offset' = offset + 4 + len
    BY <1>3 DEF NextExtension, GoTo, GiveUp, SkipExtension
  <2>2. ext_end <= length
    BY <2>1 DEF IInv, Payload
  <2> HIDE DEF len
  <2>3. len \in Nat
    BY <1>1 DEF len
  <2>4. \/ pc' = "try"
        \/ pc' = "server_name" /\ offset <= offset'
        \/ pc' = pc /\ offset < offset' /\ offset < length /\ offset <= offset'
    BY <1>1, <2>1, <2>2, <2>3
  <2> QED
    BY <2>1, <2>4 DEF Onward, StagesLeft, Extracting, OnPayload, Extractors
<1>4. CASE ServerName
  <2>1. pc = "server_name" /\ pc' \in {"try", "done"}
    BY <1>4 DEF ServerName, GiveUp, Return
  <2> QED
    BY <2>1 DEF Onward, Extracting, OnPayload, Extractors
<1> QED
  BY <1>2, <1>3, <1>4

LEMMA RequestOnward ==
    ASSUME IInv, Scan \/ SkipBlank \/ ReadValue
    PROVE  pc \in Extracting /\ Onward
<1>1. offset \in Nat /\ length \in Nat
  BY DEF IInv, Types
<1>2. CASE Scan
  <2>1. /\ pc = "scan"
        /\ \/ pc' = "try"
           \/ pc' = "blanks" /\ offset' = offset + 5
           \/ offset + 6 < length /\ pc' = "scan" /\ offset' = offset + 1
    BY <1>2 DEF Scan, MayScan, GoTo, GiveUp
  <2>2. \/ pc' = "try"
        \/ pc' = "blanks" /\ offset <= offset'
        \/ pc' = pc /\ offset < offset' /\ offset < length /\ offset <= offset'
    BY <1>1, <2>1
  <2> QED
    BY <2>1, <2>2 DEF Onward, StagesLeft, Extracting, OnPayload, Extractors
<1>3. CASE SkipBlank
  <2>1. /\ pc = "blanks"
        /\ \/ pc' = "value" /\ offset' = offset
           \/ offset < length /\ pc' = "blanks" /\ offset' = offset + 1
    BY <1>3 DEF SkipBlank, GoTo
  <2>2. \/ pc' = "value" /\ offset <= offset'
        \/ pc' = pc /\ offset < offset' /\ offset < length /\ offset <= offset'
    BY <1>1, <2>1
  <2> QED
    BY <2>1, <2>2 DEF Onward, StagesLeft, Extracting, OnPayload, Extractors
<1>4. CASE ReadValue
  <2>1. /\ pc = "value"
        /\ \/ pc' \in {"try", "done"}
           \/ offset < length /\ pc' = "value" /\ offset' = offset + 1
    BY <1>4 DEF ReadValue, GoTo, GiveUp, Return
  <2>2. \/ pc' \in {"try", "done"}
        \/ pc' = pc /\ offset < offset' /\ offset < length /\ offset <= offset'
    BY <1>1, <2>1
  <2> QED
    BY <2>1, <2>2 DEF Onward, StagesLeft, Extracting, OnPayload, Extractors
<1> QED
  BY <1>2, <1>3, <1>4

LEMMA LabelOnward == ASSUME IInv, ReadLabel PROVE pc \in Extracting /\ Onward
<1>1. offset \in Nat /\ length \in Nat /\ At(offset) \in Nat
  <2>1. offset \in Nat /\ length \in Nat
    BY DEF IInv, Types
  <2> QED
    BY <2>1, AtType DEF IInv
<1>2. /\ pc = "label"
      /\ \/ pc' \in {"try", "done"}
         \/ offset < length /\ pc' = pc /\ offset' = offset + 1 + At(offset)
  BY DEF ReadLabel, EndOfQuery, GiveUp, Return
<1>3. \/ pc' \in {"try", "done"}
      \/ pc' = pc /\ offset < offset' /\ offset < length /\ offset <= offset'
  BY <1>1, <1>2
<1> QED
  BY <1>2, <1>3 DEF Onward, StagesLeft, Extracting, OnPayload, Extractors

(* The ports of HTTP and TLS differ, and so no third extractor is tried. *)
LEMMA FewTries == ASSUME NEW n \in Int
                  PROVE  Len(FastPathTries(n)) \in 0..2 /\ Len(SimpleTries(n)) \in 0..2
<1>1. ASSUME NEW p \in BOOLEAN, NEW q \in BOOLEAN, NEW d \in BOOLEAN, ~(p /\ q)
      PROVE  Len(If("tls", p) \o If("http", q) \o If("dns", d)) \in 0..2
  <2>1. PICK a, b, c : a = If("tls", p) /\ b = If("http", q) /\ c = If("dns", d)
    OBVIOUS
  <2>2. /\ a \in Seq(Extractors) /\ b \in Seq(Extractors) /\ c \in Seq(Extractors)
        /\ Len(a) \in {0, 1} /\ Len(b) \in {0, 1} /\ Len(c) \in {0, 1} /\ (Len(a) = 0 \/ Len(b) = 0)
    <3>1. /\ a \in {<<>>, <<"tls">>} /\ b \in {<<>>, <<"http">>} /\ c \in {<<>>, <<"dns">>}
          /\ a = <<>> \/ b = <<>>
      BY <1>1, <2>1, Zenon DEF If
    <3>2. \A e \in Extractors : <<e>> \in Seq(Extractors) /\ Len(<<e>>) = 1
      OBVIOUS
    <3>3. <<>> \in Seq(Extractors) /\ Len(<<>>) = 0
      OBVIOUS
    <3>4. "tls" \in Extractors /\ "http" \in Extractors /\ "dns" \in Extractors
      BY DEF Extractors
    <3>5. \A e \in Extractors : \A s \in {<<>>, <<e>>} :
             s \in Seq(Extractors) /\ Len(s) \in {0, 1}
      BY <3>2, <3>3, Zenon
    <3>6. /\ a \in Seq(Extractors) /\ b \in Seq(Extractors) /\ c \in Seq(Extractors)
          /\ Len(a) \in {0, 1} /\ Len(b) \in {0, 1} /\ Len(c) \in {0, 1}
      BY <3>1, <3>4, <3>5, Zenon
    <3> QED
      BY <3>1, <3>3, <3>6, Zenon
  <2>3. PICK u : u = a \o b
    OBVIOUS
  <2>4. u \in Seq(Extractors) /\ Len(u) = Len(a) + Len(b)
    BY <2>2, <2>3, ConcatProperties
  <2>5. Len(u \o c) = Len(u) + Len(c)
    <3>1. u \in Seq(Extractors) /\ c \in Seq(Extractors)
      BY <2>2, <2>4
    <3> QED
      BY ONLY <3>1, ConcatProperties, Zenon
  <2>6. Len(u) + Len(c) \in 0..2
    <3>1. \A i, j, k \in {0, 1} : (i = 0 \/ j = 0) => i + j + k \in 0..2
      OBVIOUS
    <3>2. Len(a) + Len(b) + Len(c) \in 0..2
      BY <2>2, <3>1, Zenon
    <3> QED
      BY ONLY <2>4, <3>2
  <2>7. Len(u \o c) \in 0..2
    BY ONLY <2>5, <2>6
  <2> QED
    BY <2>1, <2>3, <2>7, Zenon
<1>2. Len(FastPathTries(n)) \in 0..2
  <2>1. ~((parsed.dest_port = 443 /\ n > 5) /\ (parsed.dest_port = 80 /\ n > 10))
    OBVIOUS
  <2> QED
    BY <1>1, <2>1 DEF FastPathTries, OnDNSPort
<1>3. Len(SimpleTries(n)) \in 0..2
  <2>1. ~((parsed.has_tcp /\ parsed.dest_port = 443 /\ n > 5)
          /\ (parsed.has_tcp /\ parsed.dest_port = 80 /\ n > 10))
    OBVIOUS
  <2> QED
    BY <1>1, <2>1 DEF SimpleTries, OnDNSPort
<1> QED
  BY <1>2, <1>3

LEMMA PayloadAdvances ==
    ASSUME IInv, InspectPayload PROVE StepsLeft' \in 0..(StepsLeft - 1)
<1>1. pc = "parsed" /\ UNCHANGED frame
  BY DEF InspectPayload
<1>2. PICK m \in Nat : m = Len(frame)
  BY LenProperties DEF IInv, Types
<1>3. StepsLeft = 2 + 2 * (m + 8)
  BY <1>1, <1>2 DEF StepsLeft, StagesLeft
<1>4. CASE ~HasPorts
  <2>1. pc' = "skip"
    BY <1>4 DEF InspectPayload
  <2>2. StepsLeft' = 0
    BY <2>1 DEF StepsLeft
  <2> QED
    BY <1>3, <2>2
<1>5. CASE HasPorts
  <2>1. pc' = "try" /\ IInv'
    BY <1>5, InspectPayloadHolds DEF InspectPayload
  <2>2. PICK l \in Nat : l = length' /\ l <= m
    <3>1. base' \in Nat /\ length' \in Nat /\ base' + length' = m
      BY <1>1, <1>2, <2>1 DEF IInv, Types, Payload, OnPayload
    <3>2. \A i, j \in Nat : i + j = m => j <= m
      OBVIOUS
    <3>3. length' <= m
      BY <3>1, <3>2
    <3> QED
      BY <3>1, <3>3
  <2>3. todo' \in {FastPathTries(l), SimpleTries(l)}
    BY <1>5, <2>2 DEF InspectPayload
  <2>4. PICK k \in Nat : k = Len(todo') /\ k <= 2
    <3>1. l \in Int
      OBVIOUS
    <3>2. Len(todo') \in 0..2
      BY <2>3, <3>1, FewTries, Zenon
    <3>3. \A i \in 0..2 : i \in Nat /\ i <= 2
      OBVIOUS
    <3> QED
      BY <3>2, <3>3, Zenon
  <2>5. StepsLeft' = 1 + k * (l + 8)
    BY <2>1, <2>2, <2>4 DEF StepsLeft
  <2>6. k \in {0, 1, 2}
    BY <2>4
  <2>7. k * (l + 8) \in Nat /\ k * (l + 8) <= 2 * (m + 8)
    <3>1. l <= m
      BY <2>2
    <3>2. /\ 0 * (l + 8) = 0 /\ 1 * (l + 8) = l + 8 /\ 2 * (l + 8) \in Nat
          /\ l + 8 <= 2 * (m + 8) /\ 2 * (l + 8) <= 2 * (m + 8)
      BY ONLY <3>1, l \in Nat, m \in Nat
    <3> QED
      BY <2>6, <3>2
  <2> QED
    BY <1>3, <2>5, <2>7
<1> QED
  BY <1>4, <1>5

LEMMA TryAdvances == ASSUME IInv, TryExtractor PROVE StepsLeft' \in 0..(StepsLeft - 1)
<1>1. /\ pc = "try" /\ length \in Nat /\ todo \in Seq(Extractors) /\ UNCHANGED length
      /\ IF todo = <<>> THEN pc' = "done" ELSE pc' = Head(todo) /\ todo' = Tail(todo)
  BY DEF TryExtractor, IInv, Types
<1>2. StepsLeft = 1 + Len(todo) * (length + 8) /\ Len(todo) * (length + 8) \in Nat
  BY <1>1, Weights DEF StepsLeft, IInv
<1>3. CASE todo = <<>>
  <2>1. StepsLeft' = 0
    BY <1>1, <1>3 DEF StepsLeft
  <2> QED
    BY <1>2, <2>1
<1>4. CASE todo # <<>>
  <2>1. pc' \in Extractors /\ Len(todo') + 1 = Len(todo)
    BY <1>1, <1>4, HeadTailProperties
  <2>2. StepsLeft' = (Len(todo') + 1) * (length' + 8)
    BY <2>1 DEF StepsLeft, Extractors
  <2>3. StepsLeft' = Len(todo) * (length + 8)
    BY <1>1, <2>1, <2>2
  <2> QED
    BY <1>2, <2>3
<1> QED
  BY <1>3, <1>4

LEMMA ExtractAdvances == ASSUME IInv, ExtractStep PROVE StepsLeft' \in 0..(StepsLeft - 1)
<1>1. /\ Types /\ Types' /\ UNCHANGED <<length, todo>>
      /\ TLSStep \/ HTTPStep \/ DNSStep
  BY ExtractStepHolds DEF ExtractStep, Extract, IInv
<1>2. CASE pc \in Extracting /\ Onward
  BY <1>1, <1>2, OnwardAdvances
<1>3. CASE ReadHello \/ ReadRequest \/ ReadQuery
  <2>1. PICK n \in Nat, k \in Nat : n = length /\ k = Len(todo) /\ k * (n + 8) \in Nat
    BY <1>1, Weights
  <2>2. pc \in Extractors /\ pc' \in {"try", "session", "scan", "label"}
    BY <1>3 DEF ReadHello, ReadRequest, ReadQuery, GoTo, GiveUp, Extractors
  <2>3. StepsLeft = (k + 1) * (n + 8)
    BY <2>1, <2>2 DEF StepsLeft, Extractors
  <2>4. StepsLeft = k * (n + 8) + n + 8
    BY <2>1, <2>3
  <2>5. CASE pc' = "try"
    <3>1. StepsLeft' = 1 + k * (n + 8)
      BY <1>1, <2>1, <2>5 DEF StepsLeft
    <3> QED
      BY <2>1, <2>4, <3>1
  <2>6. CASE pc' # "try"
    <3>1. StepsLeft' = 1 + StagesLeft' + BytesLeft' + k * (n + 8)
      BY <1>1, <2>1, <2>2, <2>6 DEF StepsLeft
    <3>2. StagesLeft' \in 0..6
      BY DEF StagesLeft
    <3>3. BytesLeft' \in 0..n
      <4>1. offset' \in Nat /\ length' = n
        BY <1>1, <2>1 DEF Types
      <4>2. BytesLeft' = IF offset' < length' THEN length' - offset' ELSE 0
        BY DEF BytesLeft
      <4>3. \A o \in Nat : (IF o < n THEN n - o ELSE 0) \in 0..n
        OBVIOUS
      <4> QED
        BY <4>1, <4>2, <4>3, Zenon
    <3> QED
      BY <2>1, <2>4, <3>1, <3>2, <3>3
  <2> QED
    BY <2>5, <2>6
<1> QED
  BY <1>1, <1>2, <1>3, FieldOnward, ExtensionOnward, RequestOnward, LabelOnward
  DEF TLSStep, HTTPStep, DNSStep

LEMMA ParseAdvances == ASSUME IInv, ParseStep PROVE StepsLeft' \in 0..(StepsLeft - 1)
<1>1. UNCHANGED frame
  BY DEF ParseStep, Parse, ParseEthernet, ParseIPv4, ParseTCP, ParseUDP
<1>2. \/ pc = "ethernet" /\ pc' \in {"ipv4", "parsed", "skip"}
      \/ pc = "ipv4" /\ pc' \in {"tcp", "udp", "parsed", "skip"}
      \/ pc \in {"tcp", "udp"} /\ pc' \in {"parsed", "skip"}
  BY DEF ParseStep, Parse, ParseEthernet, ParseIPv4, ParseTCP, ParseUDP, Reject, AfterIP
<1>3. PICK m \in Nat : m = Len(frame)
  BY LenProperties DEF IInv, Types
<1>4. pc \in {"ethernet", "ipv4", "tcp", "udp", "parsed"} =>
         StepsLeft = 1 + StagesLeft + 2 * (m + 8)
  BY <1>3 DEF StepsLeft
<1>5. pc' \in {"ethernet", "ipv4", "tcp", "udp", "parsed"} =>
         StepsLeft' = 1 + StagesLeft' + 2 * (m + 8)
  BY <1>1, <1>3 DEF StepsLeft
<1>6. pc' = "skip" => StepsLeft' = 0
  BY DEF StepsLeft
<1>7. /\ pc = "ethernet" => StagesLeft = 4
      /\ pc = "ipv4" => StagesLeft = 3
      /\ pc \in {"tcp", "udp"} => StagesLeft = 2
      /\ pc' = "ipv4" => StagesLeft' = 3
      /\ pc' \in {"tcp", "udp"} => StagesLeft' = 2
      /\ pc' = "parsed" => StagesLeft' = 1
  BY DEF StagesLeft
<1>8. \E i \in 0..4 : StepsLeft = 1 + i + 2 * (m + 8)
                     /\ (StepsLeft' = 0 \/ \E j \in 0..(i - 1) : StepsLeft' = 1 + j + 2 * (m + 8))
  BY <1>2, <1>4, <1>5, <1>6, <1>7
<1> QED
  BY <1>8

(* No frame keeps the engine in a loop, for whatever lengths it holds:     *)
(* extractors go on to later bytes or stages, within the payload, and each *)
(* is tried once (sni_extractor.cpp:153, inspectPayload()).                *)
THEOREM InspectionAdvances == Spec => EveryStepAdvances
<1>1. IInv /\ [Next]_inspectionVars
        => [StepsLeft # 0 => StepsLeft' \in 0..(StepsLeft - 1)]_inspectionVars
  <2> SUFFICES ASSUME IInv, Next, StepsLeft # 0 PROVE StepsLeft' \in 0..(StepsLeft - 1)
    OBVIOUS
  <2>1. pc \notin {"idle", "done", "skip"}
    BY DEF StepsLeft
  <2>2. Inspect
    BY <2>1 DEF Next, NextFrame, Finish
  <2> QED
    BY <2>2, ParseAdvances, PayloadAdvances, TryAdvances, ExtractAdvances DEF Inspect
<1> QED
  BY <1>1, Inductive, PTL DEF Spec, EveryStepAdvances
=============================================================================
