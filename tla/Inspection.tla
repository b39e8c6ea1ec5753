----------------------------- MODULE Inspection -----------------------------
(***************************************************************************)
(* A frame on its way through the parser and the extractors, in either     *)
(* engine.  Both engines compute once more where the payload starts        *)
(* (buildPacketJob() in dpi_mt.cpp, calculatePayloadOffset() in            *)
(* main_simple.cpp) and choose the extractors by protocol, port and length *)
(* (inspectPayload() in fast_path.cpp, the loop of main_simple.cpp).  The  *)
(* frames are free: TCP and IP promise nothing about their bytes.          *)
(***************************************************************************)
EXTENDS PacketParser, NameExtractors, RequestFormats

CONSTANTS
    Frames,     \* the frames a capture may hold
    Requests    \* well-formed requests, with the name that each was sent for

ASSUME FramesAssumption == Frames \subseteq Seq(0..255)

(* Of HTTP the requests with one of the methods in the extractor's list. *)
ASSUME RequestsAssumption ==
    \A r \in Requests :
        /\ IsWellFormed(r)
        /\ r.kind = "http" => [i \in 1..4 |-> Oct(r, i - 1)] \in Methods

VARIABLES
    engine,     \* "mt" or "simple"
    todo        \* the extractors still to be tried

inspectionVars == <<frame, pc, offset, touched, parsed, base, length, locals, name, found,
                    engine, todo>>

NoFrame == <<>>

Init == /\ engine \in {"mt", "simple"}
        /\ frame = NoFrame /\ pc = "idle" /\ offset = 0 /\ touched = 0
        /\ parsed = NoPacket
        /\ base = 0 /\ length = 0 /\ ext_end = 0 /\ ext_len = 0 /\ start = 0
        /\ name = <<>> /\ found = FALSE
        /\ todo = <<>>

(* Fault: the structure that is reused keeps what the last packet left. *)
Fresh_Reused == parsed

(* parse() resets the ParsedPacket that both engines reuse. *)
Fresh == NoPacket

(* A packet was read; parse() begins. *)
Begin(f) == /\ pc = "idle"
            /\ frame' = f
            /\ parsed' = Fresh
            /\ pc' = "ethernet"
            /\ UNCHANGED <<offset, touched, base, length, locals, name, found, engine, todo>>

NextFrame == pc = "idle" /\ \E f \in Frames : Begin(f)

(* The loop goes round: only the ParsedPacket stays. *)
Finish == /\ pc \in {"done", "skip"}
          /\ pc' = "idle"
          /\ frame' = NoFrame /\ offset' = 0 /\ touched' = 0
          /\ base' = 0 /\ length' = 0 /\ ext_end' = 0 /\ ext_len' = 0 /\ start' = 0
          /\ name' = <<>> /\ found' = FALSE
          /\ todo' = <<>>
          /\ UNCHANGED <<parsed, engine>>

Transport == 14 + (Byte(14) % 16) * 4

(* Fault: the options of the TCP header are taken for payload. *)
JobPayloadOffset_NoOptions ==
    IF parsed.has_tcp /\ Len(frame) > Transport + 12 THEN Transport + 20
    ELSE IF parsed.has_udp THEN Transport + 8
    ELSE Transport

(* buildPacketJob() on a frame longer than the Ethernet header. *)
JobPayloadOffset ==
    IF parsed.has_tcp /\ Len(frame) > Transport + 12
    THEN Transport + (Byte(Transport + 12) \div 16) * 4
    ELSE IF parsed.has_udp THEN Transport + 8
    ELSE Transport

(* calculatePayloadOffset(); size() stands for "no payload". *)
calculatePayloadOffset ==
    IF Len(frame) <= 14 THEN Len(frame)
    ELSE IF parsed.has_tcp
         THEN IF Len(frame) <= Transport + 12 THEN Len(frame)
              ELSE Transport + (Byte(Transport + 12) \div 16) * 4
    ELSE IF parsed.has_udp THEN Transport + 8
    ELSE Transport

PayloadOffset == IF engine = "mt" THEN JobPayloadOffset ELSE calculatePayloadOffset

HasPorts == parsed.has_ip /\ (parsed.has_tcp \/ parsed.has_udp)

If(extractor, condition) == IF condition THEN <<extractor>> ELSE <<>>

OnDNSPort == 53 \in {parsed.dest_port, parsed.src_port}

(* inspectPayload() goes on to the next extractor when one finds nothing.  *)
FastPathTries(n) == If("tls", parsed.dest_port = 443 /\ n > 5)
                    \o If("http", parsed.dest_port = 80 /\ n > 10)
                    \o If("dns", OnDNSPort /\ n > 0)

(* main_simple.cpp asks for the protocol too and tries one extractor only. *)
SimpleTries(n) ==
    LET tls  == parsed.has_tcp /\ parsed.dest_port = 443 /\ n > 5
        http == parsed.has_tcp /\ parsed.dest_port = 80 /\ n > 10
    IN If("tls", tls) \o If("http", http)
       \o If("dns", ~tls /\ ~http /\ parsed.has_udp /\ OnDNSPort)

(* The headers are through: frames without ports are skipped, of the       *)
(* others the payload is looked at.                                        *)
InspectPayload ==
    LET n == IF PayloadOffset < Len(frame) THEN Len(frame) - PayloadOffset ELSE 0
    IN /\ pc = "parsed"
       /\ \/ ~HasPorts /\ pc' = "skip" /\ UNCHANGED <<base, length, todo, touched>>
          \/ /\ HasPorts
             /\ base' = PayloadOffset /\ length' = n
             /\ todo' = IF engine = "mt" THEN FastPathTries(n) ELSE SimpleTries(n)
             /\ Reads(IF parsed.has_tcp THEN Transport + 13 ELSE 15)
             /\ pc' = "try"
       /\ UNCHANGED <<frame, offset, parsed, locals, name, found, engine>>

TryExtractor ==
    /\ pc = "try"
    /\ IF todo = <<>> THEN pc' = "done" /\ UNCHANGED <<todo, offset>>
       ELSE pc' = Head(todo) /\ todo' = Tail(todo) /\ offset' = 0
    /\ UNCHANGED <<frame, touched, parsed, base, length, locals, name, found, engine>>

ParseStep   == Parse /\ UNCHANGED <<base, length, locals, name, found, engine, todo>>
ExtractStep == Extract /\ UNCHANGED <<parsed, engine, todo>>

Inspect == ParseStep \/ InspectPayload \/ TryExtractor \/ ExtractStep

Next == NextFrame \/ Inspect \/ Finish

Spec == Init /\ [][Next]_inspectionVars

-----------------------------------------------------------------------------
(* sni_extractor.cpp:11, "NEVER read past the end of the buffer", for the  *)
(* parser, the two computations of the payload and every extractor: no     *)
(* frame, whatever its lengths say, makes them read behind its last byte.  *)
InBounds == touched <= Len(frame)

(* The parser and the two engines follow the header lengths on their own;  *)
(* on every frame the parser accepts they find the same payload.           *)
OffsetsAgree ==
    pc = "parsed" /\ HasPorts =>
        offset = JobPayloadOffset /\ offset = calculatePayloadOffset /\ offset <= Len(frame)

(* In a well-formed request the name is found and is the one that was      *)
(* sent, wherever options, session, ciphers and other extensions put it.   *)
WellFormedIsFound ==
    \A r \in Requests :
        frame = r.frame /\ pc \in {"done", "skip"} => pc = "done" /\ found /\ name = r.name

(* A segment from a client to port 443 of which the frame has less than    *)
(* the TLS record at its beginning says: a Client Hello that was cut short *)
(* by the capture or goes on in the next segment.                          *)
SegmentStart == Transport + (Byte(Transport + 12) \div 16) * 4

CutHello ==
    /\ Byte(23) = TCP
    /\ readUint16BE(Transport) # 53 /\ readUint16BE(Transport + 2) = 443
    /\ readUint16BE(SegmentStart + 3) > Len(frame) - SegmentStart - 5

(* It yields no name rather than a part of one: a rule for a domain would  *)
(* not match the part.                                                     *)
CutHelloHasNoName == CutHello => ~found

(* The name is made of labels that lie whole in the payload, one behind    *)
(* the other from the first on; they start at the octets with their        *)
(* lengths, where the name has dots.                                       *)
WholeLabels ==
    /\ 13 + Len(name) <= length
    /\ \E starts \in SUBSET (0..Len(name)) :
          /\ 0 \in starts
          /\ \A s \in starts :
                LET end == s + At(12 + s)
                IN /\ At(12 + s) \in 1..63
                   /\ end = Len(name) \/ end + 1 \in starts
                   /\ \A i \in (s + 1)..end : name[i] = At(12 + i)
                   /\ s # 0 => name[s] = 46

OnlyDNS == OnDNSPort /\ parsed.dest_port \notin {80, 443}

(* Of a DNS question that was cut short whole labels may be returned,      *)
(* first ones first, but never a part of one (against sni_extractor.cpp:12 *)
(* the labels read so far are not given up when the next is out of bounds).*)
LabelsAreWhole == found /\ OnlyDNS => WholeLabels

(* How many steps the inspection of a frame still takes at most: stages of *)
(* the parser or of the extractor at work, bytes for its loop to go over,  *)
(* and 8 + length for each extractor still to be tried, of two at most.    *)
StagesLeft == CASE pc = "session" -> 6
                [] pc = "ciphers" -> 5
                [] pc \in {"compression", "ethernet"} -> 4
                [] pc \in {"extensions", "ipv4", "scan"} -> 3
                [] pc \in {"extension", "tcp", "udp", "blanks"} -> 2
                [] pc \in {"server_name", "parsed", "value", "label"} -> 1
                [] OTHER -> 0

BytesLeft == IF offset < length THEN length - offset ELSE 0

StepsLeft == CASE pc \in {"ethernet", "ipv4", "tcp", "udp", "parsed"} ->
                     1 + StagesLeft + 2 * (Len(frame) + 8)
               [] pc \in {"idle", "done", "skip"} -> 0
               [] pc = "try" -> 1 + Len(todo) * (length + 8)
               [] pc \in {"tls", "http", "dns"} -> (Len(todo) + 1) * (length + 8)
               [] OTHER -> 1 + StagesLeft + BytesLeft + Len(todo) * (length + 8)

(* No frame keeps the engine busy: whatever lengths it holds, zero among   *)
(* them, each step leaves fewer to take, of n bytes 2n + 21 in all.        *)
EveryStepAdvances ==
    [][StepsLeft # 0 => StepsLeft' \in 0..(StepsLeft - 1)]_inspectionVars
=============================================================================
