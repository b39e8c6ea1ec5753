--------------------------- MODULE NameExtractors ---------------------------
(***************************************************************************)
(* The extractors of src/sni_extractor.cpp that the engines call, as steps *)
(* over a payload that starts at base and has length bytes.  Each length   *)
(* field moves offset on and can end the extraction.                       *)
(***************************************************************************)
EXTENDS FrameBuffer

VARIABLES
    base, length,    \* the payload within the frame
    ext_end,         \* end of the extensions (TLS)
    ext_len,         \* length of the server name extension (TLS)
    start,           \* first byte of the value (HTTP)
    name,            \* the name read so far
    found            \* the extractor returned a name

locals == <<ext_end, ext_len, start>>

At(i)    == Byte(base + i)
At16(i)  == readUint16BE(base + i)
ReadsTo(i) == Reads(base + i)

(* std::nullopt: the caller goes on. *)
GiveUp == pc' = "try" /\ UNCHANGED <<offset, locals, name, found>>

Return(host) == /\ found' = TRUE /\ name' = host
                /\ pc' = "done"
                /\ UNCHANGED <<offset, locals>>

GoTo(step, at) == pc' = step /\ offset' = at /\ UNCHANGED <<name, found>>

-----------------------------------------------------------------------------
(* SNIExtractor *)

(* Fault: the record may go on in another segment. *)
isTLSClientHello_AnyRecord == length >= 6 /\ At(0) = 22 /\ At(1) = 3 /\ At(2) <= 4 /\ At(5) = 1

isTLSClientHello == /\ length >= 6
                    /\ At(0) = 22 /\ At(1) = 3 /\ At(2) <= 4
                    /\ At16(3) <= length - 5
                    /\ At(5) = 1

(* Record header, handshake header, version and random. *)
ReadHello == /\ pc = "tls"
             /\ IF length < 6 THEN UNCHANGED touched ELSE ReadsTo(6)
             /\ IF isTLSClientHello /\ length >= 5 + 4 + 34
                THEN GoTo("session", 5 + 4 + 34) /\ UNCHANGED locals
                ELSE GiveUp

(* A field with a length of width bytes in front is gone past. *)
SkipField(step, width, next) ==
    LET end == offset + width + (IF width = 1 THEN At(offset) ELSE At16(offset))
    IN /\ pc = step
       /\ \/ offset + width > length /\ GiveUp /\ UNCHANGED touched
          \/ /\ offset + width <= length
             /\ ReadsTo(offset + width)
             /\ IF end <= length THEN GoTo(next, end) /\ UNCHANGED locals ELSE GiveUp

SkipSession     == SkipField("session", 1, "ciphers")
SkipCiphers     == SkipField("ciphers", 2, "compression")
SkipCompression == SkipField("compression", 1, "extensions")

(* std::min(offset + ext_total, length) *)
ExtensionsEnd(end) == IF end <= length THEN end ELSE length

ReadExtensions ==
    /\ pc = "extensions"
    /\ \/ offset + 2 > length /\ GiveUp /\ UNCHANGED touched
       \/ /\ offset + 2 <= length
          /\ ReadsTo(offset + 2)
          /\ ext_end' = ExtensionsEnd(offset + 2 + At16(offset))
          /\ GoTo("extension", offset + 2)
          /\ UNCHANGED <<ext_len, start>>

(* Fault: an extension of another type leaves offset at its body, which is *)
(* then read as the next header.                                           *)
SkipExtension_HeaderOnly(len) == offset + 4

(* Fault: the header of the extension is forgotten. *)
SkipExtension_BodyOnly(len) == offset + len

SkipExtension(len) == offset + 4 + len

NextExtension ==
    LET type == At16(offset)
        len  == At16(offset + 2)
    IN /\ pc = "extension"
       /\ \/ offset + 4 > ext_end /\ GiveUp /\ UNCHANGED touched
          \/ /\ offset + 4 <= ext_end
             /\ ReadsTo(offset + 4)
             /\ \/ offset + 4 + len > ext_end /\ GiveUp
                \/ /\ offset + 4 + len <= ext_end /\ type = 0
                   /\ ext_len' = len
                   /\ GoTo("server_name", offset + 4) /\ UNCHANGED <<ext_end, start>>
                \/ /\ offset + 4 + len <= ext_end /\ type # 0
                   /\ GoTo("extension", SkipExtension(len)) /\ UNCHANGED locals

(* Fault: the name may be as long as it says. *)
HostFits_Nonempty(host_len) == host_len > 0

HostFits(host_len) == host_len > 0 /\ 5 + host_len <= ext_len

ServerName ==
    LET host_len == At16(offset + 3)
    IN /\ pc = "server_name"
       /\ \/ ext_len < 5 /\ GiveUp /\ UNCHANGED touched
          \/ /\ ext_len >= 5
             /\ \/ /\ At(offset + 2) = 0 /\ HostFits(host_len)
                   /\ ReadsTo(offset + 5 + host_len)
                   /\ Return(Bytes(base + offset + 5, host_len))
                \/ /\ At(offset + 2) # 0 \/ ~HostFits(host_len)
                   /\ ReadsTo(offset + 5) /\ GiveUp

-----------------------------------------------------------------------------
(* HTTPHostExtractor *)

(* GET , POST, PUT , HEAD, DELE, PATC, OPTI *)
Methods == {<<71, 69, 84, 32>>, <<80, 79, 83, 84>>, <<80, 85, 84, 32>>, <<72, 69, 65, 68>>,
            <<68, 69, 76, 69>>, <<80, 65, 84, 67>>, <<79, 80, 84, 73>>}

IsHTTPRequest == length >= 4 /\ Bytes(base, 4) \in Methods

ReadRequest == /\ pc = "http"
               /\ IF length < 4 THEN UNCHANGED touched ELSE ReadsTo(4)
               /\ IF IsHTTPRequest THEN GoTo("scan", 0) /\ UNCHANGED locals ELSE GiveUp

(* "host:", each letter in either case. *)
HostAt(i) == /\ At(i) \in {72, 104} /\ At(i + 1) \in {79, 111}
             /\ At(i + 2) \in {83, 115} /\ At(i + 3) \in {84, 116} /\ At(i + 4) = 58

(* Fault: the scan runs to the last byte. *)
MayScan_ToEnd(i) == i < length

MayScan(i) == i + 6 < length

Scan == /\ pc = "scan"
        /\ \/ ~MayScan(offset) /\ GiveUp /\ UNCHANGED touched
           \/ /\ MayScan(offset)
              /\ ReadsTo(offset + 5)
              /\ IF HostAt(offset) THEN GoTo("blanks", offset + 5) ELSE GoTo("scan", offset + 1)
              /\ UNCHANGED locals

SkipBlank == /\ pc = "blanks"
             /\ IF offset < length THEN ReadsTo(offset + 1) ELSE UNCHANGED touched
             /\ IF offset < length /\ At(offset) \in {32, 9}
                THEN GoTo("blanks", offset + 1) /\ UNCHANGED locals
                ELSE start' = offset /\ GoTo("value", offset) /\ UNCHANGED <<ext_end, ext_len>>

(* host.substr(0, colon) *)
UpToColon(host) == LET Colon(i) == i \in DOMAIN host /\ host[i] = 58
                   IN IF \E i \in DOMAIN host : Colon(i)
                      THEN SubSeq(host, 1, (CHOOSE i \in DOMAIN host :
                               Colon(i) /\ \A j \in 1..(i - 1) : ~Colon(j)) - 1)
                      ELSE host

ReadValue == /\ pc = "value"
             /\ IF offset < length THEN ReadsTo(offset + 1) ELSE UNCHANGED touched
             /\ IF offset < length /\ At(offset) \notin {13, 10}
                THEN GoTo("value", offset + 1) /\ UNCHANGED locals
                ELSE IF offset <= start THEN GiveUp
                ELSE Return(UpToColon(Bytes(base + start, offset - start)))

-----------------------------------------------------------------------------
(* DNSExtractor *)

IsDNSQuery == length >= 12 /\ At(2) < 128 /\ At16(4) # 0

ReadQuery == /\ pc = "dns"
             /\ IF length < 12 THEN UNCHANGED touched ELSE ReadsTo(6)
             /\ IF IsDNSQuery THEN GoTo("label", 12) /\ UNCHANGED locals ELSE GiveUp

(* The loop ends, and the labels read so far are the answer. *)
EndOfQuery == IF name = <<>> THEN GiveUp ELSE Return(name)

Dot == <<46>>

(* Fault: a label may run out of the payload. *)
LabelFits_Unchecked(label_len) == label_len \in 1..63

LabelFits(label_len) == label_len \in 1..63 /\ offset + 1 + label_len <= length

ReadLabel ==
    LET label_len == At(offset)
        label     == Bytes(base + offset + 1, label_len)
    IN /\ pc = "label"
       /\ \/ offset >= length /\ EndOfQuery /\ UNCHANGED touched
          \/ offset < length /\ ~LabelFits(label_len) /\ ReadsTo(offset + 1) /\ EndOfQuery
          \/ /\ offset < length /\ LabelFits(label_len)
             /\ ReadsTo(offset + 1 + label_len)
             /\ name' = IF name = <<>> THEN label ELSE name \o Dot \o label
             /\ offset' = offset + 1 + label_len
             /\ UNCHANGED <<pc, found, locals>>

-----------------------------------------------------------------------------
TLSStep  == \/ ReadHello \/ SkipSession \/ SkipCiphers \/ SkipCompression
            \/ ReadExtensions \/ NextExtension \/ ServerName
HTTPStep == ReadRequest \/ Scan \/ SkipBlank \/ ReadValue
DNSStep  == ReadQuery \/ ReadLabel

Extract == (TLSStep \/ HTTPStep \/ DNSStep) /\ UNCHANGED <<frame, base, length>>
=============================================================================
