--------------------------- MODULE RequestFormats ---------------------------
(***************************************************************************)
(* What a well-formed request is, apart from the code that reads it: the   *)
(* octets of a frame beside the places where its parts begin (RFC 791,     *)
(* 793, 768, 8446 and 6066, 7230, 1035).  A request is a record            *)
(*   [kind, frame, transport, payload, name, ...]                          *)
(* with the places of its kind; transport counts from the beginning of     *)
(* the frame, the other places from that of the payload.                   *)
(***************************************************************************)
EXTENDS Integers, Sequences

OctetIn(f, i) == IF i \in 0..(Len(f) - 1) THEN f[i + 1] ELSE 0
ShortIn(f, i) == OctetIn(f, i) * 256 + OctetIn(f, i + 1)

Oct(r, i)   == OctetIn(r.frame, r.payload + i)
Oct16(r, i) == ShortIn(r.frame, r.payload + i)
PayloadSize(r)     == Len(r.frame) - r.payload

(* Options may follow the fixed part of the header. *)
InIPv4(r, protocol) ==
    /\ ShortIn(r.frame, 12) = 2048
    /\ OctetIn(r.frame, 14) \div 16 = 4 /\ OctetIn(r.frame, 14) % 16 >= 5
    /\ OctetIn(r.frame, 23) = protocol
    /\ r.transport = 14 + (OctetIn(r.frame, 14) % 16) * 4
    /\ r.payload <= Len(r.frame)

InTCP(r, port) ==
    /\ InIPv4(r, 6)
    /\ ShortIn(r.frame, r.transport + 2) = port
    /\ OctetIn(r.frame, r.transport + 12) \div 16 >= 5
    /\ r.payload = r.transport + (OctetIn(r.frame, r.transport + 12) \div 16) * 4

InUDP(r) == InIPv4(r, 17) /\ r.payload = r.transport + 8

(* The octets from a place on spell the name. *)
Spells(r, from, word) == \A i \in 1..Len(word) : word[i] = Oct(r, from + i - 1)

-----------------------------------------------------------------------------
(* [ciphers, compression, extensions, entries]: the fields behind the      *)
(* session, whose place is fixed, and each extension up to the first with  *)
(* the server name, which is the last of entries.                          *)
BodyLength(r, k) == Oct16(r, r.entries[k] + 2)
EntriesEnd(r)    == r.extensions + 2 + Oct16(r, r.extensions)

HelloFields(r) ==
    /\ Oct(r, 0) = 22 /\ Oct(r, 1) = 3 /\ Oct(r, 2) <= 4 /\ Oct16(r, 3) + 5 <= PayloadSize(r)
    /\ Oct(r, 5) = 1
    /\ r.ciphers = 44 + Oct(r, 43)
    /\ r.compression = r.ciphers + 2 + Oct16(r, r.ciphers)
    /\ r.extensions = r.compression + 1 + Oct(r, r.compression)
    /\ EntriesEnd(r) <= PayloadSize(r)

Entries(r) ==
    /\ r.entries \in Seq(Nat) /\ r.entries # <<>>
    /\ r.entries[1] = r.extensions + 2
    /\ \A k \in 1..Len(r.entries) : r.entries[k] + 4 + BodyLength(r, k) <= EntriesEnd(r)
    /\ \A k \in 1..(Len(r.entries) - 1) :
          /\ Oct16(r, r.entries[k]) # 0
          /\ r.entries[k + 1] = r.entries[k] + 4 + BodyLength(r, k)

HostName(r) ==
    LET last == Len(r.entries)
        body == r.entries[last] + 4
    IN /\ Oct16(r, r.entries[last]) = 0
       /\ Oct(r, body + 2) = 0
       /\ Oct16(r, body + 3) = Len(r.name) /\ 5 + Len(r.name) <= BodyLength(r, last)
       /\ Spells(r, body + 5, r.name)

IsClientHello(r) == InTCP(r, 443) /\ HelloFields(r) /\ Entries(r) /\ HostName(r)

-----------------------------------------------------------------------------
(* [host, value, colon, end]: the header field, which no "host:" precedes, *)
(* its value, the colon in front of a port or the end, the end of line.    *)
HostFieldAt(r, i) ==
    /\ Oct(r, i) \in {72, 104} /\ Oct(r, i + 1) \in {79, 111}
    /\ Oct(r, i + 2) \in {83, 115} /\ Oct(r, i + 3) \in {84, 116} /\ Oct(r, i + 4) = 58

HostValue(r) ==
    /\ \A i \in (r.host + 5)..(r.value - 1) : Oct(r, i) \in {9, 32}
    /\ \A i \in r.value..(r.end - 1) : Oct(r, i) \notin {9, 10, 13, 32}
    /\ Oct(r, r.end) = 13 /\ Oct(r, r.end + 1) = 10
    /\ \A i \in r.value..(r.colon - 1) : Oct(r, i) # 58
    /\ r.colon = r.end \/ Oct(r, r.colon) = 58
    /\ Len(r.name) = r.colon - r.value /\ Spells(r, r.value, r.name)

IsRequest(r) ==
    /\ InTCP(r, 80)
    /\ {r.host, r.value, r.colon, r.end} \subseteq Nat
    /\ 4 < r.host /\ r.host + 5 <= r.value /\ r.value < r.colon /\ r.colon <= r.end
    /\ r.end + 2 <= PayloadSize(r)
    /\ HostFieldAt(r, r.host) /\ \A i \in 0..(r.host - 1) : ~HostFieldAt(r, i)
    /\ HostValue(r)

-----------------------------------------------------------------------------
(* [labels]: where the labels of the first question begin, and the octet   *)
(* with a zero behind them.                                                *)
Labels(r) ==
    LET last == Len(r.labels)
    IN /\ r.labels \in Seq(Nat) /\ last > 1
       /\ r.labels[1] = 12
       /\ \A k \in 1..(last - 1) :
             /\ 12 <= r.labels[k] /\ Oct(r, r.labels[k]) \in 1..63
             /\ r.labels[k + 1] = r.labels[k] + 1 + Oct(r, r.labels[k])
             /\ r.labels[k + 1] <= r.labels[last]
       /\ Oct(r, r.labels[last]) = 0 /\ r.labels[last] + 5 <= PayloadSize(r)

(* The labels with a dot in front of each but the first. *)
LabelsSpell(r) ==
    /\ Len(r.name) = r.labels[Len(r.labels)] - 13
    /\ \A k \in 1..(Len(r.labels) - 1) :
          /\ \A j \in 1..Oct(r, r.labels[k]) :
                r.name[r.labels[k] - 12 + j] = Oct(r, r.labels[k] + j)
          /\ k > 1 => r.name[r.labels[k] - 12] = 46

IsQuestion(r) ==
    /\ InUDP(r)
    /\ 53 \in {ShortIn(r.frame, r.transport), ShortIn(r.frame, r.transport + 2)}
    /\ ShortIn(r.frame, r.transport + 2) \notin {80, 443}
    /\ Oct(r, 2) < 128 /\ Oct16(r, 4) # 0
    /\ Labels(r) /\ LabelsSpell(r)

IsWellFormed(r) ==
    /\ r.frame \in Seq(0..255) /\ r.name \in Seq(0..255) /\ r.name # <<>>
    /\ {r.transport, r.payload} \subseteq Nat
    /\ \/ r.kind = "tls" /\ IsClientHello(r)
       \/ r.kind = "http" /\ IsRequest(r)
       \/ r.kind = "dns" /\ IsQuestion(r)
=============================================================================
