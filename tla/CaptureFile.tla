---------------------------- MODULE CaptureFile ----------------------------
(***************************************************************************)
(* PcapReader (src/pcap_reader.cpp) over a file of bytes.  A field of a    *)
(* header is the sequence of its octets as they lie in the memory of a     *)
(* little-endian host, so that swapping its bytes is reversing it.         *)
(***************************************************************************)
EXTENDS Integers, Sequences

VARIABLES
    file,              \* the input file
    pos,               \* the position in it
    reader,            \* "closed", "open", "failed" or "ended"
    needs_byte_swap,
    global_header,
    header             \* RawPacket::header

readerVars == <<file, pos, reader, needs_byte_swap, global_header, header>>

PCAP_MAGIC_NATIVE  == <<212, 195, 178, 161>>    \* 0xa1b2c3d4
PCAP_MAGIC_SWAPPED == <<161, 178, 195, 212>>

Field(at, n) == SubSeq(file, at + 1, at + n)

maybeSwap(swap, v) == IF swap THEN [i \in 1..Len(v) |-> v[Len(v) + 1 - i]] ELSE v

(* Four of the fields are swapped. *)
SwapGlobalHeader(swap, h) ==
    [f \in DOMAIN h |-> IF f \in {"version_major", "version_minor", "snaplen", "network"}
                        THEN maybeSwap(swap, h[f]) ELSE h[f]]

RawGlobalHeader ==
    [magic_number |-> Field(0, 4), version_major |-> Field(4, 2), version_minor |-> Field(6, 2),
     thiszone |-> Field(8, 4), sigfigs |-> Field(12, 4), snaplen |-> Field(16, 4),
     network |-> Field(20, 4)]

(* The two headers as they are written to a file. *)
GlobalOctets(h) == h.magic_number \o h.version_major \o h.version_minor \o h.thiszone
                   \o h.sigfigs \o h.snaplen \o h.network
PacketOctets(h) == h.ts_sec \o h.ts_usec \o h.incl_len \o h.orig_len

Opens == Len(file) >= 24 /\ Field(0, 4) \in {PCAP_MAGIC_NATIVE, PCAP_MAGIC_SWAPPED}

Open == /\ reader = "closed"
        /\ \/ ~Opens /\ reader' = "failed" /\ UNCHANGED <<pos, needs_byte_swap, global_header>>
           \/ /\ Opens
              /\ reader' = "open" /\ pos' = 24
              /\ needs_byte_swap' = (Field(0, 4) = PCAP_MAGIC_SWAPPED)
              /\ global_header' = SwapGlobalHeader(needs_byte_swap', RawGlobalHeader)
        /\ UNCHANGED <<file, header>>

(* Fault: the length is used as it is in the file. *)
PacketHeader_LengthAsStored(swap) ==
    [ts_sec   |-> maybeSwap(swap, Field(pos, 4)), ts_usec  |-> maybeSwap(swap, Field(pos + 4, 4)),
     incl_len |-> Field(pos + 8, 4), orig_len |-> maybeSwap(swap, Field(pos + 12, 4))]

PacketHeader(swap) ==
    [ts_sec   |-> maybeSwap(swap, Field(pos, 4)), ts_usec  |-> maybeSwap(swap, Field(pos + 4, 4)),
     incl_len |-> maybeSwap(swap, Field(pos + 8, 4)),
     orig_len |-> maybeSwap(swap, Field(pos + 12, 4))]

(* incl_len > 65535 *)
Bogus(len) == len[3] # 0 \/ len[4] # 0
Size(len)  == len[1] + 256 * len[2]

(* Fault: what is missing of a packet is not missed. *)
DataFits_Unchecked(len) == TRUE

DataFits(len) == pos + 16 + Size(len) <= Len(file)

(* readNextPacket() returns true. *)
HasPacket == /\ pos + 16 <= Len(file)
             /\ LET len == PacketHeader(needs_byte_swap).incl_len IN ~Bogus(len) /\ DataFits(len)

(* The data of the packet; resize() leaves zeros where nothing was read. *)
PacketData == LET n == Size(PacketHeader(needs_byte_swap).incl_len)
              IN [i \in 1..n |-> IF pos + 16 + i <= Len(file) THEN file[pos + 16 + i] ELSE 0]

ReadNextPacket == /\ reader = "open" /\ HasPacket
                  /\ header' = PacketHeader(needs_byte_swap)
                  /\ pos' = pos + 16 + Len(PacketData)
                  /\ UNCHANGED <<file, reader, needs_byte_swap, global_header>>

(* End of the file, a header or a packet cut short, or a bogus length: the *)
(* loop ends and close() runs.                                             *)
Close == /\ reader = "open" /\ ~HasPacket
         /\ reader' = "ended" /\ needs_byte_swap' = FALSE
         /\ UNCHANGED <<file, pos, global_header, header>>
=============================================================================
