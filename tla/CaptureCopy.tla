---------------------------- MODULE CaptureCopy ----------------------------
(***************************************************************************)
(* From the input file to the output file, in either engine: the reader,   *)
(* the inspection of each frame and the writing of the forwarded ones.     *)
(* main_simple.cpp writes a frame before it reads the next; in dpi_mt.cpp  *)
(* a thread writes the jobs later, in an order that Pipeline is about.     *)
(* Whether a frame is forwarded is for the rules and free here.            *)
(***************************************************************************)
EXTENDS CaptureFile, Inspection

CONSTANT Captures    \* [order, header, records, file, whole, starts]: a file, what was
                     \* captured in it, how many of the records are still whole, and where
                     \* they start, with the position behind the last one

VARIABLES
    output,     \* the output file
    jobs,       \* jobs forwarded and not written yet
    capture,    \* the capture the file is of (history)
    read,       \* the records read (history)
    written,    \* those written, in their order (history)
    placed      \* where these start in the output, and where it ends (history)

copyVars == <<readerVars, inspectionVars, output, jobs, capture, read, written, placed>>

CopyInit == /\ Init
            /\ capture \in Captures
            /\ file = capture.file /\ pos = 0 /\ reader = "closed"
            /\ needs_byte_swap = FALSE
            /\ global_header = <<>> /\ header = <<>>
            /\ output = <<>>
            /\ jobs = <<>> /\ read = 0 /\ written = <<>> /\ placed = <<0>>

(* The header of the output is the one the reader holds. *)
OpenFiles == /\ Open
             /\ output' = IF Opens THEN GlobalOctets(global_header') ELSE output
             /\ placed' = <<Len(output')>>
             /\ UNCHANGED <<inspectionVars, jobs, capture, read, written>>

ReadPacket == /\ ReadNextPacket
              /\ Begin(PacketData)
              /\ read' = read + 1
              /\ UNCHANGED <<output, jobs, capture, written, placed>>

InspectPacket == Inspect /\ UNCHANGED <<readerVars, output, jobs, capture, read, written, placed>>

(* Skipped by the parser, or dropped. *)
LeaveOut == Finish /\ UNCHANGED <<readerVars, output, jobs, capture, read, written, placed>>

LengthOf(data) == <<Len(data) % 256, Len(data) \div 256, 0, 0>>

(* Fault: the length on the wire is written for the length in the file. *)
OutHeader_AsOnWire(job) ==
    [ts_sec |-> job.header.ts_sec, ts_usec |-> job.header.ts_usec,
     incl_len |-> job.header.orig_len, orig_len |-> job.header.orig_len]

(* The job carries no orig_len: the output thread writes the size twice. *)
OutHeader(job) ==
    [ts_sec |-> job.header.ts_sec, ts_usec |-> job.header.ts_usec,
     incl_len |-> LengthOf(job.data),
     orig_len |-> IF engine = "mt" THEN LengthOf(job.data) ELSE job.header.orig_len]

Write(job) == /\ output' = output \o PacketOctets(OutHeader(job)) \o job.data
              /\ written' = Append(written, job.packet_id)
              /\ placed' = Append(placed, Len(output'))

Forward == LET job == [packet_id |-> read, header |-> header, data |-> frame]
           IN /\ pc = "done" /\ Finish
              /\ IF engine = "mt"
                 THEN jobs' = Append(jobs, job) /\ UNCHANGED <<output, written, placed>>
                 ELSE Write(job) /\ UNCHANGED jobs
              /\ UNCHANGED <<readerVars, capture, read>>

(* The output thread. *)
WriteJob == \E i \in DOMAIN jobs :
                /\ Write(jobs[i])
                /\ jobs' = [k \in 1..(Len(jobs) - 1) |-> jobs[IF k < i THEN k ELSE k + 1]]
                /\ UNCHANGED <<readerVars, inspectionVars, capture, read>>

EndOfCapture == /\ Close /\ pc = "idle"
                /\ UNCHANGED <<inspectionVars, output, jobs, capture, read, written, placed>>

MainStep == OpenFiles \/ ReadPacket \/ InspectPacket \/ LeaveOut \/ Forward \/ EndOfCapture

CopyNext == MainStep \/ WriteJob

(* Both threads go on while they can. *)
CopySpec == CopyInit /\ [][CopyNext]_copyVars
            /\ WF_copyVars(MainStep) /\ WF_copyVars(WriteJob)

-----------------------------------------------------------------------------
(* The pcap format: a header and records one behind the other, in a byte   *)
(* order, of values given in that of the host.                             *)
InOrder(order, v) == maybeSwap(order = "swapped", v)

HeaderOctets(order, h) == GlobalOctets([f \in DOMAIN h |-> InOrder(order, h[f])])

RecordOctets(order, r) ==
    InOrder(order, r.ts_sec) \o InOrder(order, r.ts_usec) \o InOrder(order, LengthOf(r.data))
    \o InOrder(order, r.orig_len) \o r.data

HasHeader(octets, order, h) == Len(octets) >= 24 /\ SubSeq(octets, 1, 24) = HeaderOctets(order, h)

(* Record r lies between two positions. *)
HasRecord(octets, order, r, from, to) ==
    /\ to = from + 16 + Len(r.data) /\ to <= Len(octets)
    /\ SubSeq(octets, from + 1, to) = RecordOctets(order, r)

(* At a position no record follows: the rest is shorter than the header of *)
(* one or than the length in it, or that length is none.                   *)
NoRecord(octets, order, at) ==
    \/ Len(octets) < at + 16
    \/ LET len == InOrder(order, SubSeq(octets, at + 9, at + 12))
       IN Bogus(len) \/ Len(octets) < at + 16 + Size(len)

Magic(order) == InOrder(order, PCAP_MAGIC_NATIVE)

IsRecord(r) ==
    /\ r \in [ts_sec : Seq(0..255), ts_usec : Seq(0..255), orig_len : Seq(0..255), data : Frames]
    /\ Len(r.ts_sec) = 4 /\ Len(r.ts_usec) = 4 /\ Len(r.orig_len) = 4
    /\ Len(r.data) <= 65535

(* What Captures says of its files.  One without a header has no records.  *)
ASSUME CapturesAssumption ==
    \A c \in Captures :
       /\ c.order \in {"native", "swapped"} /\ c.file \in Seq(0..255)
       /\ c.whole \in Nat /\ DOMAIN c.starts = 1..(c.whole + 1) /\ c.starts[1] = 24
       /\ \A i \in 1..c.whole :
             /\ IsRecord(c.records[i])
             /\ HasRecord(c.file, c.order, c.records[i], c.starts[i], c.starts[i + 1])
       /\ \/ /\ HasHeader(c.file, c.order, c.header) /\ SubSeq(c.file, 1, 4) = Magic(c.order)
             /\ NoRecord(c.file, c.order, c.starts[c.whole + 1])
          \/ /\ c.whole = 0
             /\ Len(c.file) < 24 \/ SubSeq(c.file, 1, 4) \notin {Magic("native"), Magic("swapped")}

(* Of a file in either byte order, cut short or damaged anywhere, the      *)
(* reader hands out the whole records in front of the damage, with their   *)
(* time stamps and lengths, and nothing else.                              *)
ReadsWhatWasCaptured ==
    /\ pc = "ethernet" =>
          LET r == capture.records[read]
          IN read <= capture.whole
             /\ frame = r.data
             /\ header = [ts_sec |-> r.ts_sec, ts_usec |-> r.ts_usec,
                          incl_len |-> LengthOf(r.data), orig_len |-> r.orig_len]
    /\ reader = "ended" => read = capture.whole

(* The records forwarded, as they were captured; the job of the threaded   *)
(* engine has forgotten the length on the wire.                            *)
Forwarded == [i \in DOMAIN written |->
                 LET r == capture.records[written[i]]
                 IN IF engine = "mt" THEN [r EXCEPT !.orig_len = LengthOf(r.data)] ELSE r]

(* The header of the input, and these records with nothing between. *)
IsCapture(records) ==
    \E order \in {"native", "swapped"} :
        /\ HasHeader(output, order, capture.header)
        /\ placed[1] = 24 /\ placed[Len(records) + 1] = Len(output)
        /\ \A i \in DOMAIN records :
              HasRecord(output, order, records[i], placed[i], placed[i + 1])

(* main_simple.cpp:366, "The output is also a valid .pcap file", and       *)
(* dpi_mt.cpp:318, "a valid .pcap file with matching version, snaplen, and *)
(* link type": with the header of the input and the forwarded records.     *)
OutputIsCapture == reader \in {"open", "ended"} => IsCapture(Forwarded)

(* The same for the captures of a host of this byte order: whatever is     *)
(* forwarded, in which order, the output can be read as a capture again.   *)
NativeOutputIsCapture == capture.order = "native" => OutputIsCapture

(* What happens to a frame between the files is what Inspection says of    *)
(* frames that come one by one, each of them a whole record.               *)
InspectsFrames == Spec

(* Every capture is copied to its end: neither a length in the file nor    *)
(* one in a frame makes a loop run for ever, and no job stays unwritten.   *)
CopyEnds == <>(reader \in {"failed", "ended"} /\ jobs = <<>>)
=============================================================================
