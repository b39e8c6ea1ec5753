------------------------- MODULE CaptureCopyProofs -------------------------
(***************************************************************************)
(* Proofs about CaptureCopy for every set of captures: the reader hands    *)
(* out the records that are whole, what is done to their frames is what    *)
(* Inspection is about, and what is written is a capture again.            *)
(***************************************************************************)
EXTENDS CaptureCopy, InspectionProofs

LEMMA Member ==
    ASSUME NEW S, NEW s \in Seq(S), NEW k \in 1..Len(s)
    PROVE  s[k] \in S
OBVIOUS

(* Swapping keeps the length and undoes itself. *)
LEMMA SwapTwice ==
    ASSUME NEW v \in Seq(Octet), NEW swap \in BOOLEAN
    PROVE  /\ maybeSwap(swap, v) \in Seq(Octet) /\ Len(maybeSwap(swap, v)) = Len(v)
           /\ maybeSwap(swap, maybeSwap(swap, v)) = v
<1>1. CASE swap
  <2> DEFINE w == [i \in 1..Len(v) |-> v[Len(v) + 1 - i]]
  <2>1. w \in Seq(Octet) /\ Len(w) = Len(v) /\ \A i \in 1..Len(v) : w[i] = v[Len(v) + 1 - i]
    OBVIOUS
  <2>2. maybeSwap(swap, v) = w
    BY <1>1 DEF maybeSwap
  <2> HIDE DEF w
  <2>3. maybeSwap(swap, w) = [i \in 1..Len(w) |-> w[Len(w) + 1 - i]]
    BY <1>1 DEF maybeSwap
  <2>4. [i \in 1..Len(w) |-> w[Len(w) + 1 - i]] = [i \in 1..Len(v) |-> v[i]]
    BY <2>1
  <2>5. [i \in 1..Len(v) |-> v[i]] = v
    OBVIOUS
  <2> QED
    BY <2>1, <2>2, <2>3, <2>4, <2>5
<1>2. CASE ~swap
  BY <1>2 DEF maybeSwap
<1> QED
  BY <1>1, <1>2

(* The length of a packet of at most 65535 bytes, from its octets. *)
LEMMA LengthFits ==
    ASSUME NEW data \in Seq(Octet), Len(data) <= 65535
    PROVE  /\ LengthOf(data) \in Seq(Octet) /\ Len(LengthOf(data)) = 4
           /\ ~Bogus(LengthOf(data)) /\ Size(LengthOf(data)) = Len(data)
<1>1. PICK n \in Nat : n = Len(data) /\ n <= 65535
  OBVIOUS
<1>2. n % 256 \in Octet /\ n \div 256 \in Octet /\ (n % 256) + 256 * (n \div 256) = n
  <2>1. n % 256 \in 0..255
    OBVIOUS
  <2>2. n \div 256 \in Nat /\ n \div 256 <= 255
    BY <1>1
  <2>3. (n % 256) + 256 * (n \div 256) = n
    OBVIOUS
  <2> QED
    BY <2>1, <2>2, <2>3 DEF Octet
<1>3. LengthOf(data) = <<n % 256, n \div 256, 0, 0>>
  BY <1>1 DEF LengthOf
<1>4. 0 \in Octet
  BY DEF Octet
<1> QED
  BY <1>1, <1>2, <1>3, <1>4 DEF Bogus, Size

(* In f, behind position m, lies x. *)
Lies(f, m, x) == /\ m + Len(x) <= Len(f)
                 /\ \A i \in 1..Len(x) : f[m + i] = x[i]

LEMMA LiesThere ==
    ASSUME NEW f \in Seq(Octet), NEW m \in Nat, NEW x \in Seq(Octet), m + Len(x) <= Len(f)
    PROVE  SubSeq(f, m + 1, m + Len(x)) = x <=> Lies(f, m, x)
<1> DEFINE g == SubSeq(f, m + 1, m + Len(x))
<1>1. /\ g = [i \in 1..Len(x) |-> f[m + i]] /\ x = [i \in 1..Len(x) |-> x[i]]
      /\ \A i \in 1..Len(x) : g[i] = f[m + i]
  BY SubSeqProperties
<1> HIDE DEF g
<1>2. (\A i \in 1..Len(x) : f[m + i] = x[i]) => g = x
  BY <1>1
<1>3. g = x => \A i \in 1..Len(x) : f[m + i] = x[i]
  BY <1>1
<1> QED
  BY <1>2, <1>3 DEF g, Lies

(* Of two sequences in a row, each is found. *)
LEMMA InRow ==
    ASSUME NEW f \in Seq(Octet), NEW m \in Nat, NEW a \in Seq(Octet), NEW b \in Seq(Octet),
           Lies(f, m, a \o b)
    PROVE  Lies(f, m, a) /\ Lies(f, m + Len(a), b)
<1>1. /\ Len(a \o b) = Len(a) + Len(b)
      /\ \A i \in 1..Len(a) : i \in 1..Len(a \o b) /\ (a \o b)[i] = a[i]
      /\ \A i \in 1..Len(b) : Len(a) + i \in 1..Len(a \o b) /\ (a \o b)[Len(a) + i] = b[i]
  OBVIOUS
<1>2. m + Len(a \o b) <= Len(f) /\ \A i \in 1..Len(a \o b) : f[m + i] = (a \o b)[i]
  BY DEF Lies
<1>3. \A i \in 1..Len(a) : f[m + i] = a[i]
  BY <1>1, <1>2
<1>4. \A i \in 1..Len(b) : f[(m + Len(a)) + i] = b[i]
  <2> TAKE i \in 1..Len(b)
  <2>1. (m + Len(a)) + i = m + (Len(a) + i)
    OBVIOUS
  <2> QED
    BY <2>1, <1>1, <1>2
<1>5. m + Len(a) <= Len(f) /\ (m + Len(a)) + Len(b) <= Len(f)
  BY <1>1, <1>2
<1> QED
  BY <1>3, <1>4, <1>5 DEF Lies

(* Four fields of four octets, and data. *)
LEMMA RowTypes ==
    ASSUME NEW a \in Seq(Octet), NEW b \in Seq(Octet), NEW c \in Seq(Octet), NEW d \in Seq(Octet),
           NEW e \in Seq(Octet), Len(a) = 4, Len(b) = 4, Len(c) = 4, Len(d) = 4
    PROVE  /\ a \o b \in Seq(Octet) /\ Len(a \o b) = 8
           /\ a \o b \o c \in Seq(Octet) /\ Len(a \o b \o c) = 12
           /\ a \o b \o c \o d \in Seq(Octet) /\ Len(a \o b \o c \o d) = 16
           /\ a \o b \o c \o d \o e \in Seq(Octet) /\ Len(a \o b \o c \o d \o e) = 16 + Len(e)
<1> DEFINE ab    == a \o b
           abc   == ab \o c
           abcd  == abc \o d
           abcde == abcd \o e
<1> HIDE DEF ab, abc, abcd, abcde
<1>1. ASSUME NEW x \in Seq(Octet), NEW y \in Seq(Octet)
      PROVE  x \o y \in Seq(Octet) /\ Len(x \o y) = Len(x) + Len(y)
  BY ConcatProperties
<1>2. ab \in Seq(Octet) /\ Len(ab) = Len(a) + Len(b)
  BY <1>1, Zenon DEF ab
<1>3. abc \in Seq(Octet) /\ Len(abc) = Len(ab) + Len(c)
  BY <1>1, <1>2, Zenon DEF abc
<1>4. abcd \in Seq(Octet) /\ Len(abcd) = Len(abc) + Len(d)
  BY <1>1, <1>3, Zenon DEF abcd
<1>5. abcde \in Seq(Octet) /\ Len(abcde) = Len(abcd) + Len(e)
  BY <1>1, <1>4, Zenon DEF abcde
<1>6. Len(ab) = 8 /\ Len(abc) = 12 /\ Len(abcd) = 16 /\ Len(abcde) = 16 + Len(e)
  BY <1>2, <1>3, <1>4, <1>5
<1> QED
  BY <1>2, <1>3, <1>4, <1>5, <1>6 DEF ab, abc, abcd, abcde

(* Each of them is found where they lie in the file. *)
LEMMA Pieces ==
    ASSUME NEW f \in Seq(Octet), NEW s \in Nat,
           NEW a \in Seq(Octet), NEW b \in Seq(Octet), NEW c \in Seq(Octet), NEW d \in Seq(Octet),
           NEW e \in Seq(Octet), Len(a) = 4, Len(b) = 4, Len(c) = 4, Len(d) = 4,
           Lies(f, s, a \o b \o c \o d \o e)
    PROVE  /\ Lies(f, s, a) /\ Lies(f, s + 4, b) /\ Lies(f, s + 8, c) /\ Lies(f, s + 12, d)
           /\ Lies(f, s + 16, e)
<1> DEFINE ab   == a \o b
           abc  == ab \o c
           abcd == abc \o d
<1>1. /\ ab \in Seq(Octet) /\ Len(ab) = 8
      /\ abc \in Seq(Octet) /\ Len(abc) = 12
      /\ abcd \in Seq(Octet) /\ Len(abcd) = 16
  BY RowTypes
<1> HIDE DEF ab, abc, abcd
<1>2. Lies(f, s, abcd) /\ Lies(f, s + 16, e)
  <2>1. Lies(f, s, abcd \o e)
    BY DEF ab, abc, abcd
  <2> QED
    BY <2>1, <1>1, InRow
<1>3. Lies(f, s, abc) /\ Lies(f, s + 12, d)
  BY <1>1, <1>2, InRow DEF abcd
<1>4. Lies(f, s, ab) /\ Lies(f, s + 8, c)
  BY <1>1, <1>3, InRow DEF abc
<1>5. Lies(f, s, a) /\ Lies(f, s + 4, b)
  BY <1>4, InRow DEF ab
<1> QED
  BY <1>2, <1>3, <1>4, <1>5

-----------------------------------------------------------------------------
(* The octets of a header field, read where it lies. *)
LEMMA FieldThere ==
    ASSUME file \in Seq(Octet), NEW m \in Nat, NEW x \in Seq(Octet), Len(x) = 4, Lies(file, m, x)
    PROVE  Field(m, 4) = x
<1>1. m + Len(x) <= Len(file)
  BY DEF Lies
<1>2. SubSeq(file, m + 1, m + Len(x)) = x
  BY <1>1, LiesThere
<1> QED
  BY <1>2 DEF Field

(* The octets of a record in the byte order of the file. *)
Octets(ts_sec, ts_usec, orig_len, data) ==
    maybeSwap(needs_byte_swap, ts_sec) \o maybeSwap(needs_byte_swap, ts_usec)
    \o maybeSwap(needs_byte_swap, LengthOf(data)) \o maybeSwap(needs_byte_swap, orig_len) \o data

(* The header and the data of a record that lies at the position, as       *)
(* readNextPacket() finds them.                                            *)
LEMMA OctetsAreRead ==
    ASSUME file \in Seq(Octet), pos \in Nat, needs_byte_swap \in BOOLEAN,
           NEW t \in Seq(Octet), NEW u \in Seq(Octet), NEW o \in Seq(Octet), NEW data \in Seq(Octet),
           Len(t) = 4, Len(u) = 4, Len(o) = 4, Len(data) <= 65535,
           pos + 16 + Len(data) <= Len(file),
           SubSeq(file, pos + 1, pos + 16 + Len(data)) = Octets(t, u, o, data)
    PROVE  /\ HasPacket /\ PacketData = data
           /\ PacketHeader(needs_byte_swap) =
                 [ts_sec |-> t, ts_usec |-> u, incl_len |-> LengthOf(data), orig_len |-> o]
<1> DEFINE Swap(v) == maybeSwap(needs_byte_swap, v)
           n == LengthOf(data)
<1>1. n \in Seq(Octet) /\ Len(n) = 4 /\ ~Bogus(n) /\ Size(n) = Len(data) /\ Len(data) \in Nat
  BY LengthFits
<1>2. ASSUME NEW v \in Seq(Octet)
      PROVE  Swap(v) \in Seq(Octet) /\ Len(Swap(v)) = Len(v) /\ Swap(Swap(v)) = v
  BY SwapTwice
<1>3. Octets(t, u, o, data) = Swap(t) \o Swap(u) \o Swap(n) \o Swap(o) \o data
  BY DEF Octets
<1> HIDE DEF Swap, n
<1> DEFINE a == Swap(t)
           b == Swap(u)
           c == Swap(n)
           d == Swap(o)
           all == a \o b \o c \o d \o data
<1>4. /\ a \in Seq(Octet) /\ b \in Seq(Octet) /\ c \in Seq(Octet) /\ d \in Seq(Octet)
      /\ Len(a) = 4 /\ Len(b) = 4 /\ Len(c) = 4 /\ Len(d) = 4
  BY <1>1, <1>2
<1>5. SubSeq(file, pos + 1, pos + 16 + Len(data)) = all
  BY <1>3
<1> HIDE DEF a, b, c, d
<1>6. /\ Lies(file, pos, a) /\ Lies(file, pos + 4, b) /\ Lies(file, pos + 8, c)
      /\ Lies(file, pos + 12, d) /\ Lies(file, pos + 16, data)
  <2>1. all \in Seq(Octet) /\ Len(all) = 16 + Len(data)
    BY <1>4, RowTypes
  <2>2. file \in Seq(Octet) /\ pos \in Nat /\ data \in Seq(Octet)
    OBVIOUS
  <2>3. Lies(file, pos, all)
    <3> HIDE DEF all
    <3>1. pos + Len(all) = pos + 16 + Len(data)
      BY <2>1, <1>1
    <3>2. pos + Len(all) <= Len(file) /\ SubSeq(file, pos + 1, pos + Len(all)) = all
      BY <3>1, <1>5
    <3>3. SubSeq(file, pos + 1, pos + Len(all)) = all <=> Lies(file, pos, all)
      BY ONLY <2>1, <2>2, <3>2, LiesThere
    <3> QED
      BY ONLY <3>2, <3>3
  <2> QED
    BY ONLY <2>3, <2>2, <1>4, Pieces
<1>7. /\ Field(pos, 4) = Swap(t) /\ Field(pos + 4, 4) = Swap(u)
      /\ Field(pos + 8, 4) = Swap(n) /\ Field(pos + 12, 4) = Swap(o)
  <2>1. Field(pos, 4) = a /\ Field(pos + 4, 4) = b /\ Field(pos + 8, 4) = c /\ Field(pos + 12, 4) = d
    BY <1>4, <1>6, FieldThere
  <2> QED
    BY <2>1 DEF a, b, c, d
<1>8. PacketHeader(needs_byte_swap) =
         [ts_sec |-> t, ts_usec |-> u, incl_len |-> n, orig_len |-> o]
  <2>1. PacketHeader(needs_byte_swap) =
           [ts_sec |-> Swap(Field(pos, 4)), ts_usec |-> Swap(Field(pos + 4, 4)),
            incl_len |-> Swap(Field(pos + 8, 4)), orig_len |-> Swap(Field(pos + 12, 4))]
    BY DEF PacketHeader, Swap
  <2> QED
    BY <2>1, <1>1, <1>2, <1>7
<1>9. PacketHeader(needs_byte_swap).incl_len = n
  BY <1>8
<1>10. HasPacket
  <2>1. pos + 16 <= Len(file)
    BY <1>1
  <2>2. DataFits(n)
    BY <1>1 DEF DataFits
  <2> QED
    BY <2>1, <2>2, <1>1, <1>9 DEF HasPacket
<1>11. PacketData = data
  <2>1. PacketData = [k \in 1..Len(data) |->
                         IF pos + 16 + k <= Len(file) THEN file[pos + 16 + k] ELSE 0]
    BY <1>1, <1>9 DEF PacketData
  <2>2. \A k \in 1..Len(data) : pos + 16 + k <= Len(file) /\ file[pos + 16 + k] = data[k]
    BY <1>1, <1>6 DEF Lies
  <2>3. PacketData = [k \in 1..Len(data) |-> data[k]]
    BY <2>1, <2>2
  <2> QED
    BY <2>3
<1> QED
  BY <1>8, <1>10, <1>11 DEF n

-----------------------------------------------------------------------------
(* The file was written by a host of the other byte order. *)
IsSwapped(c) == c.order = "swapped"

(* The header that was written for a record. *)
HeaderOf(r) == [ts_sec |-> r.ts_sec, ts_usec |-> r.ts_usec,
                incl_len |-> LengthOf(r.data), orig_len |-> r.orig_len]

(* What is assumed of a capture, of a record that is whole ... *)
LEMMA CaptureFacts ==
    ASSUME NEW c \in Captures
    PROVE  /\ c.order \in {"native", "swapped"} /\ c.file \in Seq(Octet) /\ Len(c.file) \in Nat
           /\ c.whole \in Nat /\ c.starts[1] = 24
<1>1. c.file \in Seq(Octet)
  BY CapturesAssumption DEF Octet
<1> QED
  BY <1>1, CapturesAssumption, LenProperties

LEMMA RecordFacts ==
    ASSUME NEW c \in Captures, NEW i \in 1..c.whole, NEW r, r = c.records[i]
    PROVE  /\ r.ts_sec \in Seq(Octet) /\ r.ts_usec \in Seq(Octet) /\ r.orig_len \in Seq(Octet)
           /\ Len(r.ts_sec) = 4 /\ Len(r.ts_usec) = 4 /\ Len(r.orig_len) = 4
           /\ r.data \in Frames /\ r.data \in Seq(Octet)
           /\ Len(r.data) \in Nat /\ Len(r.data) <= 65535
           /\ HasRecord(c.file, c.order, r, c.starts[i], c.starts[i + 1])
<1>1. IsRecord(r) /\ HasRecord(c.file, c.order, r, c.starts[i], c.starts[i + 1])
  BY CapturesAssumption
<1>2. /\ r.ts_sec \in Seq(Octet) /\ r.ts_usec \in Seq(Octet) /\ r.orig_len \in Seq(Octet)
      /\ r.data \in Frames
  BY <1>1 DEF IsRecord, Octet
<1>3. r.data \in Seq(Octet)
  BY <1>2, FramesAssumption DEF Octet
<1>4. Len(r.data) \in Nat
  BY <1>3, LenProperties
<1> QED
  BY <1>1, <1>2, <1>3, <1>4 DEF IsRecord

(* It is read as it was captured. *)
LEMMA RecordIsRead ==
    ASSUME NEW c \in Captures, file = c.file, NEW i \in 1..c.whole,
           pos = c.starts[i], pos \in Nat, needs_byte_swap = IsSwapped(c)
    PROVE  /\ HasPacket /\ PacketData = c.records[i].data
           /\ PacketHeader(needs_byte_swap) = HeaderOf(c.records[i])
           /\ PacketData \in Frames /\ Len(PacketData) \in Nat
           /\ c.starts[i + 1] = pos + 16 + Len(PacketData)
<1>0. PICK r : r = c.records[i]
  OBVIOUS
<1> DEFINE t == r.ts_sec
           u == r.ts_usec
           o == r.orig_len
           data == r.data
<1>1. file \in Seq(Octet) /\ needs_byte_swap \in BOOLEAN
  BY CaptureFacts DEF IsSwapped
<1>2. /\ t \in Seq(Octet) /\ u \in Seq(Octet) /\ o \in Seq(Octet)
      /\ Len(t) = 4 /\ Len(u) = 4 /\ Len(o) = 4
      /\ data \in Frames /\ data \in Seq(Octet) /\ Len(data) \in Nat /\ Len(data) <= 65535
  BY <1>0, RecordFacts
<1>3. /\ c.starts[i + 1] = pos + 16 + Len(data) /\ pos + 16 + Len(data) <= Len(file)
      /\ SubSeq(file, pos + 1, pos + 16 + Len(data)) = RecordOctets(c.order, r)
  <2>1. HasRecord(c.file, c.order, r, c.starts[i], c.starts[i + 1])
    BY <1>0, RecordFacts
  <2> QED
    BY <2>1 DEF HasRecord
<1>4. RecordOctets(c.order, r) = Octets(t, u, o, data)
  BY DEF RecordOctets, Octets, InOrder, IsSwapped
<1> HIDE DEF t, u, o, data
<1>5. /\ HasPacket /\ PacketData = data
      /\ PacketHeader(needs_byte_swap) =
            [ts_sec |-> t, ts_usec |-> u, incl_len |-> LengthOf(data), orig_len |-> o]
  <2>1. /\ pos + 16 + Len(data) <= Len(file) /\ pos \in Nat
        /\ SubSeq(file, pos + 1, pos + 16 + Len(data)) = Octets(t, u, o, data)
    BY <1>3, <1>4
  <2> QED
    BY ONLY <1>1, <1>2, <2>1, OctetsAreRead
<1> QED
  BY <1>0, <1>2, <1>3, <1>5 DEF HeaderOf, t, u, o, data

(* Behind the last whole record the reader finds none. *)
LEMMA NoneIsRead ==
    ASSUME NEW c \in Captures, file = c.file, NoRecord(file, c.order, pos), pos \in Nat,
           needs_byte_swap = IsSwapped(c)
    PROVE  ~HasPacket
<1>1. SUFFICES ASSUME pos + 16 <= Len(file)
               PROVE  LET len == PacketHeader(needs_byte_swap).incl_len
                      IN Bogus(len) \/ ~DataFits(len)
  BY DEF HasPacket
<1> DEFINE len == PacketHeader(needs_byte_swap).incl_len
<1>2. file \in Seq(Octet) /\ needs_byte_swap \in BOOLEAN /\ Len(file) \in Nat
  BY CaptureFacts DEF IsSwapped
<1>3. Field(pos + 8, 4) = SubSeq(file, pos + 9, pos + 12)
  BY DEF Field
<1>4. len = InOrder(c.order, SubSeq(file, pos + 9, pos + 12))
  BY <1>3 DEF PacketHeader, InOrder, IsSwapped
<1>5. Size(len) \in Nat
  <2> DEFINE stored == SubSeq(file, pos + 9, pos + 12)
  <2>1. stored \in Seq(Octet) /\ Len(stored) = 4
    BY <1>1, <1>2, SubSeqProperties
  <2>2. len = maybeSwap(needs_byte_swap, stored)
    BY <1>4 DEF InOrder, IsSwapped
  <2> HIDE DEF len, stored
  <2>3. len \in Seq(Octet) /\ Len(len) = 4
    BY <1>2, <2>1, <2>2, SwapTwice
  <2>4. len[1] \in Octet /\ len[2] \in Octet
    <3>1. 1 \in 1..Len(len) /\ 2 \in 1..Len(len)
      BY <2>3
    <3> QED
      BY ONLY <2>3, <3>1, Member
  <2>5. len[1] \in Nat /\ len[2] \in Nat
    BY <2>4 DEF Octet
  <2>6. 256 * len[2] \in Nat
    BY <2>5
  <2> QED
    BY ONLY <2>5, <2>6 DEF Size
<1> HIDE DEF len
<1>6. Bogus(len) \/ Len(file) < pos + 16 + Size(len)
  BY <1>1, <1>2, <1>4 DEF NoRecord
<1> QED
  BY <1>2, <1>5, <1>6 DEF DataFits, len

-----------------------------------------------------------------------------
(* Between two packets the reader is where the next record starts, and the *)
(* packet in its hands is the record in front of that place.               *)
AtRecord == /\ needs_byte_swap = IsSwapped(capture)
            /\ NoRecord(file, capture.order, capture.starts[capture.whole + 1])
            /\ pos \in Nat /\ pos = capture.starts[read + 1]

ReaderInv ==
    /\ capture \in Captures /\ file = capture.file
    /\ reader \in {"closed", "open", "failed", "ended"}
    /\ read \in 0..capture.whole
    /\ reader = "closed" => read = 0
    /\ reader = "open" => AtRecord
    /\ reader = "ended" => read = capture.whole
    /\ pc # "idle" => /\ reader = "open" /\ read \in 1..capture.whole
                      /\ frame = capture.records[read].data
                      /\ header = HeaderOf(capture.records[read])

(* With what Inspection needs for the steps between. *)
CopyInv == ReaderInv /\ IInv

LEMMA CopyInitHolds == CopyInit => CopyInv
<1> SUFFICES ASSUME CopyInit PROVE CopyInv
  OBVIOUS
<1>1. IInv
  BY InitHolds DEF CopyInit
<1>2. ReaderInv
  BY CaptureFacts DEF CopyInit, ReaderInv, Init
<1> QED
  BY <1>1, <1>2 DEF CopyInv

(* The files are opened: the magic number tells the byte order. *)
LEMMA OpenHolds == ASSUME ReaderInv, OpenFiles PROVE ReaderInv'
<1> DEFINE magic == SubSeq(file, 1, 4)
<1>1. /\ UNCHANGED <<pc, frame, header, file, capture, read>> /\ reader = "closed"
      /\ \/ ~Opens /\ reader' = "failed"
         \/ /\ Opens /\ reader' = "open" /\ pos' = 24
            /\ needs_byte_swap' = (Field(0, 4) = PCAP_MAGIC_SWAPPED)
  BY DEF OpenFiles, Open, inspectionVars
<1>2. read = 0 /\ pc = "idle" /\ capture \in Captures /\ file = capture.file
  BY <1>1 DEF ReaderInv
<1>3. Field(0, 4) = magic
  BY DEF Field
<1>4. Magic("native") = PCAP_MAGIC_NATIVE
  BY DEF Magic, InOrder, maybeSwap
<1>5. Magic("swapped") = PCAP_MAGIC_SWAPPED
  BY DEF Magic, InOrder, maybeSwap, PCAP_MAGIC_NATIVE, PCAP_MAGIC_SWAPPED
<1>6. PCAP_MAGIC_NATIVE # PCAP_MAGIC_SWAPPED
  BY DEF PCAP_MAGIC_NATIVE, PCAP_MAGIC_SWAPPED
<1>7. ASSUME Opens, reader' = "open", pos' = 24,
             needs_byte_swap' = (Field(0, 4) = PCAP_MAGIC_SWAPPED)
      PROVE  AtRecord'
  <2>1. Len(file) >= 24 /\ magic \in {Magic("native"), Magic("swapped")}
    BY <1>3, <1>4, <1>5, <1>7 DEF Opens
  <2>2. Len(file) \in Nat
    BY <1>2, CaptureFacts
  <2>3. /\ magic = Magic(capture.order)
        /\ NoRecord(file, capture.order, capture.starts[capture.whole + 1])
    <3>1. \/ /\ SubSeq(capture.file, 1, 4) = Magic(capture.order)
             /\ NoRecord(capture.file, capture.order, capture.starts[capture.whole + 1])
          \/ Len(capture.file) < 24
          \/ SubSeq(capture.file, 1, 4) \notin {Magic("native"), Magic("swapped")}
      BY <1>2, CapturesAssumption
    <3> QED
      BY <1>2, <2>1, <2>2, <3>1
  <2>4. needs_byte_swap' = IsSwapped(capture)
    BY <1>2, <1>3, <1>4, <1>5, <1>6, <1>7, <2>3, CaptureFacts DEF IsSwapped
  <2>5. capture.starts[1] = 24
    BY <1>2, CaptureFacts
  <2> QED
    BY <1>1, <1>2, <1>7, <2>3, <2>4, <2>5 DEF AtRecord
<1> QED
  BY <1>1, <1>2, <1>7 DEF ReaderInv

(* A packet is read only where a whole record lies. *)
LEMMA PacketIsRecord ==
    ASSUME ReaderInv, reader = "open", HasPacket
    PROVE  /\ read + 1 \in 1..capture.whole /\ read \in Nat
           /\ PacketData = capture.records[read + 1].data /\ PacketData \in Frames
           /\ PacketHeader(needs_byte_swap) = HeaderOf(capture.records[read + 1])
           /\ pos + 16 + Len(PacketData) \in Nat
           /\ pos + 16 + Len(PacketData) = capture.starts[(read + 1) + 1]
<1>1. AtRecord /\ capture \in Captures /\ file = capture.file
  BY DEF ReaderInv
<1>2. capture.whole \in Nat /\ read \in Nat /\ read <= capture.whole
  BY CaptureFacts DEF ReaderInv
<1>3. read # capture.whole
  BY <1>1, NoneIsRead DEF AtRecord
<1>4. read + 1 \in 1..capture.whole
  BY <1>2, <1>3
<1>5. /\ PacketData = capture.records[read + 1].data /\ PacketData \in Frames
      /\ PacketHeader(needs_byte_swap) = HeaderOf(capture.records[read + 1])
      /\ Len(PacketData) \in Nat
      /\ capture.starts[(read + 1) + 1] = pos + 16 + Len(PacketData)
  <2> DEFINE i == read + 1
  <2>1. /\ pos = capture.starts[i] /\ pos \in Nat /\ needs_byte_swap = IsSwapped(capture)
        /\ i \in 1..capture.whole
    BY <1>1, <1>4 DEF AtRecord
  <2> HIDE DEF i
  <2>2. /\ PacketData = capture.records[i].data /\ PacketData \in Frames
        /\ PacketHeader(needs_byte_swap) = HeaderOf(capture.records[i])
        /\ Len(PacketData) \in Nat /\ capture.starts[i + 1] = pos + 16 + Len(PacketData)
    BY ONLY <1>1, <2>1, RecordIsRead
  <2> QED
    BY <2>2 DEF i
<1>6. pos + 16 + Len(PacketData) \in Nat
  <2>1. pos \in Nat
    BY <1>1 DEF AtRecord
  <2>2. Len(PacketData) \in Nat
    BY <1>5
  <2> QED
    BY ONLY <2>1, <2>2
<1> QED
  BY ONLY <1>2, <1>4, <1>5, <1>6

LEMMA ReadHolds == ASSUME ReaderInv, ReadPacket PROVE ReaderInv'
<1>1. /\ reader = "open" /\ HasPacket /\ header' = PacketHeader(needs_byte_swap)
      /\ pos' = pos + 16 + Len(PacketData) /\ frame' = PacketData /\ read' = read + 1
      /\ UNCHANGED <<file, reader, needs_byte_swap, capture>>
  BY DEF ReadPacket, ReadNextPacket, Begin
<1>2. AtRecord /\ capture \in Captures /\ file = capture.file
  BY <1>1 DEF ReaderInv
<1>3. /\ read' \in 1..capture.whole /\ read' \in 0..capture.whole
      /\ frame' = capture.records[read'].data /\ header' = HeaderOf(capture.records[read'])
      /\ pos' \in Nat /\ pos' = capture.starts[read' + 1]
  <2>1. read' \in 1..capture.whole /\ capture.whole \in Nat
    BY <1>1, <1>2, PacketIsRecord, CaptureFacts
  <2> QED
    BY <2>1, <1>1, PacketIsRecord
<1>4. AtRecord'
  BY <1>1, <1>2, <1>3 DEF AtRecord
<1> QED
  BY <1>1, <1>2, <1>3, <1>4 DEF ReaderInv

(* The frame is inspected, and stays what it is. *)
LEMMA InspectKeepsFrame == ASSUME IInv, Inspect PROVE pc # "idle" /\ UNCHANGED <<frame, engine>>
<1>1. CASE ParseStep
  BY <1>1 DEF ParseStep, Parse, ParseEthernet, ParseIPv4, ParseTCP, ParseUDP
<1>2. CASE InspectPayload
  BY <1>2 DEF InspectPayload
<1>3. CASE TryExtractor
  BY <1>3 DEF TryExtractor
<1>4. CASE ExtractStep
  <2>1. UNCHANGED <<frame, engine>>
    BY <1>4 DEF ExtractStep, Extract
  <2>2. pc # "idle"
    BY <1>4, ExtractStepStays DEF OnPayload, Extractors
  <2> QED
    BY <2>1, <2>2
<1> QED
  BY <1>1, <1>2, <1>3, <1>4 DEF Inspect

(* A step that leaves the reader alone, and the frame unless it is done.   *)
LEMMA ElsewhereHolds ==
    ASSUME ReaderInv, UNCHANGED readerVars, UNCHANGED <<capture, read>>,
           \/ pc' = "idle"
           \/ UNCHANGED <<pc, frame>>
           \/ pc # "idle" /\ UNCHANGED frame
    PROVE  ReaderInv'
<1>1. UNCHANGED <<file, pos, reader, needs_byte_swap, header>>
  BY DEF readerVars
<1>2. AtRecord' = AtRecord
  BY <1>1 DEF AtRecord
<1> QED
  BY <1>1, <1>2 DEF ReaderInv

LEMMA CloseHolds == ASSUME ReaderInv, EndOfCapture PROVE ReaderInv'
<1>1. /\ reader = "open" /\ ~HasPacket /\ reader' = "ended" /\ pc = "idle"
      /\ UNCHANGED <<file, pos, header, capture, read, pc, frame>>
  BY DEF EndOfCapture, Close, inspectionVars
<1>2. AtRecord /\ capture \in Captures /\ file = capture.file
  BY <1>1 DEF ReaderInv
<1>3. capture.whole \in Nat /\ read \in Nat /\ read <= capture.whole
  BY CaptureFacts DEF ReaderInv
<1>4. read = capture.whole
  <2> SUFFICES ASSUME read # capture.whole PROVE FALSE
    OBVIOUS
  <2>1. read + 1 \in 1..capture.whole
    BY <1>3
  <2> QED
    BY <1>1, <1>2, <2>1, RecordIsRead DEF AtRecord
<1> QED
  BY <1>1, <1>2, <1>4 DEF ReaderInv

-----------------------------------------------------------------------------
(* What a step does to the frame is a step of Inspection. *)
LEMMA InspectionStep == ASSUME ReaderInv, [CopyNext]_copyVars PROVE [Next]_inspectionVars
<1>1. CASE ReadPacket
  <2>1. reader = "open" /\ HasPacket /\ Begin(PacketData)
    BY <1>1 DEF ReadPacket, ReadNextPacket
  <2>2. PacketData \in Frames
    BY <2>1, PacketIsRecord
  <2>3. NextFrame
    BY <2>1, <2>2 DEF NextFrame, Begin
  <2> QED
    BY <2>3 DEF Next
<1>2. CASE InspectPacket
  BY <1>2 DEF InspectPacket, Next
<1>3. CASE LeaveOut \/ Forward
  BY <1>3 DEF LeaveOut, Forward, Next
<1>4. CASE OpenFiles \/ EndOfCapture \/ WriteJob
  BY <1>4 DEF OpenFiles, EndOfCapture, WriteJob
<1>5. CASE UNCHANGED copyVars
  BY <1>5 DEF copyVars
<1> QED
  BY <1>1, <1>2, <1>3, <1>4, <1>5 DEF CopyNext, MainStep

(* One step per action. *)
LEMMA CopyStepHolds == CopyInv /\ [CopyNext]_copyVars => CopyInv'
<1> SUFFICES ASSUME ReaderInv, IInv, [CopyNext]_copyVars PROVE CopyInv'
  BY DEF CopyInv
<1>1. IInv'
  BY InspectionStep, NextHolds
<1>2. ReaderInv'
  <2>1. CASE OpenFiles
    BY <2>1, OpenHolds
  <2>2. CASE ReadPacket
    BY <2>2, ReadHolds
  <2>3. CASE InspectPacket
    BY <2>3, InspectKeepsFrame, ElsewhereHolds DEF InspectPacket
  <2>4. CASE LeaveOut
    BY <2>4, ElsewhereHolds DEF LeaveOut, Finish
  <2>5. CASE Forward
    BY <2>5, ElsewhereHolds DEF Forward, Finish
  <2>6. CASE EndOfCapture
    BY <2>6, CloseHolds
  <2>7. CASE WriteJob
    BY <2>7, ElsewhereHolds DEF WriteJob, inspectionVars
  <2>8. CASE UNCHANGED copyVars
    BY <2>8, ElsewhereHolds DEF copyVars, inspectionVars
  <2> QED
    BY <2>1, <2>2, <2>3, <2>4, <2>5, <2>6, <2>7, <2>8 DEF CopyNext, MainStep
<1> QED
  BY <1>1, <1>2 DEF CopyInv

LEMMA CopyInductive == CopySpec => []CopyInv
<1>1. CopyInit => CopyInv
  BY CopyInitHolds
<1>2. CopyInv /\ [CopyNext]_copyVars => CopyInv'
  BY CopyStepHolds
<1> QED
  BY <1>1, <1>2, PTL DEF CopySpec

(* Of a capture in either byte order, cut short or damaged anywhere, the   *)
(* reader hands out each record in front of the damage as it was captured, *)
(* and stops there (readNextPacket()).                                     *)
THEOREM RecordsAreRead == CopySpec => []ReadsWhatWasCaptured
<1>1. CopyInv => ReadsWhatWasCaptured
  <2> SUFFICES ASSUME ReaderInv PROVE ReadsWhatWasCaptured
    BY DEF CopyInv
  <2>1. ASSUME pc = "ethernet"
        PROVE  /\ read <= capture.whole /\ frame = capture.records[read].data
               /\ header = HeaderOf(capture.records[read])
    <3>1. pc # "idle" /\ capture.whole \in Nat /\ read \in 1..capture.whole
      BY <2>1, CaptureFacts DEF ReaderInv
    <3> QED
      BY <2>1, <3>1 DEF ReaderInv
  <2>2. reader = "ended" => read = capture.whole
    BY DEF ReaderInv
  <2> QED
    BY <2>1, <2>2 DEF ReadsWhatWasCaptured, HeaderOf
<1> QED
  BY <1>1, CopyInductive, PTL

(* Whatever file is copied, the parser and the extractors see frames of    *)
(* Frames one by one, as Inspection has it.                                *)
THEOREM CopyIsInspection == CopySpec => InspectsFrames
<1>1. CopyInit => Init
  BY DEF CopyInit
<1>2. CopyInv /\ [CopyNext]_copyVars => [Next]_inspectionVars
  BY InspectionStep DEF CopyInv
<1> QED
  BY <1>1, <1>2, CopyInductive, PTL DEF CopySpec, InspectsFrames, Spec

(* So no record of a capture makes a read leave its frame, and the engines *)
(* agree on its payload.                                                   *)
THEOREM CopyReadsStayInside == CopySpec => []InBounds /\ []OffsetsAgree
BY CopyIsInspection, ReadsStayInside, PayloadsAgree, PTL DEF InspectsFrames

(* And on the way of a capture through the engine names are found whole or *)
(* not at all, that of every well-formed request is, and no record of it   *)
(* keeps the engine from the next (main_simple.cpp:411, dpi_mt.cpp:445).   *)
THEOREM CopyFindsNames ==
    CopySpec => /\ []WellFormedIsFound /\ []CutHelloHasNoName /\ []LabelsAreWhole
                /\ EveryStepAdvances
BY CopyIsInspection, RequestsAreFound, CutHellosAreSilent, LabelsStayWhole, InspectionAdvances, PTL
DEF InspectsFrames

-----------------------------------------------------------------------------
(* Of a capture in the byte order of the host, what is written is the      *)
(* record it was forwarded for.                                            *)
JobOf(i) == [packet_id |-> i, header |-> HeaderOf(capture.records[i]),
             data |-> capture.records[i].data]
Jobs     == {JobOf(i) : i \in 1..capture.whole}

(* What the engine keeps of a record. *)
Sent(r) == IF engine = "mt" THEN [r EXCEPT !.orig_len = LengthOf(r.data)] ELSE r

(* The i-th record of the output lies where it was placed. *)
RecordPlaced(i) == HasRecord(output, "native", Sent(capture.records[written[i]]),
                             placed[i], placed[i + 1])

OutputInv ==
    /\ jobs \in Seq(Jobs) /\ written \in Seq(1..capture.whole)
    /\ reader \in {"closed", "failed"} => jobs = <<>> /\ written = <<>>
    /\ reader \in {"open", "ended"} =>
          /\ output \in Seq(Octet) /\ HasHeader(output, "native", capture.header)
          /\ placed \in Seq(Nat) /\ Len(placed) = Len(written) + 1
          /\ placed[1] = 24 /\ placed[Len(written) + 1] = Len(output)
          /\ \A i \in 1..Len(written) : RecordPlaced(i)

NativeInv == CopyInv /\ (capture.order = "native" => OutputInv)

LEMMA NotSwapped == ASSUME NEW v PROVE InOrder("native", v) = v
BY DEF InOrder, maybeSwap

(* The octets of a record that is sent, and what the engine writes of its  *)
(* job.                                                                    *)
LEMMA SentOctets ==
    ASSUME capture \in Captures, NEW i \in 1..capture.whole, NEW r, r = Sent(capture.records[i])
    PROVE  /\ RecordOctets("native", r) \in Seq(Octet)
           /\ r.data \in Seq(Octet) /\ Len(r.data) \in Nat
           /\ Len(RecordOctets("native", r)) = 16 + Len(r.data)
           /\ PacketOctets(OutHeader(JobOf(i))) \in Seq(Octet)
           /\ JobOf(i).data = r.data
           /\ PacketOctets(OutHeader(JobOf(i))) \o r.data = RecordOctets("native", r)
<1>0. PICK q : q = capture.records[i]
  OBVIOUS
<1>1. /\ q.ts_sec \in Seq(Octet) /\ q.ts_usec \in Seq(Octet) /\ q.orig_len \in Seq(Octet)
      /\ Len(q.ts_sec) = 4 /\ Len(q.ts_usec) = 4 /\ Len(q.orig_len) = 4
      /\ q.data \in Seq(Octet) /\ Len(q.data) \in Nat /\ Len(q.data) <= 65535 /\ IsRecord(q)
  BY <1>0, RecordFacts, CapturesAssumption
<1>2. LengthOf(q.data) \in Seq(Octet) /\ Len(LengthOf(q.data)) = 4
  BY <1>1, LengthFits
<1>3. /\ r.ts_sec = q.ts_sec /\ r.ts_usec = q.ts_usec /\ r.data = q.data
      /\ r.orig_len = IF engine = "mt" THEN LengthOf(q.data) ELSE q.orig_len
  <2>1. q \in [ts_sec : Seq(0..255), ts_usec : Seq(0..255), orig_len : Seq(0..255), data : Frames]
    BY <1>1 DEF IsRecord
  <2>2. r = Sent(q)
    BY <1>0
  <2> QED
    BY <2>1, <2>2 DEF Sent
<1> DEFINE t == q.ts_sec
           u == q.ts_usec
           n == LengthOf(q.data)
           o == IF engine = "mt" THEN LengthOf(q.data) ELSE q.orig_len
           d == q.data
<1>4. RecordOctets("native", r) = t \o u \o n \o o \o d
  BY <1>3, NotSwapped DEF RecordOctets
<1>5. OutHeader(JobOf(i)) = [ts_sec |-> t, ts_usec |-> u, incl_len |-> n, orig_len |-> o]
  BY <1>0 DEF OutHeader, JobOf, HeaderOf
<1>7. /\ t \in Seq(Octet) /\ u \in Seq(Octet) /\ n \in Seq(Octet) /\ o \in Seq(Octet)
      /\ d \in Seq(Octet) /\ Len(t) = 4 /\ Len(u) = 4 /\ Len(n) = 4 /\ Len(o) = 4
  BY <1>1, <1>2
<1>8. JobOf(i).data = d
  BY <1>0 DEF JobOf
<1> HIDE DEF t, u, n, o, d
<1>6. PacketOctets(OutHeader(JobOf(i))) = t \o u \o n \o o
  <2>1. PICK h : h = OutHeader(JobOf(i))
    OBVIOUS
  <2>2. h.ts_sec = t /\ h.ts_usec = u /\ h.incl_len = n /\ h.orig_len = o
    BY <1>5, <2>1
  <2>3. PacketOctets(h) = h.ts_sec \o h.ts_usec \o h.incl_len \o h.orig_len
    BY DEF PacketOctets
  <2> QED
    BY ONLY <2>1, <2>2, <2>3
<1>9. /\ t \o u \o n \o o \in Seq(Octet)
      /\ t \o u \o n \o o \o d \in Seq(Octet) /\ Len(t \o u \o n \o o \o d) = 16 + Len(d)
  BY ONLY <1>7, RowTypes
<1>10. r.data = d /\ Len(d) \in Nat
  BY <1>1, <1>3 DEF d
<1> QED
  BY ONLY <1>4, <1>6, <1>7, <1>8, <1>9, <1>10

(* A record that lies somewhere lies there whatever is appended. *)
LEMMA HasRecordLies ==
    ASSUME NEW octets \in Seq(Octet), NEW r, NEW from \in Nat, NEW to,
           RecordOctets("native", r) \in Seq(Octet), Len(r.data) \in Nat,
           Len(RecordOctets("native", r)) = 16 + Len(r.data)
    PROVE  HasRecord(octets, "native", r, from, to)
              <=> /\ to = from + 16 + Len(r.data)
                  /\ Lies(octets, from, RecordOctets("native", r))
<1> DEFINE x == RecordOctets("native", r)
<1>1. x \in Seq(Octet) /\ Len(x) = 16 + Len(r.data)
  OBVIOUS
<1> HIDE DEF x
<1>2. from + Len(x) = from + 16 + Len(r.data)
  <2>1. PICK k \in Nat : k = Len(r.data)
    OBVIOUS
  <2>2. Len(x) = 16 + k
    BY <1>1, <2>1
  <2>3. from + Len(x) = from + 16 + k
    BY <2>2
  <2> QED
    BY <2>1, <2>3
<1>3. Lies(octets, from, x) => from + Len(x) <= Len(octets)
  BY DEF Lies
<1>4. from + Len(x) <= Len(octets) =>
         (SubSeq(octets, from + 1, from + Len(x)) = x <=> Lies(octets, from, x))
  BY <1>1, LiesThere
<1>5. HasRecord(octets, "native", r, from, to) <=>
         /\ to = from + 16 + Len(r.data) /\ to <= Len(octets)
         /\ SubSeq(octets, from + 1, to) = x
  BY DEF HasRecord, x
<1> QED
  BY ONLY <1>2, <1>3, <1>4, <1>5 DEF x

LEMMA OneAfterOther ==
    ASSUME NEW a \in Seq(Octet), NEW b \in Seq(Octet), NEW c \in Seq(Octet)
    PROVE  (a \o b) \o c = a \o (b \o c)
BY ConcatAssociative

LEMMA Beginning ==
    ASSUME NEW f \in Seq(Octet), NEW n \in Nat, n <= Len(f)
    PROVE  /\ SubSeq(f, 1, n) \in Seq(Octet) /\ Len(SubSeq(f, 1, n)) = n
           /\ SubSeq(SubSeq(f, 1, n), 1, n) = SubSeq(f, 1, n)
<1> DEFINE g == SubSeq(f, 1, n)
<1>1. g \in Seq(Octet) /\ Len(g) = n
  <2>1. \A i \in 1..n : f[i] \in Octet
    OBVIOUS
  <2>2. 1 \in Int /\ n \in Int
    OBVIOUS
  <2>3. g \in Seq(Octet) /\ Len(g) = IF 1 <= n THEN n - 1 + 1 ELSE 0
    BY ONLY <2>1, <2>2, SubSeqProperties
  <2> QED
    BY <2>3
<1> HIDE DEF g
<1>2. SubSeq(g, 1, n) = [i \in 1..n |-> g[i]] /\ g = [i \in 1..n |-> g[i]]
  BY <1>1
<1> QED
  BY <1>1, <1>2 DEF g

LEMMA BeginningStays ==
    ASSUME NEW f \in Seq(Octet), NEW y \in Seq(Octet), NEW n \in Nat, n <= Len(f)
    PROVE  SubSeq(f \o y, 1, n) = SubSeq(f, 1, n)
<1> DEFINE g == f \o y
<1>1. /\ g \in Seq(Octet) /\ Len(g) = Len(f) + Len(y)
      /\ \A i \in 1..Len(f) : g[i] = f[i]
  OBVIOUS
<1> HIDE DEF g
<1>2. SubSeq(g, 1, n) = [i \in 1..n |-> g[i]] /\ SubSeq(f, 1, n) = [i \in 1..n |-> f[i]]
  BY <1>1
<1>3. \A i \in 1..n : g[i] = f[i]
  BY <1>1
<1> QED
  BY <1>2, <1>3 DEF g

LEMMA LiesStill ==
    ASSUME NEW f \in Seq(Octet), NEW m \in Nat, NEW x \in Seq(Octet), NEW y \in Seq(Octet)
    PROVE  /\ Lies(f, m, x) => Lies(f \o y, m, x)
           /\ Lies(f \o y, Len(f), y)
           /\ f \o y \in Seq(Octet) /\ Len(f \o y) = Len(f) + Len(y)
<1> DEFINE g == f \o y
<1>1. /\ g \in Seq(Octet) /\ Len(g) = Len(f) + Len(y)
      /\ \A i \in 1..Len(f) : g[i] = f[i]
      /\ \A i \in 1..Len(y) : g[Len(f) + i] = y[i]
  OBVIOUS
<1> HIDE DEF g
<1>2. ASSUME Lies(f, m, x) PROVE Lies(g, m, x)
  <2>1. m + Len(x) <= Len(f) /\ \A i \in 1..Len(x) : f[m + i] = x[i]
    BY <1>2 DEF Lies
  <2>2. Len(x) \in Nat /\ Len(y) \in Nat /\ Len(f) \in Nat
    OBVIOUS
  <2>3. ASSUME NEW i \in 1..Len(x) PROVE g[m + i] = x[i]
    <3>1. m + i \in 1..Len(f)
      BY <2>1, <2>2
    <3> QED
      BY <1>1, <2>1, <3>1
  <2>4. m + Len(x) <= Len(g)
    BY <1>1, <2>1, <2>2
  <2> QED
    BY <2>3, <2>4 DEF Lies
<1>3. Lies(g, Len(f), y)
  BY <1>1 DEF Lies
<1> QED
  BY <1>1, <1>2, <1>3 DEF g

LEMMA StillPlaced ==
    ASSUME capture \in Captures, UNCHANGED <<capture, engine>>,
           NEW i \in Nat, written[i] \in 1..capture.whole, placed[i] \in Nat, RecordPlaced(i),
           output \in Seq(Octet), NEW more \in Seq(Octet), output' = output \o more,
           written'[i] = written[i], placed'[i] = placed[i], placed'[i + 1] = placed[i + 1]
    PROVE  RecordPlaced(i)'
<1> DEFINE r == Sent(capture.records[written[i]])
           x == RecordOctets("native", r)
<1>2. x \in Seq(Octet) /\ Len(r.data) \in Nat /\ Len(x) = 16 + Len(r.data)
  BY SentOctets
<1>3. placed[i] \in Nat
  OBVIOUS
<1>4. HasRecord(output, "native", r, placed[i], placed[i + 1])
  BY DEF RecordPlaced
<1>5. RecordPlaced(i)' <=> HasRecord(output', "native", r, placed[i], placed[i + 1])
  BY DEF RecordPlaced, Sent
<1>6. Lies(output, placed[i], x) => Lies(output', placed[i], x)
  BY <1>2, <1>3, LiesStill
<1>7. output' \in Seq(Octet)
  BY ConcatProperties
<1> HIDE DEF r
<1>8. HasRecord(output', "native", r, placed[i], placed[i + 1])
  <2>1. /\ placed[i + 1] = placed[i] + 16 + Len(r.data)
        /\ Lies(output, placed[i], RecordOctets("native", r))
    BY <1>2, <1>3, <1>4, HasRecordLies
  <2> QED
    BY <2>1, <1>2, <1>3, <1>6, <1>7, HasRecordLies
<1> QED
  BY <1>5, <1>8

(* A job is written: its record lies behind the others. *)
LEMMA WriteHolds ==
    ASSUME capture \in Captures, OutputInv, reader \in {"open", "ended"},
           UNCHANGED <<capture, engine, reader>>,
           NEW i \in 1..capture.whole, Write(JobOf(i)), jobs' \in Seq(Jobs)
    PROVE  OutputInv'
<1>1. /\ output \in Seq(Octet) /\ HasHeader(output, "native", capture.header)
      /\ placed \in Seq(Nat) /\ Len(placed) = Len(written) + 1
      /\ placed[1] = 24 /\ placed[Len(written) + 1] = Len(output)
      /\ \A k \in 1..Len(written) : RecordPlaced(k)
      /\ written \in Seq(1..capture.whole)
  BY DEF OutputInv
<1> DEFINE r == Sent(capture.records[i])
           x == RecordOctets("native", r)
<1>2. /\ x \in Seq(Octet) /\ Len(r.data) \in Nat /\ Len(x) = 16 + Len(r.data)
      /\ r.data \in Seq(Octet) /\ JobOf(i).data = r.data
      /\ PacketOctets(OutHeader(JobOf(i))) \in Seq(Octet)
      /\ PacketOctets(OutHeader(JobOf(i))) \o r.data = x
  BY SentOctets
<1>3. output' = output \o x
  <2> DEFINE p == PacketOctets(OutHeader(JobOf(i)))
  <2>1. output' = (output \o p) \o JobOf(i).data
    BY DEF Write
  <2>2. /\ output \in Seq(Octet) /\ p \in Seq(Octet) /\ r.data \in Seq(Octet)
        /\ JobOf(i).data = r.data /\ p \o r.data = x
    BY <1>1, <1>2
  <2> HIDE DEF p, r, x
  <2>3. (output \o p) \o r.data = output \o (p \o r.data)
    BY ONLY <2>2, OneAfterOther
  <2> QED
    BY ONLY <2>1, <2>2, <2>3
<1>4. written' = Append(written, i) /\ placed' = Append(placed, Len(output'))
  BY DEF Write, JobOf
<1> HIDE DEF r, x
<1>5. output' \in Seq(Octet) /\ Len(output') = Len(output) + Len(x) /\ Len(output') \in Nat
      /\ Lies(output', Len(output), x) /\ Len(output) \in Nat
  <2>1. output \in Seq(Octet) /\ x \in Seq(Octet) /\ Len(output) \in Nat /\ Len(x) \in Nat
    BY <1>1, <1>2, LenProperties
  <2>2. /\ output \o x \in Seq(Octet) /\ Len(output \o x) = Len(output) + Len(x)
        /\ Lies(output \o x, Len(output), x)
    BY ONLY <2>1, LiesStill
  <2>3. Len(output \o x) \in Nat
    BY ONLY <2>2, LenProperties
  <2> QED
    BY ONLY <1>3, <2>1, <2>2, <2>3
<1> DEFINE n == Len(written)
<1>6. /\ written' \in Seq(1..capture.whole) /\ Len(written') = n + 1
      /\ placed' \in Seq(Nat) /\ Len(placed') = n + 2
      /\ written'[n + 1] = i /\ placed'[n + 1] = Len(output) /\ placed'[n + 2] = Len(output')
      /\ placed'[1] = 24 /\ n \in Nat
      /\ \A k \in 1..n : /\ written'[k] = written[k] /\ placed'[k] = placed[k]
                         /\ placed'[k + 1] = placed[k + 1]
  BY <1>1, <1>4, <1>5
<1> HIDE DEF n
<1>7. HasHeader(output', "native", capture.header)
  <2> DEFINE h == HeaderOctets("native", capture.header)
  <2>1. Len(output) >= 24 /\ SubSeq(output, 1, 24) = h
    BY <1>1 DEF HasHeader
  <2> HIDE DEF h
  <2>2. SubSeq(output', 1, 24) = SubSeq(output, 1, 24)
    <3>1. /\ output \in Seq(Octet) /\ x \in Seq(Octet) /\ Len(output) >= 24
          /\ Len(output) \in Nat
      BY <1>1, <1>2, <1>5, <2>1
    <3>2. SubSeq(output \o x, 1, 24) = SubSeq(output, 1, 24)
      BY ONLY <3>1, BeginningStays
    <3> QED
      BY ONLY <1>3, <3>2
  <2> QED
    <3>1. Len(output') >= 24
      BY <2>1, <1>2, <1>5
    <3> QED
      BY <2>1, <2>2, <3>1 DEF HasHeader, h
<1>8. \A k \in 1..Len(written') : RecordPlaced(k)'
  <2> TAKE k \in 1..Len(written')
  <2>1. CASE k \in 1..n
    <3>1. k \in Nat /\ k \in 1..Len(written) /\ k \in 1..Len(placed)
      BY <2>1, <1>1 DEF n
    <3>2. written[k] \in 1..capture.whole /\ placed[k] \in Nat /\ RecordPlaced(k)
      <4>1. written \in Seq(1..capture.whole) /\ placed \in Seq(Nat)
        BY <1>1
      <4>2. written[k] \in 1..capture.whole
        BY ONLY <3>1, <4>1, Member
      <4>3. placed[k] \in Nat
        BY ONLY <3>1, <4>1, Member
      <4> QED
        BY <4>2, <4>3, <3>1, <1>1
    <3>3. /\ written'[k] = written[k] /\ placed'[k] = placed[k]
          /\ placed'[k + 1] = placed[k + 1]
      BY <2>1, <1>6
    <3>4. capture \in Captures /\ UNCHANGED <<capture, engine>>
      OBVIOUS
    <3> QED
      BY ONLY <3>1, <3>2, <3>3, <3>4, <1>1, <1>2, <1>3, StillPlaced
  <2>2. CASE k = n + 1
    <3>1. Sent(capture.records[written[k]])' = r
      BY <2>2, <1>6 DEF Sent, r
    <3>2. HasRecord(output', "native", r, Len(output), Len(output'))
      <4>1. /\ output' \in Seq(Octet) /\ Len(output) \in Nat
            /\ RecordOctets("native", r) \in Seq(Octet) /\ Len(r.data) \in Nat
            /\ Len(RecordOctets("native", r)) = 16 + Len(r.data)
            /\ Lies(output', Len(output), RecordOctets("native", r))
        BY <1>2, <1>5 DEF x
      <4>2. Len(output') = Len(output) + 16 + Len(r.data)
        <5>1. PICK d \in Nat : d = Len(r.data)
          BY <1>2
        <5>2. PICK m \in Nat : m = Len(output)
          BY <1>5
        <5>3. Len(x) = 16 + d
          BY <1>2, <5>1
        <5>4. Len(output') = m + (16 + d)
          BY ONLY <1>5, <5>2, <5>3
        <5>5. m + (16 + d) = m + 16 + d
          OBVIOUS
        <5> QED
          BY ONLY <5>1, <5>2, <5>4, <5>5
      <4> QED
        BY ONLY <4>1, <4>2, HasRecordLies
    <3>3. k + 1 = n + 2
      BY <2>2, <1>6
    <3> QED
      BY <2>2, <3>1, <3>2, <3>3, <1>6 DEF RecordPlaced
  <2> QED
    BY <2>1, <2>2, <1>6
<1>9. Jobs' = Jobs
  BY DEF Jobs, JobOf, HeaderOf
<1>10. written' \in Seq(1..capture'.whole) /\ jobs' \in Seq(Jobs') /\ reader' \notin {"closed", "failed"}
  BY <1>6, <1>9
<1>11. Len(placed') = Len(written') + 1 /\ placed'[Len(written') + 1] = Len(output')
  BY <1>6
<1> QED
  BY <1>5, <1>6, <1>7, <1>8, <1>10, <1>11 DEF OutputInv

(* Unswapped, the global header is written as it was read. *)
LEMMA HeaderIsCopied ==
    ASSUME file \in Seq(Octet), Len(file) >= 24
    PROVE  GlobalOctets(SwapGlobalHeader(FALSE, RawGlobalHeader)) = SubSeq(file, 1, 24)
<1>0. PICK f \in Seq(Octet) : f = file
  OBVIOUS
<1>1. ASSUME NEW k \in 1..24, NEW n \in k..24
      PROVE  SubSeq(f, 1, k) \o SubSeq(f, k + 1, n) = SubSeq(f, 1, n)
  <2>1. Len(f) \in Nat /\ Len(f) >= 24
    BY <1>0
  <2>2. 1 \in 1..(Len(f) + 1) /\ k \in (1 - 1)..Len(f) /\ n \in k..Len(f)
    BY <2>1
  <2> QED
    BY ONLY <1>0, <2>2, ConcatAdjacentSubSeq
<1>2. PICK h : h = SwapGlobalHeader(FALSE, RawGlobalHeader)
  OBVIOUS
<1>3. /\ h.magic_number = SubSeq(f, 1, 4) /\ h.version_major = SubSeq(f, 5, 6)
      /\ h.version_minor = SubSeq(f, 7, 8) /\ h.thiszone = SubSeq(f, 9, 12)
      /\ h.sigfigs = SubSeq(f, 13, 16) /\ h.snaplen = SubSeq(f, 17, 20)
      /\ h.network = SubSeq(f, 21, 24)
  BY <1>0, <1>2 DEF SwapGlobalHeader, maybeSwap, RawGlobalHeader, Field
<1>4. /\ SubSeq(f, 1, 4) \o SubSeq(f, 5, 6) = SubSeq(f, 1, 6)
      /\ SubSeq(f, 1, 6) \o SubSeq(f, 7, 8) = SubSeq(f, 1, 8)
      /\ SubSeq(f, 1, 8) \o SubSeq(f, 9, 12) = SubSeq(f, 1, 12)
      /\ SubSeq(f, 1, 12) \o SubSeq(f, 13, 16) = SubSeq(f, 1, 16)
      /\ SubSeq(f, 1, 16) \o SubSeq(f, 17, 20) = SubSeq(f, 1, 20)
      /\ SubSeq(f, 1, 20) \o SubSeq(f, 21, 24) = SubSeq(f, 1, 24)
  <2> DEFINE Joins(k, n) == SubSeq(f, 1, k) \o SubSeq(f, k + 1, n) = SubSeq(f, 1, n)
  <2>1. ASSUME NEW k \in 1..24, NEW n \in k..24 PROVE Joins(k, n)
    BY <1>1
  <2> HIDE DEF Joins
  <2>2. Joins(4, 6) /\ Joins(6, 8) /\ Joins(8, 12) /\ Joins(12, 16) /\ Joins(16, 20) /\ Joins(20, 24)
    BY ONLY <2>1
  <2> QED
    BY ONLY <2>2 DEF Joins
<1>5. GlobalOctets(h) = h.magic_number \o h.version_major \o h.version_minor \o h.thiszone
                        \o h.sigfigs \o h.snaplen \o h.network
  BY DEF GlobalOctets
<1>6. GlobalOctets(h) = SubSeq(f, 1, 24)
  BY ONLY <1>3, <1>4, <1>5, Zenon
<1> QED
  BY <1>0, <1>2, <1>6

LEMMA OutputOpens ==
    ASSUME ReaderInv, OutputInv, capture.order = "native", OpenFiles PROVE OutputInv'
<1>1. /\ reader = "closed" /\ file = capture.file /\ capture \in Captures
      /\ UNCHANGED <<jobs, capture, written>> /\ placed' = <<Len(output')>>
  BY DEF OpenFiles, Open, ReaderInv
<1>2. jobs = <<>> /\ written = <<>>
  BY <1>1 DEF OutputInv
<1>3. Jobs' = Jobs /\ jobs' \in Seq(Jobs) /\ written' \in Seq(1..capture.whole)
  BY <1>1, <1>2 DEF Jobs, JobOf, HeaderOf
<1>4. CASE ~Opens
  BY <1>1, <1>2, <1>3, <1>4 DEF OpenFiles, Open, OutputInv
<1>5. CASE Opens
  <2>1. /\ reader' = "open" /\ output' = GlobalOctets(global_header')
        /\ global_header' = SwapGlobalHeader(needs_byte_swap', RawGlobalHeader)
        /\ needs_byte_swap' = (Field(0, 4) = PCAP_MAGIC_SWAPPED)
    BY <1>5 DEF OpenFiles, Open
  <2>2. file \in Seq(Octet) /\ Len(file) \in Nat /\ Len(file) >= 24
    BY <1>1, <1>5, CaptureFacts DEF Opens
  <2>3. /\ Magic("native") = PCAP_MAGIC_NATIVE /\ Magic("swapped") = PCAP_MAGIC_SWAPPED
        /\ PCAP_MAGIC_NATIVE # PCAP_MAGIC_SWAPPED
    BY DEF Magic, InOrder, maybeSwap, PCAP_MAGIC_NATIVE, PCAP_MAGIC_SWAPPED
  <2>4. SubSeq(file, 1, 4) \in {PCAP_MAGIC_NATIVE, PCAP_MAGIC_SWAPPED}
    BY <1>5 DEF Opens, Field
  <2>5. HasHeader(file, "native", capture.header) /\ SubSeq(file, 1, 4) = PCAP_MAGIC_NATIVE
    <3>1. \/ /\ HasHeader(capture.file, capture.order, capture.header)
             /\ SubSeq(capture.file, 1, 4) = Magic(capture.order)
          \/ Len(capture.file) < 24
          \/ SubSeq(capture.file, 1, 4) \notin {Magic("native"), Magic("swapped")}
      BY <1>1, CapturesAssumption
    <3> QED
      BY <1>1, <2>2, <2>3, <2>4, <3>1
  <2>6. needs_byte_swap' = FALSE
    <3>1. Field(0, 4) = SubSeq(file, 1, 4)
      BY DEF Field
    <3> QED
      BY <2>1, <2>3, <2>5, <3>1
  <2>7. output' = SubSeq(file, 1, 24)
    BY <2>1, <2>2, <2>6, HeaderIsCopied
  <2>8. /\ output' \in Seq(Octet) /\ Len(output') = 24 /\ SubSeq(output', 1, 24) = output'
    <3>1. SubSeq(file, 1, 24) \in Seq(Octet) /\ Len(SubSeq(file, 1, 24)) = 24
      BY ONLY <2>2, Beginning
    <3>2. SubSeq(SubSeq(file, 1, 24), 1, 24) = SubSeq(file, 1, 24)
      BY ONLY <2>2, Beginning
    <3> QED
      BY ONLY <2>7, <3>1, <3>2
  <2>9. HasHeader(output', "native", capture.header)
    BY <2>5, <2>7, <2>8 DEF HasHeader
  <2>10. /\ placed' \in Seq(Nat) /\ Len(placed') = Len(written') + 1 /\ placed'[1] = 24
         /\ placed'[Len(written') + 1] = Len(output') /\ Len(written') = 0
    BY <1>1, <1>2, <2>8
  <2> QED
    BY <1>1, <1>3, <2>1, <2>8, <2>9, <2>10 DEF OutputInv
<1> QED
  BY <1>4, <1>5

(* A step that writes nothing. *)
LEMMA OutputStays ==
    ASSUME OutputInv, UNCHANGED <<output, jobs, capture, written, placed, engine>>,
           \/ UNCHANGED reader
           \/ reader = "open" /\ reader' = "ended"
    PROVE  OutputInv'
<1>1. Jobs' = Jobs
  BY DEF Jobs, JobOf, HeaderOf
<1>2. \A i : RecordPlaced(i)' = RecordPlaced(i)
  BY DEF RecordPlaced, Sent
<1> QED
  BY <1>1, <1>2 DEF OutputInv

LEMMA OutputForwards ==
    ASSUME ReaderInv, OutputInv, capture.order = "native", Forward PROVE OutputInv'
<1>1. /\ pc = "done" /\ UNCHANGED <<engine, capture, reader, read>>
      /\ reader = "open" /\ capture \in Captures /\ read \in 1..capture.whole
      /\ frame = capture.records[read].data /\ header = HeaderOf(capture.records[read])
  BY DEF Forward, Finish, ReaderInv, readerVars
<1>2. [packet_id |-> read, header |-> header, data |-> frame] = JobOf(read)
  BY <1>1 DEF JobOf
<1>3. \/ /\ jobs' = Append(jobs, JobOf(read))
         /\ UNCHANGED <<output, written, placed>>
      \/ Write(JobOf(read)) /\ UNCHANGED jobs
  BY <1>2, Zenon DEF Forward
<1>4. Jobs' = Jobs /\ jobs \in Seq(Jobs) /\ JobOf(read) \in Jobs
  BY <1>1 DEF Jobs, JobOf, HeaderOf, OutputInv
<1>5. CASE jobs' = Append(jobs, JobOf(read)) /\ UNCHANGED <<output, written, placed>>
  <2>1. jobs' \in Seq(Jobs)
    BY <1>4, <1>5
  <2>2. \A i : RecordPlaced(i)' = RecordPlaced(i)
    BY <1>1, <1>5 DEF RecordPlaced, Sent
  <2> QED
    BY <1>1, <1>4, <1>5, <2>1, <2>2 DEF OutputInv
<1>6. CASE Write(JobOf(read)) /\ UNCHANGED jobs
  BY <1>1, <1>4, <1>6, WriteHolds
<1> QED
  BY <1>3, <1>5, <1>6

LEMMA OutputWrites ==
    ASSUME ReaderInv, OutputInv, capture.order = "native", WriteJob PROVE OutputInv'
<1>1. PICK k \in DOMAIN jobs :
         /\ Write(jobs[k])
         /\ jobs' = [n \in 1..(Len(jobs) - 1) |-> jobs[IF n < k THEN n ELSE n + 1]]
  BY DEF WriteJob
<1>2. UNCHANGED <<reader, capture, engine>> /\ capture \in Captures
  BY DEF WriteJob, readerVars, inspectionVars, ReaderInv
<1>3. jobs \in Seq(Jobs) /\ k \in 1..Len(jobs) /\ Len(jobs) \in Nat
  BY <1>1 DEF OutputInv
<1>4. jobs' \in Seq(Jobs)
  <2>1. \A n \in 1..(Len(jobs) - 1) : jobs[IF n < k THEN n ELSE n + 1] \in Jobs
    BY <1>3
  <2> QED
    BY <1>1, <1>3, <2>1
<1>5. PICK i \in 1..capture.whole : jobs[k] = JobOf(i)
  <2>1. jobs[k] \in Jobs
    BY <1>3, Member
  <2> QED
    BY <2>1 DEF Jobs
<1>6. reader \in {"open", "ended"}
  <2>1. jobs # <<>>
    BY <1>3
  <2> QED
    BY <2>1 DEF OutputInv, ReaderInv
<1> QED
  BY <1>1, <1>2, <1>4, <1>5, <1>6, WriteHolds

LEMMA NativeStepHolds == NativeInv /\ [CopyNext]_copyVars => NativeInv'
<1> SUFFICES ASSUME ReaderInv, IInv, capture.order = "native" => OutputInv, [CopyNext]_copyVars
             PROVE  capture'.order = "native" => OutputInv'
  BY CopyStepHolds DEF NativeInv, CopyInv
<1>1. UNCHANGED capture
  BY DEF CopyNext, MainStep, OpenFiles, ReadPacket, InspectPacket, LeaveOut, Forward,
         EndOfCapture, WriteJob, copyVars
<1> SUFFICES ASSUME capture.order = "native", OutputInv PROVE OutputInv'
  BY <1>1
<1>2. CASE OpenFiles
  BY <1>2, OutputOpens
<1>3. CASE ReadPacket
  BY <1>3, OutputStays DEF ReadPacket, ReadNextPacket, Begin
<1>4. CASE InspectPacket
  BY <1>4, InspectKeepsFrame, OutputStays DEF InspectPacket, readerVars
<1>5. CASE LeaveOut
  BY <1>5, OutputStays DEF LeaveOut, Finish, readerVars
<1>6. CASE Forward
  BY <1>6, OutputForwards
<1>7. CASE EndOfCapture
  BY <1>7, OutputStays DEF EndOfCapture, Close, inspectionVars
<1>8. CASE WriteJob
  BY <1>8, OutputWrites
<1>9. CASE UNCHANGED copyVars
  BY <1>9, OutputStays DEF copyVars, readerVars, inspectionVars
<1> QED
  BY <1>2, <1>3, <1>4, <1>5, <1>6, <1>7, <1>8, <1>9 DEF CopyNext, MainStep

(* Of a capture in the byte order of the host the output is a capture      *)
(* again, with the records that are forwarded, in whatever order the       *)
(* output thread takes its jobs (main_simple.cpp:366, dpi_mt.cpp:318).     *)
THEOREM CopyIsCapture == CopySpec => []NativeOutputIsCapture
<1>1. CopyInit => NativeInv
  <2> SUFFICES ASSUME CopyInit PROVE NativeInv
    OBVIOUS
  <2>1. jobs = <<>> /\ written = <<>> /\ reader = "closed"
    BY DEF CopyInit
  <2>2. OutputInv
    BY <2>1 DEF OutputInv
  <2> QED
    BY <2>2, CopyInitHolds DEF NativeInv
<1>2. NativeInv => NativeOutputIsCapture
  <2> SUFFICES ASSUME OutputInv, reader \in {"open", "ended"} PROVE IsCapture(Forwarded)
    BY DEF NativeInv, NativeOutputIsCapture, OutputIsCapture
  <2>1. /\ HasHeader(output, "native", capture.header) /\ placed[1] = 24
        /\ placed[Len(written) + 1] = Len(output) /\ \A i \in 1..Len(written) : RecordPlaced(i)
        /\ DOMAIN written = 1..Len(written) /\ Len(written) \in Nat
    BY DEF OutputInv
  <2> DEFINE records == Forwarded
  <2>2. records = [i \in DOMAIN written |-> Sent(capture.records[written[i]])]
    BY DEF Forwarded, Sent
  <2> HIDE DEF records
  <2>3. DOMAIN records = 1..Len(written) /\ Len(records) = Len(written)
    BY <2>1, <2>2
  <2>4. \A i \in DOMAIN records : HasRecord(output, "native", records[i], placed[i], placed[i + 1])
    BY <2>1, <2>2, <2>3 DEF RecordPlaced
  <2>5. IsCapture(records)
    BY <2>1, <2>3, <2>4 DEF IsCapture
  <2> QED
    BY <2>5 DEF records
<1>3. NativeInv /\ [CopyNext]_copyVars => NativeInv'
  BY NativeStepHolds
<1> QED
  BY <1>1, <1>2, <1>3, PTL DEF CopySpec
=============================================================================
