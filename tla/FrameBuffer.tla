---------------------------- MODULE FrameBuffer ----------------------------
(***************************************************************************)
(* A captured frame and the position of the code that walks over it:       *)
(* RawPacket::data with the offset arithmetic that the parser and the      *)
(* extractors share.  Offsets count from 0 as in the source.               *)
(***************************************************************************)
EXTENDS Integers, Sequences

VARIABLES
    frame,      \* RawPacket::data
    pc,         \* the step that runs next
    offset,     \* its local variable of this name
    touched     \* one past the last byte of the frame that was read (history)

(* What lies behind the end of the frame is not known; InBounds says that  *)
(* nobody asks.                                                            *)
Byte(i) == IF i \in 0..(Len(frame) - 1) THEN frame[i + 1] ELSE 0

readUint16BE(i) == Byte(i) * 256 + Byte(i + 1)

Bytes(from, n) == [i \in 1..n |-> Byte(from + i - 1)]

(* The step reads the frame up to, not including, byte end. *)
Reads(end) == touched' = IF end > touched THEN end ELSE touched
=============================================================================
