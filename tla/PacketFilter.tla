---------------------------- MODULE PacketFilter ----------------------------
(***************************************************************************)
(* What the engine promises to whoever compares its output file with its   *)
(* input file: a filter that reads the capture in order, decides the       *)
(* packets of each flow in the order of the capture, writes every packet   *)
(* at most once and writes the forwarded packets of a flow in order.       *)
(* Nothing is said about the order of packets of different flows.          *)
(***************************************************************************)
EXTENDS Naturals, Sequences, FiniteSets

CONSTANTS Captures, Junk

VARIABLES
    capture,     \* the flow of each frame, or Junk for a frame that is skipped
    arrived,     \* the number of frames read
    forwarded,   \* the packets, as positions in the capture, decided FORWARD
    dropped,     \* those decided DROP
    written      \* the output file

filterVars == <<capture, arrived, forwarded, dropped, written>>

Init == /\ capture \in Captures
        /\ arrived = 0
        /\ forwarded = {}
        /\ dropped = {}
        /\ written = <<>>

(* The packets of p's flow that come before it in the capture. *)
Earlier(p) == {q \in 1..(p - 1) : capture[q] = capture[p]}

IsWritten(p) == \E i \in DOMAIN written : written[i] = p

Arrive == /\ arrived < Len(capture)
          /\ arrived' = arrived + 1
          /\ UNCHANGED <<capture, forwarded, dropped, written>>

Decide(p) == /\ p \in 1..arrived
             /\ capture[p] # Junk
             /\ p \notin forwarded \cup dropped
             /\ Earlier(p) \subseteq forwarded \cup dropped
             /\ \/ forwarded' = forwarded \cup {p} /\ UNCHANGED dropped
                \/ dropped' = dropped \cup {p} /\ UNCHANGED forwarded
             /\ UNCHANGED <<capture, arrived, written>>

Write(p) == /\ p \in forwarded
            /\ ~IsWritten(p)
            /\ \A q \in Earlier(p) \cap forwarded : IsWritten(q)
            /\ written' = Append(written, p)
            /\ UNCHANGED <<capture, arrived, forwarded, dropped>>

Next == \/ Arrive
        \/ \E p \in 1..arrived : Decide(p) \/ Write(p)

Spec == Init /\ [][Next]_filterVars
=============================================================================
