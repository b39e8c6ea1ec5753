---------------------------- MODULE FlowHistory ----------------------------
(***************************************************************************)
(* FastPath with what an observer of the wire knows and the flow table     *)
(* forgets: when a packet of a tuple was last seen, which tuples had a     *)
(* packet dropped by a rule, and how far a TCP handshake has come.         *)
(***************************************************************************)
EXTENDS FastPath

VARIABLES
    lastPacket,      \* the time of each tuple's last packet
    everDropped,     \* the tuples a packet was dropped of
    handshake        \* 0..3: SYN, SYN-ACK, ACK seen of a connection opened by the tuple

historyVars == <<lastPacket, everDropped, handshake>>

Reverse(t) == [src_ip |-> t.dst_ip, dst_ip |-> t.src_ip,
               src_port |-> t.dst_port, dst_port |-> t.src_port, protocol |-> t.protocol]

HInit == /\ Init
         /\ lastPacket = [t \in Tuples |-> 0]
         /\ everDropped = {}
         /\ handshake = [t \in Tuples |-> 0]

(* How far t's handshake is after packet p. *)
Handshake(t, p) ==
    LET h == handshake[t]
    IN IF p.tuple \notin {t, Reverse(t)} THEN h
       ELSE IF p.flags \cap {"FIN", "RST"} # {} THEN 0
       ELSE IF p.tuple = t /\ p.flags = {"SYN"} THEN 1
       ELSE IF p.tuple = Reverse(t) /\ p.flags = {"SYN", "ACK"} /\ h = 1 THEN 2
       ELSE IF p.tuple = t /\ p.flags = {"ACK"} /\ h = 2 THEN 3
       ELSE h

HProcessPacket(p) ==
    /\ ProcessPacket(p)
    /\ lastPacket' = [lastPacket EXCEPT ![p.tuple] = now]
    /\ everDropped' = everDropped \cup {t \in {p.tuple} : lastAction' = <<t, "DROP">>}
    /\ handshake' = [t \in Tuples |-> Handshake(t, p)]

HNext == \/ \E p \in Packets : HProcessPacket(p)
         \/ (IdleCleanup \/ Tick) /\ UNCHANGED historyVars

HSpec == HInit /\ [][HNext]_<<vars, historyVars>>

-----------------------------------------------------------------------------
(* types.h:189 says "once blocked, always blocked" of a flow, and          *)
(* connection_tracker.h:125 that processPacket() "drops all future packets *)
(* of this flow".  Granted that cleanupStale() forgets what "hasn't been   *)
(* seen for longer than 'timeout' seconds" (connection_tracker.h:141), it  *)
(* must hold while the flow goes on sending.                               *)
OnceBlockedAlwaysBlocked ==
    [][\A p \in Packets :
          /\ HProcessPacket(p)
          /\ p.tuple \in everDropped /\ now - lastPacket[p.tuple] <= IdleLimit
          => lastAction'[2] = "DROP"]_<<vars, historyVars>>

(* types.h:156: ESTABLISHED means "TCP handshake complete (SYN + SYN-ACK + *)
(* ACK seen)".                                                             *)
HandshakeEstablishes ==
    \A t \in DOMAIN table : handshake[t] = 3 => table[t].state # "NEW"
=============================================================================
