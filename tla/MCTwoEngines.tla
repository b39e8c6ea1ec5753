--------------------------- MODULE MCTwoEngines ---------------------------
(* TLC instance of TwoEngines: FastPath's traffic and what tells the        *)
(* engines apart, with the tally of FlowStatistics kept beside it.          *)
EXTENDS TwoEngines, FlowStatistics, MCTraffic

quic   == FiveTuple(2, 9, 1003, 443, 17)
dnsTCP == FiveTuple(1, 9, 1004, 53, 6)

TupleSet  == {https1, http, dns, quic, dnsTCP}
PacketSet == (TCPPackets(https1) \ {Packet(https1, {"ACK"}, "none")})
             \cup {Packet(https1, {"ACK"}, "short"), Packet(http, {"ACK"}, "opaque"),
                   Packet(http, {"ACK"}, plain), Packet(http, {"ACK"}, ""),
                   Packet(quic, {}, plain),
                   Packet(dns, {}, tube), Packet(dns, {}, "none"), Packet(dns, {}, "opaque"),
                   Packet(dnsTCP, {"ACK"}, tube)}

Arguments(i, p, a, d, c) ==
    [ips |-> i, ports |-> p, appNames |-> a, domains |-> d, contains |-> c]

(* Options of every kind: an application; an address, a port, a name that  *)
(* matches in both engines and one that is a substring but no pattern; an  *)
(* application that does not exist.                                        *)
AnApp     == Arguments({}, {}, {"HTTPS"}, {}, {})
Addresses == Arguments({2}, {53}, {}, {tube}, {tube, plain})
Misspelt  == Arguments({}, {}, {"Youtube"}, {}, {})
OptionSet == {AnApp, Addresses, Misspelt}

(* To keep the run short each of the options comes with a part of the     *)
(* packets, and every packet with some of them.                            *)
Nameless == {p \in PacketSet : p.payload \in {"short", "none", "opaque"}}
Answers  == {p \in PacketSet : p.flags \in {{"SYN", "ACK"}, {"FIN", "ACK"}}}
Coming(o) == CASE o = AnApp     -> PacketSet \ Answers
               [] o = Addresses -> {p \in PacketSet : p.tuple # http}
                                   \ {Packet(dns, {}, "none"), Packet(https1, {"ACK"}, "short")}
               [] o = Misspelt  -> {p \in PacketSet : p.tuple \in {https1, dns}}
                                   \ {p \in Nameless : "ACK" \in p.flags}

(* TLC evaluates what a constant is given once when it has two names. *)
LoadedSets  == {LoadedRules(o) : o \in OptionSet}
TwoRuleSets == LoadedSets
TwoTuples   == TupleSet
TwoPackets  == PacketSet
TwoOptions  == OptionSet
TwoHosts    == MCHosts
TwoApps     == AppType

RunInit == TwoInit /\ NothingTallied

RunNext == \/ \E p \in Coming(options) : ReadPacket(p) /\ TallyPacket(p)
           \/ ReadJunk /\ UNCHANGED statisticsVars
           \/ Pass /\ TallyCleanup

RunSpec == RunInit /\ [][RunNext]_<<bothVars, statisticsVars>>
=============================================================================
