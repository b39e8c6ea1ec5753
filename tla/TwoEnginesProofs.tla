-------------------------- MODULE TwoEnginesProofs --------------------------
(***************************************************************************)
(* Proofs about TwoEngines for every capture, set of options and size of   *)
(* the flow table: the report of the single-threaded engine adds up, and   *)
(* the two engines agree on every flow that did not meet one of the listed *)
(* differences.                                                            *)
(***************************************************************************)
EXTENDS TwoEngines, FastPathProofs, CountingProofs

(* TwoEngines only watches the fast path, so everything proved of FastPath *)
(* holds here.                                                             *)
LEMMA FastPathRuns == TwoSpec => Spec
<1>1. TwoInit => Init
  BY DEF TwoInit
<1>2. [TwoNext]_bothVars => [Next]_vars
  <2>1. ASSUME NEW p \in Packets, ReadPacket(p) PROVE Next
    BY <2>1 DEF ReadPacket, Next
  <2>2. ASSUME ReadJunk PROVE UNCHANGED vars
    BY <2>2 DEF ReadJunk
  <2>3. ASSUME Pass PROVE Next
    BY <2>3 DEF Pass, Next
  <2>4. ASSUME UNCHANGED bothVars PROVE UNCHANGED vars
    BY <2>4 DEF bothVars
  <2> QED
    BY <2>1, <2>2, <2>3, <2>4 DEF TwoNext
<1> QED
  BY <1>1, <1>2, PTL DEF TwoSpec, Spec

-----------------------------------------------------------------------------
(* The flow table of the single-threaded engine *)

Flow == [packets : Nat, app : Apps, sni : Hosts \cup {NoHost}, blocked : BOOLEAN,
         classified : BOOLEAN]

PacketsOf == [t \in DOMAIN flows |-> flows[t].packets]

(* What one packet makes of its flow. *)
FlowBefore(p) == [Simple!FlowOf(p.tuple) EXCEPT !.packets = @ + 1]
FlowSeen(p)   == IF FlowBefore(p).classified THEN FlowBefore(p)
                 ELSE Simple!InspectPayload(FlowBefore(p), p)
FlowAfter(p)  == [FlowSeen(p) EXCEPT !.blocked = Simple!Verdict(p.tuple, FlowSeen(p))]

SimpleTypes == /\ IsFiniteSet(DOMAIN flows) /\ flows \in [DOMAIN flows -> Flow]
               /\ IsTally(app_stats)
               /\ total_packets \in Nat /\ simpleForwarded \in Nat /\ simpleDropped \in Nat

(* The inspection keeps a flow a flow and touches neither its packets nor  *)
(* its verdict.                                                            *)
LEMMA InspectsFlow ==
    ASSUME NEW flow \in Flow, NEW p \in Packets
    PROVE  /\ Simple!InspectPayload(flow, p) \in Flow
           /\ Simple!InspectPayload(flow, p).packets = flow.packets
           /\ Simple!InspectPayload(flow, p).blocked = flow.blocked
<1> USE FastPathAssumption, TrackerAssumption
<1>1. ASSUME NEW app \in Apps, NEW sni \in Hosts
      PROVE  /\ Simple!Classified(flow, app, sni) \in Flow
             /\ Simple!Classified(flow, app, sni).packets = flow.packets
             /\ Simple!Classified(flow, app, sni).blocked = flow.blocked
  BY DEF Simple!Classified, Flow
<1>2. ASSUME NEW app \in Apps
      PROVE  /\ [flow EXCEPT !.app = app] \in Flow
             /\ [flow EXCEPT !.app = app].packets = flow.packets
             /\ [flow EXCEPT !.app = app].blocked = flow.blocked
  BY DEF Flow
<1>3. ASSUME NEW generic \in Apps
      PROVE  /\ Simple!Named(flow, p, generic) \in Flow
             /\ Simple!Named(flow, p, generic).packets = flow.packets
             /\ Simple!Named(flow, p, generic).blocked = flow.blocked
  <2>1. p.payload \in Hosts => AppOf[p.payload] \in Apps
    OBVIOUS
  <2> QED
    BY <1>1, <1>2, <2>1 DEF Simple!Named
<1> QED
  BY <1>1, <1>2, <1>3 DEF Simple!InspectPayload

(* The flow after each stage. *)
LEMMA FlowStages ==
    ASSUME SimpleTypes, NEW p \in Packets
    PROVE  /\ FlowBefore(p) \in Flow /\ FlowSeen(p) \in Flow /\ FlowAfter(p) \in Flow
           /\ FlowAfter(p).packets = Simple!FlowOf(p.tuple).packets + 1
           /\ FlowAfter(p).app = FlowSeen(p).app
<1>1. Simple!FlowOf(p.tuple) \in Flow
  <2>1. Simple!NewFlow \in Flow
    BY TrackerAssumption DEF Simple!NewFlow, Flow
  <2> QED
    BY <2>1 DEF Simple!FlowOf, SimpleTypes
<1>2. FlowBefore(p) \in Flow /\ FlowBefore(p).packets = Simple!FlowOf(p.tuple).packets + 1
  BY <1>1 DEF FlowBefore, Flow
<1>3. FlowSeen(p) \in Flow /\ FlowSeen(p).packets = FlowBefore(p).packets
  BY <1>2, InspectsFlow DEF FlowSeen
<1>4. Simple!Verdict(p.tuple, FlowSeen(p)) \in BOOLEAN
  BY <1>3 DEF Simple!Verdict, Simple!isBlocked, Flow
<1>5. /\ FlowAfter(p) \in Flow /\ FlowAfter(p).packets = FlowSeen(p).packets
      /\ FlowAfter(p).app = FlowSeen(p).app
  BY <1>3, <1>4 DEF FlowAfter, Flow
<1> QED
  BY <1>2, <1>3, <1>5

(* What one turn of the loop in main() does. *)
LEMMA SimpleStep ==
    ASSUME NEW p \in Packets, Simple!ProcessPacket(p)
    PROVE  /\ flows' = Simple!With(flows, p.tuple, FlowAfter(p))
           /\ app_stats' = Simple!With(app_stats, FlowSeen(p).app,
                                       Simple!StatOf(FlowSeen(p).app) + 1)
           /\ total_packets' = total_packets + 1
           /\ IF FlowAfter(p).blocked
              THEN simpleDropped' = simpleDropped + 1 /\ simpleForwarded' = simpleForwarded
              ELSE simpleForwarded' = simpleForwarded + 1 /\ simpleDropped' = simpleDropped
           /\ simpleRules' = simpleRules
BY DEF Simple!ProcessPacket, Simple!CountedAs, FlowBefore, FlowSeen, FlowAfter

-----------------------------------------------------------------------------
(* The report of the single-threaded engine *)

(* ReportAddsUp with what makes it inductive: every application a flow has *)
(* was counted, whether or not the flow has a name.                        *)
SimpleInv ==
    /\ SimpleTypes
    /\ Total(app_stats) = simpleForwarded + simpleDropped
    /\ Total(PacketsOf) = simpleForwarded + simpleDropped
    /\ simpleForwarded + simpleDropped <= total_packets
    /\ \A t \in DOMAIN flows : flows[t].app \in DOMAIN app_stats

(* The packets of finitely many flows. *)
LEMMA FlowsTally == SimpleTypes => IsTally(PacketsOf)
<1> SUFFICES ASSUME SimpleTypes PROVE IsTally(PacketsOf)
  OBVIOUS
<1>1. DOMAIN PacketsOf = DOMAIN flows /\ IsFiniteSet(DOMAIN flows)
  BY DEF PacketsOf, SimpleTypes
<1>2. \A t \in DOMAIN flows : flows[t].packets \in Nat
  BY DEF SimpleTypes, Flow
<1>3. PacketsOf \in [DOMAIN flows -> Nat]
  BY <1>2 DEF PacketsOf
<1> QED
  BY <1>1, <1>3 DEF IsTally

(* One packet counts once in its flow and once in an application.          *)
LEMMA SimpleStepAddsUp ==
    ASSUME SimpleInv, NEW p \in Packets, Simple!ProcessPacket(p)
    PROVE  SimpleInv'
<1> DEFINE t == p.tuple
           a == FlowSeen(p).app
<1>1. /\ flows' = Simple!With(flows, t, FlowAfter(p))
      /\ app_stats' = Simple!With(app_stats, a, Simple!StatOf(a) + 1)
  BY SimpleStep
<1>2. FlowAfter(p) \in Flow /\ FlowAfter(p).app = a
      /\ FlowAfter(p).packets = Simple!FlowOf(t).packets + 1
  BY FlowStages DEF SimpleInv
<1>3. SimpleTypes
  BY DEF SimpleInv
<1> HIDE DEF t, a
<1>4. /\ DOMAIN flows' = DOMAIN flows \cup {t}
      /\ flows' = [u \in DOMAIN flows \cup {t} |-> flows'[u]]
      /\ flows'[t] = FlowAfter(p)
      /\ \A u \in DOMAIN flows : u # t => flows'[u] = flows[u]
  BY <1>1 DEF Simple!With
<1>5. /\ DOMAIN app_stats' = DOMAIN app_stats \cup {a}
      /\ app_stats' = [u \in DOMAIN app_stats \cup {a} |-> app_stats'[u]]
      /\ app_stats'[a] = Simple!StatOf(a) + 1
      /\ \A u \in DOMAIN app_stats : u # a => app_stats'[u] = app_stats[u]
  BY <1>1 DEF Simple!With
<1>6. IsTally(app_stats') /\ Total(app_stats') = Total(app_stats) + 1
  <2>1. IsOneMore(app_stats', app_stats, a)
    BY <1>5 DEF IsOneMore, Simple!StatOf
  <2> QED
    BY <1>3, <2>1, TotalOfOneMore DEF SimpleTypes
<1>7. Total(PacketsOf') = Total(PacketsOf) + 1
  <2>1. DOMAIN PacketsOf' = DOMAIN PacketsOf \cup {t}
    BY <1>4 DEF PacketsOf
  <2>2. PacketsOf'[t] = (IF t \in DOMAIN PacketsOf THEN PacketsOf[t] ELSE 0) + 1
    <3>1. PacketsOf'[t] = FlowAfter(p).packets
      BY <1>4 DEF PacketsOf
    <3>2. Simple!FlowOf(t).packets = IF t \in DOMAIN PacketsOf THEN PacketsOf[t] ELSE 0
      BY DEF PacketsOf, Simple!FlowOf, Simple!NewFlow
    <3> QED
      BY <1>2, <3>1, <3>2
  <2>3. \A u \in DOMAIN PacketsOf : u # t => PacketsOf'[u] = PacketsOf[u]
    BY <1>4 DEF PacketsOf
  <2>4. PacketsOf' = [u \in DOMAIN PacketsOf' |-> PacketsOf'[u]]
    BY DEF PacketsOf
  <2>5. IsOneMore(PacketsOf', PacketsOf, t)
    BY <2>1, <2>2, <2>3, <2>4 DEF IsOneMore
  <2> QED
    BY <1>3, <2>5, FlowsTally, TotalOfOneMore
<1>8. /\ simpleForwarded \in Nat /\ simpleDropped \in Nat /\ total_packets \in Nat
      /\ total_packets' = total_packets + 1
      /\ simpleForwarded' \in Nat /\ simpleDropped' \in Nat
      /\ simpleForwarded' + simpleDropped' = simpleForwarded + simpleDropped + 1
  BY <1>3, SimpleStep DEF SimpleTypes
<1>9. SimpleTypes'
  <2>1. IsFiniteSet(DOMAIN flows')
    BY <1>3, <1>4, FS_AddElement DEF SimpleTypes
  <2>2. \A u \in DOMAIN flows' : flows'[u] \in Flow
    BY <1>2, <1>3, <1>4 DEF SimpleTypes
  <2>3. flows' \in [DOMAIN flows' -> Flow]
    BY <1>4, <2>2
  <2> QED
    BY <1>6, <1>8, <2>1, <2>3 DEF SimpleTypes, Flow
<1>10. ASSUME NEW u \in DOMAIN flows' PROVE flows'[u].app \in DOMAIN app_stats'
  BY <1>2, <1>4, <1>5 DEF SimpleInv
<1>11. /\ Total(app_stats') = simpleForwarded' + simpleDropped'
       /\ Total(PacketsOf') = simpleForwarded' + simpleDropped'
       /\ simpleForwarded' + simpleDropped' <= total_packets'
  BY <1>6, <1>7, <1>8 DEF SimpleInv
<1> QED
  BY <1>9, <1>10, <1>11 DEF SimpleInv

(* The invariant of the single-threaded engine in every run. *)
LEMMA SimpleInvariance == TwoSpec => []SimpleInv
<1>1. TwoInit => SimpleInv
  <2> SUFFICES ASSUME TwoInit PROVE SimpleInv
    OBVIOUS
  <2>1. /\ flows = [t \in {} |-> {}] /\ app_stats = [a \in {} |-> 0]
        /\ total_packets = 0 /\ simpleForwarded = 0 /\ simpleDropped = 0
    BY DEF TwoInit, Simple!Init
  <2>2. DOMAIN flows = {} /\ DOMAIN app_stats = {} /\ DOMAIN PacketsOf = {}
    BY <2>1 DEF PacketsOf
  <2>3. SimpleTypes
    BY <2>1, <2>2, FS_EmptySet DEF SimpleTypes, IsTally
  <2>4. Total(app_stats) = 0 /\ Total(PacketsOf) = 0
    BY <2>2, TotalOfZeros
  <2> QED
    BY <2>1, <2>2, <2>3, <2>4 DEF SimpleInv
<1>2. SimpleInv /\ [TwoNext]_bothVars => SimpleInv'
  <2> SUFFICES ASSUME SimpleInv, [TwoNext]_bothVars PROVE SimpleInv'
    OBVIOUS
  <2>1. CASE UNCHANGED simpleVars
    BY <2>1 DEF simpleVars, SimpleInv, SimpleTypes, PacketsOf
  <2>2. CASE ReadJunk
    <3>1. /\ UNCHANGED <<flows, app_stats, simpleForwarded, simpleDropped>>
          /\ total_packets' = total_packets + 1
      BY <2>2 DEF ReadJunk, Simple!SkipJunk
    <3>2. PacketsOf' = PacketsOf
      BY <3>1 DEF PacketsOf
    <3> QED
      BY <3>1, <3>2 DEF SimpleInv, SimpleTypes
  <2> QED
    BY <2>1, <2>2, SimpleStepAddsUp DEF TwoNext, ReadPacket, Pass, bothVars
<1> QED
  BY <1>1, <1>2, PTL DEF TwoSpec

(* SimpleEngine sums up as this module does. *)
LEMMA SameTotal == ASSUME NEW g PROVE Simple!Total(g) = Total(g)
<1>1. Simple!Units(g) = Units(g)
  BY DEF Simple!Units, Units
<1>2. ASSUME NEW S PROVE Simple!Cardinality(S) = Cardinality(S)
  BY Zenon DEF Simple!Cardinality, Cardinality
<1> QED
  BY <1>1, <1>2 DEF Simple!Total, Total

(* The breakdown of the report counts every decided packet once, for any   *)
(* capture and options (main_simple.cpp:544).                              *)
THEOREM BreakdownAddsUp == TwoSpec => []ReportAddsUp
<1>1. SimpleInv => ReportAddsUp
  BY SameTotal DEF SimpleInv, ReportAddsUp, Simple!ReportAddsUp, PacketsOf
<1> QED
  BY <1>1, SimpleInvariance, PTL

-----------------------------------------------------------------------------
(* The two engines on one flow *)

(* Flow t in the fast path (entry c) and in the loop of main() (f), while  *)
(* no rule blocked it, under options o: a classified flow may have been    *)
(* closed, and only a DNS message without a name settles the entry alone.  *)
OpenAlike(o, c, f, t) ==
    /\ c.state # "BLOCKED"
    /\ f.app = c.app /\ f.sni = c.sni
    /\ f.classified => c.state \in {"CLASSIFIED", "CLOSED"}
    /\ ~f.classified => f.sni = NoHost
    /\ ~f.classified /\ c.state = "CLASSIFIED" =>
         t.protocol = 17 /\ 53 \in {t.dst_port, t.src_port} /\ f.app = "DNS"
    /\ f.sni # NoHost => (f.sni \in o.domains <=> f.sni \in o.contains)

Alike(o, c, f, t) == /\ f.blocked <=> c.state = "BLOCKED"
                     /\ ~f.blocked => OpenAlike(o, c, f, t)

(* What a packet may not be or meet if the engines are to see it alike. *)
SeenAlike(c, f, p) ==
    /\ ~OtherTransport(p) /\ ~TooShort(p) /\ ~PatternsDiffer(p)
    /\ ~(c.state = "CLASSIFIED" /\ ~f.classified /\ p.payload \in Hosts)
    /\ ~(c.state = "CLOSED" /\ f.classified /\ p.payload # "none")

(* A payload teaches both engines the same. *)
LEMMA InspectedAlike ==
    ASSUME NEW c \in Connection, NEW f \in Flow, NEW p \in Packets,
           OpenAlike(options, c, f, p.tuple), SeenAlike(c, f, p)
    PROVE  OpenAlike(options, Inspected(c, p),
                     IF f.classified THEN f ELSE Simple!InspectPayload(f, p), p.tuple)
<1> USE TrackerAssumption
<1>1. CASE f.classified
  <2>1. ~Inspects(c, p)
    BY <1>1 DEF Inspects, OpenAlike, SeenAlike
  <2> QED
    BY <1>1, <2>1 DEF Inspected
<1>2. CASE ~f.classified /\ c.state = "CLASSIFIED"
  <2>1. Inspected(c, p) = c
    BY <1>2 DEF Inspected, Inspects
  <2>2. /\ p.tuple.protocol = 17 /\ 53 \in {p.tuple.dst_port, p.tuple.src_port}
        /\ f.app = "DNS" /\ p.payload \notin Hosts
    BY <1>2 DEF OpenAlike, SeenAlike
  <2>3. Simple!InspectPayload(f, p) = [f EXCEPT !.app = "DNS"]
    BY <2>2 DEF Simple!InspectPayload, Simple!IsTried
  <2>4. [f EXCEPT !.app = "DNS"] = f
    BY <2>2 DEF Flow
  <2> QED
    BY <1>2, <2>1, <2>3, <2>4
<1>3. CASE ~f.classified /\ c.state # "CLASSIFIED"
  <2> DEFINE same == Inspected(c, p) = c /\ Simple!InspectPayload(f, p) = f
             apps(app) == /\ Inspected(c, p) = [c EXCEPT !.app = app]
                          /\ Simple!InspectPayload(f, p) = [f EXCEPT !.app = app]
             names(app) ==
                 /\ Inspected(c, p) = [c EXCEPT !.app = app, !.sni = p.payload,
                                                !.state = "CLASSIFIED"]
                 /\ Simple!InspectPayload(f, p) = [f EXCEPT !.app = app, !.sni = p.payload,
                                                            !.classified = TRUE]
             nameless ==
                 /\ Inspected(c, p) = [c EXCEPT !.app = "DNS", !.sni = NoHost,
                                                !.state = "CLASSIFIED"]
                 /\ Simple!InspectPayload(f, p) = [f EXCEPT !.app = "DNS"]
                 /\ p.tuple.protocol = 17 /\ 53 \in {p.tuple.dst_port, p.tuple.src_port}
  <2>1. CASE same
    BY <1>3, <2>1
  <2>2. ASSUME NEW app, apps(app)
        PROVE  OpenAlike(options, Inspected(c, p), Simple!InspectPayload(f, p), p.tuple)
    BY <1>3, <2>2 DEF OpenAlike, Flow, Connection
  <2>3. ASSUME NEW app, names(app), p.payload \in Hosts
        PROVE  OpenAlike(options, Inspected(c, p), Simple!InspectPayload(f, p), p.tuple)
    BY <1>3, <2>3 DEF OpenAlike, Flow, Connection, SeenAlike, PatternsDiffer
  <2>4. CASE nameless
    BY <1>3, <2>4 DEF OpenAlike, Flow, Connection
  <2>5. \/ same \/ (\E app : apps(app)) \/ nameless
        \/ p.payload \in Hosts /\ \E app : names(app)
    <3> USE DEF SeenAlike
    <3>0. p.tuple.protocol \in {6, 17} /\ Classifiable(c) /\ c.app = f.app
      BY <1>3, TransportAssumption DEF Classifiable, OpenAlike
    <3>1. CASE p.payload = "none"
      <4>1. Inspected(c, p) = c
        BY <3>1 DEF Inspected, Inspects
      <4>2. Simple!InspectPayload(f, p) = f
        BY <3>0, <3>1 DEF Simple!InspectPayload, Simple!IsTried, TooShort, HasPort
      <4> QED
        BY <4>1, <4>2
    <3>2. CASE p.payload # "none" /\ p.tuple.protocol = 6
      <4>1. Inspected(c, p) = InspectPayload(c, p) /\ ~IsDNS(p)
        BY <1>3, <3>2 DEF Inspected, Inspects, OtherTransport, HasPort, IsDNS
      <4>2. CASE p.tuple.dst_port \notin {443, 80}
        <5>1. Simple!InspectPayload(f, p) = f
          BY <3>2, <4>2 DEF Simple!InspectPayload, Simple!IsTried
        <5>2. InspectPayload(c, p) = c
          <6>1. [c EXCEPT !.app = c.app] = c
            BY DEF Connection
          <6> QED
            BY <4>1, <4>2, <6>1 DEF InspectPayload, FindsHost
        <5> QED
          BY <4>1, <5>1, <5>2
      <4>3. CASE p.tuple.dst_port \in {443, 80} /\ p.payload \in Hosts
        <5>1. InspectPayload(c, p) = [c EXCEPT !.app = AppOf[p.payload], !.sni = p.payload,
                                               !.state = "CLASSIFIED"]
          BY <3>0, <4>3 DEF InspectPayload, FindsHost, ClassifyConnection
        <5>2. Simple!InspectPayload(f, p)
                = [f EXCEPT !.app = AppOf[p.payload], !.sni = p.payload, !.classified = TRUE]
          BY <3>2, <4>3 DEF Simple!InspectPayload, Simple!IsTried, Simple!Named,
                            Simple!Classified, TooShort
        <5>3. names(AppOf[p.payload])
          BY <4>1, <5>1, <5>2
        <5> HIDE DEF names
        <5> QED
          BY <4>3, <5>3
      <4>4. CASE p.tuple.dst_port \in {443, 80} /\ p.payload \notin Hosts
        <5> DEFINE generic == IF p.tuple.dst_port = 443 THEN "HTTPS" ELSE "HTTP"
        <5>1. InspectPayload(c, p) = IF c.app = "UNKNOWN" THEN [c EXCEPT !.app = generic] ELSE c
          BY <4>1, <4>4 DEF InspectPayload, FindsHost
        <5>2. Simple!InspectPayload(f, p)
                = IF f.app = "UNKNOWN" THEN [f EXCEPT !.app = generic] ELSE f
          BY <3>2, <4>4 DEF Simple!InspectPayload, Simple!IsTried, Simple!Named, TooShort
        <5>3. same \/ apps(generic)
          BY <3>0, <4>1, <5>1, <5>2
        <5> HIDE DEF same, apps, generic
        <5> QED
          BY <5>3
      <4> QED
        BY <4>2, <4>3, <4>4
    <3>3. CASE p.payload # "none" /\ p.tuple.protocol = 17
      <4>1. /\ Inspected(c, p) = InspectPayload(c, p)
            /\ p.tuple.dst_port \notin {443, 80} /\ ~FindsHost(p)
        BY <1>3, <3>3 DEF Inspected, Inspects, OtherTransport, FindsHost
      <4>2. CASE IsDNS(p) /\ p.payload \in Hosts
        <5>1. InspectPayload(c, p) = [c EXCEPT !.app = "DNS", !.sni = p.payload,
                                               !.state = "CLASSIFIED"]
          BY <3>0, <4>1, <4>2 DEF InspectPayload, ClassifyConnection
        <5>2. Simple!InspectPayload(f, p)
                = [f EXCEPT !.app = "DNS", !.sni = p.payload, !.classified = TRUE]
          BY <3>3, <4>2 DEF Simple!InspectPayload, Simple!IsTried, Simple!Classified, IsDNS
        <5>3. names("DNS")
          BY <4>1, <5>1, <5>2
        <5> HIDE DEF names
        <5> QED
          BY <4>2, <5>3
      <4>3. CASE IsDNS(p) /\ p.payload \notin Hosts
        <5>1. InspectPayload(c, p) = [c EXCEPT !.app = "DNS", !.sni = NoHost,
                                               !.state = "CLASSIFIED"]
          BY <3>0, <4>1, <4>3 DEF InspectPayload, ClassifyConnection
        <5>2. Simple!InspectPayload(f, p) = [f EXCEPT !.app = "DNS"]
          BY <3>3, <4>3 DEF Simple!InspectPayload, Simple!IsTried, IsDNS
        <5> QED
          BY <3>3, <4>1, <4>3, <5>1, <5>2 DEF IsDNS
      <4>4. CASE ~IsDNS(p)
        <5>1. Simple!InspectPayload(f, p) = f
          BY <3>3, <4>4 DEF Simple!InspectPayload, Simple!IsTried, IsDNS
        <5>2. InspectPayload(c, p) = c
          <6>1. [c EXCEPT !.app = c.app] = c
            BY DEF Connection
          <6> QED
            BY <4>1, <4>4, <6>1 DEF InspectPayload
        <5> QED
          BY <4>1, <5>1, <5>2
      <4> QED
        BY <4>2, <4>3, <4>4
    <3> QED
      BY <3>0, <3>1, <3>2, <3>3
  <2> QED
    BY <1>3, <2>1, <2>2, <2>3, <2>4, <2>5
<1> QED
  BY <1>1, <1>2, <1>3

(* The rules of the options say the same of both. *)
LEMMA SameVerdict ==
    ASSUME NEW c \in Connection, NEW f \in Flow, NEW p \in Packets,
           OpenAlike(options, c, f, p.tuple),
           rules = LoadedRules(options), simpleRules = LoadedSimpleRules(options),
           ~OnBlockedPort(p), ~PatternsDiffer(p), f.app = "UNKNOWN" => "UNKNOWN" \notin rules.apps
    PROVE  Simple!isBlocked(p.tuple, f) <=> ShouldBlock(p.tuple, c)
<1>1. f.app \in simpleRules.apps <=> c.app \in rules.apps
  BY DEF OpenAlike, LoadedRules, LoadedSimpleRules
<1>2. f.sni \in simpleRules.contains <=> c.sni # NoHost /\ c.sni \in rules.domains
  BY DEF OpenAlike, LoadedRules, LoadedSimpleRules, PatternsDiffer
<1>3. p.tuple.src_ip \in simpleRules.ips <=> AddressBlocked(p.tuple)
  BY DEF LoadedRules, LoadedSimpleRules, AddressBlocked, OnBlockedPort
<1> QED
  BY <1>1, <1>2, <1>3 DEF Simple!isBlocked, ShouldBlock

-----------------------------------------------------------------------------
(* The engines agree *)

(* EnginesAgree is not inductive: what the next payload does to a flow     *)
(* depends on whether either engine holds it to be settled, and on rules   *)
(* that come from the same options.                                        *)
Shared == /\ rules = LoadedRules(options) /\ simpleRules = LoadedSimpleRules(options)
          /\ DOMAIN table \subseteq DOMAIN flows
FlowsAlike == \A t \in DOMAIN flows \ apart :
                 t \in DOMAIN table /\ Alike(options, table[t], flows[t], t)

(* A flow that no packet is of, and that the table keeps, stays alike.     *)
LEMMA OthersAlike ==
    ASSUME Inv, Shared, FlowsAlike, NEW p \in Packets, ReadPacket(p),
           NEW t \in DOMAIN flows' \ apart', t # p.tuple
    PROVE  t \in DOMAIN table' /\ Alike(options, table'[t], flows'[t], t)
<1>1. t \in DOMAIN flows /\ flows'[t] = flows[t]
  <2>1. flows' = Simple!With(flows, p.tuple, FlowAfter(p))
    BY SimpleStep DEF ReadPacket
  <2>2. DOMAIN flows' = DOMAIN flows \cup {p.tuple}
    BY <2>1 DEF Simple!With
  <2> QED
    BY <2>1, <2>2 DEF Simple!With
<1>2. t \in DOMAIN table' /\ t \notin apart
  BY DEF ReadPacket, Forgotten
<1>3. t \in DOMAIN table /\ table'[t] = table[t]
  <2>1. CASE DropBlocked(p)
    BY <1>2, <2>1, DropBlockedResult
  <2>2. CASE Examine(p)
    BY <1>2, <2>2, ExamineResult DEF Extends
  <2> QED
    BY <2>1, <2>2 DEF ReadPacket, ProcessPacket
<1> QED
  BY <1>1, <1>2, <1>3 DEF FlowsAlike

(* A packet of a flow that both engines hold blocked leaves it so. *)
LEMMA BlockedAlike ==
    ASSUME Inv, SimpleInv, Shared, FlowsAlike, NEW p \in Packets, ReadPacket(p), DropBlocked(p),
           p.tuple \notin apart'
    PROVE  p.tuple \in DOMAIN table' /\ Alike(options, table'[p.tuple], flows'[p.tuple], p.tuple)
<1> DEFINE t == p.tuple
<1>1. t \in DOMAIN table /\ table[t].state = "BLOCKED"
  BY DEF DropBlocked, IsBlocked
<1>2. t \in DOMAIN flows \ apart
  BY <1>1 DEF Shared, ReadPacket
<1>3. flows'[t] = FlowAfter(p) /\ t \in DOMAIN flows'
  BY SimpleStep DEF ReadPacket, Simple!With
<1>4. t \in DOMAIN table' /\ table'[t] = table[t]
  <2>1. t \in DOMAIN table'
    BY <1>3 DEF ReadPacket, Forgotten
  <2> QED
    BY <2>1, DropBlockedResult
<1>5. flows[t].blocked = TRUE
  <2>1. flows[t].blocked \in BOOLEAN
    BY <1>2 DEF SimpleInv, SimpleTypes, Flow
  <2> QED
    BY <1>1, <1>2, <2>1 DEF FlowsAlike, Alike
<1>6. FlowAfter(p).blocked = TRUE
  <2>1. FlowBefore(p).blocked = TRUE
    <3>1. flows[t] \in Flow
      BY <1>2 DEF SimpleInv, SimpleTypes
    <3> QED
      BY <1>2, <1>5, <3>1 DEF FlowBefore, Simple!FlowOf, Flow
  <2>2. FlowSeen(p).blocked = TRUE
    BY <2>1, FlowStages, InspectsFlow DEF SimpleInv, FlowSeen
  <2>3. FlowSeen(p) \in Flow
    BY FlowStages DEF SimpleInv
  <2>4. Simple!Verdict(t, FlowSeen(p)) = TRUE
    BY <2>2 DEF Simple!Verdict
  <2> QED
    BY <2>3, <2>4 DEF FlowAfter, Flow
<1> QED
  BY <1>1, <1>3, <1>4, <1>6 DEF Alike

(* Before a packet that is examined both engines have the flow open, or    *)
(* neither has it.                                                         *)
LEMMA BeforeAlike ==
    ASSUME Inv, SimpleInv, Shared, FlowsAlike, NEW p \in Packets, ReadPacket(p), Examine(p),
           p.tuple \notin apart'
    PROVE  /\ OpenAlike(options, EntryBefore(p), FlowBefore(p), p.tuple)
           /\ FlowBefore(p).blocked = FALSE
           /\ SeenAlike(EntryTracked(p), FlowBefore(p), p)
<1> DEFINE t == p.tuple
<1>1. t \notin apart /\ ~Distinguishes(p)
  BY DEF ReadPacket
<1>2. EntryBefore(p) \in Connection /\ EntryBefore(p).state # "BLOCKED" /\ now \in Nat
  BY ExamineEntry DEF Inv, TypeOK
<1>3. /\ EntryTracked(p).state = "CLASSIFIED" => EntryBefore(p).state = "CLASSIFIED"
      /\ EntryTracked(p).state = TrackTCP(EntryBefore(p), p).state
      /\ EntryBefore(p).state = "CLOSED" => EntryTracked(p).state = "CLOSED"
  BY <1>2, TrackedEntry DEF EntryTracked
<1>4. ~OtherTransport(p) /\ ~TooShort(p) /\ ~PatternsDiffer(p)
  BY <1>1 DEF Distinguishes
<1>5. CASE t \in DOMAIN flows
  <2>1. t \in DOMAIN table /\ Alike(options, table[t], flows[t], t)
    BY <1>1, <1>5 DEF FlowsAlike
  <2>2. EntryBefore(p) = table[t] /\ flows[t] \in Flow
    BY <1>5, <2>1 DEF EntryBefore, SimpleInv, SimpleTypes
  <2>3. flows[t].blocked = FALSE /\ OpenAlike(options, table[t], flows[t], t)
    BY <1>2, <2>1, <2>2 DEF Alike, Flow
  <2>4. /\ FlowBefore(p).app = flows[t].app /\ FlowBefore(p).sni = flows[t].sni
        /\ FlowBefore(p).blocked = flows[t].blocked
        /\ FlowBefore(p).classified = flows[t].classified
    BY <1>5, <2>2 DEF FlowBefore, Simple!FlowOf, Flow
  <2>5. ~(EntryTracked(p).state = "CLASSIFIED" /\ ~FlowBefore(p).classified /\ p.payload \in Hosts)
    BY <1>1, <1>3, <1>5, <2>1, <2>2, <2>4 DEF Distinguishes, NamedLater
  <2>6. ~(EntryTracked(p).state = "CLOSED" /\ FlowBefore(p).classified /\ p.payload # "none")
    BY <1>1, <1>3, <1>5, <2>1, <2>2, <2>4 DEF Distinguishes, AfterClose
  <2>7. OpenAlike(options, EntryBefore(p), FlowBefore(p), t)
    BY <2>2, <2>3, <2>4 DEF OpenAlike
  <2> QED
    BY <1>4, <2>3, <2>4, <2>5, <2>6, <2>7 DEF SeenAlike
<1>6. CASE t \notin DOMAIN flows
  <2>1. EntryBefore(p) = NewConnection(now)
    BY <1>6 DEF Shared, EntryBefore
  <2>2. FlowBefore(p) = [Simple!NewFlow EXCEPT !.packets = @ + 1]
    BY <1>6 DEF FlowBefore, Simple!FlowOf
  <2>3. /\ FlowBefore(p).app = "UNKNOWN" /\ FlowBefore(p).sni = NoHost
        /\ FlowBefore(p).blocked = FALSE /\ FlowBefore(p).classified = FALSE
    BY <2>2 DEF Simple!NewFlow
  <2>4. /\ EntryBefore(p).app = "UNKNOWN" /\ EntryBefore(p).sni = NoHost
        /\ EntryBefore(p).state = "NEW"
    BY <2>1 DEF NewConnection
  <2> QED
    BY <1>3, <1>4, <2>3, <2>4 DEF OpenAlike, SeenAlike
<1> QED
  BY <1>5, <1>6

(* A packet that both engines examine leaves its flow alike. *)
LEMMA ExaminedAlike ==
    ASSUME Inv, SimpleInv, Shared, FlowsAlike, NEW p \in Packets, ReadPacket(p), Examine(p),
           p.tuple \notin apart'
    PROVE  p.tuple \in DOMAIN table' /\ Alike(options, table'[p.tuple], flows'[p.tuple], p.tuple)
<1> DEFINE t == p.tuple
           c == EntrySeen(p)
           f == FlowSeen(p)
<1>1. flows'[t] = FlowAfter(p) /\ t \in DOMAIN flows'
  BY SimpleStep DEF ReadPacket, Simple!With
<1>2. t \in DOMAIN table' /\ table'[t] = EntryAfter(p)
  <2>1. t \in DOMAIN table'
    BY <1>1 DEF ReadPacket, Forgotten
  <2> QED
    BY <2>1, ExamineEntry
<1>3. /\ EntryBefore(p) \in Connection /\ EntryTracked(p) \in Connection /\ c \in Connection
      /\ c.state # "BLOCKED" /\ now \in Nat
  BY ExamineEntry DEF Inv, TypeOK
<1>4. FlowBefore(p) \in Flow /\ f \in Flow
  BY FlowStages DEF SimpleInv
<1>5. /\ OpenAlike(options, EntryBefore(p), FlowBefore(p), t)
      /\ FlowBefore(p).blocked = FALSE
      /\ SeenAlike(EntryTracked(p), FlowBefore(p), p)
  BY BeforeAlike
<1>6. OpenAlike(options, EntryTracked(p), FlowBefore(p), t)
  <2>1. /\ EntryTracked(p).app = EntryBefore(p).app /\ EntryTracked(p).sni = EntryBefore(p).sni
        /\ EntryBefore(p).state = "CLASSIFIED" => EntryTracked(p).state \in {"CLASSIFIED", "CLOSED"}
        /\ EntryBefore(p).state = "CLOSED" => EntryTracked(p).state = "CLOSED"
        /\ EntryTracked(p).state = "CLASSIFIED" => EntryBefore(p).state = "CLASSIFIED"
    BY <1>3, TrackedEntry DEF EntryTracked
  <2>2. EntryTracked(p).state # "BLOCKED"
    <3>1. /\ UpdateConnection(EntryBefore(p), now) \in Connection
          /\ UpdateConnection(EntryBefore(p), now).state # "BLOCKED"
      BY <1>3, <1>5 DEF UpdateConnection, Connection, OpenAlike
    <3> QED
      BY <3>1, TrackTCPBlocksNothing DEF EntryTracked
  <2> QED
    BY <1>5, <2>1, <2>2 DEF OpenAlike
<1>7. OpenAlike(options, c, f, t)
  BY <1>3, <1>4, <1>5, <1>6, InspectedAlike DEF EntrySeen, FlowSeen
<1>8. f.blocked = FALSE
  BY <1>4, <1>5, InspectsFlow DEF FlowSeen
<1>9. Simple!isBlocked(t, f) <=> ShouldBlock(t, c)
  <2>1. ~OnBlockedPort(p) /\ ~BlockedAsUnknown(p) /\ ~PatternsDiffer(p)
    BY DEF ReadPacket, Distinguishes
  <2>2. flows'[t].app = f.app
    <3>1. FlowAfter(p) = [f EXCEPT !.blocked = Simple!Verdict(t, f)]
      BY DEF FlowAfter
    <3> QED
      BY <1>1, <1>4, <3>1 DEF Flow
  <2>3. f.app = "UNKNOWN" => "UNKNOWN" \notin rules.apps
    BY <2>1, <2>2 DEF BlockedAsUnknown
  <2> HIDE DEF c, f
  <2> QED
    BY <1>3, <1>4, <1>7, <2>1, <2>3, SameVerdict DEF Shared
<1>10. /\ FlowAfter(p) = [f EXCEPT !.blocked = Simple!Verdict(t, f)]
       /\ EntryAfter(p) = IF ShouldBlock(t, c) THEN BlockConnection(c) ELSE c
  BY DEF FlowAfter, EntryAfter
<1> HIDE DEF c, f
<1>11. /\ FlowAfter(p).blocked <=> ShouldBlock(t, c)
       /\ FlowAfter(p).app = f.app /\ FlowAfter(p).sni = f.sni
       /\ FlowAfter(p).classified = f.classified
  BY <1>4, <1>8, <1>9, <1>10 DEF Flow, Simple!Verdict
<1>12. CASE ShouldBlock(t, c)
  <2>1. EntryAfter(p).state = "BLOCKED"
    BY <1>3, <1>10, <1>12 DEF BlockConnection, Connection
  <2> QED
    BY <1>1, <1>2, <1>11, <1>12, <2>1 DEF Alike
<1>13. CASE ~ShouldBlock(t, c)
  <2>1. EntryAfter(p) = c
    BY <1>10, <1>13
  <2>2. OpenAlike(options, c, FlowAfter(p), t)
    BY <1>7, <1>11 DEF OpenAlike
  <2> QED
    BY <1>1, <1>2, <1>3, <1>11, <1>13, <2>1, <2>2 DEF Alike
<1> QED
  BY <1>12, <1>13

(* Every step keeps the rules, the options and the tables together. *)
LEMMA SharedKept ==
    ASSUME Inv, Shared, [TwoNext]_bothVars
    PROVE  Shared' /\ options' = options
<1>1. rules' = rules /\ options' = options /\ simpleRules' = simpleRules
  <2>1. ASSUME NEW p \in Packets, ReadPacket(p)
        PROVE  rules' = rules /\ options' = options /\ simpleRules' = simpleRules
    BY <2>1, RulesAreFixed, SimpleStep DEF ReadPacket, Next
  <2>2. CASE ReadJunk
    BY <2>2 DEF ReadJunk, Simple!SkipJunk, vars
  <2>3. CASE Pass
    BY <2>3, RulesAreFixed DEF Pass, Next, simpleVars
  <2>4. CASE UNCHANGED bothVars
    BY <2>4 DEF bothVars, vars, simpleVars
  <2> QED
    BY <2>1, <2>2, <2>3, <2>4 DEF TwoNext
<1>2. DOMAIN table' \subseteq DOMAIN flows'
  <2>1. ASSUME NEW p \in Packets, ReadPacket(p) PROVE DOMAIN table' \subseteq DOMAIN flows'
    <3>1. DOMAIN flows' = DOMAIN flows \cup {p.tuple}
      BY <2>1, SimpleStep DEF ReadPacket, Simple!With
    <3>2. DOMAIN table' \subseteq DOMAIN table \cup {p.tuple}
      BY <2>1, DropBlockedResult, ExamineResult DEF ReadPacket, ProcessPacket, Extends
    <3> QED
      BY <3>1, <3>2 DEF Shared
  <2>2. CASE ReadJunk
    BY <2>2 DEF ReadJunk, Simple!SkipJunk, vars, Shared
  <2>3. CASE Pass
    BY <2>3, IdleCleanupResult DEF Pass, Tick, simpleVars, Shared
  <2>4. CASE UNCHANGED bothVars
    BY <2>4 DEF bothVars, vars, simpleVars, Shared
  <2> QED
    BY <2>1, <2>2, <2>3, <2>4 DEF TwoNext
<1> QED
  BY <1>1, <1>2 DEF Shared, LoadedRules, LoadedSimpleRules

(* Every step keeps the flows alike that it does not set apart. *)
LEMMA FlowsStayAlike ==
    ASSUME Inv, SimpleInv, Shared, FlowsAlike, [TwoNext]_bothVars,
           NEW t \in DOMAIN flows' \ apart'
    PROVE  t \in DOMAIN table' /\ Alike(options, table'[t], flows'[t], t)
<1>1. ASSUME NEW p \in Packets, ReadPacket(p)
      PROVE  t \in DOMAIN table' /\ Alike(options, table'[t], flows'[t], t)
  BY <1>1, OthersAlike, BlockedAlike, ExaminedAlike DEF ReadPacket, ProcessPacket
<1>2. CASE ReadJunk
  BY <1>2 DEF ReadJunk, Simple!SkipJunk, vars, FlowsAlike
<1>3. CASE Pass
  <2>1. t \in DOMAIN flows \ apart /\ flows' = flows /\ t \in DOMAIN table'
    BY <1>3 DEF Pass, simpleVars, Forgotten
  <2>2. table'[t] = table[t]
    BY <1>3, <2>1, IdleCleanupResult DEF Pass, Tick
  <2> QED
    BY <2>1, <2>2 DEF FlowsAlike
<1>4. CASE UNCHANGED bothVars
  BY <1>4 DEF bothVars, vars, simpleVars, FlowsAlike
<1> QED
  BY <1>1, <1>2, <1>3, <1>4 DEF TwoNext

(* For any capture, options, table size and times: the engines come to the *)
(* same verdict, application and name for every flow that met none of the  *)
(* listed differences.                                                     *)
THEOREM EnginesDoAgree == TwoSpec => []EnginesAgree
<1>1. TwoInit => Shared /\ FlowsAlike
  <2> SUFFICES ASSUME TwoInit PROVE Shared /\ FlowsAlike
    OBVIOUS
  <2>1. DOMAIN flows = {} /\ DOMAIN table = {}
    BY DEF TwoInit, Simple!Init, Init
  <2> QED
    BY <2>1 DEF TwoInit, Shared, FlowsAlike
<1>2. Inv /\ SimpleInv /\ Shared /\ FlowsAlike /\ [TwoNext]_bothVars => Shared' /\ FlowsAlike'
  <2> SUFFICES ASSUME Inv, SimpleInv, Shared, FlowsAlike, [TwoNext]_bothVars
               PROVE  Shared' /\ FlowsAlike'
    OBVIOUS
  <2>1. Shared' /\ options' = options
    BY SharedKept
  <2>2. \A t \in DOMAIN flows' \ apart' :
           t \in DOMAIN table' /\ Alike(options, table'[t], flows'[t], t)
    BY FlowsStayAlike
  <2> QED
    BY <2>1, <2>2 DEF FlowsAlike, Alike, OpenAlike
<1>3. SimpleInv /\ FlowsAlike => EnginesAgree
  BY DEF SimpleInv, SimpleTypes, Flow, FlowsAlike, Alike, OpenAlike, EnginesAgree
<1> QED
  BY <1>1, <1>2, <1>3, FastPathRuns, Invariance, SimpleInvariance, PTL DEF TwoSpec
=============================================================================
