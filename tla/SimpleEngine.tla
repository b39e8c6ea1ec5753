---------------------------- MODULE SimpleEngine ----------------------------
(***************************************************************************)
(* The single-threaded engine (src/main_simple.cpp): the loop of main()    *)
(* over its flow table, its rules and its counters.  Packets are given as  *)
(* to FastPath; a frame the parser rejects, or without ports, is Junk.     *)
(***************************************************************************)
EXTENDS AppTypes, Counting

CONSTANTS
    Hosts, NoHost,    \* names an extractor can find; the empty string
    AppOf,            \* sniToAppType()
    MaxPackets        \* bound on a run

VARIABLES
    rules,                         \* BlockingRules: [ips, apps, contains]; contains: the names
                                   \* with a blocked substring
    flows,                         \* from five-tuples to Flow
    app_stats,                     \* from the applications counted so far to Nat
    total_packets, forwarded, dropped

(* blockApp() passes over a name that no application has. *)
AppsNamed(names) == {a \in AppType : AppTypeToString[a] \in names}

Init == /\ flows = [t \in {} |-> {}]
        /\ app_stats = [a \in {} |-> 0]
        /\ total_packets = 0 /\ forwarded = 0 /\ dropped = 0

NewFlow == [packets |-> 0, app |-> "UNKNOWN", sni |-> NoHost, blocked |-> FALSE,
            classified |-> FALSE]

(* operator[] of an unordered_map creates what is missing. *)
FlowOf(t) == IF t \in DOMAIN flows THEN flows[t] ELSE NewFlow
StatOf(a) == IF a \in DOMAIN app_stats THEN app_stats[a] ELSE 0
With(f, x, y) == [u \in DOMAIN f \cup {x} |-> IF u = x THEN y ELSE f[u]]

Classified(flow, app, sni) == [flow EXCEPT !.app = app, !.sni = sni, !.classified = TRUE]

(* A payload is "short" when the extractor of its port is not even tried. *)
IsTried(p, port) == /\ p.tuple.protocol = 6 /\ p.tuple.dst_port = port
                    /\ p.payload \notin {"none", "short"}

Named(flow, p, generic) ==
    IF p.payload \in Hosts THEN Classified(flow, AppOf[p.payload], p.payload)
    ELSE IF flow.app = "UNKNOWN" THEN [flow EXCEPT !.app = generic]
    ELSE flow

InspectPayload(flow, p) ==
    IF IsTried(p, 443) THEN Named(flow, p, "HTTPS")
    ELSE IF IsTried(p, 80) THEN Named(flow, p, "HTTP")
    ELSE IF p.tuple.protocol = 17 /\ 53 \in {p.tuple.dst_port, p.tuple.src_port}
         THEN IF p.payload \in Hosts THEN Classified(flow, "DNS", p.payload)
              ELSE [flow EXCEPT !.app = "DNS"]
    ELSE flow

isBlocked(t, flow) == t.src_ip \in rules.ips \/ flow.app \in rules.apps \/ flow.sni \in rules.contains

(* Fault: the rules are asked anew for every packet. *)
Verdict_Fresh(t, flow) == isBlocked(t, flow)

Verdict(t, flow) == flow.blocked \/ isBlocked(t, flow)

(* Fault: the packet is counted under what the flow was before it. *)
CountedAs_Before(flow, seen) == flow.app

CountedAs(flow, seen) == seen.app

ProcessPacket(p) ==
    LET t     == p.tuple
        flow  == [FlowOf(t) EXCEPT !.packets = @ + 1]
        seen  == IF flow.classified THEN flow ELSE InspectPayload(flow, p)
        final == [seen EXCEPT !.blocked = Verdict(t, seen)]
    IN /\ total_packets < MaxPackets
       /\ total_packets' = total_packets + 1
       /\ flows' = With(flows, t, final)
       /\ app_stats' = With(app_stats, CountedAs(flow, seen), StatOf(CountedAs(flow, seen)) + 1)
       /\ IF final.blocked THEN dropped' = dropped + 1 /\ UNCHANGED forwarded
          ELSE forwarded' = forwarded + 1 /\ UNCHANGED dropped
       /\ UNCHANGED rules

SkipJunk == /\ total_packets < MaxPackets
            /\ total_packets' = total_packets + 1
            /\ UNCHANGED <<rules, flows, app_stats, forwarded, dropped>>

-----------------------------------------------------------------------------
(* printReport(): the breakdown by application counts every packet that    *)
(* was decided once, although the application of a flow changes on the     *)
(* way; only junk makes the sum differ from the total; and no flow is      *)
(* listed with a name without the packets that showed it.                  *)
ReportAddsUp ==
    LET decided == forwarded + dropped
    IN /\ Total(app_stats) = decided
       /\ Total([t \in DOMAIN flows |-> flows[t].packets]) = decided
       /\ decided <= total_packets
       /\ \A t \in DOMAIN flows : flows[t].sni # NoHost => flows[t].app \in DOMAIN app_stats
=============================================================================
