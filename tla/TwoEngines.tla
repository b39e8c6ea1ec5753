----------------------------- MODULE TwoEngines -----------------------------
(***************************************************************************)
(* The same capture and the same options given to both engines: a fast     *)
(* path thread and the loop of main_simple.cpp side by side.  They are two *)
(* programs for one job and share the extractors, not the flow logic.      *)
(***************************************************************************)
EXTENDS Classification

CONSTANT Options    \* [ips, ports, appNames, domains, contains]: the arguments; domains and
                    \* contains: the names the patterns match in either engine

(* main() of either engine passes over a packet of any other protocol. *)
ASSUME TransportAssumption == \A p \in Packets : p.tuple.protocol \in {6, 17}

VARIABLES
    options,
    simpleRules, flows, app_stats, total_packets, simpleForwarded, simpleDropped,
    apart       \* the flows that met something the engines treat differently (history)

Simple == INSTANCE SimpleEngine
             WITH rules <- simpleRules, forwarded <- simpleForwarded, dropped <- simpleDropped

simpleVars == <<simpleRules, flows, app_stats, total_packets, simpleForwarded, simpleDropped>>
bothVars   == <<vars, options, simpleVars, apart>>

(* main() of dpi_mt.cpp blocks UNKNOWN for a name that no application has. *)
LoadedRules(o) ==
    [ips |-> o.ips, ports |-> o.ports, domains |-> o.domains,
     apps |-> Simple!AppsNamed(o.appNames)
              \cup {a \in {"UNKNOWN"} : o.appNames \ Range(AppTypeToString) # {}}]

LoadedSimpleRules(o) ==
    [ips |-> o.ips, apps |-> Simple!AppsNamed(o.appNames), contains |-> o.contains]

TwoInit == /\ options \in Options
           /\ Init /\ rules = LoadedRules(options)
           /\ Simple!Init /\ simpleRules = LoadedSimpleRules(options)
           /\ apart = {}

-----------------------------------------------------------------------------
(* What the engines treat differently; each way is needed for EnginesAgree. *)

HasPort(p, port) == port \in {p.tuple.src_port, p.tuple.dst_port}

(* main_simple.cpp has no --block-port. *)
OnBlockedPort(p) == p.tuple.dst_port \in rules.ports

(* A pattern is a substring in one and a domain or a wildcard in the other; *)
(* the empty one is a substring of the name a flow does not have yet.      *)
PatternsDiffer(p) == \/ /\ p.payload \in options.domains \cup options.contains
                        /\ p.payload \notin options.domains \cap options.contains
                     \/ NoHost \in options.contains

(* An unknown application name blocks what is not classified yet. *)
BlockedAsUnknown(p) == "UNKNOWN" \in rules.apps /\ flows'[p.tuple].app = "UNKNOWN"

(* The fast path asks for the port only: Client Hellos over UDP (QUIC is   *)
(* not among them), DNS over TCP.                                          *)
OtherTransport(p) == /\ p.payload # "none"
                     /\ \/ p.tuple.protocol = 17 /\ p.tuple.dst_port \in {443, 80}
                        \/ p.tuple.protocol = 6 /\ HasPort(p, 53)

(* A payload too short to hold a request makes the flow HTTPS or HTTP in   *)
(* the fast path only, an empty datagram makes it DNS in the other only.   *)
TooShort(p) == \/ p.payload = "short" /\ p.tuple.dst_port \in {443, 80}
               \/ p.payload = "none" /\ p.tuple.protocol = 17 /\ HasPort(p, 53)

(* A DNS message without a name settles the flow in the fast path only. *)
NamedLater(p) == /\ p.tuple \in DOMAIN table /\ p.tuple \in DOMAIN flows
                 /\ table[p.tuple].state = "CLASSIFIED" /\ ~flows[p.tuple].classified
                 /\ p.payload \in Hosts

(* A closed entry is classified again. *)
AfterClose(p) == /\ p.tuple \in DOMAIN table /\ p.tuple \in DOMAIN flows
                 /\ TrackTCP(table[p.tuple], p).state = "CLOSED" /\ flows[p.tuple].classified
                 /\ p.payload # "none"

Distinguishes(p) == \/ OnBlockedPort(p) \/ PatternsDiffer(p) \/ BlockedAsUnknown(p)
                    \/ OtherTransport(p) \/ TooShort(p) \/ NamedLater(p) \/ AfterClose(p)

(* Only the fast path forgets a flow: evicted, idle or closed. *)
Forgotten == DOMAIN flows' \ DOMAIN table'

ReadPacket(p) == /\ ProcessPacket(p)
                 /\ Simple!ProcessPacket(p)
                 /\ apart' = apart \cup {t \in {p.tuple} : Distinguishes(p)} \cup Forgotten
                 /\ UNCHANGED options

ReadJunk == Simple!SkipJunk /\ UNCHANGED <<vars, options, apart>>

Pass == /\ IdleCleanup \/ Tick
        /\ UNCHANGED <<options, simpleVars>>
        /\ apart' = apart \cup Forgotten

TwoNext == (\E p \in Packets : ReadPacket(p)) \/ ReadJunk \/ Pass

TwoSpec == TwoInit /\ [][TwoNext]_bothVars

-----------------------------------------------------------------------------
(* Both engines come to the same verdict on a flow and, unless it is       *)
(* blocked, to the same application and name, however its handshake, its   *)
(* payloads and those of other flows were mixed: the ways listed above are *)
(* all there are to tell the engines apart.                                *)
EnginesAgree ==
    \A t \in DOMAIN flows \ apart :
        /\ flows[t].blocked <=> table[t].state = "BLOCKED"
        /\ ~flows[t].blocked => flows[t].app = table[t].app /\ flows[t].sni = table[t].sni

ReportAddsUp == Simple!ReportAddsUp
=============================================================================
