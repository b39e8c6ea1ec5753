------------------------------ MODULE FastPath ------------------------------
(***************************************************************************)
(* One FastPathProcessor (src/fast_path.cpp): processPacket() over the     *)
(* thread's own flow table, the cleanup its loop runs, and its counters.   *)
(* The packets that reach it, the rules and the passing of time are free.  *)
(* What the extractors find in a payload is given with the packet.         *)
(***************************************************************************)
EXTENDS ConnectionTracker, Integers

CONSTANTS
    Packets,           \* the PacketJobs: [tuple, flags, payload]
    AppOf,             \* sniToAppType()
    RuleSets,          \* the rules loaded before the threads start
    CleanupInterval,   \* CLEANUP_INTERVAL
    MaxPackets, MaxTime   \* bounds on a run

ASSUME FastPathAssumption ==
    /\ \A p \in Packets : /\ p.tuple \in Tuples
                          /\ p.flags \subseteq {"SYN", "ACK", "FIN", "RST"}
                          /\ p.payload \in Hosts \cup {"none", "short", "opaque"}
                          /\ p.payload = NoHost => p.tuple.dst_port = 80
    /\ AppOf \in [Hosts -> Apps]
    /\ CleanupInterval \in Nat \ {0}
    /\ MaxPackets \in Nat /\ MaxTime \in Nat

VARIABLES
    rules,          \* [ips, ports, apps, domains]; domains: the names the patterns match
    table,          \* conn_tracker_
    now,            \* steady_clock
    sinceCleanup,   \* packets_since_cleanup
    forwarded, dropped,            \* packets_forwarded_, packets_dropped_
    totalSeen, classified, blocked,    \* counters of the tracker
    hits,           \* classification_hits_
    lastAction      \* tuple and action of the last packet (history)

counters == <<forwarded, dropped, totalSeen, classified, blocked, hits>>
vars == <<rules, table, now, sinceCleanup, counters, lastAction>>

Init == /\ rules \in RuleSets
        /\ table = [t \in {} |-> NewConnection(0)]
        /\ now = 0
        /\ sinceCleanup = 0
        /\ forwarded = 0 /\ dropped = 0
        /\ totalSeen = 0 /\ classified = 0 /\ blocked = 0 /\ hits = 0
        /\ lastAction = <<>>

-----------------------------------------------------------------------------
(* The stages of processPacket() *)

(* Fault: the end of a handshake makes any entry ESTABLISHED. *)
UpdateTCPState_AnyState(conn, flags) ==
    LET syn    == conn.syn_seen \/ ("SYN" \in flags /\ "ACK" \notin flags)
        synAck == conn.syn_ack_seen \/ {"SYN", "ACK"} \subseteq flags
        fin    == conn.fin_seen \/ ("FIN" \in flags /\ "RST" \notin flags)
        done   == syn /\ synAck /\ "ACK" \in flags /\ "SYN" \notin flags
        closes == "RST" \in flags \/ (fin /\ "ACK" \in flags)
    IN [conn EXCEPT !.syn_seen = syn, !.syn_ack_seen = synAck, !.fin_seen = fin,
                    !.state = IF closes THEN "CLOSED" ELSE IF done THEN "ESTABLISHED" ELSE @]

(* updateTCPState() *)
UpdateTCPState(conn, flags) ==
    LET syn    == conn.syn_seen \/ ("SYN" \in flags /\ "ACK" \notin flags)
        synAck == conn.syn_ack_seen \/ {"SYN", "ACK"} \subseteq flags
        fin    == conn.fin_seen \/ ("FIN" \in flags /\ "RST" \notin flags)
        done   == syn /\ synAck /\ "ACK" \in flags /\ "SYN" \notin flags
        closes == "RST" \in flags \/ (fin /\ "ACK" \in flags)
    IN [conn EXCEPT !.syn_seen = syn, !.syn_ack_seen = synAck, !.fin_seen = fin,
                    !.state = IF closes THEN "CLOSED"
                              ELSE IF done /\ @ = "NEW" THEN "ESTABLISHED" ELSE @]

(* Whether tryExtractSNI() or tryExtractHTTPHost() finds a name. *)
FindsHost(p) == p.tuple.dst_port \in {443, 80} /\ p.payload \in Hosts

IsDNS(p) == 53 \in {p.tuple.dst_port, p.tuple.src_port}

(* inspectPayload() on a payload that is not empty. *)
InspectPayload(conn, p) ==
    IF FindsHost(p) THEN ClassifyConnection(conn, AppOf[p.payload], p.payload)
    ELSE IF IsDNS(p) THEN ClassifyConnection(conn, "DNS",
                             IF p.payload \in Hosts THEN p.payload ELSE NoHost)
    ELSE IF conn.app = "UNKNOWN"
         THEN [conn EXCEPT !.app = CASE p.tuple.dst_port = 443 -> "HTTPS"
                                     [] p.tuple.dst_port = 80 -> "HTTP"
                                     [] OTHER -> @]
         ELSE conn

Inspects(conn, p) == conn.state # "CLASSIFIED" /\ p.payload # "none"

Inspected(conn, p) == IF Inspects(conn, p) THEN InspectPayload(conn, p) ELSE conn

(* Whether classified_count_ counts p. *)
Classifies(conn, p) == Inspects(conn, p) /\ Classifiable(conn) /\ (FindsHost(p) \/ IsDNS(p))

(* Fault: the port rule looks at the source port. *)
AddressBlocked_SourcePort(t) == t.src_ip \in rules.ips \/ t.src_port \in rules.ports

(* shouldBlock(): one of the four categories matches. *)
AddressBlocked(t) == t.src_ip \in rules.ips \/ t.dst_port \in rules.ports
ShouldBlock(t, conn) == \/ AddressBlocked(t)
                        \/ conn.app \in rules.apps
                        \/ conn.sni # NoHost /\ conn.sni \in rules.domains

TrackTCP(conn, p) == IF p.tuple.protocol = 6 THEN UpdateTCPState(conn, p.flags) ELSE conn

(* Whether classification_hits_ counts a name found for p. *)
IsHit(p) == FindsHost(p) /\ AppOf[p.payload] \notin
                {"UNKNOWN", IF p.tuple.dst_port = 443 THEN "HTTPS" ELSE "HTTP"}

Count(b) == IF b THEN 1 ELSE 0

(* run() after the decision: the counters, and every CLEANUP_INTERVAL      *)
(* packets a cleanup.                                                      *)
Account(t, action, newTable) ==
    LET due == sinceCleanup + 1 >= CleanupInterval
    IN /\ lastAction' = <<t, action>>
       /\ forwarded' = forwarded + Count(action = "FORWARD")
       /\ dropped' = dropped + Count(action = "DROP")
       /\ sinceCleanup' = IF due THEN 0 ELSE sinceCleanup + 1
       /\ table' = IF due THEN CleanupStale(newTable, now) ELSE newTable

(* Fault: no fast exit. *)
IsBlocked_Never(t) == FALSE

IsBlocked(t) == t \in DOMAIN table /\ table[t].state = "BLOCKED"

(* Fault: every packet dropped counts as a blocked connection. *)
DropBlocked_Recounts(p) == /\ IsBlocked(p.tuple)
                           /\ Account(p.tuple, "DROP", table)
                           /\ blocked' = blocked + 1
                           /\ UNCHANGED <<rules, now, totalSeen, classified, hits>>

(* The fast exit for a flow whose entry is BLOCKED. *)
DropBlocked(p) == /\ IsBlocked(p.tuple)
                  /\ Account(p.tuple, "DROP", table)
                  /\ UNCHANGED <<rules, now, totalSeen, classified, blocked, hits>>

(* Fault: the rules are checked before the payload is inspected. *)
Matches_Early(p, tracked, seen) == ShouldBlock(p.tuple, tracked)

(* checkRules() looks at the entry as the inspection left it. *)
Matches(p, tracked, seen) == ShouldBlock(p.tuple, seen)

(* The whole of processPacket() for any other flow: look up or create,     *)
(* update, TCP state, payload, rules.                                      *)
Examine(p) ==
    /\ ~IsBlocked(p.tuple)
    /\ \E tab \in GetOrCreate(table, p.tuple, now) :
          LET tracked == TrackTCP(UpdateConnection(tab[p.tuple], now), p)
              seen    == Inspected(tracked, p)
              block   == Matches(p, tracked, seen)
              final   == IF block THEN BlockConnection(seen) ELSE seen
          IN /\ Account(p.tuple, IF block THEN "DROP" ELSE "FORWARD",
                        [tab EXCEPT ![p.tuple] = final])
             /\ classified' = classified + Count(Classifies(tracked, p))
             /\ hits' = hits + Count(Inspects(tracked, p) /\ IsHit(p))
             /\ blocked' = blocked + Count(block)
    /\ totalSeen' = totalSeen + Count(p.tuple \notin DOMAIN table)
    /\ UNCHANGED <<rules, now>>

(* A packet leaves the input queue; MaxPackets bounds the run. *)
ProcessPacket(p) == /\ forwarded + dropped < MaxPackets
                    /\ DropBlocked(p) \/ Examine(p)

(* popWithTimeout() returned nothing. *)
IdleCleanup == /\ table' = CleanupStale(table, now)
               /\ sinceCleanup' = 0
               /\ UNCHANGED <<rules, now, counters, lastAction>>

Tick == /\ now < MaxTime
        /\ now' = now + 1
        /\ UNCHANGED <<rules, table, sinceCleanup, counters, lastAction>>

Next == (\E p \in Packets : ProcessPacket(p)) \/ IdleCleanup \/ Tick

Spec == Init /\ [][Next]_vars

-----------------------------------------------------------------------------
(* Every variable has its type and the table never outgrows max_connections_. *)
TypeOK == /\ rules \in RuleSets
          /\ IsTable(table) /\ Cardinality(DOMAIN table) <= MaxConnections
          /\ now \in 0..MaxTime
          /\ sinceCleanup \in 0..(CleanupInterval - 1)
          /\ forwarded \in Nat /\ dropped \in Nat
          /\ totalSeen \in Nat /\ classified \in Nat /\ blocked \in Nat /\ hits \in Nat
          /\ lastAction \in {<<>>} \cup (Tuples \X {"FORWARD", "DROP"})

(* types.h:189 for an entry that stays in the table: once BLOCKED it never *)
(* changes again, whatever flags or payloads its packets carry.  That goes *)
(* for FIN and RST as well, which close every other entry: the fast exit   *)
(* comes before the flags are looked at, although fast_path.cpp:373 says   *)
(* "any state + RST -> CLOSED immediately", and the diagram at             *)
(* connection_tracker.h:17 leads from BLOCKED to CLOSED.                   *)
BlockedIsFinal ==
    [][\A t \in DOMAIN table \cap DOMAIN table' :
          table[t].state = "BLOCKED" => table'[t] = table[t]]_vars

(* The rules are applied to what the packet itself taught: no entry whose  *)
(* name, application or address a rule matches is left in any state but    *)
(* BLOCKED, so the very packet that shows the name is not let through.     *)
MatchingEntriesBlocked ==
    \A t \in DOMAIN table : ShouldBlock(t, table[t]) => table[t].state = "BLOCKED"

(* --block-ip and --block-port: no packet from a blocked source or to a    *)
(* blocked port is forwarded, however often its entry was evicted, cleaned *)
(* up or closed before.                                                    *)
ForwardedIsAllowed ==
    \A t \in Tuples : lastAction = <<t, "FORWARD">> =>
        t.src_ip \notin rules.ips /\ t.dst_port \notin rules.ports

(* The life of an entry (types.h:155) never runs backwards to NEW, and     *)
(* ESTABLISHED is entered from NEW only: a handshake repeated on a         *)
(* classified or closed flow does not make it look unclassified.           *)
LifecycleForward ==
    [][\A t \in DOMAIN table \cap DOMAIN table' :
          /\ table'[t].state = "NEW" => table[t].state = "NEW"
          /\ table'[t].state = "ESTABLISHED" => table[t].state \in {"NEW", "ESTABLISHED"}]_vars
=============================================================================
