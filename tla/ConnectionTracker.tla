------------------------- MODULE ConnectionTracker -------------------------
(***************************************************************************)
(* The flow table of one fast path thread (src/connection_tracker.cpp) as  *)
(* operators: a table is a function from the five-tuples it holds to their *)
(* Connection.  Only the thread that owns it touches it, so each method is *)
(* applied in one step by the module that uses it.                         *)
(***************************************************************************)
EXTENDS Naturals, FiniteSets, Functions

CONSTANTS
    Tuples,           \* the five-tuples, records as FiveTuple in types.h
    Hosts, NoHost,    \* names an extractor can find; the empty string, which is one
                      \* of them: the Host header ":80"
    Apps,             \* AppType
    MaxConnections,   \* max_connections_
    IdleLimit         \* the timeout given to cleanupStale(), in ticks

ASSUME TrackerAssumption == /\ MaxConnections \in Nat \ {0}
                            /\ IdleLimit \in Nat
                            /\ {"UNKNOWN", "HTTP", "HTTPS", "DNS"} \subseteq Apps

States == {"NEW", "ESTABLISHED", "CLASSIFIED", "BLOCKED", "CLOSED"}

Connection == [state : States, app : Apps, sni : Hosts \cup {NoHost}, last_seen : Nat,
               syn_seen : BOOLEAN, syn_ack_seen : BOOLEAN, fin_seen : BOOLEAN]

IsTable(table) == DOMAIN table \subseteq Tuples /\ table \in [DOMAIN table -> Connection]

NewConnection(now) == [state |-> "NEW", app |-> "UNKNOWN", sni |-> NoHost, last_seen |-> now,
                       syn_seen |-> FALSE, syn_ack_seen |-> FALSE, fin_seen |-> FALSE]

(* The entries evictOldest() may pick: of several entries with the smallest *)
(* last_seen it takes the first in the order of the hash map.              *)
Oldest(table) == {t \in DOMAIN table :
                     \A u \in DOMAIN table : table[t].last_seen <= table[u].last_seen}

EvictOldest(table) == {Restrict(table, DOMAIN table \ {t}) : t \in Oldest(table)}

(* Fault: the table is allowed one entry too many. *)
WithRoom_OffByOne(table) ==
    IF Cardinality(DOMAIN table) > MaxConnections THEN EvictOldest(table) ELSE {table}

WithRoom(table) ==
    IF Cardinality(DOMAIN table) >= MaxConnections THEN EvictOldest(table) ELSE {table}

Insert(table, t, conn) ==
    [u \in DOMAIN table \cup {t} |-> IF u = t THEN conn ELSE table[u]]

(* The tables getOrCreateConnection() may leave behind. *)
GetOrCreate(table, t, now) ==
    IF t \in DOMAIN table THEN {table}
    ELSE {Insert(room, t, NewConnection(now)) : room \in WithRoom(table)}

(* classifyConnection() does something only when this holds. *)
Classifiable(conn) == conn.state \notin {"CLASSIFIED", "BLOCKED"}

ClassifyConnection(conn, app, sni) ==
    IF Classifiable(conn)
    THEN [conn EXCEPT !.app = app, !.sni = sni, !.state = "CLASSIFIED"]
    ELSE conn

BlockConnection(conn) == [conn EXCEPT !.state = "BLOCKED"]

UpdateConnection(conn, now) == [conn EXCEPT !.last_seen = now]

CleanupStale(table, now) ==
    Restrict(table, {t \in DOMAIN table : /\ table[t].state # "CLOSED"
                                          /\ now - table[t].last_seen <= IdleLimit})
=============================================================================
