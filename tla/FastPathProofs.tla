--------------------------- MODULE FastPathProofs ---------------------------
(***************************************************************************)
(* Proofs about FastPath, its statistics (FlowStatistics) and the          *)
(* classifier it calls (Classification) for every set of packets, names    *)
(* and rules, every size of the flow table and every cleanup interval.     *)
(***************************************************************************)
EXTENDS Classification, FlowStatistics, FiniteSetTheorems, WellFoundedInduction, TLAPS

(* A flow table within its bound.  TypeOK does not say that the table is   *)
(* finite, which the cardinalities need.                                   *)
IsBounded(tab) == /\ IsTable(tab)
                  /\ IsFiniteSet(DOMAIN tab)
                  /\ Cardinality(DOMAIN tab) <= MaxConnections

(* tab agrees with old except for what it says of t and what it left out. *)
Extends(tab, old, t) == \A u \in DOMAIN tab \ {t} : u \in DOMAIN old /\ tab[u] = old[u]

-----------------------------------------------------------------------------
(* The operations of the tracker *)

(* Removing entries keeps the others. *)
LEMMA RestrictTable ==
    ASSUME NEW tab, IsTable(tab), NEW S \in SUBSET DOMAIN tab
    PROVE  /\ IsTable(Restrict(tab, S))
           /\ DOMAIN Restrict(tab, S) = S
           /\ \A u \in S : Restrict(tab, S)[u] = tab[u]
BY DEF IsTable, Restrict

(* An entry put into the table, whether t had one or not. *)
LEMMA InsertTable ==
    ASSUME NEW tab, IsTable(tab), NEW t \in Tuples, NEW c \in Connection
    PROVE  /\ IsTable(Insert(tab, t, c))
           /\ DOMAIN Insert(tab, t, c) = DOMAIN tab \cup {t}
           /\ Insert(tab, t, c)[t] = c
           /\ \A u \in DOMAIN tab \ {t} : Insert(tab, t, c)[u] = tab[u]
BY DEF IsTable, Insert

(* Removing entries keeps the bound. *)
LEMMA RestrictBounded ==
    ASSUME NEW tab, IsBounded(tab), NEW S \in SUBSET DOMAIN tab
    PROVE  IsBounded(Restrict(tab, S))
<1>1. IsTable(Restrict(tab, S)) /\ DOMAIN Restrict(tab, S) = S
  BY RestrictTable DEF IsBounded
<1>2. IsFiniteSet(DOMAIN tab) /\ Cardinality(DOMAIN tab) <= MaxConnections
  BY DEF IsBounded
<1>3. IsFiniteSet(S) /\ Cardinality(S) <= Cardinality(DOMAIN tab)
  BY <1>2, FS_Subset
<1>4. Cardinality(S) \in Nat /\ Cardinality(DOMAIN tab) \in Nat /\ MaxConnections \in Nat
  BY <1>2, <1>3, FS_CardinalityType, TrackerAssumption
<1>5. IsFiniteSet(DOMAIN Restrict(tab, S)) /\ Cardinality(DOMAIN Restrict(tab, S)) = Cardinality(S)
  BY <1>1, <1>3, Zenon
<1>6. Cardinality(S) <= MaxConnections
  BY <1>2, <1>3, <1>4
<1> QED
  BY <1>1, <1>5, <1>6 DEF IsBounded

(* A new entry is a Connection. *)
LEMMA NewConnectionType == ASSUME NEW n \in Nat PROVE NewConnection(n) \in Connection
BY TrackerAssumption DEF NewConnection, Connection, States

(* evictOldest() makes room for one entry, and only a full table evicts. *)
LEMMA RoomForOne ==
    ASSUME NEW tab, IsBounded(tab), NEW room \in WithRoom(tab)
    PROVE  /\ IsTable(room)
           /\ DOMAIN room \subseteq DOMAIN tab
           /\ \A u \in DOMAIN room : room[u] = tab[u]
           /\ IsFiniteSet(DOMAIN room)
           /\ Cardinality(DOMAIN room) < MaxConnections
<1> USE TrackerAssumption
<1>1. IsTable(tab) /\ IsFiniteSet(DOMAIN tab) /\ Cardinality(DOMAIN tab) <= MaxConnections
  BY DEF IsBounded
<1>2. Cardinality(DOMAIN tab) \in Nat
  BY <1>1, FS_CardinalityType
<1>3. CASE Cardinality(DOMAIN tab) >= MaxConnections
  <2>1. PICK t \in Oldest(tab) : room = Restrict(tab, DOMAIN tab \ {t})
    BY <1>3 DEF WithRoom, EvictOldest
  <2>2. t \in DOMAIN tab
    BY DEF Oldest
  <2>3. /\ IsTable(room) /\ DOMAIN room = DOMAIN tab \ {t}
        /\ \A u \in DOMAIN tab \ {t} : room[u] = tab[u]
    BY <1>1, <2>1, RestrictTable
  <2>4. /\ IsFiniteSet(DOMAIN tab \ {t})
        /\ Cardinality(DOMAIN tab \ {t}) = Cardinality(DOMAIN tab) - 1
    BY <1>1, <2>2, FS_RemoveElement
  <2>5. /\ IsFiniteSet(DOMAIN room)
        /\ Cardinality(DOMAIN room) = Cardinality(DOMAIN tab) - 1
    BY <2>3, <2>4, Zenon
  <2> QED
    BY <1>1, <1>2, <2>3, <2>5
<1>4. CASE ~(Cardinality(DOMAIN tab) >= MaxConnections)
  <2>1. room = tab
    BY <1>4 DEF WithRoom
  <2>2. Cardinality(DOMAIN tab) < MaxConnections
    BY <1>2, <1>4
  <2> QED
    BY <1>1, <2>1, <2>2
<1> QED
  BY <1>3, <1>4

(* What getOrCreateConnection() leaves behind: t has an entry, the one it  *)
(* had or a new one, and every other entry is one that was there before.   *)
LEMMA GetOrCreateResult ==
    ASSUME NEW old, IsBounded(old), NEW t \in Tuples, NEW n \in Nat,
           NEW tab \in GetOrCreate(old, t, n)
    PROVE  /\ IsBounded(tab)
           /\ t \in DOMAIN tab
           /\ tab[t] = IF t \in DOMAIN old THEN old[t] ELSE NewConnection(n)
           /\ Extends(tab, old, t)
<1>1. CASE t \in DOMAIN old
  <2>1. tab = old
    BY <1>1 DEF GetOrCreate
  <2> QED
    BY <1>1, <2>1 DEF Extends
<1>2. CASE t \notin DOMAIN old
  <2>1. PICK room \in WithRoom(old) : tab = Insert(room, t, NewConnection(n))
    BY <1>2 DEF GetOrCreate
  <2>2. /\ IsTable(room)
        /\ DOMAIN room \subseteq DOMAIN old
        /\ \A u \in DOMAIN room : room[u] = old[u]
        /\ IsFiniteSet(DOMAIN room)
        /\ Cardinality(DOMAIN room) < MaxConnections
    BY RoomForOne
  <2>3. t \notin DOMAIN room
    BY <1>2, <2>2
  <2>4. /\ IsTable(tab) /\ DOMAIN tab = DOMAIN room \cup {t}
        /\ tab[t] = NewConnection(n)
        /\ \A u \in DOMAIN room \ {t} : tab[u] = room[u]
    <3>1. NewConnection(n) \in Connection
      BY NewConnectionType
    <3> DEFINE new == Insert(room, t, NewConnection(n))
    <3>2. /\ IsTable(new) /\ DOMAIN new = DOMAIN room \cup {t}
          /\ new[t] = NewConnection(n)
          /\ \A u \in DOMAIN room \ {t} : new[u] = room[u]
      BY <2>2, <3>1, InsertTable
    <3> HIDE DEF new
    <3> QED
      BY <2>1, <3>2 DEF new
  <2>5. /\ IsFiniteSet(DOMAIN room \cup {t})
        /\ Cardinality(DOMAIN room \cup {t}) = Cardinality(DOMAIN room) + 1
    BY <2>2, <2>3, FS_AddElement
  <2>6. /\ IsFiniteSet(DOMAIN tab)
        /\ Cardinality(DOMAIN tab) = Cardinality(DOMAIN room) + 1
    BY <2>4, <2>5, Zenon
  <2>7. Cardinality(DOMAIN room) \in Nat /\ MaxConnections \in Nat
    BY <2>2, FS_CardinalityType, TrackerAssumption
  <2>8. IsBounded(tab)
    BY <2>2, <2>4, <2>6, <2>7 DEF IsBounded
  <2> QED
    BY <1>2, <2>2, <2>4, <2>8 DEF Extends
<1> QED
  BY <1>1, <1>2

(* cleanupStale() only removes entries. *)
LEMMA CleanupResult ==
    ASSUME NEW tab, IsBounded(tab), NEW n
    PROVE  /\ IsBounded(CleanupStale(tab, n))
           /\ DOMAIN CleanupStale(tab, n) \subseteq DOMAIN tab
           /\ \A u \in DOMAIN CleanupStale(tab, n) : CleanupStale(tab, n)[u] = tab[u]
<1> DEFINE S == {t \in DOMAIN tab : /\ tab[t].state # "CLOSED"
                                    /\ n - tab[t].last_seen <= IdleLimit}
<1>1. CleanupStale(tab, n) = Restrict(tab, S) /\ S \in SUBSET DOMAIN tab
  BY DEF CleanupStale
<1>2. IsTable(tab)
  BY DEF IsBounded
<1> HIDE DEF S
<1> QED
  BY <1>1, <1>2, RestrictTable, RestrictBounded

(* Writing one entry back keeps the table's bound. *)
LEMMA WriteBack ==
    ASSUME NEW tab, IsBounded(tab), NEW t \in DOMAIN tab, NEW c \in Connection
    PROVE  /\ IsBounded([tab EXCEPT ![t] = c])
           /\ DOMAIN [tab EXCEPT ![t] = c] = DOMAIN tab
           /\ [tab EXCEPT ![t] = c][t] = c
           /\ \A u \in DOMAIN tab \ {t} : [tab EXCEPT ![t] = c][u] = tab[u]
<1>1. IsTable(tab)
  BY DEF IsBounded
<1>2. /\ IsTable([tab EXCEPT ![t] = c])
      /\ DOMAIN [tab EXCEPT ![t] = c] = DOMAIN tab
      /\ [tab EXCEPT ![t] = c][t] = c
      /\ \A u \in DOMAIN tab \ {t} : [tab EXCEPT ![t] = c][u] = tab[u]
  BY <1>1 DEF IsTable
<1>3. /\ IsFiniteSet(DOMAIN [tab EXCEPT ![t] = c])
      /\ Cardinality(DOMAIN [tab EXCEPT ![t] = c]) = Cardinality(DOMAIN tab)
  BY <1>2, Zenon DEF IsBounded
<1> QED
  BY <1>2, <1>3 DEF IsBounded

-----------------------------------------------------------------------------
(* The stages of processPacket() *)

(* What one state of an entry may become in one step (types.h:155). *)
MayFollow(old, new) == /\ new = "NEW" => old = "NEW"
                       /\ new = "ESTABLISHED" => old \in {"NEW", "ESTABLISHED"}

(* Whatever the flags, updateTCPState() never goes back to NEW and makes   *)
(* only a NEW entry ESTABLISHED.                                           *)
LEMMA TrackTCPResult ==
    ASSUME NEW conn \in Connection, NEW p \in Packets
    PROVE  /\ TrackTCP(conn, p) \in Connection
           /\ MayFollow(conn.state, TrackTCP(conn, p).state)
<1>1. CASE p.tuple.protocol = 6
  BY <1>1 DEF TrackTCP, UpdateTCPState, Connection, States, MayFollow
<1>2. CASE p.tuple.protocol # 6
  BY <1>2 DEF TrackTCP, MayFollow
<1> QED
  BY <1>1, <1>2

(* classifyConnection() keeps the type and never runs the state backwards. *)
LEMMA ClassifyResult ==
    ASSUME NEW conn \in Connection, NEW app \in Apps, NEW sni \in Hosts \cup {NoHost}
    PROVE  /\ ClassifyConnection(conn, app, sni) \in Connection
           /\ MayFollow(conn.state, ClassifyConnection(conn, app, sni).state)
BY DEF ClassifyConnection, Connection, States, MayFollow

(* The inspection only ever classifies. *)
LEMMA InspectedResult ==
    ASSUME NEW conn \in Connection, NEW p \in Packets
    PROVE  /\ Inspected(conn, p) \in Connection
           /\ MayFollow(conn.state, Inspected(conn, p).state)
<1> USE FastPathAssumption, TrackerAssumption
<1>1. CASE ~Inspects(conn, p)
  BY <1>1 DEF Inspected, MayFollow
<1>2. CASE Inspects(conn, p) /\ FindsHost(p)
  <2>1. p.payload \in Hosts /\ AppOf[p.payload] \in Apps
    BY <1>2 DEF FindsHost
  <2>2. Inspected(conn, p) = ClassifyConnection(conn, AppOf[p.payload], p.payload)
    BY <1>2 DEF Inspected, InspectPayload
  <2> DEFINE new == ClassifyConnection(conn, AppOf[p.payload], p.payload)
  <2>3. new \in Connection /\ MayFollow(conn.state, new.state)
    BY <2>1, ClassifyResult
  <2> HIDE DEF new
  <2> QED
    BY <2>2, <2>3 DEF new
<1>3. CASE Inspects(conn, p) /\ ~FindsHost(p) /\ IsDNS(p)
  <2> DEFINE name == IF p.payload \in Hosts THEN p.payload ELSE NoHost
  <2>1. Inspected(conn, p) = ClassifyConnection(conn, "DNS", name)
    BY <1>3 DEF Inspected, InspectPayload
  <2>2. name \in Hosts \cup {NoHost} /\ "DNS" \in Apps
    OBVIOUS
  <2> HIDE DEF name
  <2> DEFINE new == ClassifyConnection(conn, "DNS", name)
  <2>3. new \in Connection /\ MayFollow(conn.state, new.state)
    BY <2>2, ClassifyResult
  <2> HIDE DEF new
  <2> QED
    BY <2>1, <2>3 DEF new
<1>4. CASE Inspects(conn, p) /\ ~FindsHost(p) /\ ~IsDNS(p)
  <2>1. \/ Inspected(conn, p) = conn
        \/ \E app \in Apps : Inspected(conn, p) = [conn EXCEPT !.app = app]
    <3>1. CASE conn.app # "UNKNOWN"
      BY <1>4, <3>1 DEF Inspected, InspectPayload
    <3>2. CASE conn.app = "UNKNOWN" /\ p.tuple.dst_port = 443
      <4>1. Inspected(conn, p) = [conn EXCEPT !.app = "HTTPS"]
        BY <1>4, <3>2 DEF Inspected, InspectPayload
      <4> QED
        BY <4>1
    <3>3. CASE conn.app = "UNKNOWN" /\ p.tuple.dst_port # 443 /\ p.tuple.dst_port = 80
      <4>1. Inspected(conn, p) = [conn EXCEPT !.app = "HTTP"]
        BY <1>4, <3>3 DEF Inspected, InspectPayload
      <4> QED
        BY <4>1
    <3>4. CASE conn.app = "UNKNOWN" /\ p.tuple.dst_port # 443 /\ p.tuple.dst_port # 80
      <4>1. Inspected(conn, p) = [conn EXCEPT !.app = conn.app]
        BY <1>4, <3>4 DEF Inspected, InspectPayload
      <4>2. conn.app \in Apps
        BY DEF Connection
      <4> QED
        BY <4>1, <4>2
    <3> QED
      BY <3>1, <3>2, <3>3, <3>4
  <2> QED
    BY <2>1 DEF Connection, MayFollow
<1> QED
  BY <1>1, <1>2, <1>3, <1>4

(* The loop's bookkeeping keeps its types and only removes entries. *)
LEMMA AccountResult ==
    ASSUME TypeOK, NEW t \in Tuples, NEW action \in {"FORWARD", "DROP"}, NEW tab,
           IsBounded(tab), Account(t, action, tab)
    PROVE  /\ IsBounded(table')
           /\ DOMAIN table' \subseteq DOMAIN tab
           /\ \A u \in DOMAIN table' : table'[u] = tab[u]
           /\ lastAction' = <<t, action>>
           /\ lastAction' \in Tuples \X {"FORWARD", "DROP"}
           /\ forwarded' \in Nat /\ dropped' \in Nat
           /\ sinceCleanup' \in 0..(CleanupInterval - 1)
<1>1. lastAction' = <<t, action>> /\ lastAction' \in Tuples \X {"FORWARD", "DROP"}
  BY DEF Account
<1>2. forwarded' \in Nat /\ dropped' \in Nat
  BY DEF Account, Count, TypeOK
<1>3. sinceCleanup' \in 0..(CleanupInterval - 1)
  BY FastPathAssumption DEF Account, TypeOK
<1>4. table' = tab \/ table' = CleanupStale(tab, now)
  BY DEF Account
<1>5. CASE table' = tab
  BY <1>1, <1>2, <1>3, <1>5
<1>6. CASE table' = CleanupStale(tab, now)
  BY <1>1, <1>2, <1>3, <1>6, CleanupResult
<1> QED
  BY <1>4, <1>5, <1>6

-----------------------------------------------------------------------------
(* The inductive invariant: the types, and that the table is finite.       *)
Inv == TypeOK /\ IsFiniteSet(DOMAIN table)

(* What the lemmas about the tracker's operations ask of the table. *)
LEMMA TableIsBounded == Inv => IsBounded(table)
BY DEF Inv, TypeOK, IsBounded

(* The counters of the tracker and of the fast path. *)
CounterTypes == /\ forwarded \in Nat /\ dropped \in Nat
                /\ totalSeen \in Nat /\ classified \in Nat
                /\ blocked \in Nat /\ hits \in Nat

(* What a packet that is examined does to the table: its own entry is      *)
(* blocked when a rule matches it as it is now, its state only advances,   *)
(* and the other entries are those that were there.                        *)
LEMMA ExamineResult ==
    ASSUME Inv, NEW p \in Packets, Examine(p)
    PROVE  /\ IsBounded(table')
           /\ Extends(table', table, p.tuple)
           /\ p.tuple \in DOMAIN table' =>
                (ShouldBlock(p.tuple, table'[p.tuple]) => table'[p.tuple].state = "BLOCKED")
           /\ p.tuple \in DOMAIN table' \cap DOMAIN table =>
                MayFollow(table[p.tuple].state, table'[p.tuple].state)
           /\ lastAction' \in Tuples \X {"FORWARD", "DROP"}
           /\ \A t \in Tuples : lastAction' = <<t, "FORWARD">> => ~AddressBlocked(t)
           /\ sinceCleanup' \in 0..(CleanupInterval - 1)
           /\ CounterTypes'
<1>1. p.tuple \in Tuples /\ now \in Nat /\ IsBounded(table) /\ TypeOK
  BY TableIsBounded, FastPathAssumption DEF Inv, TypeOK
<1> DEFINE tracked(tab) == TrackTCP(UpdateConnection(tab[p.tuple], now), p)
           seen(tab) == Inspected(tracked(tab), p)
           block(tab) == Matches(p, tracked(tab), seen(tab))
           final(tab) == IF block(tab) THEN BlockConnection(seen(tab)) ELSE seen(tab)
           action(tab) == IF block(tab) THEN "DROP" ELSE "FORWARD"
           new(tab) == [tab EXCEPT ![p.tuple] = final(tab)]
<1>2. PICK tab \in GetOrCreate(table, p.tuple, now) :
         /\ Account(p.tuple, action(tab), new(tab))
         /\ classified' = classified + Count(Classifies(tracked(tab), p))
         /\ hits' = hits + Count(Inspects(tracked(tab), p) /\ IsHit(p))
         /\ blocked' = blocked + Count(block(tab))
  BY DEF Examine
<1>3. totalSeen' = totalSeen + Count(p.tuple \notin DOMAIN table)
  BY DEF Examine
<1>4. /\ IsBounded(tab)
      /\ p.tuple \in DOMAIN tab
      /\ tab[p.tuple] = IF p.tuple \in DOMAIN table THEN table[p.tuple] ELSE NewConnection(now)
      /\ Extends(tab, table, p.tuple)
  BY <1>1, GetOrCreateResult
<1>5. tab[p.tuple] \in Connection
  BY <1>4 DEF IsBounded, IsTable
<1>6. /\ UpdateConnection(tab[p.tuple], now) \in Connection
      /\ UpdateConnection(tab[p.tuple], now).state = tab[p.tuple].state
  BY <1>1, <1>5 DEF UpdateConnection, Connection
<1>7. /\ tracked(tab) \in Connection
      /\ MayFollow(tab[p.tuple].state, tracked(tab).state)
  BY <1>6, TrackTCPResult
<1>8. /\ seen(tab) \in Connection
      /\ MayFollow(tracked(tab).state, seen(tab).state)
  BY <1>7, InspectedResult
<1>9. /\ final(tab) \in Connection
      /\ MayFollow(seen(tab).state, final(tab).state)
      /\ ShouldBlock(p.tuple, final(tab)) => final(tab).state = "BLOCKED"
  <2>1. CASE block(tab)
    <3>1. final(tab) = BlockConnection(seen(tab))
      BY <2>1
    <3> HIDE DEF seen, final
    <3>2. final(tab) \in Connection /\ final(tab).state = "BLOCKED"
      BY <3>1, <1>8 DEF BlockConnection, Connection, States
    <3> QED
      BY <3>2 DEF MayFollow
  <2>2. CASE ~block(tab)
    <3>1. final(tab) = seen(tab) /\ ~ShouldBlock(p.tuple, seen(tab))
      BY <2>2 DEF Matches
    <3> HIDE DEF seen, final
    <3> QED
      BY <3>1, <1>8 DEF MayFollow
  <2> QED
    BY <2>1, <2>2
<1>10. MayFollow(tab[p.tuple].state, final(tab).state)
  <2> HIDE DEF tracked, seen, final
  <2> QED
    BY <1>7, <1>8, <1>9 DEF MayFollow
<1>11. action(tab) \in {"FORWARD", "DROP"}
  OBVIOUS
<1>12. action(tab) = "FORWARD" => ~AddressBlocked(p.tuple)
  BY DEF Matches, ShouldBlock
<1>13. CounterTypes'
  <2>2. /\ Count(Classifies(tracked(tab), p)) \in Nat
        /\ Count(Inspects(tracked(tab), p) /\ IsHit(p)) \in Nat
        /\ Count(block(tab)) \in Nat
        /\ Count(p.tuple \notin DOMAIN table) \in Nat
        /\ Count(action(tab) = "FORWARD") \in Nat
        /\ Count(action(tab) = "DROP") \in Nat
    BY DEF Count
  <2>3. /\ forwarded' = forwarded + Count(action(tab) = "FORWARD")
        /\ dropped' = dropped + Count(action(tab) = "DROP")
    BY <1>2 DEF Account
  <2>4. /\ classified' = classified + Count(Classifies(tracked(tab), p))
        /\ hits' = hits + Count(Inspects(tracked(tab), p) /\ IsHit(p))
        /\ blocked' = blocked + Count(block(tab))
    BY <1>2
  <2>5. CounterTypes
    BY <1>1 DEF TypeOK, CounterTypes
  <2> HIDE DEF tracked, block, action
  <2> QED
    BY <1>3, <2>2, <2>3, <2>4, <2>5 DEF CounterTypes
<1> HIDE DEF tracked, seen, block, final, action
<1>14. /\ IsBounded(new(tab))
       /\ DOMAIN new(tab) = DOMAIN tab
       /\ new(tab)[p.tuple] = final(tab)
       /\ \A u \in DOMAIN tab \ {p.tuple} : new(tab)[u] = tab[u]
  BY <1>4, <1>9, WriteBack
<1> HIDE DEF new
<1>15. /\ IsBounded(table')
       /\ DOMAIN table' \subseteq DOMAIN new(tab)
       /\ \A u \in DOMAIN table' : table'[u] = new(tab)[u]
       /\ lastAction' = <<p.tuple, action(tab)>>
       /\ lastAction' \in Tuples \X {"FORWARD", "DROP"}
       /\ sinceCleanup' \in 0..(CleanupInterval - 1)
  BY <1>1, <1>2, <1>11, <1>14, AccountResult
<1>16. Extends(table', table, p.tuple)
  BY <1>4, <1>14, <1>15 DEF Extends
<1>17. p.tuple \in DOMAIN table' => table'[p.tuple] = final(tab)
  BY <1>14, <1>15
<1>18. \A t \in Tuples : lastAction' = <<t, "FORWARD">> => ~AddressBlocked(t)
  BY <1>12, <1>15
<1>19. p.tuple \in DOMAIN table' \cap DOMAIN table =>
         MayFollow(table[p.tuple].state, table'[p.tuple].state)
  BY <1>4, <1>10, <1>17
<1> QED
  BY <1>9, <1>13, <1>15, <1>16, <1>17, <1>18, <1>19

(* A packet of a blocked flow and a cleanup only remove entries. *)
LEMMA DropBlockedResult ==
    ASSUME Inv, NEW p \in Packets, DropBlocked(p)
    PROVE  /\ IsBounded(table')
           /\ DOMAIN table' \subseteq DOMAIN table
           /\ \A u \in DOMAIN table' : table'[u] = table[u]
           /\ lastAction' = <<p.tuple, "DROP">>
           /\ lastAction' \in Tuples \X {"FORWARD", "DROP"}
           /\ sinceCleanup' \in 0..(CleanupInterval - 1)
           /\ CounterTypes'
<1>1. p.tuple \in Tuples /\ IsBounded(table) /\ TypeOK
  BY TableIsBounded, FastPathAssumption DEF Inv
<1>2. Account(p.tuple, "DROP", table)
  BY DEF DropBlocked
<1>3. UNCHANGED <<totalSeen, classified, blocked, hits>>
  BY DEF DropBlocked
<1>4. /\ IsBounded(table')
      /\ DOMAIN table' \subseteq DOMAIN table
      /\ \A u \in DOMAIN table' : table'[u] = table[u]
      /\ lastAction' = <<p.tuple, "DROP">>
      /\ lastAction' \in Tuples \X {"FORWARD", "DROP"}
      /\ forwarded' \in Nat /\ dropped' \in Nat
      /\ sinceCleanup' \in 0..(CleanupInterval - 1)
  BY <1>1, <1>2, AccountResult
<1>5. CounterTypes'
  BY <1>1, <1>3, <1>4 DEF CounterTypes, TypeOK
<1> QED
  BY <1>4, <1>5

(* The cleanup of an idle thread only removes entries. *)
LEMMA IdleCleanupResult ==
    ASSUME Inv, IdleCleanup
    PROVE  /\ IsBounded(table')
           /\ DOMAIN table' \subseteq DOMAIN table
           /\ \A u \in DOMAIN table' : table'[u] = table[u]
BY TableIsBounded, CleanupResult DEF IdleCleanup

(* The rules never change while the threads run. *)
LEMMA RulesAreFixed == [Next]_vars => rules' = rules
BY DEF Next, vars, ProcessPacket, DropBlocked, Examine, IdleCleanup, Tick

(* An entry of the table after a step was there before, unchanged, or      *)
(* belongs to the packet that was examined.                                *)
LEMMA StepEntries ==
    ASSUME Inv, [Next]_vars, NEW t \in DOMAIN table'
    PROVE  \/ t \in DOMAIN table /\ table'[t] = table[t]
           \/ \E p \in Packets : Examine(p) /\ t = p.tuple
<1>1. ASSUME NEW p \in Packets, DropBlocked(p)
      PROVE  t \in DOMAIN table /\ table'[t] = table[t]
  BY <1>1, DropBlockedResult
<1>2. ASSUME NEW p \in Packets, Examine(p), t # p.tuple
      PROVE  t \in DOMAIN table /\ table'[t] = table[t]
  BY <1>2, ExamineResult DEF Extends
<1>3. CASE IdleCleanup
  BY <1>3, IdleCleanupResult
<1>4. CASE Tick \/ UNCHANGED vars
  BY <1>4 DEF Tick, vars
<1> QED
  BY <1>1, <1>2, <1>3, <1>4 DEF Next, ProcessPacket

-----------------------------------------------------------------------------
(* Type correctness *)

(* The empty table and the zeroed counters have their types. *)
LEMMA InitInv == Init => Inv
<1> SUFFICES ASSUME Init PROVE Inv
  OBVIOUS
<1> USE TrackerAssumption, FastPathAssumption
<1>1. DOMAIN table = {} /\ IsTable(table)
  BY DEF Init, IsTable
<1>2. IsFiniteSet({}) /\ Cardinality({}) = 0
  BY FS_EmptySet
<1>3. IsFiniteSet(DOMAIN table) /\ Cardinality(DOMAIN table) = 0
  BY <1>1, <1>2, Zenon
<1>4. Cardinality(DOMAIN table) <= MaxConnections
  BY <1>3
<1>5. /\ rules \in RuleSets /\ now \in 0..MaxTime /\ sinceCleanup \in 0..(CleanupInterval - 1)
      /\ lastAction \in {<<>>} \cup (Tuples \X {"FORWARD", "DROP"})
  BY DEF Init
<1>6. /\ forwarded \in Nat /\ dropped \in Nat
      /\ totalSeen \in Nat /\ classified \in Nat /\ blocked \in Nat /\ hits \in Nat
  BY DEF Init
<1> QED
  BY <1>1, <1>3, <1>4, <1>5, <1>6 DEF Inv, TypeOK

(* Every step keeps the types and the table's bound. *)
LEMMA NextInv == Inv /\ [Next]_vars => Inv'
<1> SUFFICES ASSUME Inv, [Next]_vars PROVE Inv'
  OBVIOUS
<1>1. TypeOK /\ IsFiniteSet(DOMAIN table)
  BY DEF Inv
<1>2. rules' \in RuleSets
  BY <1>1, RulesAreFixed DEF TypeOK
<1>3. ASSUME NEW p \in Packets, ProcessPacket(p) PROVE Inv'
  <2>1. /\ IsBounded(table') /\ sinceCleanup' \in 0..(CleanupInterval - 1) /\ CounterTypes'
        /\ lastAction' \in Tuples \X {"FORWARD", "DROP"}
    <3>1. CASE DropBlocked(p)
      BY <3>1, DropBlockedResult
    <3>2. CASE Examine(p)
      BY <3>2, ExamineResult
    <3> QED
      BY <1>3, <3>1, <3>2 DEF ProcessPacket
  <2>2. now' \in 0..MaxTime
    <3>1. now' = now
      BY <1>3 DEF ProcessPacket, DropBlocked, Examine
    <3> QED
      BY <1>1, <3>1 DEF TypeOK
  <2> QED
    BY <1>2, <2>1, <2>2 DEF Inv, TypeOK, IsBounded, CounterTypes
<1>4. CASE IdleCleanup
  <2>1. IsBounded(table')
    BY <1>4, IdleCleanupResult
  <2>2. sinceCleanup' \in 0..(CleanupInterval - 1)
    BY <1>4, FastPathAssumption DEF IdleCleanup
  <2>3. UNCHANGED <<now, counters, lastAction>>
    BY <1>4 DEF IdleCleanup
  <2> QED
    BY <1>1, <1>2, <2>1, <2>2, <2>3 DEF Inv, TypeOK, IsBounded, counters
<1>5. CASE Tick
  <2>1. now' \in 0..MaxTime
    BY <1>1, <1>5, FastPathAssumption DEF Tick, TypeOK
  <2>2. UNCHANGED <<rules, table, sinceCleanup, counters, lastAction>>
    BY <1>5 DEF Tick
  <2>3. UNCHANGED <<DOMAIN table, Cardinality(DOMAIN table)>>
    BY <2>2, Zenon
  <2> QED
    BY <1>1, <2>1, <2>2, <2>3 DEF Inv, TypeOK, counters, IsTable
<1>6. CASE UNCHANGED vars
  BY <1>1, <1>6 DEF Inv, TypeOK, vars, counters, IsTable
<1> QED
  BY <1>3, <1>4, <1>5, <1>6 DEF Next

(* The invariant of every run. *)
LEMMA Invariance == Spec => []Inv
BY InitInv, NextInv, PTL DEF Spec

(* Every variable keeps its type and the flow table never holds more than  *)
(* max_connections_ entries.                                               *)
THEOREM TypeCorrect == Spec => []TypeOK
<1>1. Inv => TypeOK
  BY DEF Inv
<1> QED
  BY <1>1, Invariance, PTL

-----------------------------------------------------------------------------
(* Decisions *)

(* No entry that a rule matches is left unblocked (fast_path.cpp:316).     *)
THEOREM RulesAreApplied == Spec => []MatchingEntriesBlocked
<1>1. Init => MatchingEntriesBlocked
  BY DEF Init, MatchingEntriesBlocked
<1>2. Inv /\ MatchingEntriesBlocked /\ [Next]_vars => MatchingEntriesBlocked'
  <2> SUFFICES ASSUME Inv, MatchingEntriesBlocked, [Next]_vars,
                      NEW t \in DOMAIN table', ShouldBlock(t, table[t])'
               PROVE  table'[t].state = "BLOCKED"
    BY DEF MatchingEntriesBlocked
  <2>1. ShouldBlock(t, table'[t])
    BY RulesAreFixed DEF ShouldBlock, AddressBlocked
  <2>2. CASE t \in DOMAIN table /\ table'[t] = table[t]
    BY <2>1, <2>2 DEF MatchingEntriesBlocked
  <2>3. CASE \E p \in Packets : Examine(p) /\ t = p.tuple
    BY <2>1, <2>3, ExamineResult
  <2> QED
    BY <2>2, <2>3, StepEntries
<1> QED
  BY <1>1, <1>2, Invariance, PTL DEF Spec

(* A blocked entry stays as it is while it is in the table (types.h:189).  *)
THEOREM BlockedForGood == Spec => BlockedIsFinal
<1>1. Inv /\ [Next]_vars =>
        \A t \in DOMAIN table \cap DOMAIN table' :
            table[t].state = "BLOCKED" => table'[t] = table[t]
  <2> SUFFICES ASSUME Inv, [Next]_vars, NEW t \in DOMAIN table \cap DOMAIN table',
                      table[t].state = "BLOCKED"
               PROVE  table'[t] = table[t]
    OBVIOUS
  <2>1. ~\E p \in Packets : Examine(p) /\ t = p.tuple
    BY DEF Examine, IsBlocked
  <2> QED
    BY <2>1, StepEntries
<1> QED
  BY <1>1, Invariance, PTL DEF Spec, BlockedIsFinal

(* States never run backwards (types.h:155).                               *)
THEOREM LifecycleIsForward == Spec => LifecycleForward
<1>1. Inv /\ [Next]_vars =>
        \A t \in DOMAIN table \cap DOMAIN table' :
          /\ table'[t].state = "NEW" => table[t].state = "NEW"
          /\ table'[t].state = "ESTABLISHED" => table[t].state \in {"NEW", "ESTABLISHED"}
  <2> SUFFICES ASSUME Inv, [Next]_vars, NEW t \in DOMAIN table \cap DOMAIN table'
               PROVE  MayFollow(table[t].state, table'[t].state)
    BY DEF MayFollow
  <2>1. CASE table'[t] = table[t]
    BY <2>1 DEF MayFollow
  <2>2. CASE \E p \in Packets : Examine(p) /\ t = p.tuple
    BY <2>2, ExamineResult
  <2> QED
    BY <2>1, <2>2, StepEntries
<1> QED
  BY <1>1, Invariance, PTL DEF Spec, LifecycleForward

(* No packet from a blocked address or to a blocked port is forwarded.     *)
THEOREM AddressRulesHold == Spec => []ForwardedIsAllowed
<1>1. Init => ForwardedIsAllowed
  BY DEF Init, ForwardedIsAllowed
<1>2. Inv /\ ForwardedIsAllowed /\ [Next]_vars => ForwardedIsAllowed'
  <2> SUFFICES ASSUME Inv, ForwardedIsAllowed, [Next]_vars,
                      NEW t \in Tuples, lastAction' = <<t, "FORWARD">>
               PROVE  t.src_ip \notin rules.ips /\ t.dst_port \notin rules.ports
    BY RulesAreFixed DEF ForwardedIsAllowed
  <2>1. ASSUME NEW p \in Packets, Examine(p) PROVE ~AddressBlocked(t)
    BY <2>1, ExamineResult
  <2>2. ASSUME NEW p \in Packets, DropBlocked(p) PROVE FALSE
    BY <2>2, DropBlockedResult
  <2>3. CASE IdleCleanup \/ Tick \/ UNCHANGED vars
    <3>1. lastAction = <<t, "FORWARD">>
      BY <2>3 DEF IdleCleanup, Tick, vars
    <3> QED
      BY <3>1 DEF ForwardedIsAllowed
  <2> QED
    BY <2>1, <2>2, <2>3 DEF Next, ProcessPacket, AddressBlocked
<1> QED
  BY <1>1, <1>2, Invariance, PTL DEF Spec

-----------------------------------------------------------------------------
(* The entry a packet leaves *)

(* The entry p leaves when it is examined. *)
EntryAfter(p) == IF ShouldBlock(p.tuple, EntrySeen(p)) THEN BlockConnection(EntrySeen(p))
                 ELSE EntrySeen(p)

(* Neither the flags nor the payload of a packet block an entry. *)
LEMMA TrackTCPBlocksNothing ==
    ASSUME NEW conn \in Connection, conn.state # "BLOCKED", NEW p \in Packets
    PROVE  TrackTCP(conn, p).state # "BLOCKED"
BY DEF TrackTCP, UpdateTCPState, Connection, States

(* Only blockConnection() makes an entry BLOCKED, not what a payload shows. *)
LEMMA InspectionBlocksNothing ==
    ASSUME NEW conn \in Connection, conn.state # "BLOCKED", NEW p \in Packets
    PROVE  Inspected(conn, p).state # "BLOCKED"
BY DEF Inspected, InspectPayload, ClassifyConnection, Connection, States

(* processPacket() takes the entry through its stages one after the other. *)
LEMMA ExamineEntry ==
    ASSUME Inv, NEW p \in Packets, Examine(p)
    PROVE  /\ EntryBefore(p) \in Connection /\ EntryBefore(p).state # "BLOCKED"
           /\ EntryTracked(p) \in Connection /\ EntrySeen(p) \in Connection
           /\ EntryTracked(p).state # "BLOCKED" /\ EntrySeen(p).state # "BLOCKED"
           /\ p.tuple \in DOMAIN table' => table'[p.tuple] = EntryAfter(p)
<1>1. p.tuple \in Tuples /\ now \in Nat /\ IsBounded(table) /\ TypeOK
  BY TableIsBounded, FastPathAssumption DEF Inv, TypeOK
<1> DEFINE tracked(tab) == TrackTCP(UpdateConnection(tab[p.tuple], now), p)
           seen(tab) == Inspected(tracked(tab), p)
           block(tab) == Matches(p, tracked(tab), seen(tab))
           final(tab) == IF block(tab) THEN BlockConnection(seen(tab)) ELSE seen(tab)
           action(tab) == IF block(tab) THEN "DROP" ELSE "FORWARD"
           new(tab) == [tab EXCEPT ![p.tuple] = final(tab)]
<1>2. PICK tab \in GetOrCreate(table, p.tuple, now) : Account(p.tuple, action(tab), new(tab))
  BY DEF Examine
<1>3. IsBounded(tab) /\ p.tuple \in DOMAIN tab /\ tab[p.tuple] = EntryBefore(p)
  BY <1>1, GetOrCreateResult DEF EntryBefore
<1>4. EntryBefore(p) \in Connection /\ EntryBefore(p).state # "BLOCKED"
  <2>1. EntryBefore(p) \in Connection
    BY <1>3 DEF IsBounded, IsTable
  <2>2. ~IsBlocked(p.tuple)
    BY DEF Examine
  <2> QED
    BY <2>1, <2>2 DEF EntryBefore, IsBlocked, NewConnection
<1>5. /\ UpdateConnection(EntryBefore(p), now) \in Connection
      /\ UpdateConnection(EntryBefore(p), now).state # "BLOCKED"
  BY <1>1, <1>4 DEF UpdateConnection, Connection
<1>6. EntryTracked(p) \in Connection /\ EntryTracked(p).state # "BLOCKED"
  BY <1>5, TrackTCPResult, TrackTCPBlocksNothing DEF EntryTracked
<1>7. EntrySeen(p) \in Connection /\ EntrySeen(p).state # "BLOCKED"
  BY <1>6, InspectedResult, InspectionBlocksNothing DEF EntrySeen
<1>8. final(tab) = EntryAfter(p)
  BY <1>3 DEF EntryTracked, EntrySeen, EntryAfter, Matches
<1>9. EntryAfter(p) \in Connection
  <2>1. BlockConnection(EntrySeen(p)) \in Connection
    BY <1>7 DEF BlockConnection, Connection, States
  <2> QED
    BY <1>7, <2>1 DEF EntryAfter
<1> HIDE DEF final, block
<1>10. IsBounded(new(tab)) /\ new(tab)[p.tuple] = EntryAfter(p)
  BY <1>3, <1>8, <1>9, WriteBack
<1> HIDE DEF new
<1>11. action(tab) \in {"FORWARD", "DROP"}
  OBVIOUS
<1> HIDE DEF action
<1>12. p.tuple \in DOMAIN table' => table'[p.tuple] = EntryAfter(p)
  BY <1>1, <1>2, <1>10, <1>11, AccountResult
<1> QED
  BY <1>4, <1>6, <1>7, <1>12

(* The handshake neither names nor classifies. *)
LEMMA TrackedEntry ==
    ASSUME NEW c \in Connection, NEW n \in Nat, NEW p \in Packets
    PROVE  LET new == TrackTCP(UpdateConnection(c, n), p)
           IN /\ new.app = c.app /\ new.sni = c.sni
              /\ p.tuple.protocol = 17 => new.state = c.state
              /\ c.state = "CLASSIFIED" => new.state \in {"CLASSIFIED", "CLOSED"}
              /\ c.state = "CLOSED" => new.state = "CLOSED"
              /\ new.state = "CLASSIFIED" => c.state = "CLASSIFIED"
              /\ new.state = TrackTCP(c, p).state
<1> DEFINE d == UpdateConnection(c, n)
<1>1. d \in Connection /\ d = [c EXCEPT !.last_seen = n]
  BY DEF UpdateConnection, Connection
<1>2. /\ d.app = c.app /\ d.sni = c.sni /\ d.state = c.state /\ d.syn_seen = c.syn_seen
      /\ d.syn_ack_seen = c.syn_ack_seen /\ d.fin_seen = c.fin_seen
  BY <1>1 DEF Connection
<1> HIDE DEF d
<1>3. CASE p.tuple.protocol = 6
  <2>1. /\ TrackTCP(d, p).app = d.app /\ TrackTCP(d, p).sni = d.sni
        /\ d.state = "CLASSIFIED" => TrackTCP(d, p).state \in {"CLASSIFIED", "CLOSED"}
        /\ d.state = "CLOSED" => TrackTCP(d, p).state = "CLOSED"
        /\ TrackTCP(d, p).state = "CLASSIFIED" => d.state = "CLASSIFIED"
    BY <1>1, <1>3 DEF TrackTCP, UpdateTCPState, Connection
  <2>2. TrackTCP(d, p).state = TrackTCP(c, p).state
    BY <1>1, <1>2, <1>3 DEF TrackTCP, UpdateTCPState, Connection
  <2> QED
    BY <1>2, <1>3, <2>1, <2>2 DEF d
<1>4. CASE p.tuple.protocol # 6
  BY <1>2, <1>4 DEF TrackTCP, d
<1> QED
  BY <1>3, <1>4

-----------------------------------------------------------------------------
(* The statistics *)

(* An entry is dated by the packet, whatever the later stages make of it. *)
LEMMA SeenNow == ASSUME Inv, NEW p \in Packets, Examine(p) PROVE EntrySeen(p).last_seen = now
<1>1. EntryBefore(p) \in Connection /\ EntryTracked(p) \in Connection
  BY ExamineEntry
<1> DEFINE c == UpdateConnection(EntryBefore(p), now)
<1>2. c \in Connection /\ c.last_seen = now
  BY <1>1 DEF UpdateConnection, Connection, Inv, TypeOK
<1> HIDE DEF c
<1>3. TrackTCP(c, p).last_seen = c.last_seen
  BY <1>2 DEF TrackTCP, UpdateTCPState, Connection
<1>4. EntryTracked(p).last_seen = now
  BY <1>2, <1>3 DEF EntryTracked, c
<1> QED
  BY <1>1, <1>4 DEF EntrySeen, Inspected, InspectPayload, ClassifyConnection, Connection

(* An entry that is blocked now is not cleaned up in the same step. *)
LEMMA BlockedStays ==
    ASSUME Inv, NEW p \in Packets, Examine(p), ShouldBlock(p.tuple, EntrySeen(p))
    PROVE  p.tuple \in DOMAIN table'
<1>1. p.tuple \in Tuples /\ now \in Nat /\ IsBounded(table)
  BY TableIsBounded, FastPathAssumption DEF Inv, TypeOK
<1> DEFINE tracked(tab) == TrackTCP(UpdateConnection(tab[p.tuple], now), p)
           seen(tab) == Inspected(tracked(tab), p)
           block(tab) == Matches(p, tracked(tab), seen(tab))
           final(tab) == IF block(tab) THEN BlockConnection(seen(tab)) ELSE seen(tab)
           action(tab) == IF block(tab) THEN "DROP" ELSE "FORWARD"
           new(tab) == [tab EXCEPT ![p.tuple] = final(tab)]
<1>2. PICK tab \in GetOrCreate(table, p.tuple, now) : Account(p.tuple, action(tab), new(tab))
  BY DEF Examine
<1>3. IsBounded(tab) /\ p.tuple \in DOMAIN tab /\ tab[p.tuple] = EntryBefore(p)
  BY <1>1, GetOrCreateResult DEF EntryBefore
<1>4. EntrySeen(p) \in Connection /\ EntrySeen(p).last_seen = now
  BY ExamineEntry, SeenNow
<1>5. final(tab) = BlockConnection(EntrySeen(p))
  BY <1>3 DEF EntryTracked, EntrySeen, Matches
<1>6. /\ final(tab) \in Connection /\ final(tab).state = "BLOCKED"
      /\ final(tab).last_seen = now
  BY <1>4, <1>5 DEF BlockConnection, Connection, States
<1> HIDE DEF final
<1>7. p.tuple \in DOMAIN new(tab) /\ new(tab)[p.tuple] = final(tab)
  BY <1>3, <1>6, WriteBack
<1> HIDE DEF new, action
<1>8. table' = new(tab) \/ table' = CleanupStale(new(tab), now)
  BY <1>2 DEF Account
<1>9. p.tuple \in DOMAIN CleanupStale(new(tab), now)
  <2>1. now - new(tab)[p.tuple].last_seen <= IdleLimit /\ new(tab)[p.tuple].state # "CLOSED"
    BY <1>1, <1>6, <1>7, TrackerAssumption
  <2> QED
    BY <1>7, <2>1 DEF CleanupStale, Restrict
<1> QED
  BY <1>7, <1>8, <1>9

(* How far examining a packet moves each counter. *)
LEMMA ExamineCounts ==
    ASSUME Inv, NEW p \in Packets, Examine(p)
    PROVE  /\ totalSeen' = totalSeen + Count(p.tuple \notin DOMAIN table)
           /\ classified' = classified + Count(Classifies(EntryTracked(p), p))
           /\ blocked' = blocked + Count(ShouldBlock(p.tuple, EntrySeen(p)))
           /\ hits <= classified => hits' <= classified'
<1>1. p.tuple \in Tuples /\ now \in Nat /\ IsBounded(table) /\ TypeOK
  BY TableIsBounded, FastPathAssumption DEF Inv, TypeOK
<1> DEFINE tracked(tab) == TrackTCP(UpdateConnection(tab[p.tuple], now), p)
           seen(tab) == Inspected(tracked(tab), p)
<1>2. PICK tab \in GetOrCreate(table, p.tuple, now) :
         /\ classified' = classified + Count(Classifies(tracked(tab), p))
         /\ hits' = hits + Count(Inspects(tracked(tab), p) /\ IsHit(p))
         /\ blocked' = blocked + Count(Matches(p, tracked(tab), seen(tab)))
  BY DEF Examine
<1>3. tab[p.tuple] = EntryBefore(p)
  BY <1>1, GetOrCreateResult DEF EntryBefore
<1>4. tracked(tab) = EntryTracked(p) /\ seen(tab) = EntrySeen(p)
  BY <1>3 DEF EntryTracked, EntrySeen
<1>5. /\ classified' = classified + Count(Classifies(EntryTracked(p), p))
      /\ hits' = hits + Count(Inspects(EntryTracked(p), p) /\ IsHit(p))
      /\ blocked' = blocked + Count(ShouldBlock(p.tuple, EntrySeen(p)))
  BY <1>2, <1>4 DEF Matches
<1>6. Inspects(EntryTracked(p), p) /\ IsHit(p) => Classifies(EntryTracked(p), p)
  <2>1. EntryTracked(p).state # "BLOCKED"
    BY ExamineEntry
  <2> QED
    BY <2>1 DEF Inspects, IsHit, Classifies, Classifiable
<1>7. hits <= classified => hits' <= classified'
  <2>1. hits \in Nat /\ classified \in Nat
    BY <1>1 DEF TypeOK
  <2> QED
    BY <1>5, <1>6, <2>1 DEF Count
<1> QED
  BY <1>5, <1>7 DEF Examine

(* What FlowStatistics knows of the entries is what their states say: it   *)
(* is by this that a packet classifies an entry just when the entry was    *)
(* not classified before.                                                  *)
KnownEntries == /\ known \subseteq DOMAIN table
                /\ \A t \in DOMAIN table :
                      /\ table[t].state = "CLASSIFIED" => t \in known
                      /\ table[t].state \in {"NEW", "ESTABLISHED", "CLOSED"} => t \notin known

Tallied == forgotten \in Nat /\ forgottenBlocked \in Nat /\ CountersAgree

(* CountersAgree is inductive with it. *)
StatisticsInv == KnownEntries /\ Tallied

(* The tally watches the fast path and does not interfere. *)
LEMMA StatisticsWatch == SSpec => Spec
<1>1. SInit => Init
  BY DEF SInit
<1>2. [SNext]_<<vars, statisticsVars>> => [Next]_vars
  BY DEF SNext, SProcessPacket, SIdleCleanup, STick, Next
<1> QED
  BY <1>1, <1>2, PTL DEF SSpec, Spec

(* An entry that stays classified was known, one that becomes it was not:  *)
(* the code counts what the tally counts.                                  *)
LEMMA CountsLearned ==
    ASSUME Inv, KnownEntries, NEW p \in Packets, Examine(p)
    PROVE  /\ Classifies(EntryTracked(p), p) <=> Learns(p)
           /\ EntrySeen(p).state = "CLASSIFIED" => p.tuple \in StillKnown(p) \/ Learns(p)
           /\ EntrySeen(p).state \in {"NEW", "ESTABLISHED", "CLOSED"} =>
                p.tuple \notin StillKnown(p)
<1> DEFINE before == EntryBefore(p)
           tracked == EntryTracked(p)
           seen == EntrySeen(p)
<1>1. /\ before \in Connection /\ tracked \in Connection /\ seen \in Connection
      /\ before.state # "BLOCKED" /\ tracked.state # "BLOCKED" /\ seen.state # "BLOCKED"
  BY ExamineEntry
<1>2. now \in Nat
  BY DEF Inv, TypeOK
<1>3. /\ tracked.state = "CLASSIFIED" => before.state = "CLASSIFIED"
      /\ tracked.state \in {"NEW", "ESTABLISHED"} => before.state \in {"NEW", "ESTABLISHED"}
  <2>1. tracked.state = TrackTCP(before, p).state
        /\ (tracked.state = "CLASSIFIED" => before.state = "CLASSIFIED")
    BY <1>1, <1>2, TrackedEntry DEF EntryTracked
  <2>2. MayFollow(before.state, TrackTCP(before, p).state)
    BY <1>1, TrackTCPResult
  <2> HIDE DEF before, tracked
  <2> QED
    BY <2>1, <2>2 DEF MayFollow
<1>4. /\ before.state = "CLASSIFIED" => p.tuple \in known
      /\ before.state \in {"NEW", "ESTABLISHED"} => p.tuple \notin known
  BY DEF EntryBefore, NewConnection, KnownEntries
<1>5. p.tuple \in StillKnown(p) <=> p.tuple \in known /\ tracked.state # "CLOSED"
  BY DEF StillKnown
<1>6. /\ Classifies(tracked, p) => seen.state = "CLASSIFIED" /\ tracked.state # "CLASSIFIED"
      /\ ~Classifies(tracked, p) => seen.state = tracked.state
  <2>1. seen = Inspected(tracked, p)
    BY DEF EntrySeen
  <2> HIDE DEF seen, tracked
  <2>2. Classifies(tracked, p) => seen.state = "CLASSIFIED" /\ tracked.state # "CLASSIFIED"
    BY <1>1, <2>1 DEF Classifies, Inspects, Inspected, InspectPayload, ClassifyConnection, Connection
  <2>3. ~Classifies(tracked, p) => seen.state = tracked.state
    <3>1. CASE ~Inspects(tracked, p)
      BY <2>1, <3>1 DEF Inspected
    <3>2. CASE Inspects(tracked, p) /\ ~Classifiable(tracked)
      BY <1>1, <3>2 DEF Inspects, Classifiable
    <3>3. CASE Inspects(tracked, p) /\ ~FindsHost(p) /\ ~IsDNS(p)
      BY <1>1, <2>1, <3>3 DEF Inspected, InspectPayload, Connection
    <3> QED
      BY <3>1, <3>2, <3>3 DEF Classifies
  <2> QED
    BY <2>2, <2>3
<1>7. /\ tracked.state \in {"NEW", "ESTABLISHED", "CLASSIFIED", "CLOSED"}
      /\ seen.state \in {"NEW", "ESTABLISHED", "CLASSIFIED", "CLOSED"}
  BY <1>1 DEF Connection, States
<1>8. Learns(p) <=> seen.state = "CLASSIFIED" /\ p.tuple \notin StillKnown(p)
  BY DEF Learns
<1> HIDE DEF before, tracked, seen
<1>9. Classifies(tracked, p) <=> Learns(p)
  BY <1>3, <1>4, <1>5, <1>6, <1>7, <1>8
<1>10. seen.state \in {"NEW", "ESTABLISHED", "CLOSED"} => p.tuple \notin StillKnown(p)
  BY <1>3, <1>4, <1>5, <1>6, <1>7
<1> QED
  BY <1>8, <1>9, <1>10 DEF tracked, seen

(* A packet that is examined leaves known what is classified. *)
LEMMA ExamineKnows ==
    ASSUME Inv, KnownEntries, NEW p \in Packets, Examine(p),
           known' = (StillKnown(p) \cup {t \in {p.tuple} : Learns(p)}) \cap DOMAIN table'
    PROVE  KnownEntries'
<1>1. known' \subseteq DOMAIN table'
  OBVIOUS
<1>2. ASSUME NEW t \in DOMAIN table'
      PROVE  /\ table'[t].state = "CLASSIFIED" => t \in known'
             /\ table'[t].state \in {"NEW", "ESTABLISHED", "CLOSED"} => t \notin known'
  <2>1. CASE t # p.tuple
    <3>1. t \in DOMAIN table /\ table'[t] = table[t]
      BY <2>1, ExamineResult DEF Extends
    <3>2. t \in known' <=> t \in known
      BY <2>1 DEF StillKnown
    <3> QED
      BY <3>1, <3>2 DEF KnownEntries
  <2>2. CASE t = p.tuple
    <3>1. EntrySeen(p) \in Connection /\ table'[t] = EntryAfter(p)
      BY <2>2, ExamineEntry
    <3>2. table'[t].state # "BLOCKED" => table'[t].state = EntrySeen(p).state
      BY <3>1 DEF EntryAfter, BlockConnection, Connection
    <3>3. t \in known' <=> t \in StillKnown(p) \/ Learns(p)
      BY <2>2
    <3>4. EntrySeen(p).state \in {"NEW", "ESTABLISHED", "CLOSED"} => ~Learns(p)
      BY DEF Learns
    <3> QED
      BY <2>2, <3>2, <3>3, <3>4, CountsLearned
  <2> QED
    BY <2>1, <2>2
<1> QED
  BY <1>1, <1>2 DEF KnownEntries

(* A step that only removes entries. *)
LEMMA RemovalKnows ==
    ASSUME KnownEntries, DOMAIN table' \subseteq DOMAIN table,
           \A u \in DOMAIN table' : table'[u] = table[u], known' = known \cap DOMAIN table'
    PROVE  KnownEntries'
BY DEF KnownEntries

(* What is left of a finite set and what is gone make it up. *)
LEMMA Parts ==
    ASSUME NEW S, IsFiniteSet(S), NEW D
    PROVE  /\ IsFiniteSet(S \cap D) /\ Cardinality(S \cap D) \in Nat
           /\ Cardinality(S \ D) \in Nat
           /\ Cardinality(S \cap D) + Cardinality(S \ D) = Cardinality(S)
<1>1. /\ IsFiniteSet(S \cap D) /\ IsFiniteSet(S \ D)
      /\ Cardinality(S \cap D) \in Nat /\ Cardinality(S \ D) \in Nat
  BY FS_Subset, FS_CardinalityType
<1>2. Cardinality((S \cap D) \cap (S \ D)) = 0
  <2>1. (S \cap D) \cap (S \ D) = {}
    OBVIOUS
  <2> QED
    BY <2>1, FS_EmptySet, Zenon
<1>3. Cardinality((S \cap D) \cup (S \ D)) = Cardinality(S)
  <2>1. (S \cap D) \cup (S \ D) = S
    OBVIOUS
  <2> QED
    BY <2>1, Zenon
<1>4. Cardinality((S \cap D) \cup (S \ D))
        = Cardinality(S \cap D) + Cardinality(S \ D) - Cardinality((S \cap D) \cap (S \ D))
  BY <1>1, FS_Union
<1> QED
  BY <1>1, <1>2, <1>3, <1>4

(* One entry more or not. *)
LEMMA OneMore ==
    ASSUME NEW S, IsFiniteSet(S), NEW t, t \notin S, NEW b \in BOOLEAN
    PROVE  /\ IsFiniteSet(S \cup {u \in {t} : b})
           /\ Cardinality(S \cup {u \in {t} : b}) = Cardinality(S) + Count(b)
<1>1. Cardinality(S) \in Nat
  BY FS_CardinalityType
<1>2. CASE b
  <2>1. S \cup {u \in {t} : b} = S \cup {t}
    BY <1>2
  <2>2. IsFiniteSet(S \cup {t}) /\ Cardinality(S \cup {t}) = Cardinality(S) + 1
    BY FS_AddElement
  <2>3. Count(b) = 1
    BY <1>2 DEF Count
  <2> QED
    BY <2>1, <2>2, <2>3, Zenon
<1>3. CASE ~b
  <2>1. S \cup {u \in {t} : b} = S
    BY <1>3
  <2>2. Cardinality(S) + Count(b) = Cardinality(S)
    BY <1>1, <1>3 DEF Count
  <2> QED
    BY <2>1, <2>2, Zenon
<1> QED
  BY <1>2, <1>3

(* Blocked entries are finitely many. *)
LEMMA BlockedAreFinite == Inv => IsFiniteSet(BlockedEntries)
<1>1. BlockedEntries \in SUBSET DOMAIN table
  BY DEF BlockedEntries
<1> QED
  BY <1>1, FS_Subset DEF Inv

(* A packet that is examined adds at most its own entry to the table and   *)
(* to the blocked ones, and what it removes was forgotten.                 *)
LEMMA ExamineKeepsCounters ==
    ASSUME Inv, StatisticsInv, NEW p \in Packets, Examine(p),
           classifications' = classifications + Count(Learns(p)), Forget({p.tuple})
    PROVE  Tallied'
<1> DEFINE t == p.tuple
           D == DOMAIN table
           B == BlockedEntries
           block == ShouldBlock(p.tuple, EntrySeen(p))
<1>1. /\ totalSeen' = totalSeen + Count(t \notin D)
      /\ classified' = classified + Count(Classifies(EntryTracked(p), p))
      /\ blocked' = blocked + Count(block)
      /\ hits <= classified => hits' <= classified'
  BY ExamineCounts
<1>2. classified' = classifications' /\ hits' <= classified'
  <2>1. Classifies(EntryTracked(p), p) <=> Learns(p)
    BY CountsLearned DEF StatisticsInv
  <2>2. Count(Classifies(EntryTracked(p), p)) = Count(Learns(p))
    BY <2>1 DEF Count
  <2> QED
    BY <1>1, <2>2 DEF StatisticsInv, Tallied, CountersAgree
<1>3. IsFiniteSet(D) /\ IsFiniteSet(D') /\ IsFiniteSet(B)
      /\ Cardinality(D) \in Nat /\ Cardinality(B) \in Nat /\ Cardinality(D') \in Nat
  BY ExamineResult, BlockedAreFinite, FS_CardinalityType DEF Inv, IsBounded
<1>4. /\ totalSeen = Cardinality(D) + forgotten /\ blocked = Cardinality(B) + forgottenBlocked
      /\ totalSeen \in Nat /\ blocked \in Nat
  BY DEF StatisticsInv, Tallied, CountersAgree, Inv, TypeOK
<1>5. /\ forgotten' = forgotten + Cardinality((D \cup {t}) \ D')
      /\ forgottenBlocked' = forgottenBlocked + Cardinality(B \ D')
  BY DEF Forget
<1>6. Cardinality(D') + Cardinality((D \cup {t}) \ D') = Cardinality(D) + Count(t \notin D)
  <2>1. D' \subseteq D \cup {t}
    BY ExamineResult DEF Extends
  <2>2. (D \cup {t}) \cap D' = D'
    BY <2>1
  <2>3. IsFiniteSet(D \cup {t}) /\ Cardinality(D \cup {t}) = Cardinality(D) + Count(t \notin D)
    <3>1. /\ IsFiniteSet(D \cup {t})
          /\ Cardinality(D \cup {t}) = IF t \in D THEN Cardinality(D) ELSE Cardinality(D) + 1
      BY <1>3, FS_AddElement
    <3> QED
      BY <1>3, <3>1 DEF Count
  <2>4. Cardinality((D \cup {t}) \cap D') + Cardinality((D \cup {t}) \ D') = Cardinality(D \cup {t})
    BY <2>3, Parts
  <2>5. Cardinality((D \cup {t}) \cap D') = Cardinality(D')
    BY <2>2, Zenon
  <2> QED
    BY <2>3, <2>4, <2>5
<1>7. Cardinality(B') + Cardinality(B \ D') = Cardinality(B) + Count(block)
  <2>1. t \notin B
    BY DEF Examine, IsBlocked, BlockedEntries
  <2>2. B' = (B \cap D') \cup {u \in {t} : block}
    <3>1. ASSUME NEW u \in D', u # t PROVE u \in D /\ table'[u] = table[u]
      BY <3>1, ExamineResult DEF Extends
    <3>2. block => t \in D'
      BY BlockedStays
    <3>3. t \in D' => (table'[t].state = "BLOCKED" <=> block)
      <4>1. /\ EntrySeen(p) \in Connection /\ EntrySeen(p).state # "BLOCKED"
            /\ t \in D' => table'[t] = EntryAfter(p)
        BY ExamineEntry
      <4>2. EntryAfter(p).state = "BLOCKED" <=> block
        BY <4>1 DEF EntryAfter, BlockConnection, Connection
      <4> QED
        BY <4>1, <4>2
    <3>4. B' = {u \in D' : table'[u].state = "BLOCKED"}
      BY DEF BlockedEntries
    <3>5. B = {u \in D : table[u].state = "BLOCKED"}
      BY DEF BlockedEntries
    <3> HIDE DEF block, t
    <3> QED
      BY <2>1, <3>1, <3>2, <3>3, <3>4, <3>5
  <2>3. /\ IsFiniteSet(B \cap D') /\ Cardinality(B \cap D') \in Nat /\ Cardinality(B \ D') \in Nat
        /\ Cardinality(B \cap D') + Cardinality(B \ D') = Cardinality(B)
    BY <1>3, Parts
  <2>4. block \in BOOLEAN
    BY DEF ShouldBlock
  <2>5. Cardinality((B \cap D') \cup {u \in {t} : block}) = Cardinality(B \cap D') + Count(block)
    <3> HIDE DEF block, t
    <3> QED
      BY <2>1, <2>3, <2>4, OneMore
  <2>6. Cardinality(B') = Cardinality((B \cap D') \cup {u \in {t} : block})
    BY <2>2, Zenon
  <2>7. Count(block) \in Nat
    BY DEF Count
  <2> QED
    BY <2>3, <2>5, <2>6, <2>7
<1>8. /\ totalSeen' = Cardinality(D') + forgotten' /\ blocked' = Cardinality(B') + forgottenBlocked'
      /\ forgotten' \in Nat /\ forgottenBlocked' \in Nat
  <2>1. Cardinality(D') \in Nat /\ Cardinality((D \cup {t}) \ D') \in Nat
        /\ Cardinality(B') \in Nat /\ Cardinality(B \ D') \in Nat
    <3>1. IsFiniteSet(D \cup {t}) /\ B' \in SUBSET D'
      BY <1>3, FS_AddElement DEF BlockedEntries
    <3> QED
      BY <1>3, <3>1, FS_Subset, FS_CardinalityType
  <2>2. Count(t \notin D) \in Nat /\ Count(block) \in Nat
    BY DEF Count
  <2>3. forgotten \in Nat /\ forgottenBlocked \in Nat
    BY DEF StatisticsInv, Tallied
  <2> QED
    BY <1>1, <1>3, <1>4, <1>5, <1>6, <1>7, <2>1, <2>2, <2>3
<1> QED
  BY <1>2, <1>8 DEF Tallied, CountersAgree

(* A step that only removes entries forgets them. *)
LEMMA RemovalKeepsCounters ==
    ASSUME Inv, StatisticsInv, DOMAIN table' \subseteq DOMAIN table,
           \A u \in DOMAIN table' : table'[u] = table[u],
           NEW touched \in SUBSET DOMAIN table, Forget(touched),
           UNCHANGED <<totalSeen, classified, blocked, hits, classifications>>
    PROVE  Tallied'
<1> DEFINE D == DOMAIN table
           B == BlockedEntries
<1>1. IsFiniteSet(D) /\ IsFiniteSet(B)
  BY BlockedAreFinite DEF Inv
<1>2. D \cap D' = D' /\ B \cap D' = B' /\ D \cup touched = D
  BY DEF BlockedEntries
<1>3. /\ Cardinality(D \cap D') \in Nat /\ Cardinality(D \ D') \in Nat
      /\ Cardinality(D \cap D') + Cardinality(D \ D') = Cardinality(D)
      /\ Cardinality(B \cap D') \in Nat /\ Cardinality(B \ D') \in Nat
      /\ Cardinality(B \cap D') + Cardinality(B \ D') = Cardinality(B)
  BY <1>1, Parts
<1>4. /\ Cardinality(D \cap D') = Cardinality(D') /\ Cardinality(B \cap D') = Cardinality(B')
      /\ Cardinality((D \cup touched) \ D') = Cardinality(D \ D')
  BY <1>2, Zenon
<1>5. /\ forgotten' = forgotten + Cardinality((D \cup touched) \ D')
      /\ forgottenBlocked' = forgottenBlocked + Cardinality(B \ D')
  BY DEF Forget
<1>6. /\ totalSeen = Cardinality(D) + forgotten /\ blocked = Cardinality(B) + forgottenBlocked
      /\ classified = classifications /\ hits <= classified
  BY DEF StatisticsInv, Tallied, CountersAgree
<1>7. forgotten \in Nat /\ forgottenBlocked \in Nat
  BY DEF StatisticsInv, Tallied
<1> HIDE DEF D, B
<1>8. /\ totalSeen' = Cardinality(D') + forgotten' /\ blocked' = Cardinality(B') + forgottenBlocked'
      /\ forgotten' \in Nat /\ forgottenBlocked' \in Nat
  BY <1>3, <1>4, <1>5, <1>6, <1>7
<1> QED
  BY <1>6, <1>8 DEF Tallied, CountersAgree, D, B

(* The statistics count entries one by one (connection_tracker.h:165), for *)
(* any table size, rules, packets and times: those seen, those blocked,    *)
(* and those classified, once and once more for each time an entry is      *)
(* closed and classified again.                                            *)
THEOREM StatisticsAgree == SSpec => []CountersAgree
<1>1. SInit => StatisticsInv
  <2> SUFFICES ASSUME SInit PROVE StatisticsInv
    OBVIOUS
  <2>1. DOMAIN table = {} /\ known = {} /\ BlockedEntries = {}
    BY DEF SInit, NothingTallied, Init, BlockedEntries
  <2>2. Cardinality(DOMAIN table) = 0 /\ Cardinality(BlockedEntries) = 0
    BY <2>1, FS_EmptySet, Zenon
  <2> QED
    BY <2>1, <2>2 DEF SInit, NothingTallied, Init, StatisticsInv, KnownEntries, Tallied, CountersAgree
<1>2. Inv /\ StatisticsInv /\ [SNext]_<<vars, statisticsVars>> => StatisticsInv'
  <2> SUFFICES ASSUME Inv, StatisticsInv, [SNext]_<<vars, statisticsVars>> PROVE StatisticsInv'
    OBVIOUS
  <2>1. ASSUME NEW p \in Packets, SProcessPacket(p), ~Examine(p) PROVE StatisticsInv'
    <3>1. DropBlocked(p) /\ IsBlocked(p.tuple) /\ p.tuple \in DOMAIN table
      BY <2>1 DEF SProcessPacket, TallyPacket, ProcessPacket, DropBlocked, IsBlocked
    <3>2. /\ DOMAIN table' \subseteq DOMAIN table /\ \A u \in DOMAIN table' : table'[u] = table[u]
          /\ UNCHANGED <<totalSeen, classified, blocked, hits>>
      BY <3>1, DropBlockedResult DEF DropBlocked
    <3>3. known' = known \cap DOMAIN table' /\ classifications' = classifications
      BY <2>1, <3>1 DEF SProcessPacket, TallyPacket
    <3>4. Forget({p.tuple}) /\ {p.tuple} \in SUBSET DOMAIN table
      BY <2>1, <3>1 DEF SProcessPacket, TallyPacket
    <3>5. KnownEntries'
      BY <3>2, <3>3, RemovalKnows DEF StatisticsInv
    <3>6. Tallied'
      BY <3>2, <3>3, <3>4, RemovalKeepsCounters
    <3> QED
      BY <3>5, <3>6 DEF StatisticsInv
  <2>2. ASSUME NEW p \in Packets, SProcessPacket(p), Examine(p) PROVE StatisticsInv'
    <3>1. ~IsBlocked(p.tuple)
      BY <2>2 DEF Examine
    <3>2. /\ known' = (StillKnown(p) \cup {t \in {p.tuple} : Learns(p)}) \cap DOMAIN table'
          /\ classifications' = classifications + Count(Learns(p))
          /\ Forget({p.tuple})
      BY <2>2, <3>1 DEF SProcessPacket, TallyPacket
    <3>3. KnownEntries'
      BY <2>2, <3>2, ExamineKnows DEF StatisticsInv
    <3>4. Tallied'
      BY <2>2, <3>2, ExamineKeepsCounters
    <3> QED
      BY <3>3, <3>4 DEF StatisticsInv
  <2>3. CASE SIdleCleanup
    <3>1. /\ DOMAIN table' \subseteq DOMAIN table /\ \A u \in DOMAIN table' : table'[u] = table[u]
          /\ UNCHANGED <<totalSeen, classified, blocked, hits>>
      BY <2>3, IdleCleanupResult DEF SIdleCleanup, TallyCleanup, IdleCleanup, counters
    <3>2. /\ known' = known \cap DOMAIN table' /\ classifications' = classifications
          /\ Forget({})
      BY <2>3 DEF SIdleCleanup, TallyCleanup
    <3>3. KnownEntries'
      BY <3>1, <3>2, RemovalKnows DEF StatisticsInv
    <3>4. Tallied'
      BY <3>1, <3>2, RemovalKeepsCounters
    <3> QED
      BY <3>3, <3>4 DEF StatisticsInv
  <2>4. CASE STick \/ UNCHANGED <<vars, statisticsVars>>
    <3>1. UNCHANGED <<table, counters, statisticsVars>>
      BY <2>4 DEF STick, Tick, vars
    <3>2. BlockedEntries' = BlockedEntries /\ (DOMAIN table)' = DOMAIN table
      BY <3>1 DEF BlockedEntries
    <3>3. /\ Cardinality(BlockedEntries)' = Cardinality(BlockedEntries)
          /\ Cardinality(DOMAIN table)' = Cardinality(DOMAIN table)
      BY <3>2, Zenon
    <3> QED
      BY <3>1, <3>3 DEF StatisticsInv, KnownEntries, Tallied, CountersAgree, counters, statisticsVars
  <2> QED
    BY <2>1, <2>2, <2>3, <2>4 DEF SNext
<1>3. StatisticsInv => CountersAgree
  BY DEF StatisticsInv, Tallied
<1> QED
  BY <1>1, <1>2, <1>3, StatisticsWatch, Invariance, PTL DEF SSpec

-----------------------------------------------------------------------------
(* Application and name *)

(* A set of numbers has a least one. *)
LEMMA LeastOf ==
    ASSUME NEW S \in SUBSET Nat, S # {}
    PROVE  \E i \in S : \A j \in S : i <= j
<1> DEFINE R == {ss \in Nat \X Nat : ss[1] < ss[2]}
<1>1. IsWellFoundedOn(R, Nat)
  BY NatLessThanWellFounded, Zenon DEF OpToRel
<1>2. \A i, j \in Nat : <<j, i>> \notin R => i <= j
  OBVIOUS
<1> HIDE DEF R
<1>3. PICK i \in S : \A j \in S : <<j, i>> \notin R
  BY <1>1, WFMin, Zenon
<1> QED
  BY <1>2, <1>3

(* The seventeen services of types.cpp. *)
LEMMA ServiceList ==
    /\ DOMAIN Services = 1..17 /\ DOMAIN Services \subseteq Nat
    /\ \A i \in 1..17 : Services[i].app # "UNKNOWN"
    /\ \A i, j \in 1..17 : <<Services[i].app, Services[j].app>> \in Owned => i < j
<1>1. DOMAIN Services = 1..17 /\ DOMAIN Services \subseteq Nat
  BY DEF Services
<1>2. /\ Services[1].app = "YOUTUBE"    /\ Services[2].app = "GOOGLE"
      /\ Services[3].app = "INSTAGRAM"  /\ Services[4].app = "WHATSAPP"
      /\ Services[5].app = "FACEBOOK"   /\ Services[6].app = "TWITTER"
      /\ Services[7].app = "NETFLIX"    /\ Services[8].app = "AMAZON"
      /\ Services[9].app = "MICROSOFT"  /\ Services[10].app = "APPLE"
      /\ Services[11].app = "TELEGRAM"  /\ Services[12].app = "TIKTOK"
      /\ Services[13].app = "SPOTIFY"   /\ Services[14].app = "ZOOM"
      /\ Services[15].app = "DISCORD"   /\ Services[16].app = "GITHUB"
      /\ Services[17].app = "CLOUDFLARE"
  BY DEF Services, Service
<1>3. ASSUME NEW i \in 1..17
      PROVE  i \in {1, 2, 3, 4, 5, 6, 7, 8, 9, 10, 11, 12, 13, 14, 15, 16, 17}
  OBVIOUS
<1>4. \A i \in 1..17 : Services[i].app # "UNKNOWN"
  BY <1>2, <1>3
<1>5. ASSUME NEW i \in 1..17, NEW j \in 1..17,
             <<Services[i].app, Services[j].app>> \in Owned
      PROVE  i < j
  <2>1. \/ Services[i].app = "YOUTUBE" /\ Services[j].app = "GOOGLE"
        \/ Services[i].app \in {"INSTAGRAM", "WHATSAPP"} /\ Services[j].app = "FACEBOOK"
    BY <1>5 DEF Owned
  <2>2. Services[i].app = "YOUTUBE" => i = 1
    BY <1>2, <1>3
  <2>3. Services[i].app \in {"INSTAGRAM", "WHATSAPP"} => i \in {3, 4}
    BY <1>2, <1>3
  <2>4. Services[j].app = "GOOGLE" => j = 2
    BY <1>2, <1>3
  <2>5. Services[j].app = "FACEBOOK" => j = 5
    BY <1>2, <1>3
  <2> QED
    BY <2>1, <2>2, <2>3, <2>4, <2>5
<1> QED
  BY <1>1, <1>4, <1>5

(* sniToAppType() of a name: HTTPS when no service is given away, else the *)
(* first one that is.                                                      *)
LEMMA ClassifierResult ==
    ASSUME NEW h, h # ""
    PROVE  /\ Hits(h) = {} => SniToAppType(h) = "HTTPS"
           /\ Hits(h) # {} => \E i \in Hits(h) : /\ SniToAppType(h) = Services[i].app
                                                 /\ \A j \in Hits(h) : i <= j
<1>1. Hits(h) = {} => SniToAppType(h) = "HTTPS"
  BY DEF SniToAppType
<1>2. ASSUME Hits(h) # {}
      PROVE  \E i \in Hits(h) : /\ SniToAppType(h) = Services[i].app
                                /\ \A j \in Hits(h) : i <= j
  <2> DEFINE i == CHOOSE k \in Hits(h) : \A j \in Hits(h) : k <= j
  <2>1. Hits(h) \in SUBSET Nat
    BY ServiceList, Zenon DEF Hits
  <2>2. \E k \in Hits(h) : \A j \in Hits(h) : k <= j
    BY <1>2, <2>1, LeastOf
  <2>3. i \in Hits(h) /\ \A j \in Hits(h) : i <= j
    BY <2>2
  <2>4. SniToAppType(h) = Services[i].app
    BY <1>2 DEF SniToAppType
  <2> QED
    BY <2>3, <2>4
<1> QED
  BY <1>1, <1>2

(* A classifier that has seen a name never answers UNKNOWN. *)
LEMMA NamedIsKnown ==
    \A h \in Hosts \ {NoHost} : h # "" /\ AppOf[h] = SniToAppType(h) /\ AppOf[h] # "UNKNOWN"
<1> SUFFICES ASSUME NEW h \in Hosts \ {NoHost}
             PROVE  h # "" /\ AppOf[h] = SniToAppType(h) /\ AppOf[h] # "UNKNOWN"
  OBVIOUS
<1>1. h # "" /\ AppOf[h] = SniToAppType(h)
  BY ClassifierAssumption
<1>2. \A i \in Hits(h) : Services[i].app # "UNKNOWN"
  BY ServiceList DEF Hits
<1>3. SniToAppType(h) # "UNKNOWN"
  BY <1>1, <1>2, ClassifierResult
<1> QED
  BY <1>1, <1>3

(* AppFitsName says nothing of the step that wrote the entry; this does:   *)
(* the application is the one the classifier gives for the name.           *)
NamesClassified == \A t \in NamedFlows : table[t].app = AppOf[table[t].sni]

(* The inspection gives an entry a name and its application together, and  *)
(* the guess by the port is for entries without either.                    *)
LEMMA InspectionNames ==
    ASSUME NEW conn \in Connection, NEW p \in Packets, ~IsDNS(p),
           conn.sni # NoHost => conn.app = AppOf[conn.sni]
    PROVE  LET new == Inspected(conn, p) IN new.sni # NoHost => new.app = AppOf[new.sni]
<1>1. CASE ~Inspects(conn, p)
  BY <1>1 DEF Inspected
<1>2. CASE Inspects(conn, p) /\ FindsHost(p)
  BY <1>2 DEF Inspected, InspectPayload, ClassifyConnection, Connection
<1>3. CASE Inspects(conn, p) /\ ~FindsHost(p)
  <2>1. CASE conn.app # "UNKNOWN"
    BY <1>3, <2>1 DEF Inspected, InspectPayload
  <2>2. CASE conn.app = "UNKNOWN"
    <3>1. conn.sni = NoHost
      BY <2>2, NamedIsKnown DEF Connection
    <3>2. Inspected(conn, p).sni = conn.sni
      BY <1>3, <2>2 DEF Inspected, InspectPayload, Connection
    <3> QED
      BY <3>1, <3>2
  <2> QED
    BY <2>1, <2>2
<1> QED
  BY <1>1, <1>2, <1>3

(* An entry whose application the classifier gave fits its name. *)
LEMMA ClassifiedFits ==
    ASSUME NEW c \in Connection, c.sni # NoHost, c.app = AppOf[c.sni]
    PROVE  LET apps == {s.app : s \in ShownBy(c)}
           IN IF apps = {} THEN c.app = "HTTPS"
              ELSE c.app \in apps /\ \A a \in apps : <<a, c.app>> \notin Owned
<1> DEFINE h == c.sni
           apps == {s.app : s \in ShownBy(c)}
           given == {Services[i].app : i \in Hits(h)}
<1>1. h \in Hosts /\ h # "" /\ c.app = SniToAppType(h)
  BY NamedIsKnown DEF Connection
<1>2. apps = given
  <2>1. ASSUME NEW i \in Hits(h) PROVE Services[i].app \in apps
    <3>1. i \in DOMAIN Services /\ KeysIn(h, Services[i]) # {}
      BY DEF Hits
    <3>2. PICK k \in KeysIn(h, Services[i]) : TRUE
      BY <3>1
    <3> DEFINE s == [name |-> h, app |-> Services[i].app, key |-> k]
    <3>3. s \in Shown
      <4>1. h \in Hosts /\ Services[i] \in {Services[j] : j \in DOMAIN Services}
        BY <1>1, <3>1
      <4>2. s \in {[name |-> h, app |-> Services[i].app, key |-> l] : l \in KeysIn(h, Services[i])}
        BY <3>2
      <4> DEFINE shows(g, v) == {[name |-> g, app |-> v.app, key |-> l] : l \in KeysIn(g, v)}
      <4>3. Shown = UNION {shows(g, v) : g \in Hosts, v \in {Services[j] : j \in DOMAIN Services}}
        BY DEF Shown
      <4>4. s \in shows(h, Services[i])
        BY <4>2
      <4> HIDE DEF s, h, shows
      <4> QED
        BY <4>1, <4>3, <4>4
    <3> QED
      BY <3>3 DEF ShownBy
  <2>2. ASSUME NEW s \in ShownBy(c) PROVE s.app \in given
    <3>1. s \in Shown /\ s.name = h
      BY DEF ShownBy
    <3>2. PICK g \in Hosts, i \in DOMAIN Services :
             \E k \in KeysIn(g, Services[i]) : s = [name |-> g, app |-> Services[i].app, key |-> k]
      BY <3>1 DEF Shown
    <3>3. g = h /\ s.app = Services[i].app /\ KeysIn(g, Services[i]) # {}
      BY <3>1, <3>2
    <3> QED
      BY <3>2, <3>3 DEF Hits
  <2> QED
    BY <2>1, <2>2
<1>3. Hits(h) = {} => c.app = "HTTPS"
  BY <1>1, ClassifierResult
<1>4. ASSUME Hits(h) # {}
      PROVE  c.app \in given /\ \A a \in given : <<a, c.app>> \notin Owned
  <2>1. PICK i \in Hits(h) : c.app = Services[i].app /\ \A j \in Hits(h) : i <= j
    BY <1>1, <1>4, ClassifierResult
  <2>2. ASSUME NEW j \in Hits(h), <<Services[j].app, Services[i].app>> \in Owned PROVE FALSE
    <3>1. i \in 1..17 /\ j \in 1..17
      BY ServiceList DEF Hits
    <3>2. j < i /\ i <= j
      BY <2>1, <2>2, <3>1, ServiceList
    <3> QED
      BY <3>1, <3>2
  <2> QED
    BY <2>1, <2>2
<1> QED
  BY <1>2, <1>3, <1>4

(* Application and name of an entry belong together (types.cpp:131), for   *)
(* any names, table size, rules and order of packets.                      *)
THEOREM NamesFit == Spec => []AppFitsName
<1>1. Init => NamesClassified
  BY DEF Init, NamesClassified, NamedFlows
<1>2. Inv /\ NamesClassified /\ [Next]_vars => NamesClassified'
  <2> SUFFICES ASSUME Inv, NamesClassified, [Next]_vars,
                      NEW t \in DOMAIN table', table'[t].sni # NoHost,
                      53 \notin {t.src_port, t.dst_port}
               PROVE  table'[t].app = AppOf[table'[t].sni]
    BY DEF NamesClassified, NamedFlows
  <2>1. CASE t \in DOMAIN table /\ table'[t] = table[t]
    BY <2>1 DEF NamesClassified, NamedFlows
  <2>2. ASSUME NEW p \in Packets, Examine(p), t = p.tuple
        PROVE  table'[t].app = AppOf[table'[t].sni]
    <3>1. /\ EntryBefore(p) \in Connection /\ EntryTracked(p) \in Connection
          /\ EntrySeen(p) \in Connection /\ table'[t] = EntryAfter(p)
      BY <2>2, ExamineEntry
    <3>2. now \in Nat
      BY DEF Inv, TypeOK
    <3>3. EntryBefore(p).sni # NoHost => EntryBefore(p).app = AppOf[EntryBefore(p).sni]
      BY <2>2 DEF EntryBefore, NewConnection, NamesClassified, NamedFlows
    <3>4. EntryTracked(p).app = EntryBefore(p).app /\ EntryTracked(p).sni = EntryBefore(p).sni
      BY <3>1, <3>2, TrackedEntry DEF EntryTracked
    <3>5. ~IsDNS(p)
      BY <2>2 DEF IsDNS
    <3>6. EntrySeen(p).sni # NoHost => EntrySeen(p).app = AppOf[EntrySeen(p).sni]
      BY <3>1, <3>3, <3>4, <3>5, InspectionNames DEF EntrySeen
    <3>7. EntryAfter(p).sni = EntrySeen(p).sni /\ EntryAfter(p).app = EntrySeen(p).app
      BY <3>1 DEF EntryAfter, BlockConnection, Connection
    <3> QED
      BY <3>1, <3>6, <3>7
  <2> QED
    BY <2>1, <2>2, StepEntries
<1>3. Inv /\ NamesClassified => AppFitsName
  <2> SUFFICES ASSUME Inv, NamesClassified, NEW t \in NamedFlows
               PROVE  LET apps == {s.app : s \in ShownBy(table[t])}
                      IN IF apps = {} THEN t.dst_port = 443 => table[t].app = "HTTPS"
                         ELSE /\ table[t].app \in apps
                              /\ \A a \in apps : <<a, table[t].app>> \notin Owned
    BY DEF AppFitsName
  <2>1. /\ table[t] \in Connection /\ table[t].sni # NoHost
        /\ table[t].app = AppOf[table[t].sni]
    BY DEF Inv, TypeOK, IsTable, NamesClassified, NamedFlows
  <2> QED
    BY <2>1, ClassifiedFits
<1> QED
  BY <1>1, <1>2, <1>3, Invariance, PTL DEF Spec
=============================================================================
