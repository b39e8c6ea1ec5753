--------------------------- MODULE Classification ---------------------------
(***************************************************************************)
(* The fast path with the classifier it calls (AppOf is SniToAppType):     *)
(* what the application of an entry says about the name beside it.         *)
(***************************************************************************)
EXTENDS FastPath, Classifier

ASSUME ClassifierAssumption == NoHost = "" /\ \A h \in Hosts : AppOf[h] = SniToAppType(h)

(* Services that belong to another one whose keys their names may show as  *)
(* well, and that types.cpp means to prefer (:148, :166, :173).            *)
Owned == {<<"YOUTUBE", "GOOGLE">>, <<"INSTAGRAM", "FACEBOOK">>, <<"WHATSAPP", "FACEBOOK">>}

(* The keys each name shows, with the service each gives away. *)
Shown == UNION {{[name |-> h, app |-> s.app, key |-> k] : k \in KeysIn(h, s)} :
                    h \in Hosts, s \in {Services[i] : i \in DOMAIN Services}}

ShownBy(conn) == {s \in Shown : s.name = conn.sni}

(* The flows that got their name from a Client Hello or a Host header. *)
NamedFlows == {t \in DOMAIN table : table[t].sni # NoHost /\ 53 \notin {t.src_port, t.dst_port}}

-----------------------------------------------------------------------------
(* Application and name of an entry belong together, whatever names,       *)
(* payloads and flags the flow showed before and after: the application is *)
(* a service whose key the name shows and not the owner of another one it  *)
(* shows, or HTTPS when it shows none on port 443.  On port 80 the code    *)
(* says HTTPS as well (types.cpp:286), where types.h:114 has "plain HTTP   *)
(* (port 80, detected via Host: header)"; nothing is asked there.          *)
AppFitsName ==
    \A t \in NamedFlows :
        LET apps == {s.app : s \in ShownBy(table[t])}
        IN IF apps = {} THEN t.dst_port = 443 => table[t].app = "HTTPS"
           ELSE /\ table[t].app \in apps
                /\ \A a \in apps : <<a, table[t].app>> \notin Owned

(* types.cpp:133, "Order matters - check more specific patterns before     *)
(* general ones": a flow is not taken for a service when its name shows a  *)
(* longer key of another one, the owner of that service excepted.          *)
LongestKeyWins ==
    \A t \in NamedFlows : \A s \in ShownBy(table[t]) :
        \/ <<table[t].app, s.app>> \in Owned
        \/ \E r \in ShownBy(table[t]) : r.app = table[t].app /\ Len(r.key) >= Len(s.key)
=============================================================================
