---------------------------- MODULE RuleManager ----------------------------
(***************************************************************************)
(* RuleManager of src/rule_manager.cpp: four categories of rules, each     *)
(* behind a shared_mutex of its own.  The fast path threads read them      *)
(* through shouldBlock(), which takes the locks one after the other; the   *)
(* main thread (rule_manager.h:16) changes them, saves them to a file and  *)
(* loads them after a restart.  A critical section is one step.            *)
(*                                                                         *)
(* A domain is the sequence of its labels, empty for the empty string; a   *)
(* wildcard pattern is what follows its asterisk and dot.  In the file the *)
(* domain lines that begin with an asterisk and a dot are kept apart as    *)
(* patterns; the order of the lines of a set is left open.                 *)
(***************************************************************************)
EXTENDS Naturals, Sequences, SequencesExt, FiniteSets

CONSTANTS
    Checkers,          \* the FP threads
    IPs, Ports, Apps,  \* addresses as parseIP() packs them, first octet lowest
    AppName,           \* appTypeToString()
    Names,             \* domains as blockDomain() gets them without a wildcard
    Wilds,             \* wildcard patterns
    Lower,             \* tolower() of a label
    Queries,           \* the arguments of shouldBlock(): [ip, port, app, domain]
    NoFile,            \* there is no rules file
    MaxRules           \* bound on the rules in force

ASSUME AppNameAssumption == \A a, b \in Apps : AppName[a] = AppName[b] => a = b
ASSUME IPsAssumption == \A x \in IPs : x \in Nat /\ x \div 16777216 < 256
ASSUME MaxRulesAssumption == MaxRules \in Nat

VARIABLES
    ips, apps, domains, patterns, ports,   \* blocked_ips_ and the others
    wpc,        \* the main thread's next step inside clearAll, saveRules or loadRules
    todo,       \* the lines of the file that loadRules() has yet to apply
    file,       \* the rules file, by section
    cpc,        \* the category a checker inside shouldBlock() looks at next
    query,      \* its arguments
    verdict,    \* what its last call returned: a category, or "forward"
    always, ever,   \* the categories that had a rule for the query throughout
                    \* the call, and at some moment of it (history)
    saved,      \* the rules when the file was last saved completely (history)
    whole,      \* the file is the one of that save (history)
    clean       \* only loadRules() changed the rules since the start (history)

checkerVars == <<cpc, query, verdict, always, ever>>
vars == <<ips, apps, domains, patterns, ports, wpc, todo, file, checkerVars, saved, whole,
          clean>>

Section(i, a, d, w, p) == [ips |-> i, apps |-> a, domains |-> d, patterns |-> w, ports |-> p]
Nothing == Section({}, {}, {}, <<>>, {})
Rules   == Section(ips, apps, domains, patterns, ports)

Size(r) == Cardinality(r.ips) + Cardinality(r.apps) + Cardinality(r.domains)
           + Len(r.patterns) + Cardinality(r.ports)

NoRules == ips = {} /\ apps = {} /\ domains = {} /\ patterns = <<>> /\ ports = {}

Init == /\ NoRules
        /\ wpc = "out" /\ todo = Nothing /\ file = NoFile
        /\ cpc = [c \in Checkers |-> "out"]
        /\ query \in [Checkers -> Queries]
        /\ verdict = [c \in Checkers |-> "none"]
        /\ always = [c \in Checkers |-> {}] /\ ever = [c \in Checkers |-> {}]
        /\ saved = NoFile /\ whole = FALSE /\ clean = TRUE

-----------------------------------------------------------------------------
(* Matching *)

Lowercase(d) == [i \in DOMAIN d |-> Lower[d[i]]]

(* domainMatchesPattern(): rest itself, or anything that ends in it after a dot. *)
DomainMatchesPattern(domain, rest) == IsSuffix(rest, domain)

(* isDomainBlocked() lowercases the name it is asked for and the patterns, *)
(* not the exact rules.                                                    *)
IsDomainBlocked(d) ==
    \/ Lowercase(d) \in domains
    \/ \E i \in DOMAIN patterns : DomainMatchesPattern(Lowercase(d), Lowercase(patterns[i]))

(* The order in which shouldBlock() looks at the categories. *)
Order == [ip |-> 1, port |-> 2, app |-> 3, domain |-> 4]
Categories == DOMAIN Order

(* Category k has a rule for query q. *)
Matches(k, q) == \/ k = "ip" /\ q.ip \in ips
                 \/ k = "port" /\ q.port \in ports
                 \/ k = "app" /\ q.app \in apps
                 \/ k = "domain" /\ q.domain # <<>> /\ IsDomainBlocked(q.domain)

Matching(q) == {k \in Categories : Matches(k, q)}

-----------------------------------------------------------------------------
(* A fast path thread in shouldBlock() *)

Call(c, q) == /\ cpc[c] = "out"
              /\ cpc' = [cpc EXCEPT ![c] = "ip"]
              /\ query' = [query EXCEPT ![c] = q]
              /\ verdict' = [verdict EXCEPT ![c] = "none"]
              /\ always' = [always EXCEPT ![c] = Matching(q)]
              /\ ever' = [ever EXCEPT ![c] = Matching(q)]
              /\ UNCHANGED <<ips, apps, domains, patterns, ports, wpc, todo, file, saved, whole,
                             clean>>

Return(c, v) == cpc' = [cpc EXCEPT ![c] = "out"] /\ verdict' = [verdict EXCEPT ![c] = v]

(* Fault: after the address the ports are left out. *)
GoOn_SkipsPorts(c, k) == \/ /\ Order[k] < 4
                            /\ cpc' = [cpc EXCEPT ![c] = IF k = "app" THEN "domain" ELSE "app"]
                            /\ UNCHANGED verdict
                         \/ Order[k] = 4 /\ Return(c, "forward")

(* Where shouldBlock() goes on when category k has no rule. *)
GoOn(c, k) == \/ /\ Order[k] < 4
                 /\ \E n \in Categories : /\ Order[n] = Order[k] + 1
                                          /\ cpc' = [cpc EXCEPT ![c] = n]
                 /\ UNCHANGED verdict
              \/ Order[k] = 4 /\ Return(c, "forward")

(* One check, under the lock of its category. *)
Check(c) == LET k == cpc[c]
            IN /\ k \in Categories
               /\ IF Matches(k, query[c]) THEN Return(c, k) ELSE GoOn(c, k)
               /\ UNCHANGED <<ips, apps, domains, patterns, ports, wpc, todo, file, query,
                              always, ever, saved, whole, clean>>

-----------------------------------------------------------------------------
(* The main thread: single rules *)

AddIP(x)      == ips' = ips \cup {x} /\ UNCHANGED <<apps, domains, patterns, ports>>
AddApp(x)     == apps' = apps \cup {x} /\ UNCHANGED <<ips, domains, patterns, ports>>
AddDomain(x)  == domains' = domains \cup {x} /\ UNCHANGED <<ips, apps, patterns, ports>>
AddPattern(x) == patterns' = Append(patterns, x) /\ UNCHANGED <<ips, apps, domains, ports>>
AddPort(x)    == ports' = ports \cup {x} /\ UNCHANGED <<ips, apps, domains, patterns>>

(* blockDomain() *)
BlockDomain(x, wild) == IF wild THEN AddPattern(x) ELSE AddDomain(x)

Block == /\ Size(Rules) < MaxRules
         /\ \/ \E x \in IPs : AddIP(x)
            \/ \E x \in Apps : AddApp(x)
            \/ \E x \in Names : BlockDomain(x, FALSE)
            \/ \E x \in Wilds : BlockDomain(x, TRUE)
            \/ \E x \in Ports : AddPort(x)

RemoveIP(x)     == ips' = ips \ {x} /\ UNCHANGED <<apps, domains, patterns, ports>>
RemoveApp(x)    == apps' = apps \ {x} /\ UNCHANGED <<ips, domains, patterns, ports>>
RemoveDomain(x) == domains' = domains \ {x} /\ UNCHANGED <<ips, apps, patterns, ports>>
RemovePort(x)   == ports' = ports \ {x} /\ UNCHANGED <<ips, apps, domains, patterns>>

(* unblockDomain() of a pattern erases the first copy of it, if there is one. *)
RemovePattern(x) ==
    /\ \/ \E i \in DOMAIN patterns : /\ patterns[i] = x /\ \A j \in 1..(i - 1) : patterns[j] # x
                                    /\ patterns' = RemoveAt(patterns, i)
       \/ ~Contains(patterns, x) /\ UNCHANGED patterns
    /\ UNCHANGED <<ips, apps, domains, ports>>

Unblock == \/ \E x \in IPs : RemoveIP(x)
           \/ \E x \in Apps : RemoveApp(x)
           \/ \E x \in Names : RemoveDomain(x)
           \/ \E x \in Wilds : RemovePattern(x)
           \/ \E x \in Ports : RemovePort(x)

(* The calls in progress see a change of the rules (history). *)
Observe == LET Inside(c) == cpc[c] # "out"
           IN /\ UNCHANGED <<cpc, query, verdict>>
              /\ always' = [c \in Checkers |-> IF Inside(c) THEN always[c] \cap Matching(query[c])'
                                                            ELSE always[c]]
              /\ ever' = [c \in Checkers |-> IF Inside(c) THEN ever[c] \cup Matching(query[c])'
                                                          ELSE ever[c]]

Edit == /\ wpc = "out"
        /\ Block \/ Unblock
        /\ clean' = FALSE
        /\ UNCHANGED <<wpc, todo, file, saved, whole>>
        /\ Observe

-----------------------------------------------------------------------------
(* The main thread: clearAll(), one category after the other *)

ClearIPs == /\ wpc = "out" /\ wpc' = "clearApps"
            /\ ips' = {} /\ clean' = FALSE
            /\ UNCHANGED <<apps, domains, patterns, ports, todo, file, saved, whole>>
            /\ Observe

ClearApps == /\ wpc = "clearApps" /\ wpc' = "clearDomains"
             /\ apps' = {}
             /\ UNCHANGED <<ips, domains, patterns, ports, todo, file, saved, whole, clean>>
             /\ Observe

ClearDomains == /\ wpc = "clearDomains" /\ wpc' = "clearPorts"
                /\ domains' = {} /\ patterns' = <<>>
                /\ UNCHANGED <<ips, apps, ports, todo, file, saved, whole, clean>>
                /\ Observe

ClearPorts == /\ wpc = "clearPorts" /\ wpc' = "out"
              /\ ports' = {}
              /\ UNCHANGED <<ips, apps, domains, patterns, todo, file, saved, whole, clean>>
              /\ Observe

-----------------------------------------------------------------------------
(* The main thread: saveRules() and loadRules().  A file that cannot be    *)
(* opened changes nothing.                                                 *)

(* ipToString() and parseIP(): the octets, lowest first. *)
IpToString(x) == <<x % 256, (x \div 256) % 256, (x \div 65536) % 256, x \div 16777216>>
ParseIP(t) == t[1] + 256 * t[2] + 65536 * t[3] + 16777216 * t[4]

(* Opening the file for writing empties it.  The text goes through a       *)
(* buffer: until saveRules() has returned only Restart sees what is there. *)
SaveOpen == /\ wpc = "out" /\ wpc' = "saveIPs"
            /\ file' = Nothing /\ whole' = FALSE
            /\ UNCHANGED <<ips, apps, domains, patterns, ports, todo, saved, clean, checkerVars>>

SaveIPs == /\ wpc = "saveIPs" /\ wpc' = "saveApps"
           /\ file' = [file EXCEPT !.ips = {IpToString(x) : x \in ips}]
           /\ UNCHANGED <<ips, apps, domains, patterns, ports, todo, saved, whole, clean, checkerVars>>

SaveApps == /\ wpc = "saveApps" /\ wpc' = "saveDomains"
            /\ file' = [file EXCEPT !.apps = {AppName[x] : x \in apps}]
            /\ UNCHANGED <<ips, apps, domains, patterns, ports, todo, saved, whole, clean, checkerVars>>

(* Fault: the patterns are not written. *)
SaveDomains_ExactOnly ==
    /\ wpc = "saveDomains" /\ wpc' = "savePorts"
    /\ file' = [file EXCEPT !.domains = domains]
    /\ UNCHANGED <<ips, apps, domains, patterns, ports, todo, saved, whole, clean, checkerVars>>

SaveDomains ==
    /\ wpc = "saveDomains" /\ wpc' = "savePorts"
    /\ file' = [file EXCEPT !.domains = domains, !.patterns = patterns]
    /\ UNCHANGED <<ips, apps, domains, patterns, ports, todo, saved, whole, clean, checkerVars>>

SavePorts == /\ wpc = "savePorts" /\ wpc' = "out"
             /\ file' = [file EXCEPT !.ports = ports] /\ saved' = Rules /\ whole' = TRUE
             /\ UNCHANGED <<ips, apps, domains, patterns, ports, todo, clean, checkerVars>>

(* The rules in force stay: loadRules() adds to them. *)
LoadOpen == /\ wpc = "out" /\ file # NoFile
            /\ Size(Rules) + Size(file) <= MaxRules
            /\ wpc' = "load" /\ todo' = file
            /\ UNCHANGED <<ips, apps, domains, patterns, ports, file, saved, whole, clean, checkerVars>>

(* Fault: the first octet is packed highest. *)
LoadIP_BigEndian == \E t \in todo.ips : /\ AddIP(ParseIP(Reverse(t)))
                                        /\ todo' = [todo EXCEPT !.ips = @ \ {t}]

LoadIP == \E t \in todo.ips : AddIP(ParseIP(t)) /\ todo' = [todo EXCEPT !.ips = @ \ {t}]

NoRule == UNCHANGED <<ips, apps, domains, patterns, ports>>

(* A line that is the name of no application is passed over. *)
LoadApp == /\ todo.ips = {}
           /\ \E t \in todo.apps : /\ \/ \E x \in Apps : AppName[x] = t /\ AddApp(x)
                                      \/ (\A x \in Apps : AppName[x] # t) /\ NoRule
                                   /\ todo' = [todo EXCEPT !.apps = @ \ {t}]

(* A line that begins with a bracket is taken for the header of a section; *)
(* no domain is spelled like one of the four.                              *)
IsHeader(d) == d # <<>> /\ d[1] # "" /\ SubSeq(d[1], 1, 1) = "["

(* An empty line is passed over; behind a header that is none, so is all   *)
(* that is left of the section.                                            *)
LoadDomain ==
    /\ todo.ips = {} /\ todo.apps = {}
    /\ \E t \in todo.domains :
          \/ /\ t # <<>> /\ ~IsHeader(t) /\ BlockDomain(t, FALSE)
             /\ todo' = [todo EXCEPT !.domains = @ \ {t}]
          \/ /\ t = <<>> /\ NoRule
             /\ todo' = [todo EXCEPT !.domains = @ \ {t}]
          \/ /\ IsHeader(t) /\ NoRule
             /\ todo' = [todo EXCEPT !.domains = {}, !.patterns = <<>>]

LoadPattern == /\ todo.ips = {} /\ todo.apps = {} /\ todo.domains = {} /\ todo.patterns # <<>>
               /\ BlockDomain(Head(todo.patterns), TRUE)
               /\ todo' = [todo EXCEPT !.patterns = Tail(@)]

LoadPort == /\ todo.ips = {} /\ todo.apps = {} /\ todo.domains = {} /\ todo.patterns = <<>>
            /\ \E t \in todo.ports : AddPort(t) /\ todo' = [todo EXCEPT !.ports = @ \ {t}]

LoadLine == /\ wpc = "load"
            /\ LoadIP \/ LoadApp \/ LoadDomain \/ LoadPattern \/ LoadPort
            /\ UNCHANGED <<wpc, file, saved, whole, clean>>
            /\ Observe

LoadDone == /\ wpc = "load" /\ todo = Nothing
            /\ wpc' = "out"
            /\ UNCHANGED <<ips, apps, domains, patterns, ports, todo, file, saved, whole, clean,
                           checkerVars>>

-----------------------------------------------------------------------------
(* The process ends and starts again without rules.  Inside saveRules() it *)
(* leaves any beginning of the text behind: whole sections, a part of one  *)
(* and, as the last line, what was left of a line.                         *)

(* What a line that is cut short may be read as: octets, digits, letters   *)
(* or labels are missing at its end.                                       *)
CutIP(t) == {c \in UNION {{[j \in 1..4 |-> IF j < i THEN t[j] ELSE IF j = i THEN v ELSE 0] :
                              v \in {t[i], t[i] \div 10, t[i] \div 100}} : i \in 1..4} :
                c[1] = 0 => t[1] = 0}
CutPort(p) == {p \div 10, p \div 100, p \div 1000, p \div 10000} \ {0}
CutText(s) == {SubSeq(s, 1, n) : n \in 0..(Len(s) - 1)}
CutName(d) == (UNION {{Append(SubSeq(d, 1, k - 1), l) : l \in CutText(d[k]) \cup {d[k]}} :
                          k \in DOMAIN d}) \ {d, <<"">>}

(* The asterisk that is left of a pattern is an exact name; with its dot   *)
(* it is the pattern of the empty name.                                    *)
CutPattern(w) == (CutName(w) \cup {<<"">>}) \ {w}
Asterisk == <<"*">>

(* The rules of a cut line are rules that could be made by a call. *)
ASSUME CutsAssumption ==
    /\ \A x \in IPs : \A t \in CutIP(IpToString(x)) : ParseIP(t) \in IPs
    /\ \A p \in Ports : CutPort(p) \subseteq Ports
    /\ \A a \in DOMAIN AppName, x \in Apps : AppName[a] \in CutText(AppName[x]) => a \in Apps
    /\ \A d \in Names : CutName(d) \subseteq Names
    /\ \A w \in Wilds : CutPattern(w) \subseteq Wilds /\ Asterisk \in Names

(* What may be there of the lines of a section. *)
Part(lines, Cut(_)) ==
    (SUBSET lines)
    \cup UNION {{some \cup {c} : c \in Cut(l), some \in SUBSET (lines \ {l})} : l \in lines}

TornDomains == {[file EXCEPT !.domains = d] : d \in Part(domains, CutName)}
TornAt(n) ==
    LET front == SubSeq(patterns, 1, n - 1)
    IN {[file EXCEPT !.domains = d, !.patterns = front] : d \in {domains, domains \cup {Asterisk}}}
       \cup {[file EXCEPT !.domains = domains, !.patterns = Append(front, w)] :
                w \in CutPattern(patterns[n]) \cup {patterns[n]}}
TornPatterns == UNION {TornAt(n) : n \in DOMAIN patterns}

(* The files an end inside saveRules() may leave: the section in hand is    *)
(* there in part.  When less has left the buffer, the file is that of an   *)
(* earlier end.                                                            *)
TornFiles ==
    CASE wpc = "saveIPs"     -> {[file EXCEPT !.ips = t] :
                                    t \in Part({IpToString(x) : x \in ips}, CutIP)}
      [] wpc = "saveApps"    -> {[file EXCEPT !.apps = t] :
                                    t \in Part({AppName[x] : x \in apps}, CutText)}
      [] wpc = "saveDomains" -> TornDomains \cup TornPatterns
      [] wpc = "savePorts"   -> {[file EXCEPT !.ports = t] : t \in Part(ports, CutPort)}
      [] OTHER               -> {file}

Restart == /\ file' \in TornFiles
           /\ ips' = {} /\ apps' = {} /\ domains' = {} /\ patterns' = <<>> /\ ports' = {}
           /\ wpc' = "out" /\ todo' = Nothing /\ clean' = TRUE
           /\ cpc' = [c \in Checkers |-> "out"]
           /\ verdict' = [c \in Checkers |-> "none"]
           /\ always' = [c \in Checkers |-> {}] /\ ever' = [c \in Checkers |-> {}]
           /\ UNCHANGED <<query, saved, whole>>

-----------------------------------------------------------------------------
ClearAll  == ClearIPs \/ ClearApps \/ ClearDomains \/ ClearPorts
SaveRules == SaveOpen \/ SaveIPs \/ SaveApps \/ SaveDomains \/ SavePorts
LoadRules == LoadOpen \/ LoadLine \/ LoadDone

ShouldBlock(c) == Check(c) \/ \E q \in Queries : Call(c, q)

Next == \/ \E c \in Checkers : ShouldBlock(c)
        \/ Edit \/ ClearAll \/ SaveRules \/ LoadRules
        \/ Restart

Spec == Init /\ [][Next]_vars

-----------------------------------------------------------------------------
(* Properties *)

(* Types: whatever comes back from the file, cut anywhere, is a rule of its *)
(* kind, a wildcard stays one and an address has its octets in place.      *)
TypeOK ==
    /\ ips \subseteq IPs /\ apps \subseteq Apps /\ ports \subseteq Ports
    /\ domains \subseteq Names /\ patterns \in Seq(Wilds)
    /\ wpc \in {"out", "clearApps", "clearDomains", "clearPorts", "saveIPs", "saveApps",
                "saveDomains", "savePorts", "load"}
    /\ cpc \in [Checkers -> Categories \cup {"out"}]
    /\ query \in [Checkers -> Queries]
    /\ verdict \in [Checkers -> Categories \cup {"forward", "none"}]
    /\ always \in [Checkers -> SUBSET Categories]
    /\ ever \in [Checkers -> SUBSET Categories]

(* shouldBlock() reads the four categories one after the other while they  *)
(* change.  A packet is forwarded only if no category had a rule for it    *)
(* throughout the call; it is blocked for a category that had one during   *)
(* the call, and no category of higher priority had one throughout.        *)
VerdictExplained ==
    \A c \in Checkers :
        /\ verdict[c] = "forward" => always[c] = {}
        /\ verdict[c] \in Categories =>
              /\ verdict[c] \in ever[c]
              /\ \A k \in always[c] : Order[verdict[c]] <= Order[k]

(* What the text of rules gives back: everything but an empty domain, and  *)
(* of the domains and patterns a part when a domain reads like a header.   *)
Restored(r) ==
    /\ ips = r.ips /\ apps = r.apps /\ ports = r.ports
    /\ domains \subseteq r.domains /\ Range(patterns) \subseteq Range(r.patterns)
    /\ (\A d \in r.domains : ~IsHeader(d)) =>
          domains = r.domains \ {<<>>} /\ Range(patterns) = Range(r.patterns)

(* A load into an engine whose rules came from nowhere else restores the   *)
(* rules of the last complete save, whatever ended the process since then, *)
(* provided that no later save was begun and not finished: saveRules()     *)
(* empties the file first, so a process that ends inside it has lost them, *)
(* against rule_manager.h:33, "so rules survive engine restarts".          *)
RestoredAsSaved == [][LoadDone /\ clean /\ whole => Restored(saved)]_vars
=============================================================================
