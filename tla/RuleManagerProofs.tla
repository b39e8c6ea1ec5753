------------------------- MODULE RuleManagerProofs -------------------------
(***************************************************************************)
(* Proofs about RuleManager for any number of threads that ask, any rules  *)
(* and any queries.                                                        *)
(***************************************************************************)
EXTENDS RuleManager, TLAPS

(* The rules in force. *)
RulesOK == /\ ips \subseteq IPs /\ apps \subseteq Apps /\ ports \subseteq Ports
           /\ domains \subseteq Names /\ patterns \in Seq(Wilds)

(* The main thread's next step. *)
WriterPC == wpc \in {"out", "clearApps", "clearDomains", "clearPorts", "saveIPs", "saveApps",
                    "saveDomains", "savePorts", "load"}

(* What the threads that ask keep. *)
CheckersOK == /\ cpc \in [Checkers -> Categories \cup {"out"}]
              /\ query \in [Checkers -> Queries]
              /\ verdict \in [Checkers -> Categories \cup {"forward", "none"}]
              /\ always \in [Checkers -> SUBSET Categories]
              /\ ever \in [Checkers -> SUBSET Categories]

(* The lines of addresses and of applications, cut short or not. *)
IPLines  == {IpToString(x) : x \in IPs} \cup UNION {CutIP(IpToString(x)) : x \in IPs}
AppLines == {AppName[x] : x \in Apps} \cup UNION {CutText(AppName[x]) : x \in Apps}

(* The text of the rules: what a file may hold. *)
FileType == [ips : SUBSET IPLines,
             apps : SUBSET AppLines,
             domains : SUBSET Names,
             patterns : Seq(Wilds),
             ports : SUBSET Ports]

FileOK == /\ todo \in FileType
          /\ file # NoFile => file \in FileType
          /\ wpc \in {"saveIPs", "saveApps", "saveDomains", "savePorts"} => file \in FileType

(* What a call in progress knows: the rules that are there now were there  *)
(* at some moment, those that were there throughout are there now, and no  *)
(* category it went past had a rule throughout.                            *)
CallOK(c) == cpc[c] \in Categories =>
                /\ always[c] \subseteq Matching(query[c])
                /\ Matching(query[c]) \subseteq ever[c]
                /\ \A k \in always[c] : Order[cpc[c]] <= Order[k]
                /\ verdict[c] = "none"

(* What a thread that asks depends on. *)
AskInv == CheckersOK /\ (\A c \in Checkers : CallOK(c)) /\ VerdictExplained

IInv == RulesOK /\ WriterPC /\ FileOK /\ AskInv

-----------------------------------------------------------------------------
(* Operators *)

LEMMA FourCategories ==
    /\ Categories = {"ip", "port", "app", "domain"}
    /\ Order["ip"] = 1 /\ Order["port"] = 2 /\ Order["app"] = 3 /\ Order["domain"] = 4
    /\ "out" \notin Categories /\ "none" \notin Categories /\ "forward" \notin Categories
BY DEF Categories, Order

LEMMA MatchingType == \A q : Matching(q) \subseteq Categories
BY DEF Matching

(* parseIP() undoes ipToString(). *)
LEMMA IPRoundTrip == ASSUME NEW x \in IPs PROVE ParseIP(IpToString(x)) = x
<1> DEFINE b0 == x % 256
           r1 == x \div 256
           b1 == r1 % 256
           r2 == x \div 65536
           b2 == r2 % 256
           r3 == x \div 16777216
<1>1. x \in Nat
  BY IPsAssumption
<1>2. /\ b0 \in Nat /\ b1 \in Nat /\ b2 \in Nat /\ r3 \in Nat
      /\ x = b0 + 256 * b1 + 65536 * b2 + 16777216 * r3
  BY <1>1, SMTT(60)
<1>3. IpToString(x) = <<b0, b1, b2, r3>>
  BY DEF IpToString
<1> HIDE DEF b0, b1, b2, r1, r2, r3
<1> QED
  BY <1>2, <1>3 DEF ParseIP

(* Nor does a cut line give anything but an address. *)
LEMMA LineIsAddress == ASSUME NEW t \in IPLines PROVE ParseIP(t) \in IPs
BY IPRoundTrip, CutsAssumption DEF IPLines

(* Erasing an element leaves a sequence. *)
LEMMA RemoveAtType ==
    ASSUME NEW S, NEW s \in Seq(S), NEW i \in DOMAIN s
    PROVE  RemoveAt(s, i) \in Seq(S)
<1>1. i \in 1..Len(s)
  OBVIOUS
<1>2. SubSeq(s, 1, i - 1) \in Seq(S) /\ SubSeq(s, i + 1, Len(s)) \in Seq(S)
  BY <1>1
<1> QED
  BY <1>2 DEF RemoveAt

(* Matching depends on nothing but the rules. *)
LEMMA MatchingSame ==
    ASSUME UNCHANGED <<ips, apps, domains, patterns, ports>>, NEW q
    PROVE  Matching(q)' = Matching(q)
BY DEF Matching, Matches, IsDomainBlocked

-----------------------------------------------------------------------------
(* The threads that ask *)

(* A change of the rules that the calls in progress see. *)
LEMMA ObserveKeeps == ASSUME AskInv, Observe PROVE AskInv'
<1>1. CheckersOK'
  <2>1. \A q : Matching(q)' \subseteq Categories
    BY DEF Matching
  <2>2. CheckersOK /\ UNCHANGED <<cpc, query, verdict>>
    BY DEF AskInv, Observe
  <2>3. always' \in [Checkers -> SUBSET Categories]
    BY <2>1, <2>2 DEF CheckersOK, Observe
  <2>4. ever' \in [Checkers -> SUBSET Categories]
    BY <2>1, <2>2 DEF CheckersOK, Observe
  <2> QED
    BY <2>2, <2>3, <2>4 DEF CheckersOK
<1>2. ASSUME NEW c \in Checkers PROVE CallOK(c)'
  <2>1. CASE cpc[c] = "out"
    BY <2>1, FourCategories DEF CallOK, Observe
  <2>2. CASE cpc[c] # "out"
    <3>1. always'[c] = always[c] \cap Matching(query[c])' /\ ever'[c] = ever[c] \cup Matching(query[c])'
      BY <2>2 DEF Observe
    <3>2. query' = query /\ cpc' = cpc /\ verdict' = verdict
      BY DEF Observe
    <3>3. CallOK(c) /\ cpc[c] \in Categories
      BY <2>2 DEF AskInv, CheckersOK
    <3> QED
      BY <3>1, <3>2, <3>3 DEF CallOK
  <2> QED
    BY <2>1, <2>2
<1>3. VerdictExplained'
  <2>1. ASSUME NEW c \in Checkers
        PROVE  \/ verdict'[c] = "none"
               \/ verdict'[c] = verdict[c] /\ always'[c] = always[c] /\ ever'[c] = ever[c]
    BY DEF AskInv, CheckersOK, CallOK, Observe
  <2> QED
    BY <2>1, FourCategories DEF AskInv, VerdictExplained
<1> QED
  BY <1>1, <1>2, <1>3 DEF AskInv

(* A step that touches neither the rules nor the threads. *)
LEMMA SilentKeeps ==
    ASSUME AskInv, UNCHANGED <<ips, apps, domains, patterns, ports, checkerVars>>
    PROVE  AskInv'
<1>1. \A q : Matching(q)' = Matching(q)
  BY MatchingSame
<1>2. UNCHANGED <<cpc, query, verdict, always, ever>>
  BY DEF checkerVars
<1>3. \A c \in Checkers : CallOK(c)'
  BY <1>1, <1>2 DEF AskInv, CallOK
<1> QED
  BY <1>2, <1>3 DEF AskInv, CheckersOK, VerdictExplained

(* Entering shouldBlock(). *)
LEMMA CallKeeps ==
    ASSUME AskInv, NEW d \in Checkers, NEW q \in Queries, Call(d, q)
    PROVE  AskInv'
<1>1. \A r : Matching(r)' = Matching(r)
  BY MatchingSame DEF Call
<1>2. CheckersOK'
  BY MatchingType, FourCategories DEF AskInv, CheckersOK, Call
<1>3. ASSUME NEW c \in Checkers PROVE CallOK(c)'
  <2>1. CASE c = d
    <3>1. /\ cpc'[c] = "ip" /\ query'[c] = q /\ verdict'[c] = "none"
          /\ always'[c] = Matching(q) /\ ever'[c] = Matching(q)
      BY <2>1 DEF Call, AskInv, CheckersOK
    <3>2. \A k \in Matching(q) : Order["ip"] <= Order[k]
      BY MatchingType, FourCategories
    <3> QED
      BY <1>1, <3>1, <3>2 DEF CallOK
  <2>2. CASE c # d
    <3>1. /\ cpc'[c] = cpc[c] /\ query'[c] = query[c] /\ verdict'[c] = verdict[c]
          /\ always'[c] = always[c] /\ ever'[c] = ever[c]
      BY <2>2 DEF Call, AskInv, CheckersOK
    <3> QED
      BY <1>1, <3>1 DEF CallOK, AskInv
  <2> QED
    BY <2>1, <2>2
<1>4. VerdictExplained'
  <2>1. ASSUME NEW c \in Checkers
        PROVE  \/ verdict'[c] = "none"
               \/ verdict'[c] = verdict[c] /\ always'[c] = always[c] /\ ever'[c] = ever[c]
    BY DEF AskInv, CheckersOK, Call
  <2> QED
    BY <2>1, FourCategories DEF AskInv, VerdictExplained
<1> QED
  BY <1>2, <1>3, <1>4 DEF AskInv

(* One look at one category. *)
LEMMA CheckKeeps == ASSUME AskInv, NEW d \in Checkers, Check(d) PROVE AskInv'
<1> DEFINE k == cpc[d]
<1>1. \A r : Matching(r)' = Matching(r)
  BY MatchingSame DEF Check
<1>2. /\ k \in Categories /\ query' = query /\ always' = always /\ ever' = ever
      /\ IF Matches(k, query[d]) THEN Return(d, k) ELSE GoOn(d, k)
  BY DEF Check
<1>3. CheckersOK /\ CallOK(d) /\ query[d] \in Queries
  BY DEF AskInv, CheckersOK
<1>4. ASSUME NEW c \in Checkers, c # d
      PROVE  cpc'[c] = cpc[c] /\ verdict'[c] = verdict[c]
  BY <1>2, <1>3, <1>4 DEF CheckersOK, Return, GoOn
<1>5. /\ always[d] \subseteq Matching(query[d]) /\ Matching(query[d]) \subseteq ever[d]
      /\ \A n \in always[d] : Order[k] <= Order[n]
      /\ verdict[d] = "none"
  BY <1>2, <1>3 DEF CallOK
<1>6. \/ /\ Matches(k, query[d])
         /\ cpc' = [cpc EXCEPT ![d] = "out"] /\ verdict' = [verdict EXCEPT ![d] = k]
      \/ /\ ~Matches(k, query[d])
         /\ \E n \in Categories : Order[n] = Order[k] + 1 /\ cpc' = [cpc EXCEPT ![d] = n]
         /\ verdict' = verdict
      \/ /\ ~Matches(k, query[d]) /\ Order[k] = 4
         /\ cpc' = [cpc EXCEPT ![d] = "out"] /\ verdict' = [verdict EXCEPT ![d] = "forward"]
  BY <1>2 DEF Return, GoOn
<1> HIDE DEF k
<1>7. CheckersOK'
  BY <1>2, <1>3, <1>6 DEF CheckersOK
<1>8. ASSUME ~Matches(k, query[d])
      PROVE  k \notin always[d]
  BY <1>2, <1>5, <1>8 DEF Matching
<1>9. CallOK(d)' /\ (verdict'[d] = "forward" => always[d] = {})
      /\ (verdict'[d] \in Categories => /\ verdict'[d] \in ever[d]
                                        /\ \A n \in always[d] : Order[verdict'[d]] <= Order[n])
  <2>1. CASE Matches(k, query[d])
    <3>1. cpc'[d] = "out" /\ verdict'[d] = k
      BY <1>3, <1>6, <2>1 DEF CheckersOK
    <3>2. k \in ever[d]
      BY <1>2, <1>5, <2>1 DEF Matching
    <3> QED
      BY <1>2, <1>5, <3>1, <3>2, FourCategories DEF CallOK
  <2>2. CASE ~Matches(k, query[d]) /\ verdict' = verdict
    <3>1. PICK n \in Categories : Order[n] = Order[k] + 1 /\ cpc' = [cpc EXCEPT ![d] = n]
      BY <1>3, <1>5, <1>6, <2>2, FourCategories DEF CheckersOK
    <3>2. cpc'[d] = n /\ verdict'[d] = "none" /\ query'[d] = query[d]
      BY <1>2, <1>3, <1>5, <2>2, <3>1 DEF CheckersOK
    <3>3. \A m \in always[d] : m \in Categories /\ m # k
      BY <1>3, <1>8, <2>2 DEF CheckersOK
    <3>4. \A m \in always[d] : Order[n] <= Order[m]
      BY <1>2, <1>5, <3>1, <3>3, FourCategories
    <3>5. \A m \in always'[d] : Order[cpc'[d]] <= Order[m]
      BY <1>2, <3>2, <3>4
    <3>6. always'[d] \subseteq Matching(query[d])' /\ Matching(query[d])' \subseteq ever'[d]
      BY <1>1, <1>2, <1>5
    <3> QED
      BY <3>2, <3>5, <3>6, FourCategories DEF CallOK
  <2>3. CASE ~Matches(k, query[d]) /\ Order[k] = 4 /\ cpc'[d] = "out" /\ verdict'[d] = "forward"
    <3>1. \A m \in always[d] : m \in Categories /\ m # k /\ Order[k] <= Order[m]
      BY <1>3, <1>5, <1>8, <2>3 DEF CheckersOK
    <3>2. always[d] = {}
      BY <1>2, <2>3, <3>1, FourCategories
    <3> QED
      BY <2>3, <3>2, FourCategories DEF CallOK
  <2> QED
    BY <1>3, <1>6, <2>1, <2>2, <2>3 DEF CheckersOK
<1>10. ASSUME NEW c \in Checkers PROVE CallOK(c)'
  <2>1. CASE c = d
    BY <1>9, <2>1
  <2>2. CASE c # d
    <3>1. cpc'[c] = cpc[c] /\ verdict'[c] = verdict[c] /\ CallOK(c)
      BY <1>4, <2>2 DEF AskInv
    <3> QED
      BY <1>1, <1>2, <3>1 DEF CallOK
  <2> QED
    BY <2>1, <2>2
<1>11. VerdictExplained'
  BY <1>2, <1>4, <1>9 DEF AskInv, VerdictExplained
<1> QED
  BY <1>7, <1>10, <1>11 DEF AskInv

-----------------------------------------------------------------------------
(* The main thread *)

LEMMA EditKeeps == ASSUME IInv, Edit PROVE IInv'
<1>1. UNCHANGED <<wpc, todo, file>> /\ Observe /\ (Block \/ Unblock) /\ RulesOK
  BY DEF Edit, IInv
<1>2. RulesOK'
  <2>1. CASE Block
    BY <1>1, <2>1 DEF RulesOK, Block, AddIP, AddApp, AddPort, BlockDomain, AddDomain, AddPattern
  <2>2. CASE Unblock
    <3>1. ASSUME NEW x \in Wilds, RemovePattern(x)
          PROVE  patterns' \in Seq(Wilds)
      BY <1>1, <3>1, RemoveAtType DEF RulesOK, RemovePattern
    <3>2. ASSUME NEW x \in Wilds, RemovePattern(x)
          PROVE  RulesOK'
      BY <1>1, <3>1, <3>2 DEF RulesOK, RemovePattern
    <3> QED
      BY <1>1, <2>2, <3>2 DEF RulesOK, Unblock, RemoveIP, RemoveApp, RemoveDomain, RemovePort
  <2> QED
    BY <1>1, <2>1, <2>2
<1>3. WriterPC' /\ FileOK'
  BY <1>1 DEF IInv, WriterPC, FileOK
<1> QED
  BY <1>1, <1>2, <1>3, ObserveKeeps DEF IInv

LEMMA ClearKeeps == ASSUME IInv, ClearAll PROVE IInv'
<1>1. Observe /\ UNCHANGED <<todo, file>>
  BY DEF ClearAll, ClearIPs, ClearApps, ClearDomains, ClearPorts
<1>2. RulesOK'
  <2>1. CASE ClearDomains
    BY <2>1 DEF IInv, RulesOK, ClearDomains
  <2>2. CASE ClearIPs \/ ClearApps \/ ClearPorts
    BY <2>2 DEF IInv, RulesOK, ClearIPs, ClearApps, ClearPorts
  <2> QED
    BY <2>1, <2>2 DEF ClearAll
<1>3. WriterPC' /\ FileOK'
  BY <1>1 DEF IInv, WriterPC, FileOK, ClearAll, ClearIPs, ClearApps, ClearDomains, ClearPorts
<1> QED
  BY <1>1, <1>2, <1>3, ObserveKeeps DEF IInv

(* No line, and nothing but lines that a rule was written as. *)
LEMMA NothingType == Nothing \in FileType
BY DEF Nothing, Section, FileType

LEMMA SaveKeeps == ASSUME IInv, SaveRules PROVE IInv'
<1>1. UNCHANGED <<ips, apps, domains, patterns, ports, todo, checkerVars>>
  BY DEF SaveRules, SaveOpen, SaveIPs, SaveApps, SaveDomains, SavePorts
<1>2. AskInv'
  BY <1>1, SilentKeeps DEF IInv
<1>3. RulesOK'
  BY <1>1 DEF IInv, RulesOK
<1>4. WriterPC'
  BY DEF WriterPC, SaveRules, SaveOpen, SaveIPs, SaveApps, SaveDomains, SavePorts
<1>5. file' \in FileType
  <2>1. CASE SaveOpen
    BY <2>1, NothingType DEF SaveOpen
  <2>2. CASE SaveIPs
    BY <2>2 DEF SaveIPs, IInv, FileOK, RulesOK, FileType, IPLines
  <2>3. CASE SaveApps
    BY <2>3 DEF SaveApps, IInv, FileOK, RulesOK, FileType, AppLines
  <2>4. CASE SaveDomains
    BY <2>4 DEF SaveDomains, IInv, FileOK, RulesOK, FileType
  <2>5. CASE SavePorts
    BY <2>5 DEF SavePorts, IInv, FileOK, RulesOK, FileType
  <2> QED
    BY <2>1, <2>2, <2>3, <2>4, <2>5 DEF SaveRules
<1>6. FileOK'
  BY <1>1, <1>5 DEF IInv, FileOK
<1> QED
  BY <1>2, <1>3, <1>4, <1>6 DEF IInv

(* What becomes of a line of the domain section. *)
LoadDomainLine(t) ==
    \/ /\ t # <<>> /\ ~IsHeader(t)
       /\ domains' = domains \cup {t} /\ UNCHANGED <<ips, apps, patterns, ports>>
       /\ todo' = [todo EXCEPT !.domains = @ \ {t}]
    \/ t = <<>> /\ NoRule /\ todo' = [todo EXCEPT !.domains = @ \ {t}]
    \/ IsHeader(t) /\ NoRule /\ todo' = [todo EXCEPT !.domains = {}, !.patterns = <<>>]

LEMMA DomainLine == ASSUME LoadDomain PROVE \E t \in todo.domains : LoadDomainLine(t)
BY DEF LoadDomain, LoadDomainLine, BlockDomain, AddDomain

LEMMA LoadLineKeeps == ASSUME IInv, LoadLine PROVE IInv'
<1>1. UNCHANGED <<wpc, file>> /\ Observe /\ RulesOK /\ todo \in FileType
  BY DEF LoadLine, IInv, FileOK
<1>2. RulesOK' /\ todo' \in FileType
  <2>1. CASE LoadIP
    <3>1. PICK t \in todo.ips : AddIP(ParseIP(t)) /\ todo' = [todo EXCEPT !.ips = @ \ {t}]
      BY <2>1 DEF LoadIP
    <3>2. ParseIP(t) \in IPs
      BY <1>1, LineIsAddress DEF FileType
    <3>3. RulesOK'
      BY <1>1, <3>1, <3>2 DEF RulesOK, AddIP
    <3> QED
      BY <1>1, <3>1, <3>3 DEF FileType
  <2>2. CASE LoadApp
    BY <1>1, <2>2 DEF LoadApp, AddApp, NoRule, RulesOK, FileType
  <2>3. CASE LoadDomain
    <3>1. PICK t \in todo.domains : LoadDomainLine(t)
      BY <2>3, DomainLine
    <3>2. CASE todo' = [todo EXCEPT !.domains = @ \ {t}]
      BY <1>1, <3>1, <3>2 DEF LoadDomainLine, NoRule, RulesOK, FileType
    <3>3. CASE IsHeader(t) /\ NoRule /\ todo' = [todo EXCEPT !.domains = {}, !.patterns = <<>>]
      <4>1. <<>> \in Seq(Wilds)
        OBVIOUS
      <4> QED
        BY <1>1, <3>3, <4>1 DEF NoRule, RulesOK, FileType
    <3> QED
      BY <3>1, <3>2, <3>3 DEF LoadDomainLine
  <2>4. CASE LoadPattern
    <3>1. Head(todo.patterns) \in Wilds /\ Tail(todo.patterns) \in Seq(Wilds)
      BY <1>1, <2>4 DEF LoadPattern, FileType
    <3>2. /\ patterns' = Append(patterns, Head(todo.patterns))
          /\ UNCHANGED <<ips, apps, domains, ports>>
      BY <2>4 DEF LoadPattern, BlockDomain, AddPattern
    <3>3. patterns' \in Seq(Wilds)
      BY <1>1, <3>1, <3>2 DEF RulesOK
    <3>4. RulesOK'
      BY <1>1, <3>2, <3>3 DEF RulesOK
    <3>5. todo' \in FileType
      BY <1>1, <2>4, <3>1 DEF LoadPattern, FileType
    <3> QED
      BY <3>4, <3>5
  <2>5. CASE LoadPort
    BY <1>1, <2>5 DEF LoadPort, AddPort, RulesOK, FileType
  <2> QED
    BY <2>1, <2>2, <2>3, <2>4, <2>5 DEF LoadLine
<1>3. WriterPC' /\ FileOK'
  BY <1>1, <1>2 DEF IInv, WriterPC, FileOK
<1> QED
  BY <1>1, <1>2, <1>3, ObserveKeeps DEF IInv

LEMMA LoadKeeps == ASSUME IInv, LoadRules PROVE IInv'
<1>1. CASE LoadLine
  BY <1>1, LoadLineKeeps
<1>2. CASE LoadOpen \/ LoadDone
  <2>1. UNCHANGED <<ips, apps, domains, patterns, ports, file, checkerVars>>
    BY <1>2 DEF LoadOpen, LoadDone
  <2>2. AskInv'
    BY <2>1, SilentKeeps DEF IInv
  <2>3. RulesOK' /\ WriterPC' /\ FileOK'
    BY <1>2, <2>1 DEF IInv, RulesOK, WriterPC, FileOK, LoadOpen, LoadDone
  <2> QED
    BY <2>2, <2>3 DEF IInv
<1> QED
  BY <1>1, <1>2 DEF LoadRules

(* A file that an end inside saveRules() leaves holds lines, cut or not, *)
(* of the rules in force.                                                *)
LEMMA TornType ==
    ASSUME IInv, NEW f \in TornFiles, wpc \in {"saveIPs", "saveApps", "saveDomains", "savePorts"}
    PROVE  f \in FileType
<1>1. file \in FileType /\ RulesOK
  BY DEF IInv, FileOK
<1>2. CASE wpc = "saveIPs"
  <2>1. PICK t \in Part({IpToString(x) : x \in ips}, CutIP) : f = [file EXCEPT !.ips = t]
    BY <1>2 DEF TornFiles
  <2>2. t \subseteq IPLines
    BY <1>1, <2>1 DEF Part, IPLines, RulesOK
  <2> QED
    BY <1>1, <2>1, <2>2 DEF FileType
<1>3. CASE wpc = "saveApps"
  <2>1. PICK t \in Part({AppName[x] : x \in apps}, CutText) : f = [file EXCEPT !.apps = t]
    BY <1>3 DEF TornFiles
  <2>2. t \subseteq AppLines
    BY <1>1, <2>1 DEF Part, AppLines, RulesOK
  <2> QED
    BY <1>1, <2>1, <2>2 DEF FileType
<1>4. CASE wpc = "saveDomains"
  <2>1. f \in TornDomains \/ f \in TornPatterns
    BY <1>4 DEF TornFiles
  <2>2. CASE f \in TornDomains
    <3>1. PICK d \in Part(domains, CutName) : f = [file EXCEPT !.domains = d]
      BY <2>2 DEF TornDomains
    <3>2. d \subseteq Names
      BY <1>1, <3>1, CutsAssumption DEF Part, RulesOK
    <3> QED
      BY <1>1, <3>1, <3>2 DEF FileType
  <2>3. CASE f \in TornPatterns
    <3>1. PICK n \in DOMAIN patterns : f \in TornAt(n)
      BY <2>3 DEF TornPatterns
    <3> DEFINE front == SubSeq(patterns, 1, n - 1)
    <3>2. PICK d, p : /\ f = [file EXCEPT !.domains = d, !.patterns = p]
                      /\ d \in {domains, domains \cup {Asterisk}}
                      /\ \/ p = front
                         \/ \E w \in CutPattern(patterns[n]) \cup {patterns[n]} : p = Append(front, w)
      BY <3>1 DEF TornAt
    <3>3. n \in 1..Len(patterns) /\ patterns[n] \in Wilds
      BY <1>1 DEF RulesOK
    <3>4. front \in Seq(Wilds)
      BY <1>1, <3>3 DEF RulesOK
    <3>5. CutPattern(patterns[n]) \subseteq Wilds /\ Asterisk \in Names
      BY <3>3, CutsAssumption
    <3> HIDE DEF front
    <3>6. p \in Seq(Wilds)
      BY <3>2, <3>3, <3>4, <3>5
    <3>7. d \subseteq Names
      BY <1>1, <3>2, <3>5 DEF RulesOK
    <3> QED
      BY <1>1, <3>2, <3>6, <3>7 DEF FileType
  <2> QED
    BY <2>1, <2>2, <2>3
<1>5. CASE wpc = "savePorts"
  <2>1. PICK t \in Part(ports, CutPort) : f = [file EXCEPT !.ports = t]
    BY <1>5 DEF TornFiles
  <2>2. t \subseteq Ports
    BY <1>1, <2>1, CutsAssumption DEF Part, RulesOK
  <2> QED
    BY <1>1, <2>1, <2>2 DEF FileType
<1> QED
  BY <1>2, <1>3, <1>4, <1>5

(* Outside of saveRules() the file stays. *)
LEMMA NotTorn ==
    ASSUME wpc \notin {"saveIPs", "saveApps", "saveDomains", "savePorts"}
    PROVE  TornFiles = {file}
BY DEF TornFiles

LEMMA RestartKeeps == ASSUME IInv, Restart PROVE IInv'
<1>1. RulesOK' /\ WriterPC'
  BY DEF Restart, RulesOK, WriterPC
<1>2. FileOK'
  <2>1. file' = file \/ file' \in FileType
    BY TornType, NotTorn DEF Restart
  <2> QED
    BY <2>1, NothingType DEF IInv, FileOK, Restart
<1>3. CheckersOK'
  BY DEF IInv, AskInv, CheckersOK, Restart
<1>4. (\A c \in Checkers : CallOK(c)') /\ VerdictExplained'
  BY FourCategories DEF CallOK, VerdictExplained, Restart
<1> QED
  BY <1>1, <1>2, <1>3, <1>4 DEF IInv, AskInv

-----------------------------------------------------------------------------
(* Theorems *)

(* The inductive invariant holds in every run, for any threads and calls. *)
THEOREM Inductive == Spec => []IInv
<1>1. Init => IInv
  <2> SUFFICES ASSUME Init PROVE IInv
    OBVIOUS
  <2>1. RulesOK /\ WriterPC
    BY DEF Init, NoRules, RulesOK, WriterPC
  <2>2. FileOK
    BY NothingType DEF Init, FileOK
  <2>3. CheckersOK
    BY DEF Init, CheckersOK
  <2>4. (\A c \in Checkers : CallOK(c)) /\ VerdictExplained
    BY FourCategories DEF Init, CallOK, VerdictExplained
  <2> QED
    BY <2>1, <2>2, <2>3, <2>4 DEF IInv, AskInv
<1>2. IInv /\ [Next]_vars => IInv'
  <2> SUFFICES ASSUME IInv, [Next]_vars PROVE IInv'
    OBVIOUS
  <2>1. ASSUME NEW c \in Checkers, ShouldBlock(c) PROVE IInv'
    <3>1. AskInv'
      BY <2>1, CheckKeeps, CallKeeps DEF ShouldBlock, IInv
    <3>2. UNCHANGED <<ips, apps, domains, patterns, ports, wpc, todo, file>>
      BY <2>1 DEF ShouldBlock, Check, Call
    <3> QED
      BY <3>1, <3>2 DEF IInv, RulesOK, WriterPC, FileOK
  <2>2. CASE UNCHANGED vars
    <3>1. UNCHANGED <<ips, apps, domains, patterns, ports, wpc, todo, file, checkerVars>>
      BY <2>2 DEF vars
    <3>2. AskInv'
      BY <3>1, SilentKeeps DEF IInv
    <3> QED
      BY <3>1, <3>2 DEF IInv, RulesOK, WriterPC, FileOK
  <2> QED
    BY <2>1, <2>2, EditKeeps, ClearKeeps, SaveKeeps, LoadKeeps, RestartKeeps DEF Next
<1> QED
  BY <1>1, <1>2, PTL DEF Spec

(* Types: every rule in force is one of its kind, also after the text of   *)
(* the file, which may have been cut anywhere, was read back.              *)
THEOREM TypeCorrect == Spec => []TypeOK
<1>1. IInv => TypeOK
  BY DEF IInv, RulesOK, WriterPC, AskInv, CheckersOK, TypeOK
<1> QED
  BY <1>1, Inductive, PTL

(* Every answer of shouldBlock() is explained by rules that were there     *)
(* during the call, for any number of threads and any changes.             *)
THEOREM AnswersAreExplained == Spec => []VerdictExplained
<1>1. IInv => VerdictExplained
  BY DEF IInv, AskInv
<1> QED
  BY <1>1, Inductive, PTL
-----------------------------------------------------------------------------
(* Saving and loading *)

RulesType == [ips : SUBSET IPs, apps : SUBSET Apps, domains : SUBSET Names,
              patterns : Seq(Wilds), ports : SUBSET Ports]

(* While a file is written, the sections that are there say what is in     *)
(* force, for nobody changes the rules meanwhile.                          *)
SavedSoFar ==
    /\ wpc \in {"saveIPs", "saveApps", "saveDomains", "savePorts"} => ~whole
    /\ wpc \in {"saveApps", "saveDomains", "savePorts"} => file.ips = {IpToString(x) : x \in ips}
    /\ wpc \in {"saveDomains", "savePorts"} => file.apps = {AppName[x] : x \in apps}
    /\ wpc = "savePorts" => file.domains = domains /\ file.patterns = patterns

(* A file that was written completely is the text of the rules saved. *)
FileIsSaved ==
    whole => /\ saved \in RulesType
             /\ file.ips = {IpToString(x) : x \in saved.ips}
             /\ file.apps = {AppName[x] : x \in saved.apps}
             /\ file.domains = saved.domains /\ file.patterns = saved.patterns
             /\ file.ports = saved.ports

(* Rules that only loads brought were saved, ... *)
OnlySaved == /\ ips \subseteq saved.ips /\ apps \subseteq saved.apps
             /\ domains \subseteq saved.domains /\ ports \subseteq saved.ports
             /\ Range(patterns) \subseteq Range(saved.patterns)

(* ... so were the lines a load still has to apply, ... *)
LinesSaved == /\ todo.ips \subseteq {IpToString(x) : x \in saved.ips}
              /\ todo.apps \subseteq {AppName[x] : x \in saved.apps}
              /\ todo.domains \subseteq saved.domains /\ todo.ports \subseteq saved.ports
              /\ Range(todo.patterns) \subseteq Range(saved.patterns)

(* ... and what was saved is in force or still to be applied, as far as    *)
(* the text of the domains can be read back.                               *)
AllComes == /\ \A x \in saved.ips : x \in ips \/ IpToString(x) \in todo.ips
            /\ \A x \in saved.apps : x \in apps \/ AppName[x] \in todo.apps
            /\ saved.ports \subseteq ports \cup todo.ports
            /\ (\A d \in saved.domains : ~IsHeader(d)) =>
                  /\ saved.domains \ {<<>>} \subseteq domains \cup todo.domains
                  /\ Range(saved.patterns) \subseteq Range(patterns) \cup Range(todo.patterns)

Loading == clean /\ whole => /\ OnlySaved
                             /\ wpc = "load" => LinesSaved /\ AllComes

(* A load brings no empty domain. *)
NoEmptyDomain == clean => <<>> \notin domains

SaveInv == SavedSoFar /\ FileIsSaved /\ Loading /\ NoEmptyDomain

(* Range over the empty, the appended and the split sequence. *)
LEMMA EmptyRange == Range(<<>>) = {}
BY DEF Range

LEMMA AppendRange ==
    ASSUME NEW S, NEW s \in Seq(S), NEW e \in S
    PROVE  Range(Append(s, e)) = Range(s) \cup {e}
<1>1. Range(Append(s, e)) \subseteq Range(s) \cup {e}
  BY DEF Range
<1>2. Range(s) \subseteq Range(Append(s, e))
  <2>1. \A i \in DOMAIN s : i \in DOMAIN Append(s, e) /\ Append(s, e)[i] = s[i]
    OBVIOUS
  <2> QED
    BY <2>1 DEF Range
<1>3. e \in Range(Append(s, e))
  <2>1. Len(s) + 1 \in DOMAIN Append(s, e) /\ Append(s, e)[Len(s) + 1] = e
    OBVIOUS
  <2> QED
    BY <2>1 DEF Range
<1> QED
  BY <1>1, <1>2, <1>3

LEMMA HeadTailRange ==
    ASSUME NEW S, NEW s \in Seq(S), s # <<>>
    PROVE  Range(s) = {Head(s)} \cup Range(Tail(s))
<1>1. Range(s) \subseteq {Head(s)} \cup Range(Tail(s))
  <2>1. ASSUME NEW i \in DOMAIN s
        PROVE  s[i] = Head(s) \/ \E j \in DOMAIN Tail(s) : Tail(s)[j] = s[i]
    <3>1. CASE i = 1
      BY <3>1
    <3>2. CASE i # 1
      <4>1. i - 1 \in DOMAIN Tail(s) /\ Tail(s)[i - 1] = s[i]
        BY <3>2
      <4> QED
        BY <4>1
    <3> QED
      BY <3>1, <3>2
  <2> QED
    BY <2>1 DEF Range
<1>2. Range(Tail(s)) \subseteq Range(s)
  <2>1. \A j \in DOMAIN Tail(s) : j + 1 \in DOMAIN s /\ s[j + 1] = Tail(s)[j]
    OBVIOUS
  <2> QED
    BY <2>1 DEF Range
<1>3. Head(s) \in Range(s)
  <2>1. 1 \in DOMAIN s /\ s[1] = Head(s)
    OBVIOUS
  <2> QED
    BY <2>1 DEF Range
<1> QED
  BY <1>1, <1>2, <1>3

(* A line of the file becomes the rule it was written for. *)
LEMMA LoadLineComes ==
    ASSUME IInv, LoadLine, saved \in RulesType, OnlySaved, LinesSaved, AllComes
    PROVE  (OnlySaved /\ LinesSaved /\ AllComes)'
<1>1. RulesOK /\ todo \in FileType /\ UNCHANGED saved
  BY DEF IInv, FileOK, LoadLine
<1>2. CASE LoadIP
  <2>1. PICK t \in todo.ips : AddIP(ParseIP(t)) /\ todo' = [todo EXCEPT !.ips = @ \ {t}]
    BY <1>2 DEF LoadIP
  <2>2. PICK x \in saved.ips : t = IpToString(x)
    BY DEF LinesSaved
  <2>3. ParseIP(t) = x
    BY <2>2, IPRoundTrip DEF RulesType
  <2>4. ips' = ips \cup {x} /\ UNCHANGED <<apps, domains, patterns, ports>>
    BY <2>1, <2>3 DEF AddIP
  <2>5. /\ todo'.ips = todo.ips \ {t} /\ todo'.apps = todo.apps /\ todo'.domains = todo.domains
        /\ todo'.patterns = todo.patterns /\ todo'.ports = todo.ports
    BY <1>1, <2>1 DEF FileType
  <2>6. \A y \in saved.ips : IpToString(y) = t => y = x
    BY <2>3, IPRoundTrip DEF RulesType
  <2>7. \A y \in saved.ips : y \in ips' \/ IpToString(y) \in todo'.ips
    BY <2>4, <2>5, <2>6 DEF AllComes
  <2> QED
    BY <1>1, <2>2, <2>4, <2>5, <2>7 DEF OnlySaved, LinesSaved, AllComes
<1>3. CASE LoadApp
  <2>1. PICK t \in todo.apps : /\ \E x \in Apps : AppName[x] = t /\ AddApp(x)
                               /\ todo' = [todo EXCEPT !.apps = @ \ {t}]
    BY <1>3 DEF LoadApp, LinesSaved, RulesType
  <2>2. PICK x \in Apps : AppName[x] = t /\ AddApp(x)
    BY <2>1
  <2>3. x \in saved.apps /\ \A y \in saved.apps : AppName[y] = t => y = x
    BY <2>1, <2>2, AppNameAssumption DEF LinesSaved, RulesType
  <2>4. apps' = apps \cup {x} /\ UNCHANGED <<ips, domains, patterns, ports>>
    BY <2>2 DEF AddApp
  <2>5. /\ todo'.apps = todo.apps \ {t} /\ todo'.ips = todo.ips /\ todo'.domains = todo.domains
        /\ todo'.patterns = todo.patterns /\ todo'.ports = todo.ports
    BY <1>1, <2>1 DEF FileType
  <2>6. \A y \in saved.apps : y \in apps' \/ AppName[y] \in todo'.apps
    BY <2>3, <2>4, <2>5 DEF AllComes
  <2> QED
    BY <1>1, <2>3, <2>4, <2>5, <2>6 DEF OnlySaved, LinesSaved, AllComes
<1>4. CASE LoadDomain
  <2>1. PICK t \in todo.domains : LoadDomainLine(t)
    BY <1>4, DomainLine
  <2>2. CASE /\ t # <<>> /\ domains' = domains \cup {t}
             /\ UNCHANGED <<ips, apps, patterns, ports>>
             /\ todo' = [todo EXCEPT !.domains = @ \ {t}]
    <3>1. /\ todo'.domains = todo.domains \ {t} /\ todo'.ips = todo.ips /\ todo'.apps = todo.apps
          /\ todo'.patterns = todo.patterns /\ todo'.ports = todo.ports
      BY <1>1, <2>2 DEF FileType
    <3> QED
      BY <1>1, <2>2, <3>1 DEF OnlySaved, LinesSaved, AllComes
  <2>3. CASE t = <<>> /\ NoRule /\ todo' = [todo EXCEPT !.domains = @ \ {t}]
    <3>1. /\ todo'.domains = todo.domains \ {<<>>} /\ todo'.ips = todo.ips
          /\ todo'.apps = todo.apps /\ todo'.patterns = todo.patterns /\ todo'.ports = todo.ports
      BY <1>1, <2>3 DEF FileType
    <3> QED
      BY <1>1, <2>3, <3>1 DEF NoRule, OnlySaved, LinesSaved, AllComes
  <2>4. CASE IsHeader(t) /\ NoRule /\ todo' = [todo EXCEPT !.domains = {}, !.patterns = <<>>]
    <3>1. /\ todo'.domains = {} /\ todo'.ips = todo.ips /\ todo'.apps = todo.apps
          /\ Range(todo'.patterns) = {} /\ todo'.ports = todo.ports
      BY <1>1, <2>4, EmptyRange DEF FileType
    <3>2. ~\A d \in saved.domains : ~IsHeader(d)
      BY <2>4 DEF LinesSaved
    <3> QED
      BY <1>1, <2>4, <3>1, <3>2 DEF NoRule, OnlySaved, LinesSaved, AllComes
  <2> QED
    BY <2>1, <2>2, <2>3, <2>4 DEF LoadDomainLine
<1>5. CASE LoadPattern
  <2> DEFINE h == Head(todo.patterns)
  <2>1. todo.patterns \in Seq(Wilds) /\ todo.patterns # <<>> /\ h \in Wilds /\ patterns \in Seq(Wilds)
    BY <1>1, <1>5 DEF FileType, RulesOK, LoadPattern
  <2>2. /\ patterns' = Append(patterns, h) /\ UNCHANGED <<ips, apps, domains, ports>>
        /\ todo' = [todo EXCEPT !.patterns = Tail(@)]
    BY <1>5 DEF LoadPattern, BlockDomain, AddPattern
  <2>3. /\ todo'.patterns = Tail(todo.patterns) /\ todo'.ips = todo.ips
        /\ todo'.apps = todo.apps /\ todo'.domains = todo.domains /\ todo'.ports = todo.ports
    BY <1>1, <2>2 DEF FileType
  <2> HIDE DEF h
  <2>4. Range(patterns') = Range(patterns) \cup {h}
    BY <2>1, <2>2, AppendRange
  <2>5. Range(todo.patterns) = {h} \cup Range(todo'.patterns)
    BY <2>1, <2>3, HeadTailRange DEF h
  <2> QED
    BY <1>1, <2>2, <2>3, <2>4, <2>5 DEF OnlySaved, LinesSaved, AllComes
<1>6. CASE LoadPort
  <2>1. PICK t \in todo.ports : /\ ports' = ports \cup {t}
                                /\ UNCHANGED <<ips, apps, domains, patterns>>
                                /\ todo' = [todo EXCEPT !.ports = @ \ {t}]
    BY <1>6 DEF LoadPort, AddPort
  <2>2. /\ todo'.ports = todo.ports \ {t} /\ todo'.ips = todo.ips /\ todo'.apps = todo.apps
        /\ todo'.patterns = todo.patterns /\ todo'.domains = todo.domains
    BY <1>1, <2>1 DEF FileType
  <2> QED
    BY <1>1, <2>1, <2>2 DEF OnlySaved, LinesSaved, AllComes
<1> QED
  BY <1>2, <1>3, <1>4, <1>5, <1>6 DEF LoadLine

(* SaveInv, action by action. *)
LEMMA SaveInvInit == Init => SaveInv
BY DEF Init, NoRules, SaveInv, SavedSoFar, FileIsSaved, Loading, NoEmptyDomain

LEMMA EditSaveInv == ASSUME SaveInv, Edit PROVE SaveInv'
<1>1. wpc' = "out" /\ clean' = FALSE /\ UNCHANGED <<file, saved, whole>>
  BY DEF Edit
<1> QED
  BY <1>1 DEF SaveInv, SavedSoFar, FileIsSaved, Loading, NoEmptyDomain

LEMMA ClearSaveInv == ASSUME SaveInv, ClearAll PROVE SaveInv'
<1>1. UNCHANGED <<file, saved, whole, todo>> /\ wpc' \in {"clearApps", "clearDomains", "clearPorts", "out"}
  BY DEF ClearAll, ClearIPs, ClearApps, ClearDomains, ClearPorts
<1>2. SavedSoFar' /\ FileIsSaved'
  BY <1>1 DEF SaveInv, SavedSoFar, FileIsSaved
<1>3. clean' => clean
  BY DEF ClearAll, ClearIPs, ClearApps, ClearDomains, ClearPorts
<1>4. ASSUME OnlySaved PROVE OnlySaved'
  <2>1. CASE ClearDomains
    <3>1. domains' = {} /\ Range(patterns') = {} /\ UNCHANGED <<ips, apps, ports>>
      BY <2>1, EmptyRange DEF ClearDomains
    <3> QED
      BY <1>1, <1>4, <3>1 DEF OnlySaved
  <2>2. CASE ClearIPs \/ ClearApps \/ ClearPorts
    BY <1>1, <1>4, <2>2 DEF ClearIPs, ClearApps, ClearPorts, OnlySaved
  <2> QED
    BY <2>1, <2>2 DEF ClearAll
<1>5. Loading'
  BY <1>1, <1>3, <1>4 DEF SaveInv, Loading
<1>6. NoEmptyDomain'
  BY <1>3 DEF SaveInv, NoEmptyDomain, ClearAll, ClearIPs, ClearApps, ClearDomains, ClearPorts
<1> QED
  BY <1>2, <1>5, <1>6 DEF SaveInv

LEMMA SaveSaveInv == ASSUME IInv, SaveInv, SaveRules PROVE SaveInv'
<1>1. RulesOK /\ UNCHANGED <<ips, apps, domains, patterns, ports, todo, clean>>
  BY DEF IInv, SaveRules, SaveOpen, SaveIPs, SaveApps, SaveDomains, SavePorts
<1>5. NoEmptyDomain'
  BY <1>1 DEF SaveInv, NoEmptyDomain
<1>2. CASE SaveOpen
  BY <1>2, <1>5 DEF SaveOpen, SaveInv, SavedSoFar, FileIsSaved, Loading
<1>3. CASE SaveIPs \/ SaveApps \/ SaveDomains
  <2>1. file \in FileType /\ ~whole /\ ~whole'
    BY <1>3 DEF SaveIPs, SaveApps, SaveDomains, IInv, FileOK, SaveInv, SavedSoFar
  <2>2. SavedSoFar'
    <3>1. CASE SaveIPs
      BY <1>1, <2>1, <3>1 DEF SaveIPs, FileType, SavedSoFar
    <3>2. CASE SaveApps
      BY <1>1, <2>1, <3>2 DEF SaveApps, FileType, SaveInv, SavedSoFar
    <3>3. CASE SaveDomains
      BY <1>1, <2>1, <3>3 DEF SaveDomains, FileType, SaveInv, SavedSoFar
    <3> QED
      BY <1>3, <3>1, <3>2, <3>3
  <2> QED
    BY <1>5, <2>1, <2>2 DEF SaveInv, FileIsSaved, Loading
<1>4. CASE SavePorts
  <2>1. /\ wpc' = "out" /\ file' = [file EXCEPT !.ports = ports] /\ saved' = Rules
        /\ file \in FileType
    BY <1>4 DEF SavePorts, IInv, FileOK
  <2>2. /\ saved'.ips = ips /\ saved'.apps = apps /\ saved'.domains = domains
        /\ saved'.patterns = patterns /\ saved'.ports = ports /\ saved' \in RulesType
    BY <1>1, <2>1 DEF Rules, Section, RulesOK, RulesType
  <2>3. /\ file'.ips = {IpToString(x) : x \in ips} /\ file'.apps = {AppName[x] : x \in apps}
        /\ file'.domains = domains /\ file'.patterns = patterns /\ file'.ports = ports
    BY <1>4, <2>1 DEF SavePorts, FileType, SaveInv, SavedSoFar
  <2>4. SavedSoFar'
    BY <2>1 DEF SavedSoFar
  <2>5. FileIsSaved'
    BY <1>1, <2>1, <2>2, <2>3 DEF FileIsSaved
  <2>6. Loading'
    BY <1>1, <2>1, <2>2 DEF Loading, OnlySaved
  <2> QED
    BY <1>5, <2>4, <2>5, <2>6 DEF SaveInv
<1> QED
  BY <1>2, <1>3, <1>4 DEF SaveRules

LEMMA LoadSaveInv == ASSUME IInv, SaveInv, LoadRules PROVE SaveInv'
<1>1. UNCHANGED <<file, saved, whole, clean>> /\ wpc' \in {"load", "out"}
  BY DEF LoadRules, LoadOpen, LoadLine, LoadDone, IInv, WriterPC
<1>2. SavedSoFar' /\ FileIsSaved'
  BY <1>1 DEF SaveInv, SavedSoFar, FileIsSaved
<1>3. Loading'
  <2> SUFFICES ASSUME clean, whole
               PROVE  OnlySaved' /\ (wpc' = "load" => LinesSaved' /\ AllComes')
    BY <1>1 DEF Loading
  <2>1. OnlySaved /\ (wpc = "load" => LinesSaved /\ AllComes) /\ saved \in RulesType
    BY DEF SaveInv, Loading, FileIsSaved
  <2>2. CASE LoadOpen
    <3>1. todo' = file /\ UNCHANGED <<ips, apps, domains, patterns, ports>>
      BY <2>2 DEF LoadOpen
    <3> QED
      BY <1>1, <2>1, <3>1 DEF SaveInv, FileIsSaved, OnlySaved, LinesSaved, AllComes
  <2>3. CASE LoadLine
    BY <2>1, <2>3, LoadLineComes DEF LoadLine
  <2>4. CASE LoadDone
    BY <1>1, <2>1, <2>4 DEF LoadDone, OnlySaved
  <2> QED
    BY <2>2, <2>3, <2>4 DEF LoadRules
<1>4. NoEmptyDomain'
  <2>1. domains' = domains \/ \E t : t # <<>> /\ domains' = domains \cup {t}
    BY DomainLine DEF LoadRules, LoadOpen, LoadLine, LoadDone, LoadIP, AddIP, LoadApp, AddApp,
       LoadDomainLine, NoRule, LoadPattern, BlockDomain, AddPattern, LoadPort, AddPort
  <2> QED
    BY <1>1, <2>1 DEF SaveInv, NoEmptyDomain
<1> QED
  BY <1>2, <1>3, <1>4 DEF SaveInv

LEMMA RestartSaveInv == ASSUME SaveInv, Restart PROVE SaveInv'
<1>1. /\ ips' = {} /\ apps' = {} /\ domains' = {} /\ Range(patterns') = {} /\ ports' = {}
      /\ wpc' = "out" /\ UNCHANGED <<saved, whole>> /\ (whole => file' = file)
  BY EmptyRange, NotTorn DEF Restart, SaveInv, SavedSoFar
<1>2. SavedSoFar' /\ FileIsSaved'
  BY <1>1 DEF SaveInv, SavedSoFar, FileIsSaved
<1>3. OnlySaved'
  BY <1>1 DEF OnlySaved
<1> QED
  BY <1>1, <1>2, <1>3 DEF SaveInv, Loading, NoEmptyDomain

LEMMA NextSaveInv == ASSUME IInv, SaveInv, [Next]_vars PROVE SaveInv'
<1>1. ASSUME UNCHANGED <<ips, apps, domains, patterns, ports, wpc, todo, file, saved, whole,
                         clean>>
      PROVE  SaveInv'
  BY <1>1 DEF SaveInv, SavedSoFar, FileIsSaved, Loading, OnlySaved, LinesSaved, AllComes,
              NoEmptyDomain
<1>2. ASSUME NEW c \in Checkers, ShouldBlock(c) PROVE SaveInv'
  BY <1>1, <1>2 DEF ShouldBlock, Check, Call
<1>3. CASE UNCHANGED vars
  BY <1>1, <1>3 DEF vars
<1> QED
  BY <1>2, <1>3, EditSaveInv, ClearSaveInv, SaveSaveInv, LoadSaveInv, RestartSaveInv DEF Next

(* A load that is done brought back what was saved. *)
LEMMA LoadedIsSaved ==
    ASSUME IInv, SaveInv, LoadDone, clean, whole
    PROVE  Restored(saved)
<1>1. OnlySaved /\ LinesSaved /\ AllComes /\ <<>> \notin domains
  BY DEF LoadDone, SaveInv, FileIsSaved, Loading, NoEmptyDomain
<1>2. /\ todo.ips = {} /\ todo.apps = {} /\ todo.domains = {} /\ todo.ports = {}
      /\ Range(todo.patterns) = {}
  BY EmptyRange DEF LoadDone, Nothing, Section
<1>3. ips = saved.ips /\ apps = saved.apps /\ ports = saved.ports
  BY <1>1, <1>2 DEF OnlySaved, AllComes
<1>4. domains \subseteq saved.domains /\ Range(patterns) \subseteq Range(saved.patterns)
  BY <1>1 DEF OnlySaved
<1>5. ASSUME \A d \in saved.domains : ~IsHeader(d)
      PROVE  domains = saved.domains \ {<<>>} /\ Range(patterns) = Range(saved.patterns)
  BY <1>1, <1>2, <1>4, <1>5 DEF AllComes
<1> QED
  BY <1>3, <1>4, <1>5 DEF Restored

(* What was saved completely comes back as long as no later save was       *)
(* broken off: through the text of the file, without the domains that the  *)
(* text loses, through restarts at any moment, loaded once or many times.  *)
THEOREM SavedComesBack == Spec => RestoredAsSaved
<1>1. IInv /\ SaveInv /\ [Next]_vars => SaveInv'
  BY NextSaveInv
<1>2. IInv /\ SaveInv /\ [Next]_vars
        => [LoadDone /\ clean /\ whole => Restored(saved)]_vars
  BY LoadedIsSaved
<1> QED
  BY <1>1, <1>2, SaveInvInit, Inductive, PTL DEF Spec, RestoredAsSaved
=============================================================================
