---------------------------- MODULE MCRuleManager ----------------------------
(* TLC instance of RuleManager, which is two in one: either a thread asks   *)
(* while a few rules change, of which only single ones are saved, or none   *)
(* does and the rules are of more kinds.                                    *)
EXTENDS RuleManager, AppTypes

CONSTANT f1

VARIABLE asking    \* whether the thread asks

(* With the query, one rule of each category, all of which match it. *)
AskedAbout == Section({14}, {"HTTPS"}, {<<"n">>}, <<>>, {8})
MCQueries  == {[ip |-> 14, port |-> 8, app |-> "HTTPS", domain |-> <<"N">>]}

(* Lines that a cut turns into another rule, an empty domain and one that  *)
(* begins with a bracket.                                                  *)
MCIPs   == {14, 1}                           \* 14.0.0.0 and 1.0.0.0
MCPorts == {8}
MCApps  == {"HTTPS", "HTTP"}
MCNames == {<<"n">>, Asterisk, <<"[">>, <<>>}
MCWilds == {<<"t">>, <<"">>}
MCLower == [l \in {"n", "N", "t", "*", "[", ""} |-> IF l = "N" THEN "n" ELSE l]

FewRules == /\ ips \subseteq AskedAbout.ips /\ apps \subseteq AskedAbout.apps
            /\ domains \subseteq AskedAbout.domains /\ patterns = AskedAbout.patterns
            /\ ports \subseteq AskedAbout.ports

RunInit == Init /\ asking \in BOOLEAN

RunNext == /\ Next
           /\ IF asking THEN FewRules' /\ (SaveOpen => Size(Rules) = 1)
              ELSE \A c \in Checkers : cpc'[c] = "out"
           /\ UNCHANGED asking

RunSpec == RunInit /\ [][RunNext]_<<vars, asking>>
=============================================================================
