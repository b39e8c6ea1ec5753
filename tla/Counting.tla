------------------------------ MODULE Counting ------------------------------
(* Sums over the counters of several threads, flows or applications.       *)
EXTENDS Integers, FiniteSets

(* The units that g counts: the k-th unit of x, for k up to g[x]. *)
Units(g) == UNION {{x} \X (1..g[x]) : x \in DOMAIN g}

(* The sum of all g[x]. *)
Total(g) == Cardinality(Units(g))
=============================================================================
