---------------------------- MODULE MCDominance ----------------------------
(***************************************************************************)
(* Regions of up to three blocks with any edges at all, and regions of     *)
(* four blocks with at most two successors each.                           *)
(***************************************************************************)
EXTENDS Dominance

WithEntry(F) == {[b \in {Entry} \cup DOMAIN f |-> IF b = Entry THEN {CfgHead} ELSE f[b]] : f \in F}

Reaches(g) ==
    LET grow[k \in Nat] == IF k = 0 THEN {Entry}
                           ELSE grow[k - 1] \cup UNION {g[b] : b \in grow[k - 1]}
    IN  grow[5]

Connected(G) == {g \in G : Reaches(g) = DOMAIN g}

AtMostTwo(B) == {S \in SUBSET B : Cardinality(S) <= 2}

SmallGraphs ==
    Connected(UNION {WithEntry([2..k -> SUBSET (2..k)]) : k \in 2..4})

\* One graph of those that only differ in the blocks' names: new blocks are
\* named in the order in which a search by breadth meets them.
Canonical(g) ==
    \A b \in 2..5 :
       LET seen == {2} \cup UNION {g[x] : x \in 2..(b - 1)}
       IN  \A t \in g[b] \ seen : 2..t \subseteq seen \cup g[b]

BranchGraphs == Connected({g \in WithEntry([2..5 -> AtMostTwo(2..5)]) : Canonical(g)})

AllGraphs == SmallGraphs \cup BranchGraphs
=============================================================================
