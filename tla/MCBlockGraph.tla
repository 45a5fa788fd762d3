---------------------------- MODULE MCBlockGraph ----------------------------
(***************************************************************************)
(* Every program of N words over the kinds of instruction that shape the   *)
(* graph: straight-line code and branches, a direct or indirect jump or an *)
(* ecall at the end, and possibly a store to tohost at the beginning.      *)
(***************************************************************************)
EXTENDS RegionCFG

Op(k, T) == [kind |-> k, tgt |-> T]

WordChoices(a) ==
    IF a < N
    THEN {Op("alu", {})} \cup {Op("branch", {t}) : t \in 1..N}
         \cup (IF a = 1 THEN {Op("store", {})} ELSE {})
    ELSE {Op("ecall", {}), Op("jr", 1..N)} \cup {Op("j", {t}) : t \in 1..N}

AllPrograms == {c \in [1..N -> UNION {WordChoices(a) : a \in 1..N}] :
                  \A a \in 1..N : c[a] \in WordChoices(a)}

ShortChoices(a) ==
    CASE a = 1 -> {Op("branch", {3}), Op("branch", {4}), Op("jal", {3})}
      [] a = 2 -> {Op("branch", {1}), Op("branch", {4}), Op("jr", {1, 3})}
      [] a = 3 -> {Op("branch", {1}), Op("branch", {2}), Op("branch", {3}), Op("jal", {1})}
      [] a = 4 -> {Op("j", {1}), Op("j", {2}), Op("jr", {1, 3}), Op("jal", {2})}

FourBlocks == {c \in [1..N -> UNION {ShortChoices(a) : a \in 1..N}] :
                 \A a \in 1..N : c[a] \in ShortChoices(a)}

Both == AllPrograms \cup FourBlocks
TwoOrders == {[i \in 1..N |-> i], [i \in 1..N |-> (N + 1) - i]}

\* A block, 2..4, that overlaps another, 4, and asks for the exit in between.
OverlapProgram == {<<Op("branch", {4}), Op("store", {}), Op("alu", {}),
                     Op("branch", {1}), Op("j", {1})>>}
=============================================================================
