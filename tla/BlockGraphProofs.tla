-------------------------- MODULE BlockGraphProofs --------------------------
(***************************************************************************)
(* Proofs about module BlockGraph, for every program and every N.          *)
(*                                                                         *)
(* The argument.  Each operation of class basicBlock preserves the type    *)
(* and the soundness of the graph (lemmas ...Typed and ...Sound); FindOr-  *)
(* Create, which every step that changes edges goes through, then does so  *)
(* too; and the steps of the main loop only need PcInSync to meet the      *)
(* hypotheses of that lemma.                                               *)
(***************************************************************************)
EXTENDS BlockGraph, FiniteSetTheorems, TLAPS

Sound(c, G, O) ==
    /\ InsSound(G)
    /\ Mirrored(G)
    /\ EdgesSound(c, G, O)
    /\ ClosedSound(c, G, O)
    /\ OpenSound(c, G, O)
    /\ ~G.died

\* The inductive invariant.
IndInv == TypeOK /\ PcInSync /\ (brk \/ Sound(code, graph, Open))

-----------------------------------------------------------------------------
(***************************************************************************)
(* Typing.                                                                 *)
(***************************************************************************)
LEMMA AddrFacts ==
    /\ N \in Nat /\ N > 0
    /\ \A a \in Addr : a \in Nat /\ a # NoBlock /\ a \in 0..N /\ a - 1 \in 0..N
BY NAssumption DEF NAssumption, Addr, NoBlock

LEMMA FlowTyped ==
    ASSUME NEW c \in Programs, NEW a \in Addr
    PROVE  NextPCs(c, a) \subseteq Addr
BY ProgramsAssumption DEF WellFormed

\* An instruction that reads tohost goes where it may go.
LEMMA GoesWhereItMay ==
    ASSUME NEW c, NEW a, NEW h
    PROVE  GoesTo(c, a, h) \subseteq NextPCs(c, a)
BY DEF GoesTo, NextPCs, Conditional

LEMMA NewBlockTyped ==
    ASSUME NEW G \in Graph, NEW b \in Addr
    PROVE  NewBlock(G, b) \in Graph
<1>1. [G.last EXCEPT ![b] = b - 1] \in [Addr -> 0..N]
  BY AddrFacts DEF Graph
<1> QED BY <1>1 DEF NewBlock, Graph

LEMMA AddInsTyped ==
    ASSUME NEW G \in Graph, NEW b \in Addr, NEW a \in Addr
    PROVE  AddIns(G, b, a) \in Graph
<1>1. [G.last EXCEPT ![b] = a] \in [Addr -> 0..N]
  BY AddrFacts DEF Graph
<1>2. [G.ins EXCEPT ![a] = b] \in [Addr -> 0..N]
  BY AddrFacts DEF Graph
<1> QED BY <1>1, <1>2 DEF AddIns, Graph

LEMMA SetTermAddrTyped ==
    ASSUME NEW G \in Graph, NEW b \in Addr, NEW a \in Addr
    PROVE  SetTermAddr(G, b, a) \in Graph
<1>1. [G.term EXCEPT ![b] = a] \in [Addr -> 0..N]
  BY AddrFacts DEF Graph
<1> QED BY <1>1 DEF SetTermAddr, Graph

LEMMA SetReadOnlyTyped ==
    ASSUME NEW G \in Graph, NEW b \in Addr
    PROVE  SetReadOnly(G, b) \in Graph
BY DEF SetReadOnly, Graph

LEMMA LinkTyped ==
    ASSUME NEW G \in Graph, NEW b \in Addr, NEW t \in Addr
    PROVE  Link(G, b, t) \in Graph
<1>1. [G.succs EXCEPT ![b] = G.succs[b] \cup {t}] \in [Addr -> SUBSET Addr]
  BY DEF Graph
<1>2. [G.preds EXCEPT ![t] = G.preds[t] \cup {b}] \in [Addr -> SUBSET Addr]
  BY DEF Graph
<1> QED BY <1>1, <1>2 DEF Link, Graph

LEMMA DieTyped ==
    ASSUME NEW G \in Graph
    PROVE  Die(G) \in Graph
BY DEF Die, Graph

LEMMA AddSuccessorTyped ==
    ASSUME NEW c, NEW G \in Graph, NEW b \in Addr, NEW t \in Addr
    PROVE  AddSuccessor(c, G, b, t) \in Graph
<1>1. Link(G, b, t) \in Graph
  BY LinkTyped
<1>2. Die(G) \in Graph /\ Die(Link(G, b, t)) \in Graph
  BY <1>1, DieTyped
<1> QED BY <1>1, <1>2, Zenon DEF AddSuccessor, KnownSuccessor

LEMMA SplitTyped ==
    ASSUME NEW G \in Graph, NEW v \in Addr, NEW t \in Addr
    PROVE  Split(G, v, t) \in Graph
<1>1. G.last[v] \in 0..N /\ G.term[v] \in 0..N /\ t - 1 \in 0..N
  BY AddrFacts DEF Graph
<1>2. [G.last EXCEPT ![v] = t - 1, ![t] = G.last[v]] \in [Addr -> 0..N]
  BY <1>1 DEF Graph
<1>3. [G.term EXCEPT ![v] = t - 1, ![t] = G.term[v]] \in [Addr -> 0..N]
  BY <1>1 DEF Graph
<1>4. [G.succs EXCEPT ![v] = {t}, ![t] = G.succs[v]] \in [Addr -> SUBSET Addr]
  BY DEF Graph
<1>5. \A x \in Addr : Split(G, v, t).preds[x] \subseteq Addr
  BY DEF Split, SplitSuccs, SplitPreds, SplitTerm, SplitIns, Graph
<1>6. \A a \in Addr : (IF a \in t..G.last[v] THEN t ELSE G.ins[a]) \in 0..N
  BY AddrFacts DEF Graph
<1> QED BY <1>2, <1>3, <1>4, <1>5, <1>6 DEF Split, SplitSuccs, SplitPreds, SplitTerm, SplitIns, Graph

LEMMA FindBlockTyped ==
    ASSUME NEW c, NEW G \in Graph, NEW b \in Addr, NEW t \in Addr
    PROVE  FindBlock(c, G, b, t) \in Graph
<1>1. G.ins[t] \in 0..N
  BY DEF Graph
<1>2. G.ins[t] # NoBlock => G.ins[t] \in Addr
  BY <1>1, AddrFacts DEF Addr, NoBlock
<1>3. MustSplit(G, b, t) => Split(G, G.ins[t], t) \in Graph
  BY <1>2, SplitTyped DEF MustSplit
<1> QED BY <1>3, AddSuccessorTyped DEF FindBlock

LEMMA FindOrCreateTyped ==
    ASSUME NEW c, NEW G \in Graph, NEW b \in Addr, NEW p \in Addr, NEW t \in Addr
    PROVE  FindOrCreate(c, G, b, p, t) \in Graph
BY FindBlockTyped, NewBlockTyped, AddSuccessorTyped DEF FindOrCreate

LEMMA GetNextBlockTyped ==
    ASSUME NEW c, NEW G \in Graph, NEW b \in Addr, NEW t \in Addr
    PROVE  GetNextBlock(c, G, b, t) \in Graph
BY FindOrCreateTyped, SetReadOnlyTyped DEF GetNextBlock

-----------------------------------------------------------------------------
(***************************************************************************)
(* Soundness.                                                              *)
(***************************************************************************)

\* A straight-line instruction other than ecall goes to the next word.
LEMMA StraightFlow ==
    ASSUME NEW c \in Programs, NEW a \in Addr,
           ~IsBranchOrJump(c[a]), ~IsMonitor(c[a])
    PROVE  NextPCs(c, a) = {a + 1}
BY DEF NextPCs, IsBranchOrJump, IsMonitor, Transfers, Indirect, Conditional

\* A direct transfer has at most two successors.
LEMMA DirectFlow ==
    ASSUME NEW c \in Programs, NEW a \in Addr,
           ~IsIndirect(c[a]), ~IsMonitor(c[a])
    PROVE  \E x, y \in Nat : NextPCs(c, a) \subseteq {x, y}
<1>1. a \in Nat /\ a + 1 \in Nat
  BY AddrFacts
<1>2. CASE c[a].kind \in Conditional \cup {"j", "jal"}
  <2>1. PICK t \in Addr : c[a].tgt = {t}
    BY <1>2, ProgramsAssumption DEF WellFormed
  <2>2. t \in Nat
    BY <2>1, AddrFacts
  <2>3. NextPCs(c, a) \subseteq {t, a + 1}
    BY <1>2, <2>1 DEF NextPCs, Transfers, Indirect, Conditional
  <2> QED BY <1>1, <2>2, <2>3
<1>3. CASE c[a].kind \notin Conditional \cup {"j", "jal"}
  <2>1. NextPCs(c, a) = {a + 1}
    BY <1>3, StraightFlow
    DEF IsBranchOrJump, IsIndirect, IsMonitor, Transfers, Indirect, Conditional
  <2> QED BY <1>1, <2>1
<1> QED BY <1>2, <1>3

LEMMA AtMostTwo ==
    ASSUME NEW S, NEW x, NEW y, S \subseteq {x, y}
    PROVE  ~(Cardinality(S) > 2)
<1>1. IsFiniteSet({x, y}) /\ Cardinality({x, y}) \in Nat /\ Cardinality({x, y}) <= 2
  <2>1. IsFiniteSet({x}) /\ Cardinality({x}) = 1
    BY FS_Singleton
  <2>2. {x, y} = {x} \cup {y}
    OBVIOUS
  <2>3. /\ IsFiniteSet({x} \cup {y})
        /\ Cardinality({x} \cup {y}) = IF y \in {x} THEN Cardinality({x}) ELSE Cardinality({x}) + 1
    BY <2>1, FS_AddElement
  <2> QED BY <2>1, <2>2, <2>3
<1>2. IsFiniteSet(S) /\ Cardinality(S) <= Cardinality({x, y})
  BY <1>1, FS_Subset
<1>3. Cardinality(S) \in Nat
  BY <1>2, FS_CardinalityType
<1> QED BY <1>1, <1>2, <1>3

LEMMA LastInAddr ==
    ASSUME NEW c \in Programs, NEW G \in Graph, NEW O, ClosedSound(c, G, O),
           NEW b \in G.blocks \ O
    PROVE  /\ b \in Addr /\ G.last[b] \in Addr /\ b <= G.last[b]
           /\ G.last[b] \in Words(G, b)
<1>1. b \in Addr /\ G.last[b] \in 0..N
  BY DEF Graph
<1>2. b <= G.last[b]
  BY DEF ClosedSound
<1> QED BY <1>1, <1>2, AddrFacts DEF Addr, Words

\* A closed block that falls through has its one successor.
LEMMA FallThruKnown ==
    ASSUME NEW c \in Programs, NEW G \in Graph, NEW O, ClosedSound(c, G, O),
           NEW b \in G.blocks \ O, FallsThru(c, G, b),
           NEW t \in NextPCs(c, G.last[b])
    PROVE  t \in G.succs[b]
<1>1. G.last[b] \in Addr /\ G.last[b] \in Words(G, b)
  BY LastInAddr
<1>2. ~IsBranchOrJump(c[G.last[b]]) /\ ~IsMonitor(c[G.last[b]])
  BY <1>1 DEF ClosedSound, FallsThru
<1>3. NextPCs(c, G.last[b]) = {G.last[b] + 1}
  BY <1>1, <1>2, StraightFlow
<1>4. G.succs[b] = {G.last[b] + 1}
  BY DEF ClosedSound
<1> QED BY <1>3, <1>4

LEMMA AddSuccessorSound ==
    ASSUME NEW c \in Programs, NEW G \in Graph, NEW O, Sound(c, G, O),
           NEW b \in G.blocks \ O, NEW t \in G.blocks,
           t \in NextPCs(c, G.last[b]),
           b \in G.ro \/ G.succs[b] = {}
    PROVE  /\ Sound(c, AddSuccessor(c, G, b, t), O)
           /\ AddSuccessor(c, G, b, t) \in {G, Link(G, b, t)}
           /\ t \in AddSuccessor(c, G, b, t).succs[b]
<1> DEFINE H == Link(G, b, t)
<1>0. b \in Addr /\ t \in Addr
  BY DEF Graph
<1>1. CASE t \in G.succs[b]
  BY <1>1 DEF AddSuccessor, KnownSuccessor
<1>2. CASE t \notin G.succs[b]
  <2>1. ~FallsThru(c, G, b)
    BY <1>2, FallThruKnown DEF Sound
  <2>2. ~TooMany(c, G, b, t)
    <3>0. G.last[b] \in Addr /\ G.last[b] \in Words(G, b)
      BY LastInAddr DEF Sound
    <3>1. ~IsMonitor(c[G.last[b]])
      BY <3>0 DEF Sound, ClosedSound
    <3>2. CASE IsIndirect(c[G.last[b]]) /\ b \in G.ro
      BY <3>0, <3>2 DEF TooMany, ManyTargets
    <3>3. CASE ~IsIndirect(c[G.last[b]])
      <4>1. PICK x, y \in Nat : NextPCs(c, G.last[b]) \subseteq {x, y}
        BY <3>0, <3>1, <3>3, DirectFlow
      <4>2. G.succs[b] \cup {t} \subseteq {x, y}
        BY <1>0, <4>1 DEF Sound, EdgesSound
      <4> QED BY <4>2, AtMostTwo DEF TooMany
    <3>4. CASE G.succs[b] = {}
      <4>1. G.succs[b] \cup {t} \subseteq {t, t}
        BY <3>4
      <4> QED BY <4>1, AtMostTwo DEF TooMany
    <3> QED BY <3>2, <3>3, <3>4
  <2>3. AddSuccessor(c, G, b, t) = H
    BY <1>2, <2>1, <2>2, Zenon DEF AddSuccessor, KnownSuccessor
  <2>4. /\ H.blocks = G.blocks /\ H.last = G.last /\ H.term = G.term
        /\ H.ins = G.ins /\ H.died = G.died /\ H.ro = G.ro
        /\ \A x \in Addr :
             /\ H.succs[x] = IF x = b THEN G.succs[b] \cup {t} ELSE G.succs[x]
             /\ H.preds[x] = IF x = t THEN G.preds[t] \cup {b} ELSE G.preds[x]
    BY <1>0 DEF Link, Graph
  <2> HIDE DEF H
  <2>5. Mirrored(H)
    BY <1>0, <2>4 DEF Sound, Mirrored
  <2>6. EdgesSound(c, H, O)
    BY <1>0, <2>4 DEF Sound, EdgesSound
  <2>7. ClosedSound(c, H, O)
    <3> SUFFICES ASSUME NEW x \in H.blocks \ O
                 PROVE  /\ x <= H.last[x]
                        /\ H.term[x] = H.last[x]
                        /\ \A a \in x..(H.last[x] - 1) : ~IsBranchOrJump(c[a])
                        /\ \A a \in Words(H, x) : ~IsMonitor(c[a])
                        /\ FallsThru(c, H, x) => H.succs[x] = {H.last[x] + 1}
      BY <2>4 DEF Sound, ClosedSound
    <3>1. x \in Addr
      BY <2>4 DEF Graph
    <3>2. FallsThru(c, H, x) => H.succs[x] = {H.last[x] + 1}
      BY <2>1, <2>4, <3>1 DEF Sound, ClosedSound, FallsThru
    <3> QED BY <2>4, <3>2 DEF Sound, ClosedSound, Words
  <2>8. InsSound(H) /\ OpenSound(c, H, O) /\ ~H.died
    BY <2>4 DEF Sound, InsSound, OpenSound, Words
  <2>9. t \in H.succs[b]
    BY <1>0, <2>4
  <2> QED BY <2>3, <2>5, <2>6, <2>7, <2>8, <2>9 DEF Sound, H
<1> QED BY <1>1, <1>2

LEMMA NewBlockSound ==
    ASSUME NEW c \in Programs, NEW G \in Graph, NEW O, Sound(c, G, O),
           NEW t \in Addr, t \notin G.blocks
    PROVE  /\ Sound(c, NewBlock(G, t), O \cup {t})
           /\ NewBlock(G, t).blocks = G.blocks \cup {t}
           /\ NewBlock(G, t).last[t] = t - 1
           /\ \A x \in G.blocks : NewBlock(G, t).last[x] = G.last[x]
           /\ NewBlock(G, t).ro = G.ro
           /\ NewBlock(G, t).succs = G.succs
<1> DEFINE H == NewBlock(G, t)
<1>1. /\ H.blocks = G.blocks \cup {t} /\ H.term = G.term /\ H.ins = G.ins
      /\ H.succs = G.succs /\ H.preds = G.preds /\ H.ro = G.ro
      /\ H.died = G.died
      /\ \A x \in Addr : H.last[x] = IF x = t THEN t - 1 ELSE G.last[x]
  BY DEF NewBlock, Graph
<1> HIDE DEF H
<1>2. G.blocks \subseteq Addr /\ t \in Nat /\ t > 0
  BY DEF Graph, Addr
<1>3. /\ H.last[t] = t - 1
      /\ \A x \in G.blocks : H.last[x] = G.last[x] /\ x # t
  BY <1>1, <1>2
<1>4. InsSound(H)
  BY <1>1, <1>2, <1>3 DEF Sound, InsSound, Words
<1>5. Mirrored(H)
  BY <1>1 DEF Sound, Mirrored
<1>6. EdgesSound(c, H, O \cup {t})
  BY <1>1, <1>3 DEF Sound, EdgesSound
<1>7. ClosedSound(c, H, O \cup {t})
  <2>1. \A x \in H.blocks \ (O \cup {t}) : x \in G.blocks \ O
    BY <1>1
  <2> QED BY <1>1, <1>3, <2>1 DEF Sound, ClosedSound, Words, FallsThru
<1>8. OpenSound(c, H, O \cup {t})
  <2>1. t <= H.last[t] + 1 /\ Words(H, t) = {}
    BY <1>2, <1>3 DEF Words
  <2> QED BY <1>1, <1>3, <2>1 DEF Sound, OpenSound, Words
<1> QED BY <1>1, <1>3, <1>4, <1>5, <1>6, <1>7, <1>8 DEF Sound, H

\* Appending a straight-line instruction to the block being built.
LEMMA ExtendSound ==
    ASSUME NEW c \in Programs, NEW G \in Graph, NEW b \in G.blocks,
           b \notin G.ro, Sound(c, G, {b}),
           NEW a \in Addr, a = G.last[b] + 1,
           ~IsBranchOrJump(c[a]), ~IsMonitor(c[a])
    PROVE  Sound(c, AddIns(G, b, a), {b})
<1> DEFINE H == AddIns(G, b, a)
<1>0. b \in Addr /\ G.last[b] \in 0..N /\ b <= a
  BY DEF Graph, Sound, OpenSound, Addr
<1>1. /\ H.blocks = G.blocks /\ H.term = G.term /\ H.ro = G.ro
      /\ H.succs = G.succs /\ H.preds = G.preds /\ H.died = G.died
      /\ \A x \in Addr : H.last[x] = IF x = b THEN a ELSE G.last[x]
      /\ \A x \in Addr : H.ins[x] = IF x = a THEN b ELSE G.ins[x]
  BY <1>0 DEF AddIns, Graph
<1> HIDE DEF H
<1>2. Words(H, b) = Words(G, b) \cup {a}
  BY <1>0, <1>1, AddrFacts DEF Words, Addr
<1>3. \A x \in G.blocks : x # b => H.last[x] = G.last[x]
  BY <1>1 DEF Graph
<1>4. InsSound(H)
  BY <1>0, <1>1, <1>2, <1>3 DEF Sound, InsSound, Words
<1>5. Mirrored(H)
  BY <1>1 DEF Sound, Mirrored
<1>6. EdgesSound(c, H, {b})
  BY <1>1, <1>3 DEF Sound, EdgesSound
<1>7. ClosedSound(c, H, {b})
  BY <1>1, <1>3 DEF Sound, ClosedSound, Words, FallsThru
<1>8. OpenSound(c, H, {b})
  BY <1>0, <1>1, <1>2 DEF Sound, OpenSound
<1> QED BY <1>1, <1>4, <1>5, <1>6, <1>7, <1>8 DEF Sound, H

\* Appending the transfer that closes it.
LEMMA CloseSound ==
    ASSUME NEW c \in Programs, NEW G \in Graph, NEW b \in G.blocks,
           b \notin G.ro, Sound(c, G, {b}),
           NEW a \in Addr, a = G.last[b] + 1, IsBranchOrJump(c[a])
    PROVE  LET H == SetTermAddr(AddIns(G, b, a), b, a)
           IN  /\ Sound(c, H, {})
               /\ H.blocks = G.blocks /\ H.ro = G.ro
               /\ H.succs[b] = {} /\ H.last[b] = a
<1> DEFINE K == AddIns(G, b, a)
           H == SetTermAddr(K, b, a)
<1>0. /\ b \in Addr /\ G.last[b] \in 0..N /\ b <= a /\ G.term[b] = 0
      /\ ~IsMonitor(c[a])
  BY DEF Graph, Sound, OpenSound, Addr, IsBranchOrJump, IsMonitor, Transfers, Indirect,
         Conditional
<1>1. K.term = G.term
  BY DEF AddIns, Graph
<1>2. /\ H.blocks = G.blocks /\ H.ro = G.ro
      /\ H.succs = G.succs /\ H.preds = G.preds /\ H.died = G.died
      /\ \A x \in Addr : H.last[x] = IF x = b THEN a ELSE G.last[x]
      /\ \A x \in Addr : H.ins[x] = IF x = a THEN b ELSE G.ins[x]
      /\ \A x \in Addr : H.term[x] = IF x = b THEN a ELSE G.term[x]
  BY <1>0, <1>1 DEF SetTermAddr, AddIns, Graph
<1> HIDE DEF H, K
<1>3. Words(H, b) = Words(G, b) \cup {a} /\ b..(a - 1) = Words(G, b)
  BY <1>0, <1>2, AddrFacts DEF Words, Addr
<1>4. \A x \in G.blocks : x # b => H.last[x] = G.last[x] /\ H.term[x] = G.term[x]
  BY <1>2 DEF Graph
<1>5. InsSound(H)
  BY <1>0, <1>2, <1>3, <1>4 DEF Sound, InsSound, Words
<1>6. Mirrored(H)
  BY <1>2 DEF Sound, Mirrored
<1>7. EdgesSound(c, H, {}) /\ H.succs[b] = {}
  BY <1>0, <1>2, <1>4 DEF Sound, EdgesSound
<1>8. ClosedSound(c, H, {})
  <2>1. ASSUME NEW x \in H.blocks, x # b
        PROVE  /\ x <= H.last[x]
               /\ H.term[x] = H.last[x]
               /\ \A y \in x..(H.last[x] - 1) : ~IsBranchOrJump(c[y])
               /\ \A y \in Words(H, x) : ~IsMonitor(c[y])
               /\ FallsThru(c, H, x) => H.succs[x] = {H.last[x] + 1}
    BY <1>2, <1>4, <2>1 DEF Sound, ClosedSound, Words, FallsThru
  <2>2. /\ b <= H.last[b]
        /\ H.term[b] = H.last[b]
        /\ \A y \in b..(H.last[b] - 1) : ~IsBranchOrJump(c[y])
        /\ \A y \in Words(H, b) : ~IsMonitor(c[y])
        /\ ~FallsThru(c, H, b)
    BY <1>0, <1>2, <1>3 DEF Sound, OpenSound, FallsThru
  <2>3. H.ro \subseteq H.blocks
    BY <1>2 DEF Sound, ClosedSound
  <2> QED BY <2>1, <2>2, <2>3 DEF ClosedSound
<1>9. OpenSound(c, H, {})
  BY <1>0, <1>2 DEF Sound, OpenSound
<1> QED BY <1>0, <1>2, <1>5, <1>6, <1>7, <1>8, <1>9 DEF Sound, H, K

\* Cutting a closed block v at one of its words t.
LEMMA SplitSound ==
    ASSUME NEW c \in Programs, NEW G \in Graph, Sound(c, G, {}),
           NEW v \in G.blocks, NEW t \in Addr, t \in Words(G, v), t \notin G.blocks
    PROVE  LET H == Split(G, v, t)
           IN  /\ Sound(c, H, {})
               /\ H.blocks = G.blocks \cup {t} /\ H.ro = G.ro \cup {v, t}
               /\ H.succs[v] = {t}
               /\ \A x \in G.blocks \ {v} :
                    H.succs[x] = G.succs[x] /\ H.last[x] = G.last[x]
<1> DEFINE H == Split(G, v, t)
<1>0. /\ v \in Addr /\ v \in Nat /\ t \in Nat /\ v # t /\ v < t
      /\ G.last[v] \in Nat /\ t <= G.last[v] /\ G.blocks \subseteq Addr
      /\ t - 1 \in Addr
  <2>1. v \in Addr /\ v # t /\ G.last[v] \in 0..N /\ G.blocks \subseteq Addr
    BY DEF Graph
  <2>2. t \in v..G.last[v]
    BY DEF Words
  <2> QED BY <2>1, <2>2, AddrFacts DEF Addr
<1>1. /\ H.blocks = G.blocks \cup {t} /\ H.ro = G.ro \cup {v, t}
      /\ H.died = G.died
      /\ \A x \in Addr :
           /\ H.last[x] = IF x = t THEN G.last[v] ELSE IF x = v THEN t - 1 ELSE G.last[x]
           /\ H.term[x] = IF x = t THEN G.term[v] ELSE IF x = v THEN t - 1 ELSE G.term[x]
           /\ H.succs[x] = IF x = t THEN G.succs[v] ELSE IF x = v THEN {t} ELSE G.succs[x]
           /\ H.ins[x] = IF x \in t..G.last[v] THEN t ELSE G.ins[x]
           /\ H.preds[x] = ((IF x \in G.succs[v] THEN G.preds[x] \ {v} ELSE G.preds[x])
                             \cup (IF x \in G.succs[v] THEN {t} ELSE {}))
                             \cup (IF x = t THEN {v} ELSE {})
  BY <1>0 DEF Split, SplitSuccs, SplitPreds, SplitTerm, SplitIns, Graph
<1> HIDE DEF H
<1>2. G.succs[t] = {} /\ \A x \in Addr : t \notin G.succs[x]
  BY DEF Sound, EdgesSound, Graph
<1>3. \A x \in G.blocks \ {v} : /\ H.succs[x] = G.succs[x] /\ H.last[x] = G.last[x]
                               /\ H.term[x] = G.term[x]
  BY <1>0, <1>1
<1>4. /\ Words(H, t) = t..G.last[v] /\ Words(H, v) = v..(t - 1)
      /\ H.last[v] = t - 1 /\ H.last[t] = G.last[v]
  BY <1>0, <1>1 DEF Words
<1>5. InsSound(H)
  <2> SUFFICES ASSUME NEW a \in Addr, H.ins[a] # NoBlock
               PROVE  H.ins[a] \in H.blocks /\ a \in Words(H, H.ins[a])
    BY DEF InsSound
  <2>1. CASE a \in t..G.last[v]
    BY <1>1, <1>4, <2>1
  <2>2. CASE a \notin t..G.last[v]
    <3>1. H.ins[a] = G.ins[a] /\ G.ins[a] \in G.blocks /\ a \in Words(G, G.ins[a])
      BY <1>1, <2>2 DEF Sound, InsSound
    <3>2. CASE G.ins[a] = v
      BY <1>0, <1>1, <1>4, <2>2, <3>1, <3>2 DEF Words
    <3>3. CASE G.ins[a] # v
      BY <1>1, <1>3, <3>1, <3>3 DEF Words
    <3> QED BY <3>2, <3>3
  <2> QED BY <2>1, <2>2
<1>6. Mirrored(H)
  <2> SUFFICES ASSUME NEW x \in Addr, NEW y \in Addr
               PROVE  y \in H.succs[x] <=> x \in H.preds[y]
    BY DEF Mirrored
  <2>1. \A p, q \in Addr : q \in G.succs[p] <=> p \in G.preds[q]
    BY DEF Sound, Mirrored
  <2> QED BY <1>0, <1>1, <1>2, <2>1
<1>7. EdgesSound(c, H, {})
  <2> SUFFICES ASSUME NEW x \in Addr, NEW y \in H.succs[x]
               PROVE  x \in H.blocks /\ y \in H.blocks /\ y \in NextPCs(c, H.last[x])
    BY DEF EdgesSound
  <2>1. CASE x = v
    <3>1. y = t
      BY <1>0, <1>1, <2>1
    <3>2. ~IsBranchOrJump(c[t - 1]) /\ ~IsMonitor(c[t - 1])
      BY <1>0 DEF Sound, ClosedSound, Words
    <3>3. NextPCs(c, t - 1) = {(t - 1) + 1}
      BY <1>0, <3>2, StraightFlow
    <3> QED BY <1>0, <1>1, <1>4, <2>1, <3>1, <3>3
  <2>2. CASE x = t
    BY <1>0, <1>1, <1>4, <2>2 DEF Sound, EdgesSound
  <2>3. CASE x # v /\ x # t
    <3>1. H.succs[x] = G.succs[x] /\ H.last[x] = G.last[x]
      BY <1>1, <2>3
    <3> QED BY <1>1, <3>1 DEF Sound, EdgesSound
  <2> QED BY <2>1, <2>2, <2>3
<1>8. ClosedSound(c, H, {})
  <2>1. H.ro \subseteq H.blocks
    BY <1>1 DEF Sound, ClosedSound
  <2>2. ASSUME NEW x \in H.blocks
        PROVE  /\ x <= H.last[x]
               /\ H.term[x] = H.last[x]
               /\ \A a \in x..(H.last[x] - 1) : ~IsBranchOrJump(c[a])
               /\ \A a \in Words(H, x) : ~IsMonitor(c[a])
               /\ FallsThru(c, H, x) => H.succs[x] = {H.last[x] + 1}
    <3>1. /\ G.term[v] = G.last[v]
          /\ \A a \in v..(G.last[v] - 1) : ~IsBranchOrJump(c[a])
          /\ \A a \in v..G.last[v] : ~IsMonitor(c[a])
          /\ ~IsBranchOrJump(c[G.last[v]]) => G.succs[v] = {G.last[v] + 1}
      BY DEF Sound, ClosedSound, Words, FallsThru
    <3>2. CASE x = v
      BY <1>0, <1>1, <1>4, <3>1, <3>2
    <3>3. CASE x = t
      BY <1>0, <1>1, <1>4, <3>1, <3>3 DEF FallsThru
    <3>4. CASE x \in G.blocks \ {v}
      BY <1>3, <3>4 DEF Sound, ClosedSound, Words, FallsThru
    <3> QED BY <1>1, <3>2, <3>3, <3>4
  <2> QED BY <2>1, <2>2 DEF ClosedSound
<1>9. OpenSound(c, H, {})
  BY <1>0, <1>1 DEF Sound, OpenSound
<1> QED BY <1>0, <1>1, <1>3, <1>5, <1>6, <1>7, <1>8, <1>9 DEF Sound, H

LEMMA SetReadOnlySound ==
    ASSUME NEW c, NEW G \in Graph, NEW O, Sound(c, G, O), NEW b \in G.blocks
    PROVE  LET H == SetReadOnly(G, b)
           IN  /\ Sound(c, H, O)
               /\ H.blocks = G.blocks /\ H.ro = G.ro \cup {b}
               /\ H.succs = G.succs /\ H.last = G.last
<1> DEFINE H == SetReadOnly(G, b)
<1>1. /\ H.blocks = G.blocks /\ H.last = G.last /\ H.term = G.term
      /\ H.ro = G.ro \cup {b} /\ H.succs = G.succs /\ H.preds = G.preds
      /\ H.ins = G.ins /\ H.died = G.died
  BY DEF SetReadOnly, Graph
<1> HIDE DEF H
<1>2. InsSound(H) /\ Mirrored(H) /\ EdgesSound(c, H, O) /\ OpenSound(c, H, O) /\ ~H.died
  BY <1>1 DEF Sound, InsSound, Mirrored, EdgesSound, OpenSound, Words
<1>3. ClosedSound(c, H, O)
  BY <1>1 DEF Sound, ClosedSound, Words, FallsThru
<1> QED BY <1>1, <1>2, <1>3 DEF Sound, H

\* Looking up or creating the block at a pc that block b leads to.
LEMMA FindOrCreateSound ==
    ASSUME NEW c \in Programs, NEW G \in Graph, Sound(c, G, {}),
           NEW b \in G.blocks, NEW t \in NextPCs(c, G.last[b]),
           G.blocks \ G.ro \subseteq {b},
           b \in G.ro \/ G.succs[b] = {}
    PROVE  LET H == FindOrCreate(c, G, b, b, t)
           IN  /\ b \in H.blocks /\ t \in H.blocks /\ t \in H.succs[b]
               /\ \/ /\ Sound(c, H, {})
                     /\ H.blocks \ H.ro \subseteq {b}
                  \/ /\ Sound(c, H, {t})
                     /\ t # b /\ t \notin H.ro /\ H.last[t] = t - 1
                     /\ H.blocks \ H.ro \subseteq {b, t}
<1> DEFINE H == FindOrCreate(c, G, b, b, t)
<1>0. b \in Addr /\ G.last[b] \in Addr /\ t \in Addr /\ t \in Nat
  <2>1. b \in Addr /\ G.last[b] \in Addr
    BY LastInAddr DEF Sound
  <2> QED BY <2>1, FlowTyped DEF Addr
<1>1. CASE t \in G.succs[b]
  <2>1. H = G
    BY <1>1 DEF FindOrCreate, FoundBlock, FindBlock, MustSplit, AddSuccessor, KnownSuccessor
  <2> QED BY <1>0, <1>1, <2>1 DEF Sound, EdgesSound
<1>2. CASE t \notin G.succs[b] /\ t \in G.blocks
  <2>1. H = AddSuccessor(c, G, b, t)
    BY <1>2 DEF FindOrCreate, FoundBlock, FindBlock, MustSplit
  <2>2. H = G \/ H = Link(G, b, t)
    BY <1>2, <2>1, AddSuccessorSound
  <2>3. H.blocks = G.blocks /\ H.ro = G.ro
    BY <2>2 DEF Link, Graph
  <2> QED BY <1>2, <2>1, <2>3, AddSuccessorSound
<1>3. CASE t \notin G.succs[b] /\ t \notin G.blocks /\ G.ins[t] # NoBlock
  <2> DEFINE v == G.ins[t]
             K == Split(G, v, t)
  <2>1. v \in G.blocks /\ t \in Words(G, v)
    BY <1>0, <1>3 DEF Sound, InsSound
  <2>2. H = AddSuccessor(c, K, b, t)
    BY <1>3 DEF FindOrCreate, FoundBlock, FindBlock, MustSplit
  <2>3. /\ K \in Graph /\ Sound(c, K, {})
        /\ K.blocks = G.blocks \cup {t} /\ K.ro = G.ro \cup {v, t}
        /\ K.succs[v] = {t}
        /\ b # v => K.succs[b] = G.succs[b] /\ K.last[b] = G.last[b]
    <3>1. v \in Addr
      BY <2>1 DEF Graph
    <3>2. K \in Graph
      BY <1>0, <3>1, SplitTyped
    <3>3. /\ Sound(c, K, {})
          /\ K.blocks = G.blocks \cup {t} /\ K.ro = G.ro \cup {v, t}
          /\ K.succs[v] = {t}
          /\ \A x \in G.blocks \ {v} : K.succs[x] = G.succs[x] /\ K.last[x] = G.last[x]
      BY <1>0, <1>3, <2>1, SplitSound
    <3> QED BY <3>2, <3>3
  <2>4. CASE b = v
    <3>1. H = K
      BY <2>2, <2>3, <2>4 DEF AddSuccessor, KnownSuccessor
    <3> QED BY <2>3, <2>4, <3>1
  <2>5. CASE b # v
    <3>1. /\ Sound(c, H, {}) /\ t \in H.succs[b]
          /\ H = K \/ H = Link(K, b, t)
      BY <2>2, <2>3, <2>5, AddSuccessorSound
    <3>2. H.blocks = K.blocks /\ H.ro = K.ro
      BY <2>3, <3>1 DEF Link, Graph
    <3> QED BY <2>3, <3>1, <3>2
  <2> QED BY <2>4, <2>5
<1>4. CASE t \notin G.succs[b] /\ t \notin G.blocks /\ G.ins[t] = NoBlock
  <2> DEFINE K == NewBlock(G, t)
  <2>1. H = AddSuccessor(c, K, b, t)
    BY <1>4 DEF FindOrCreate, FoundBlock, FindBlock, MustSplit
  <2>2. /\ K \in Graph /\ Sound(c, K, {t})
        /\ K.blocks = G.blocks \cup {t} /\ K.last[t] = t - 1
        /\ K.last[b] = G.last[b] /\ K.ro = G.ro /\ K.succs = G.succs
    <3>1. Sound(c, K, {} \cup {t})
      BY <1>0, <1>4, NewBlockSound
    <3> QED BY <1>0, <1>4, <3>1, NewBlockTyped, NewBlockSound
  <2>3. t # b /\ t \notin K.ro
    BY <1>4, <2>2 DEF Sound, ClosedSound
  <2>4. /\ Sound(c, H, {t}) /\ t \in H.succs[b]
        /\ H = K \/ H = Link(K, b, t)
    BY <2>1, <2>2, <2>3, AddSuccessorSound
  <2>5. H.blocks = K.blocks /\ H.ro = K.ro /\ H.last = K.last
    BY <2>2, <2>4 DEF Link, Graph
  <2> QED BY <2>2, <2>3, <2>4, <2>5
<1> QED BY <1>1, <1>2, <1>3, <1>4

LEMMA GetNextBlockSound ==
    ASSUME NEW c \in Programs, NEW G \in Graph, Sound(c, G, {}),
           NEW b \in G.blocks, NEW t \in NextPCs(c, G.last[b]),
           G.blocks \ G.ro \subseteq {b},
           b \in G.ro \/ G.succs[b] = {}
    PROVE  LET H == GetNextBlock(c, G, b, t)
           IN  /\ Sound(c, H, H.blocks \ H.ro)
               /\ b \in H.ro /\ t \in H.blocks /\ t \in H.succs[b]
               /\ H.blocks \ H.ro \subseteq {t}
               /\ t \notin H.ro => H.last[t] = t - 1
<1> DEFINE K == FindOrCreate(c, G, b, b, t)
           H == SetReadOnly(K, b)
<1>0. b \in Addr /\ t \in Addr
  BY LastInAddr, FlowTyped DEF Sound
<1>1. K \in Graph
  BY <1>0, FindOrCreateTyped
<1>2. /\ b \in K.blocks /\ t \in K.blocks /\ t \in K.succs[b]
      /\ \/ /\ Sound(c, K, {})
            /\ K.blocks \ K.ro \subseteq {b}
         \/ /\ Sound(c, K, {t})
            /\ t # b /\ t \notin K.ro /\ K.last[t] = t - 1
            /\ K.blocks \ K.ro \subseteq {b, t}
  BY FindOrCreateSound
<1> HIDE DEF K
<1>3. ASSUME NEW O, Sound(c, K, O)
      PROVE  /\ Sound(c, H, O)
             /\ H.blocks = K.blocks /\ H.ro = K.ro \cup {b}
             /\ H.succs = K.succs /\ H.last = K.last
  BY <1>1, <1>2, <1>3, SetReadOnlySound
<1> HIDE DEF H
<1>4. CASE Sound(c, K, {}) /\ K.blocks \ K.ro \subseteq {b}
  <2>1. H.blocks \ H.ro = {}
    BY <1>3, <1>4
  <2> QED BY <1>2, <1>3, <1>4, <2>1 DEF GetNextBlock, H, K
<1>5. CASE /\ Sound(c, K, {t})
           /\ t # b /\ t \notin K.ro /\ K.last[t] = t - 1
           /\ K.blocks \ K.ro \subseteq {b, t}
  <2>1. H.blocks \ H.ro = {t}
    BY <1>2, <1>3, <1>5
  <2> QED BY <1>2, <1>3, <1>5, <2>1 DEF GetNextBlock, H, K
<1> QED BY <1>2, <1>4, <1>5

\* Where the next instruction of an open block goes.
EndOf(G, b) == G.last[b] + 1

\* The whole step of the interpreter at a transfer that ends the open block.
LEMMA BuildTransferSound ==
    ASSUME NEW c \in Programs, NEW G \in Graph, NEW b \in G.blocks,
           b \notin G.ro, G.blocks \ G.ro = {b}, Sound(c, G, {b}),
           NEW a \in Addr, a = EndOf(G, b), IsBranchOrJump(c[a]),
           NEW t \in NextPCs(c, a)
    PROVE  LET H == GetNextBlock(c, SetTermAddr(AddIns(G, b, a), b, a), b, t)
           IN  /\ Sound(c, H, H.blocks \ H.ro)
               /\ t \in H.blocks
               /\ H.blocks \ H.ro \subseteq {t}
               /\ t \notin H.ro => t = EndOf(H, t)
<1> DEFINE K == SetTermAddr(AddIns(G, b, a), b, a)
<1>1. /\ Sound(c, K, {}) /\ K.blocks = G.blocks /\ K.ro = G.ro
      /\ K.succs[b] = {} /\ K.last[b] = a
  BY CloseSound DEF EndOf
<1>2. b \in Addr /\ t \in Addr
  BY FlowTyped DEF Graph
<1>3. K \in Graph
  BY <1>2, AddInsTyped, SetTermAddrTyped
<1> HIDE DEF K
<1>4. b \in K.blocks /\ t \in NextPCs(c, K.last[b]) /\ K.blocks \ K.ro \subseteq {b}
  BY <1>1
<1> DEFINE H == GetNextBlock(c, K, b, t)
<1>5. /\ Sound(c, H, H.blocks \ H.ro) /\ t \in H.blocks
      /\ H.blocks \ H.ro \subseteq {t}
      /\ t \notin H.ro => H.last[t] = t - 1
  BY <1>1, <1>3, <1>4, GetNextBlockSound
<1>6. t \notin H.ro => t = EndOf(H, t)
  BY <1>2, <1>5, AddrFacts DEF EndOf
<1> QED BY <1>5, <1>6 DEF K

-----------------------------------------------------------------------------
(***************************************************************************)
(* The main loop.                                                          *)
(***************************************************************************)
LEMMA InitInv == Init => IndInv
<1> SUFFICES ASSUME Init PROVE IndInv
  OBVIOUS
<1>1. 1 \in Addr /\ N \in Nat /\ 0 \in 0..N
  BY AddrFacts DEF Addr
<1>2. /\ graph.blocks = {1} /\ graph.ro = {} /\ graph.died = FALSE
      /\ \A x \in Addr : /\ graph.last[x] = 0 /\ graph.term[x] = 0
                         /\ graph.succs[x] = {} /\ graph.preds[x] = {}
                         /\ graph.ins[x] = 0
  BY <1>1 DEF Init, NewBlock, EmptyGraph, NoBlock
<1>3. EmptyGraph \in Graph
  BY <1>1 DEF EmptyGraph, Graph, NoBlock
<1>4. TypeOK
  BY <1>1, <1>3, NewBlockTyped DEF Init, TypeOK, HostWords, Idle, NoBlock
<1>5. Words(graph, 1) = {}
  BY <1>1, <1>2 DEF Words
<1>6. Sound(code, graph, Open)
  BY <1>1, <1>2, <1>5 DEF Sound, InsSound, Mirrored, EdgesSound, ClosedSound, OpenSound,
       Open, NoBlock
<1>7. PcInSync
  BY <1>1, <1>2 DEF PcInSync, Open, Init, Idle, NoBlock
<1> QED BY <1>4, <1>6, <1>7 DEF IndInv

LEMMA InterpretTyped ==
    ASSUME TypeOK, NEW n, Interpret(n)
    PROVE  /\ n \in Addr /\ pc' = n /\ code' = code /\ code' \in Programs
           /\ brk' \in BOOLEAN /\ host' \in HostWords
           /\ ~brk' => ~IsMonitor(code[pc])
<1>1. Served(host) \in HostWords
  BY DEF TypeOK, Served, HostWords
<1>2. host' \in HostWords
  BY <1>1, HostAssumption DEF Interpret, HostAfter, HostWords
<1>3. n \in NextPCs(code, pc)
  BY GoesWhereItMay DEF Interpret
<1> QED BY <1>2, <1>3, FlowTyped DEF TypeOK, Interpret, BrkAfter

LEMMA BuildInsnInv == IndInv /\ BuildInsn => IndInv'
<1> SUFFICES ASSUME IndInv, BuildInsn PROVE IndInv'
  OBVIOUS
<1> DEFINE Grown == AddIns(graph, cBB, pc)
           Closed == SetTermAddr(Grown, cBB, pc)
<1>1. PICK n \in NextPCs(code, pc) :
        /\ Interpret(n)
        /\ IF IsBranchOrJump(code[pc])
           THEN graph' = GetNextBlock(code, Closed, cBB, n) /\ cBB' = n
           ELSE graph' = Grown /\ cBB' = cBB
  BY DEF BuildInsn
<1>2. /\ n \in Addr /\ pc' = n /\ code' = code /\ code \in Programs /\ code' \in Programs
      /\ brk' \in BOOLEAN /\ host' \in HostWords
      /\ ~brk' => ~IsMonitor(code[pc])
  BY <1>1, InterpretTyped DEF IndInv, TypeOK
<1>3. /\ ~brk /\ unit.blk = NoBlock /\ unit.left = 0 /\ unit' = unit
      /\ pc \in Addr /\ cBB \in Addr /\ graph \in Graph
      /\ Sound(code, graph, Open) /\ cBB \in graph.blocks
      /\ cBB \notin graph.ro /\ Open = {cBB} /\ pc = graph.last[cBB] + 1
  BY DEF IndInv, BuildInsn, Dispatching, Running, Idle, TypeOK, PcInSync, Open
<1>4. Grown \in Graph /\ Closed \in Graph
  BY <1>3, AddInsTyped, SetTermAddrTyped
<1>5. graph' \in Graph /\ cBB' \in Addr
  BY <1>1, <1>2, <1>3, <1>4, GetNextBlockTyped
<1>6. TypeOK'
  BY <1>2, <1>3, <1>5 DEF IndInv, TypeOK
<1>7. CASE brk'
  BY <1>6, <1>7 DEF IndInv, PcInSync
<1>8. CASE ~brk' /\ ~IsBranchOrJump(code[pc])
  <2>1. Sound(code, Grown, {cBB})
    BY <1>2, <1>3, <1>8, ExtendSound
  <2>2. Grown.blocks = graph.blocks /\ Grown.ro = graph.ro /\ Grown.last[cBB] = pc
    BY <1>3 DEF AddIns, Graph
  <2>3. n = pc + 1
    BY <1>2, <1>3, <1>8, StraightFlow
  <2>4. Open' = {cBB} /\ graph' = Grown /\ cBB' = cBB
    BY <1>1, <1>3, <1>8, <2>2 DEF Open
  <2>5. Sound(code, graph, Open)'
    BY <1>2, <2>1, <2>4
  <2>6. PcInSync'
    BY <1>2, <1>3, <2>2, <2>3, <2>4 DEF PcInSync
  <2> QED BY <1>6, <2>5, <2>6 DEF IndInv
<1>9. CASE ~brk' /\ IsBranchOrJump(code[pc])
  <2>3. graph' = GetNextBlock(code, Closed, cBB, n) /\ cBB' = n
    BY <1>1, <1>9
  <2>4. /\ Sound(code, graph', graph'.blocks \ graph'.ro)
        /\ n \in graph'.blocks /\ graph'.blocks \ graph'.ro \subseteq {n}
        /\ n \notin graph'.ro => n = EndOf(graph', n)
    <3>1. /\ code \in Programs /\ graph \in Graph /\ cBB \in graph.blocks
          /\ cBB \notin graph.ro /\ graph.blocks \ graph.ro = {cBB}
          /\ Sound(code, graph, {cBB}) /\ pc \in Addr /\ pc = EndOf(graph, cBB)
      BY <1>2, <1>3 DEF Open, EndOf
    <3>2. IsBranchOrJump(code[pc]) /\ n \in NextPCs(code, pc)
      BY <1>1, <1>9
    <3> QED BY <2>3, <3>1, <3>2, BuildTransferSound
  <2>5. n \notin graph'.ro => n = graph'.last[n] + 1
    BY <2>4 DEF EndOf
  <2>6. PcInSync'
    BY <1>2, <1>3, <2>3, <2>4, <2>5 DEF PcInSync, Open
  <2> QED BY <1>2, <1>6, <2>4, <2>6 DEF Open, IndInv
<1> QED BY <1>7, <1>8, <1>9

LEMMA EnterBlockInv == IndInv /\ EnterBlock => IndInv'
<1> SUFFICES ASSUME IndInv, EnterBlock PROVE IndInv'
  OBVIOUS
<1>1. /\ ~brk /\ cBB \in graph.ro /\ pc = cBB
      /\ unit' = [blk |-> cBB, left |-> (graph.term[cBB] - cBB) + 1]
      /\ graph' = graph /\ cBB' = cBB /\ code' = code /\ pc' = pc /\ brk' = brk
      /\ host' = host
  BY DEF EnterBlock, RunLength, Dispatching, Running, guestVars
<1>2. /\ Sound(code, graph, Open) /\ cBB \in graph.blocks \ Open
      /\ cBB \in Addr /\ graph \in Graph /\ code \in Programs
  BY <1>1 DEF IndInv, TypeOK, PcInSync, Open
<1>3. /\ graph.term[cBB] = graph.last[cBB] /\ graph.last[cBB] \in Addr
      /\ cBB <= graph.last[cBB]
  BY <1>2, LastInAddr DEF Sound, ClosedSound
<1>4. /\ unit'.left \in 0..N /\ unit'.left > 0 /\ unit'.blk = cBB /\ unit'.blk # NoBlock
      /\ pc' + unit'.left = graph'.last[cBB'] + 1 /\ cBB' <= pc'
  BY <1>1, <1>2, <1>3, AddrFacts DEF Addr
<1>5. unit' \in [blk : 0..N, left : 0..N]
  BY <1>1, <1>2, <1>4, AddrFacts
<1>6. TypeOK'
  BY <1>1, <1>5 DEF IndInv, TypeOK
<1>7. PcInSync'
  BY <1>1, <1>4 DEF IndInv, PcInSync, Open
<1> QED BY <1>1, <1>2, <1>6, <1>7 DEF Open, IndInv

LEMMA RunInsnInv == IndInv /\ RunInsn => IndInv'
<1> SUFFICES ASSUME IndInv, RunInsn PROVE IndInv'
  OBVIOUS
<1>1. PICK n \in NextPCs(code, pc) :
        /\ Interpret(n)
        /\ IF IsBranchOrJump(code[pc])
           THEN graph' = GetNextBlock(code, graph, cBB, n) /\ cBB' = n
           ELSE graph' = graph /\ cBB' = cBB
  BY DEF RunInsn
<1>2. /\ n \in Addr /\ pc' = n /\ code' = code /\ code \in Programs /\ code' \in Programs
      /\ brk' \in BOOLEAN /\ host' \in HostWords
      /\ ~brk' => ~IsMonitor(code[pc])
  BY <1>1, InterpretTyped DEF IndInv, TypeOK
<1>3. /\ ~brk /\ unit.blk # NoBlock /\ unit.left > 0 /\ unit.left \in 0..N
      /\ cBB = unit.blk /\ cBB \in graph.ro /\ Open = {}
      /\ pc \in Addr /\ cBB \in Addr /\ graph \in Graph
      /\ Sound(code, graph, {}) /\ cBB \in graph.blocks
      /\ pc + unit.left = graph.last[cBB] + 1 /\ cBB <= pc
  <2>1. /\ ~brk /\ unit.blk # NoBlock /\ unit.left > 0
    BY DEF RunInsn, Running
  <2>2. /\ unit.left \in 0..N /\ pc \in Addr /\ cBB \in Addr /\ graph \in Graph
    BY DEF IndInv, TypeOK
  <2>3. /\ cBB = unit.blk /\ cBB \in graph.ro /\ Open \subseteq {cBB}
        /\ cBB \in graph.blocks /\ pc + unit.left = graph.last[cBB] + 1
        /\ cBB <= pc
    BY <2>1 DEF IndInv, PcInSync
  <2>4. Open = {}
    BY <2>3 DEF Open
  <2>5. Sound(code, graph, {})
    BY <2>1, <2>4 DEF IndInv
  <2> QED BY <2>1, <2>2, <2>3, <2>4, <2>5
<1>4. /\ unit' = [unit EXCEPT !.left = unit.left - 1]
      /\ unit' \in [blk : 0..N, left : 0..N]
      /\ unit'.blk = unit.blk /\ unit'.left = unit.left - 1
  BY <1>3, AddrFacts DEF IndInv, RunInsn, TypeOK
<1>5. graph' \in Graph /\ cBB' \in Addr
  BY <1>1, <1>2, <1>3, GetNextBlockTyped
<1>6. TypeOK'
  BY <1>2, <1>4, <1>5 DEF TypeOK
<1>7. /\ graph.last[cBB] \in Addr /\ cBB <= graph.last[cBB]
      /\ \A a \in cBB..(graph.last[cBB] - 1) : ~IsBranchOrJump(code[a])
  BY <1>2, <1>3, LastInAddr DEF Sound, ClosedSound
<1>8. CASE brk'
  BY <1>6, <1>8 DEF IndInv, PcInSync
<1>9. CASE ~brk' /\ ~IsBranchOrJump(code[pc])
  <2>1. n = pc + 1
    BY <1>2, <1>3, <1>9, StraightFlow
  <2>2. Open' = {} /\ graph' = graph /\ cBB' = cBB
    BY <1>1, <1>3, <1>9 DEF Open
  <2>3. Sound(code, graph, Open)'
    BY <1>2, <1>3, <2>2
  <2>4. unit'.left > 0 => pc' + unit'.left = graph'.last[cBB'] + 1 /\ cBB' <= pc'
    BY <1>2, <1>3, <1>4, <2>1, <2>2, AddrFacts DEF Addr
  <2>5. unit'.left = 0 => pc' \in graph'.succs[unit'.blk] /\ pc' \in graph'.ro
    <3> SUFFICES ASSUME unit'.left = 0
                 PROVE  pc' \in graph'.succs[unit'.blk] /\ pc' \in graph'.ro
      OBVIOUS
    <3>1. unit.left = 1 /\ pc = graph.last[cBB]
      BY <1>3, <1>4, <1>7, AddrFacts DEF Addr
    <3>2. FallsThru(code, graph, cBB) /\ cBB \in graph.blocks \ {}
      BY <1>3, <1>9, <3>1 DEF FallsThru
    <3>3. n \in graph.succs[cBB]
      BY <1>2, <1>3, <3>1, <3>2, FallThruKnown DEF Sound
    <3>4. n \in graph.blocks
      BY <1>2, <1>3, <3>3 DEF Sound, EdgesSound
    <3> QED BY <1>2, <1>3, <1>4, <2>2, <3>3, <3>4 DEF Open
  <2>6. PcInSync'
    BY <1>3, <1>4, <2>2, <2>4, <2>5 DEF PcInSync
  <2> QED BY <1>6, <2>3, <2>6 DEF IndInv
<1>10. CASE ~brk' /\ IsBranchOrJump(code[pc])
  <2>1. pc = graph.last[cBB] /\ unit'.left = 0
    <3>1. pc \notin cBB..(graph.last[cBB] - 1)
      BY <1>7, <1>10
    <3> QED BY <1>3, <1>4, <1>7, <3>1, AddrFacts DEF Addr
  <2>2. graph' = GetNextBlock(code, graph, cBB, n) /\ cBB' = n
    BY <1>1, <1>10
  <2>3. /\ Sound(code, graph', graph'.blocks \ graph'.ro)
        /\ cBB \in graph'.ro /\ n \in graph'.blocks /\ n \in graph'.succs[cBB]
        /\ graph'.blocks \ graph'.ro \subseteq {n}
        /\ n \notin graph'.ro => graph'.last[n] = n - 1
    BY <1>2, <1>3, <2>1, <2>2, GetNextBlockSound DEF Open
  <2>4. n \notin graph'.ro => n = graph'.last[n] + 1
    BY <1>2, <2>3, AddrFacts
  <2>5. PcInSync'
    BY <1>2, <1>3, <1>4, <2>1, <2>2, <2>3, <2>4 DEF PcInSync, Open
  <2> QED BY <1>2, <1>6, <2>3, <2>5 DEF Open, IndInv
<1> QED BY <1>8, <1>9, <1>10

LEMMA LeaveBlockInv == IndInv /\ LeaveBlock => IndInv'
<1> SUFFICES ASSUME IndInv, LeaveBlock PROVE IndInv'
  OBVIOUS
<1>1. /\ unit.blk # NoBlock
      /\ unit.left = 0 \/ brk
      /\ graph' = FindOrCreate(code, graph, unit.blk, cBB, pc)
      /\ cBB' = pc /\ unit' = Idle
      /\ code' = code /\ pc' = pc /\ brk' = brk /\ host' = host
  BY DEF LeaveBlock, guestVars
<1>2. /\ unit.blk \in Addr /\ pc \in Addr /\ cBB \in Addr /\ graph \in Graph
  <2>1. unit.blk \in 0..N /\ pc \in Addr /\ cBB \in Addr /\ graph \in Graph
    BY DEF IndInv, TypeOK
  <2>2. unit.blk # 0
    BY <1>1 DEF NoBlock
  <2> QED BY <2>1, <2>2, AddrFacts DEF Addr
<1>3. TypeOK'
  <2>1. graph' \in Graph
    BY <1>1, <1>2, FindOrCreateTyped
  <2>2. unit' \in [blk : 0..N, left : 0..N]
    BY <1>1, AddrFacts DEF Idle, NoBlock
  <2> QED BY <1>1, <1>2, <2>1, <2>2 DEF IndInv, TypeOK
<1>4. CASE brk
  BY <1>1, <1>3, <1>4 DEF IndInv, PcInSync
<1>5. CASE ~brk
  <2>1. /\ Sound(code, graph, Open) /\ Open \subseteq {pc}
        /\ pc \in graph.succs[unit.blk]
        /\ pc \notin graph.ro => pc = graph.last[pc] + 1
    BY <1>1, <1>5 DEF IndInv, PcInSync
  <2>2. graph' = graph
    BY <1>1, <2>1 DEF FindOrCreate, FoundBlock, FindBlock, MustSplit, AddSuccessor, KnownSuccessor
  <2>3. pc \in graph.blocks
    BY <1>2, <2>1 DEF Sound, EdgesSound
  <2>4. PcInSync'
    BY <1>1, <2>1, <2>2, <2>3 DEF PcInSync, Open, Idle
  <2> QED BY <1>1, <1>3, <2>1, <2>2, <2>4 DEF Open, IndInv
<1> QED BY <1>4, <1>5

LEMMA NextInv == IndInv /\ [Next]_vars => IndInv'
<1>1. IndInv /\ UNCHANGED vars => IndInv'
  BY DEF IndInv, vars, TypeOK, PcInSync, Open
<1> QED BY <1>1, BuildInsnInv, EnterBlockInv, RunInsnInv, LeaveBlockInv DEF Next

THEOREM Invariance == Spec => []IndInv
BY InitInv, NextInv, PTL DEF Spec

\* Every variable keeps its type: in particular run never computes a length
\* outside the program from termAddr.
THEOREM TypeCorrect == Spec => []TypeOK
<1>1. IndInv => TypeOK
  BY DEF IndInv
<1> QED BY <1>1, Invariance, PTL

\* The pc and the block structure stay in step (executeJIT's entry test, run's
\* length, the successor lookup after a block).
THEOREM PcStaysInSync == Spec => []PcInSync
<1>1. IndInv => PcInSync
  BY DEF IndInv
<1> QED BY <1>1, Invariance, PTL

\* insMap stays sound: findBlock cuts the block that holds the address.
THEOREM InsMapStaysSound == Spec => []InsMapSound
<1>1. IndInv => InsMapSound
  BY DEF IndInv, Sound, InsMapSound
<1> QED BY <1>1, Invariance, PTL

\* The edges stay mirrored in succs and preds, and possible.
THEOREM EdgesStayTrue == Spec => []EdgesTrue
<1>1. IndInv => EdgesTrue
  BY DEF IndInv, Sound, EdgesTrue
<1> QED BY <1>1, Invariance, PTL

\* Closed blocks and the block being built keep their extents.
THEOREM ExtentsStay == Spec => []Extents
<1>1. IndInv => Extents
  BY DEF IndInv, Sound, Extents
<1> QED BY <1>1, Invariance, PTL

\* addSuccessor never dies while the guest runs.
THEOREM NeverDies == Spec => []NoDie
<1>1. IndInv => NoDie
  BY DEF IndInv, Sound, NoDie
<1> QED BY <1>1, Invariance, PTL

-----------------------------------------------------------------------------
(***************************************************************************)
(* What a step does to closed blocks, also on the way out of a guest that  *)
(* has stopped, where Sound need not hold any more: then as before, closed *)
(* blocks and the blocks named by insMap are known ones.                   *)
(***************************************************************************)
Known(G) ==
    /\ G.ro \subseteq G.blocks
    /\ \A a \in Addr : G.ins[a] \in G.blocks \cup {NoBlock}

\* addSuccessor only adds edges.
LEMMA AddSuccessorAdds ==
    ASSUME NEW c, NEW G \in Graph, NEW b \in Addr, NEW t \in Addr
    PROVE  LET H == AddSuccessor(c, G, b, t)
           IN  /\ H.blocks = G.blocks /\ H.ro = G.ro
               /\ H.last = G.last /\ H.ins = G.ins
               /\ \A x \in Addr : G.succs[x] \subseteq H.succs[x]
<1>1. AddSuccessor(c, G, b, t) \in {G, Die(G), Link(G, b, t), Die(Link(G, b, t))}
  BY Zenon DEF AddSuccessor
<1> DEFINE L == Link(G, b, t)
           Adds(K) == /\ K.blocks = G.blocks /\ K.ro = G.ro
                      /\ K.last = G.last /\ K.ins = G.ins
                      /\ \A x \in Addr : G.succs[x] \subseteq K.succs[x]
<1>2. Adds(G)
  OBVIOUS
<1>3. Adds(L)
  <2>1. /\ L.blocks = G.blocks /\ L.ro = G.ro
        /\ L.last = G.last /\ L.ins = G.ins
    BY DEF Link, Graph
  <2>2. L.succs = [G.succs EXCEPT ![b] = G.succs[b] \cup {t}]
    BY DEF Link, Graph
  <2>3. G.succs \in [Addr -> SUBSET Addr]
    BY DEF Graph
  <2>4. \A x \in Addr : G.succs[x] \subseteq L.succs[x]
    BY <2>2, <2>3
  <2> QED BY <2>1, <2>4
<1>4. L \in Graph
  BY LinkTyped
<1>5. ASSUME NEW K \in Graph, Adds(K)
      PROVE  Adds(Die(K))
  <2>1. /\ Die(K).blocks = K.blocks /\ Die(K).ro = K.ro
        /\ Die(K).last = K.last /\ Die(K).ins = K.ins
        /\ Die(K).succs = K.succs
    BY DEF Die, Graph
  <2> QED BY <1>5, <2>1
<1> HIDE DEF Adds, L
<1>6. Adds(Die(G)) /\ Adds(Die(L))
  BY <1>2, <1>3, <1>4, <1>5
<1>7. AddSuccessor(c, G, b, t) \in {G, Die(G), L, Die(L)}
  BY <1>1 DEF L
<1>8. Adds(AddSuccessor(c, G, b, t))
  BY <1>2, <1>3, <1>6, <1>7
<1> QED BY <1>8 DEF Adds

\* A split cuts one block, in front of a block that was not known.
LEMMA SplitCuts ==
    ASSUME NEW G \in Graph, Known(G),
           NEW v \in G.blocks, NEW t \in Addr, t \notin G.blocks
    PROVE  LET H == Split(G, v, t)
           IN  /\ Known(H) /\ H.blocks = G.blocks \cup {t}
               /\ Cuts(G, H)
<1> DEFINE H == Split(G, v, t)
<1>1. /\ H.blocks = G.blocks \cup {t} /\ H.ro = G.ro \cup {v, t}
      /\ \A x \in Addr : H.ins[x] \in {t, G.ins[x]}
  BY DEF Split, SplitIns
<1>2. v \in Addr /\ v # t /\ G.blocks \subseteq Addr
  BY DEF Graph
<1>3. /\ H.last[v] = t - 1 /\ H.last[t] = G.last[v]
      /\ \A x \in Addr \ {v, t} : H.last[x] = G.last[x]
  BY <1>2 DEF Split, Graph
<1>4. H.succs[t] = G.succs[v]
  BY <1>2 DEF Split, SplitSuccs, Graph
<1>5. Known(H)
  BY <1>1 DEF Known
<1>6. ASSUME NEW x \in G.ro, H.last[x] # G.last[x]
      PROVE  x = v
  <2>1. x \in G.blocks
    BY <1>6 DEF Known
  <2>2. x \in Addr /\ x # t
    BY <1>2, <2>1
  <2> QED BY <1>3, <1>6, <2>2
<1>7. (t - 1) + 1 = t
  BY DEF Addr
<1>8. Cuts(G, H)
  BY <1>1, <1>3, <1>4, <1>6, <1>7 DEF Cuts
<1> QED BY <1>1, <1>5, <1>8

\* What is cut stays cut when edges are added.
LEMMA CutsThenAdds ==
    ASSUME NEW c, NEW G \in Graph, NEW K \in Graph, Cuts(G, K), Known(K),
           NEW b \in Addr, NEW t \in Addr
    PROVE  LET H == AddSuccessor(c, K, b, t)
           IN  Known(H) /\ H.blocks = K.blocks /\ Cuts(G, H)
<1> DEFINE H == AddSuccessor(c, K, b, t)
<1>1. /\ H.blocks = K.blocks /\ H.ro = K.ro /\ H.last = K.last /\ H.ins = K.ins
      /\ \A x \in Addr : K.succs[x] \subseteq H.succs[x]
  BY AddSuccessorAdds
<1>2. Known(H)
  BY <1>1 DEF Known
<1>3. Cuts(G, H)
  BY <1>1 DEF Cuts
<1> QED BY <1>1, <1>2, <1>3

LEMMA FindOrCreateCuts ==
    ASSUME NEW c, NEW G \in Graph, Known(G),
           NEW b \in Addr, NEW p \in Addr, NEW t \in Addr
    PROVE  LET H == FindOrCreate(c, G, b, p, t)
           IN  Known(H) /\ G.blocks \subseteq H.blocks /\ Cuts(G, H)
<1> DEFINE H == FindOrCreate(c, G, b, p, t)
<1>0. Cuts(G, G)
  BY DEF Cuts
<1>1. CASE FoundBlock(G, b, t) /\ MustSplit(G, b, t)
  <2> DEFINE v == G.ins[t]
             K == Split(G, v, t)
  <2>1. v \in G.blocks /\ t \notin G.blocks
    BY <1>1 DEF MustSplit, Known
  <2>2. v \in Addr
    BY <2>1 DEF Graph
  <2>3. Known(K) /\ K.blocks = G.blocks \cup {t} /\ Cuts(G, K)
    BY <2>1, SplitCuts
  <2>4. K \in Graph
    BY <2>2, SplitTyped
  <2>5. H = AddSuccessor(c, K, b, t)
    BY <1>1 DEF FindOrCreate, FindBlock
  <2> HIDE DEF K, H
  <2> QED BY <2>3, <2>4, <2>5, CutsThenAdds DEF H
<1>2. CASE FoundBlock(G, b, t) /\ ~MustSplit(G, b, t)
  <2>1. H = AddSuccessor(c, G, b, t)
    BY <1>2 DEF FindOrCreate, FindBlock
  <2> HIDE DEF H
  <2> QED BY <1>0, <2>1, CutsThenAdds DEF H
<1>3. CASE ~FoundBlock(G, b, t)
  <2> DEFINE K == NewBlock(G, t)
  <2>1. t \notin G.blocks
    BY <1>3 DEF FoundBlock
  <2>2. /\ K.blocks = G.blocks \cup {t} /\ K.ro = G.ro /\ K.ins = G.ins
        /\ \A x \in Addr \ {t} : K.last[x] = G.last[x]
    BY DEF NewBlock, Graph
  <2>3. G.ro \subseteq Addr \ {t}
    BY <2>1 DEF Known, Graph
  <2>4. Known(K) /\ Cuts(G, K)
    BY <2>2, <2>3 DEF Known, Cuts
  <2>5. K \in Graph
    BY NewBlockTyped
  <2>6. H = AddSuccessor(c, K, p, t)
    BY <1>3 DEF FindOrCreate
  <2>7. G.blocks \subseteq K.blocks
    BY <2>2
  <2> HIDE DEF K, H
  <2>8. Known(H) /\ H.blocks = K.blocks /\ Cuts(G, H)
    BY <2>4, <2>5, <2>6, CutsThenAdds
  <2> QED BY <2>7, <2>8 DEF H
<1> QED BY <1>1, <1>2, <1>3

LEMMA GetNextBlockCuts ==
    ASSUME NEW c, NEW G \in Graph, Known(G),
           NEW b \in G.blocks, NEW t \in Addr
    PROVE  LET H == GetNextBlock(c, G, b, t)
           IN  Known(H) /\ Cuts(G, H)
<1> DEFINE K == FindOrCreate(c, G, b, b, t)
           H == SetReadOnly(K, b)
<1>1. b \in Addr
  BY DEF Graph
<1>2. Known(K) /\ G.blocks \subseteq K.blocks /\ Cuts(G, K)
  BY <1>1, FindOrCreateCuts
<1>3. /\ H.blocks = K.blocks /\ H.ro = K.ro \cup {b}
      /\ H.last = K.last /\ H.ins = K.ins /\ H.succs = K.succs
  BY <1>1, FindOrCreateTyped DEF SetReadOnly, Graph
<1>4. Known(H)
  BY <1>2, <1>3 DEF Known
<1>5. Cuts(G, H)
  BY <1>2, <1>3 DEF Cuts
<1> QED BY <1>4, <1>5 DEF GetNextBlock

\* Building an open block touches no closed one.
LEMMA BuildCuts ==
    ASSUME NEW c, NEW G \in Graph, Known(G),
           NEW b \in G.blocks, b \notin G.ro, NEW a \in Addr
    PROVE  LET K == SetTermAddr(AddIns(G, b, a), b, a)
           IN  /\ Known(AddIns(G, b, a)) /\ Cuts(G, AddIns(G, b, a))
               /\ K \in Graph /\ Known(K) /\ b \in K.blocks
               /\ \A H : Cuts(K, H) => Cuts(G, H)
<1> DEFINE L == AddIns(G, b, a)
           K == SetTermAddr(L, b, a)
<1>1. b \in Addr
  BY DEF Graph
<1>2. /\ L.blocks = G.blocks /\ L.ro = G.ro /\ L.succs = G.succs
      /\ \A x \in Addr \ {b} : L.last[x] = G.last[x]
      /\ \A x \in Addr : L.ins[x] \in {b, G.ins[x]}
  BY DEF AddIns, Graph
<1>3. L \in Graph
  BY <1>1, AddInsTyped
<1>4. K \in Graph
  BY <1>1, <1>3, SetTermAddrTyped
<1>5. /\ K.blocks = L.blocks /\ K.ro = L.ro /\ K.succs = L.succs
      /\ K.last = L.last /\ K.ins = L.ins
  BY <1>3 DEF SetTermAddr, Graph
<1> HIDE DEF L, K
<1>6. G.ro \subseteq Addr \ {b}
  BY DEF Known, Graph
<1>7. Known(L) /\ Cuts(G, L)
  BY <1>2, <1>6 DEF Known, Cuts
<1>8. Known(K)
  BY <1>5, <1>7 DEF Known
<1>9. ASSUME NEW H, Cuts(K, H) PROVE Cuts(G, H)
  <2>1. /\ K.ro = G.ro /\ K.blocks = G.blocks /\ K.succs = G.succs
        /\ \A x \in G.ro : K.last[x] = G.last[x]
    BY <1>2, <1>5, <1>6
  <2> QED BY <1>9, <2>1 DEF Cuts
<1> QED BY <1>2, <1>4, <1>5, <1>7, <1>8, <1>9 DEF L, K

LEMMA StepCuts ==
    IndInv /\ Known(graph) /\ [Next]_vars => Known(graph)' /\ Cuts(graph, graph')
<1> SUFFICES ASSUME IndInv, Known(graph), [Next]_vars
             PROVE  Known(graph') /\ Cuts(graph, graph')
  OBVIOUS
<1>0. /\ graph \in Graph /\ code \in Programs /\ pc \in Addr /\ cBB \in Addr
      /\ unit.blk # NoBlock => unit.blk \in Addr
  BY AddrFacts DEF IndInv, TypeOK, Addr, NoBlock
<1>1. ~brk => cBB \in graph.blocks
  BY DEF IndInv, PcInSync
<1>2. ASSUME graph' = graph PROVE Known(graph') /\ Cuts(graph, graph')
  BY <1>2 DEF Cuts
<1>3. CASE BuildInsn
  <2>1. PICK n \in NextPCs(code, pc) :
          IF IsBranchOrJump(code[pc])
          THEN graph' = GetNextBlock(code, SetTermAddr(AddIns(graph, cBB, pc), cBB, pc), cBB, n)
          ELSE graph' = AddIns(graph, cBB, pc)
    BY <1>3 DEF BuildInsn
  <2>2. ~brk /\ unit.blk = NoBlock /\ (cBB \notin graph.ro \/ pc # cBB)
    BY <1>3 DEF BuildInsn, Dispatching, Running, Idle
  <2>3. cBB \notin graph.ro
    BY <2>2 DEF IndInv, PcInSync
  <2>4. n \in Addr
    BY <1>0, <2>1, FlowTyped
  <2> DEFINE L == AddIns(graph, cBB, pc)
             K == SetTermAddr(L, cBB, pc)
  <2>5. /\ Known(L) /\ Cuts(graph, L)
        /\ K \in Graph /\ Known(K) /\ cBB \in K.blocks
        /\ \A H : Cuts(K, H) => Cuts(graph, H)
    BY <1>0, <1>1, <2>2, <2>3, BuildCuts
  <2>6. Known(GetNextBlock(code, K, cBB, n)) /\ Cuts(K, GetNextBlock(code, K, cBB, n))
    BY <2>4, <2>5, GetNextBlockCuts
  <2> QED BY <2>1, <2>5, <2>6
<1>4. CASE EnterBlock
  BY <1>2, <1>4 DEF EnterBlock
<1>5. CASE RunInsn
  <2>1. PICK n \in NextPCs(code, pc) :
          IF IsBranchOrJump(code[pc])
          THEN graph' = GetNextBlock(code, graph, cBB, n)
          ELSE graph' = graph
    BY <1>5 DEF RunInsn
  <2>2. n \in Addr
    BY <1>0, <2>1, FlowTyped
  <2>3. cBB \in graph.blocks
    BY <1>1, <1>5 DEF RunInsn, Running
  <2> QED BY <1>0, <1>2, <2>1, <2>2, <2>3, GetNextBlockCuts
<1>6. CASE LeaveBlock
  <2>1. /\ unit.blk # NoBlock
        /\ graph' = FindOrCreate(code, graph, unit.blk, cBB, pc)
    BY <1>6 DEF LeaveBlock
  <2> QED BY <1>0, <2>1, FindOrCreateCuts
<1>7. CASE UNCHANGED vars
  BY <1>2, <1>7 DEF vars
<1> QED BY <1>3, <1>4, <1>5, <1>6, <1>7 DEF Next

\* The code of a closed block only changes by a split, in every step of every
\* run: compiled code and recordings need to be told of nothing else.
THEOREM OnlySplitsCut == Spec => OnlySplitsCutBlocks
<1>1. Init => Known(graph)
  BY AddrFacts DEF Init, Known, NewBlock, EmptyGraph, NoBlock
<1>2. IndInv /\ Known(graph) /\ [Next]_vars => Known(graph)'
  BY StepCuts
<1>3. IndInv /\ Known(graph) /\ [Next]_vars => [Cuts(graph, graph')]_vars
  BY StepCuts
<1> QED BY <1>1, <1>2, <1>3, Invariance, PTL DEF Spec, OnlySplitsCutBlocks
=============================================================================
