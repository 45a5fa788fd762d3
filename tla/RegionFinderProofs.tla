------------------------- MODULE RegionFinderProofs -------------------------
(***************************************************************************)
(* Proofs about module RegionFinder, for every table size, buffer size,    *)
(* threshold and block graph.  The conjunction of the invariants of its    *)
(* run is inductive: the lemmas say what each method of class region does  *)
(* to the finder, given the block that is current, and the main loop's     *)
(* steps compose them.                                                     *)
(***************************************************************************)
EXTENDS RegionFinder, TLAPS

TableOK(f) ==
    \A i \in Slot : f.heads[i] # NoHead =>
        /\ ComputeIndex(f.heads[i]) = i
        /\ f.counts[i] = 1 \/ f.counts[i] \in 1..(HotThresh - 1)

\* The recording of f when block b is about to be executed.
RecordingOK(f, b) ==
    f.en =>
        /\ f.head # NoHead
        /\ f.buf = <<>> => b = f.head
        /\ f.buf # <<>> =>
              /\ f.buf[1] = f.head
              /\ \A i \in 2..Len(f.buf) : f.buf[i] # f.head
              /\ IsPath(f.buf)
              /\ <<f.buf[Len(f.buf)], b>> \in Edges

FinderOK(f, b) ==
    /\ f \in Finder
    /\ RecordingOK(f, b)
    /\ Len(f.buf) <= NumEntries - 1
    /\ TableOK(f)
    /\ f.en => f.heads[ComputeIndex(f.head)] = NoHead

IndInv == FinderOK(rf, cur) /\ cur \in Blocks /\ region \in Seq(Blocks) /\ RegionIsLoop

LEMMA BlockFacts ==
    /\ \A b \in Blocks : b \in Nat /\ b # NoHead /\ ComputeIndex(b) \in Slot
    /\ NumEntries \in Nat /\ NumEntries > 0
<1>1. ASSUME NEW b \in Blocks PROVE b \in Nat /\ b # NoHead /\ ComputeIndex(b) \in Slot
  <2>1. b \in Nat /\ b # 0 /\ Slots \in Nat /\ Slots > 0
    BY BlocksAssumption, SlotsAssumption
  <2>2. b % Slots \in 0..(Slots - 1)
    BY <2>1
  <2> QED BY <2>1, <2>2 DEF NoHead, ComputeIndex, Slot
<1> QED BY <1>1, NumEntriesAssumption

LEMMA IdleOK == \A b \in Blocks : FinderOK(IdleFinder, b)
<1>1. IdleFinder \in Finder
  BY DEF IdleFinder, Finder
<1>2. Len(IdleFinder.buf) <= NumEntries - 1
  BY BlockFacts DEF IdleFinder
<1> QED BY <1>1, <1>2 DEF FinderOK, RecordingOK, TableOK, IdleFinder

\* Reset, for a head of the table or of the recording.
LEMMA ResetOK ==
    ASSUME NEW f \in Finder, TableOK(f), NEW h \in Blocks, NEW b
    PROVE  FinderOK(Reset(f, h), b) /\ ~Reset(f, h).en
<1> DEFINE i == ComputeIndex(h)
           g == Reset(f, h)
<1>0. i \in Slot
  BY BlockFacts
<1>1. [f.heads EXCEPT ![i] = NoHead] \in [Slot -> Blocks \cup {NoHead}]
  BY <1>0 DEF Finder
<1>2. [f.counts EXCEPT ![i] = 0] \in [Slot -> Nat]
  BY <1>0 DEF Finder
<1>3. g \in Finder
  BY <1>1, <1>2 DEF Finder, Reset
<1>4. /\ ~g.en /\ g.buf = <<>>
      /\ \A j \in Slot : g.heads[j] = IF j = i THEN NoHead ELSE f.heads[j]
      /\ \A j \in Slot : g.counts[j] = IF j = i THEN 0 ELSE f.counts[j]
  BY <1>0 DEF Reset, Finder
<1>5. TableOK(g)
  BY <1>4 DEF TableOK
<1>6. Len(g.buf) <= NumEntries - 1
  BY <1>4, BlockFacts
<1> QED BY <1>3, <1>4, <1>5, <1>6 DEF FinderOK, RecordingOK

LEMMA DisableOK ==
    ASSUME NEW f, NEW b, FinderOK(f, b), NEW n
    PROVE  FinderOK(DisableRegionCollection(f), n) /\ ~DisableRegionCollection(f).en
<1>1. CASE f.en
  <2>1. f.head \in Blocks /\ f.head # NoHead
    BY <1>1 DEF FinderOK, RecordingOK, Finder
  <2>2. DisableRegionCollection(f) = Reset(f, f.head)
    BY <1>1, <2>1 DEF DisableRegionCollection
  <2> QED BY <2>1, <2>2, ResetOK DEF FinderOK
<1>2. CASE ~f.en
  <2>1. DisableRegionCollection(f) = f
    BY <1>2 DEF DisableRegionCollection
  <2> QED BY <1>2, <2>1 DEF FinderOK, RecordingOK
<1> QED BY <1>1, <1>2

\* update and getRegion leave a finder that is ready for any next block n that
\* cur leads to; the region handed over is a loop.
LEMMA PolledOK ==
    ASSUME IndInv
    PROVE  /\ \A n \in Blocks : <<cur, n>> \in Edges => FinderOK(Polled, n)
           /\ ~Polled.en => \A n : FinderOK(Polled, n)
           /\ Handed \in Seq(Blocks)
           /\ RegionIsLoop => \/ Handed = region
                              \/ /\ Handed # <<>> /\ IsPath(Handed)
                                 /\ \A i \in 2..Len(Handed) : Handed[i] # Handed[1]
                                 /\ <<Handed[Len(Handed)], Handed[1]>> \in Edges
<1>0. /\ rf \in Finder /\ cur \in Blocks /\ TableOK(rf) /\ region \in Seq(Blocks)
      /\ rf.buf \in Seq(Blocks) /\ rf.en \in BOOLEAN /\ Len(rf.buf) \in Nat
  BY DEF IndInv, FinderOK, Finder
<1>1. CASE ~rf.en
  <2>1. Polled = rf /\ Handed = region
    BY <1>1 DEF Polled, Handed, Closes, Update, Full, Abandon, Buffered
  <2> QED BY <1>0, <1>1, <2>1 DEF IndInv, FinderOK, RecordingOK
<1>2. CASE rf.en /\ Closes(rf, cur)
  <2>1. rf.head = cur /\ rf.buf # <<>> /\ Handed = rf.buf
    BY <1>2 DEF Closes, Handed
  <2>2. /\ rf.buf[1] = rf.head
        /\ \A i \in 2..Len(rf.buf) : rf.buf[i] # rf.head
        /\ IsPath(rf.buf) /\ <<rf.buf[Len(rf.buf)], cur>> \in Edges
    BY <1>2, <2>1 DEF IndInv, FinderOK, RecordingOK
  <2> DEFINE f == [rf EXCEPT !.en = FALSE]
  <2>3. Polled = Reset(f, f.head)
    BY <1>2 DEF Polled, Update, Full, Abandon, Buffered, GetRegion
  <2>4. f \in Finder /\ f.head = rf.head /\ f.heads = rf.heads /\ f.counts = rf.counts
    BY <1>0 DEF Finder
  <2>5. TableOK(f)
    BY <1>0, <2>4 DEF TableOK
  <2>6. \A n : FinderOK(Polled, n)
    BY <1>0, <2>1, <2>3, <2>4, <2>5, ResetOK
  <2> QED BY <1>0, <2>1, <2>2, <2>6
<1>3. CASE rf.en /\ ~Closes(rf, cur) /\ Len(rf.buf) = NumEntries - 1
  <2>1. Polled = [rf EXCEPT !.en = FALSE] /\ Handed = region
    BY <1>3 DEF Polled, Update, Full, Abandon, Buffered, Handed
  <2>2. /\ Polled \in Finder /\ ~Polled.en /\ Polled.buf = rf.buf
        /\ Polled.heads = rf.heads /\ Polled.counts = rf.counts
    BY <1>0, <2>1 DEF Finder
  <2>3. \A n : FinderOK(Polled, n)
    BY <1>0, <1>3, <2>2 DEF FinderOK, RecordingOK, TableOK, IndInv
  <2> QED BY <1>0, <2>1, <2>3
<1>4. CASE rf.en /\ ~Closes(rf, cur) /\ Len(rf.buf) # NumEntries - 1
  <2> DEFINE s == Append(rf.buf, cur)
  <2>1. Polled = [rf EXCEPT !.buf = s] /\ Handed = region
    BY <1>4 DEF Polled, Update, Full, Abandon, Buffered, Handed
  <2>2. /\ s \in Seq(Blocks) /\ Len(s) = Len(rf.buf) + 1 /\ s # <<>>
        /\ s[Len(s)] = cur
        /\ \A i \in 1..Len(rf.buf) : s[i] = rf.buf[i]
    BY <1>0
  <2> HIDE DEF s
  <2>3. /\ Polled \in Finder /\ Polled.en /\ Polled.buf = s /\ Polled.head = rf.head
        /\ Polled.heads = rf.heads /\ Polled.counts = rf.counts
    BY <1>0, <1>4, <2>1, <2>2 DEF Finder
  <2>4. rf.buf = <<>> \/ cur # rf.head
    BY <1>4 DEF Closes
  <2>5. /\ rf.head # NoHead
        /\ rf.buf = <<>> => cur = rf.head
        /\ rf.buf # <<>> =>
              /\ rf.buf[1] = rf.head
              /\ \A i \in 2..Len(rf.buf) : rf.buf[i] # rf.head
              /\ IsPath(rf.buf)
              /\ <<rf.buf[Len(rf.buf)], cur>> \in Edges
    BY <1>4 DEF IndInv, FinderOK, RecordingOK
  <2>6. s[1] = rf.head /\ (\A i \in 2..Len(s) : s[i] # rf.head) /\ IsPath(s)
    <3>1. CASE rf.buf = <<>>
      BY <2>2, <2>5, <3>1 DEF IsPath
    <3>2. CASE rf.buf # <<>>
      <4>1. Len(rf.buf) > 0
        BY <1>0, <3>2
      <4>2. s[1] = rf.head
        BY <2>2, <2>5, <3>2, <4>1
      <4>3. \A i \in 2..Len(s) : s[i] # rf.head
        BY <1>0, <2>2, <2>4, <2>5, <3>2
      <4>4. \A i \in 1..(Len(s) - 1) : <<s[i], s[i + 1]>> \in Edges
        <5> SUFFICES ASSUME NEW i \in 1..(Len(s) - 1) PROVE <<s[i], s[i + 1]>> \in Edges
          OBVIOUS
        <5>1. CASE i = Len(rf.buf)
          <6>1. i \in 1..Len(rf.buf) /\ i + 1 = Len(s)
            BY <1>0, <2>2, <4>1, <5>1
          <6>2. s[i] = rf.buf[Len(rf.buf)] /\ s[i + 1] = cur
            BY <2>2, <5>1, <6>1
          <6> QED BY <2>5, <3>2, <6>2
        <5>2. CASE i # Len(rf.buf)
          <6>1. i \in 1..(Len(rf.buf) - 1) /\ i + 1 \in 1..Len(rf.buf)
            BY <1>0, <2>2, <5>2
          <6>2. <<rf.buf[i], rf.buf[i + 1]>> \in Edges
            BY <2>5, <3>2, <6>1 DEF IsPath
          <6>3. s[i] = rf.buf[i] /\ s[i + 1] = rf.buf[i + 1]
            BY <1>0, <2>2, <6>1
          <6> QED BY <6>2, <6>3
        <5> QED BY <5>1, <5>2
      <4> QED BY <4>2, <4>3, <4>4 DEF IsPath
    <3> QED BY <3>1, <3>2
  <2>7. Len(s) <= NumEntries - 1
    BY <1>0, <1>4, <2>2, BlockFacts DEF IndInv, FinderOK
  <2>8. TableOK(Polled) /\ (Polled.en => Polled.heads[ComputeIndex(Polled.head)] = NoHead)
    BY <1>0, <1>4, <2>3 DEF TableOK, IndInv, FinderOK
  <2>9. ASSUME NEW n \in Blocks, <<cur, n>> \in Edges PROVE RecordingOK(Polled, n)
    BY <2>2, <2>3, <2>5, <2>6, <2>9 DEF RecordingOK
  <2> QED BY <1>0, <2>1, <2>3, <2>7, <2>8, <2>9 DEF FinderOK
<1> QED BY <1>0, <1>1, <1>2, <1>3, <1>4

LEMMA OfferOK ==
    ASSUME NEW f, NEW n \in Blocks, NEW l, FinderOK(f, n)
    PROVE  FinderOK(UpdateRegionHeads(f, n, l), n)
<1> DEFINE i == ComputeIndex(n)
           k == IF f.heads[i] = n THEN f.counts[i] + 1 ELSE 1
           hot == f.heads[i] = n /\ k >= HotThresh
           h == IF hot THEN NoHead ELSE n
           g == UpdateRegionHeads(f, n, l)
<1>0. i \in Slot /\ n # NoHead /\ f \in Finder /\ NumEntries \in Nat /\ NumEntries > 0
  BY BlockFacts DEF FinderOK
<1>1. CASE n > l \/ f.en
  <2>1. g = f
    BY <1>1 DEF UpdateRegionHeads, NotCounted, SlotAfter, BufferAfter
  <2> QED BY <2>1
<1>2. CASE ~(n > l \/ f.en)
  <2>1. k \in Nat
    <3>1. f.counts[i] \in Nat
      BY <1>0 DEF Finder
    <3> QED BY <3>1
  <2>2. hot \in BOOLEAN /\ h \in Blocks \cup {NoHead}
    BY <1>0
  <2>3. /\ [f.heads EXCEPT ![i] = h] \in [Slot -> Blocks \cup {NoHead}]
        /\ [f.counts EXCEPT ![i] = k] \in [Slot -> Nat]
    BY <1>0, <2>1, <2>2 DEF Finder
  <2>4. g = [ en |-> hot, head |-> IF hot THEN n ELSE f.head,
              buf |-> IF hot THEN <<>> ELSE f.buf,
              heads |-> [f.heads EXCEPT ![i] = h],
              counts |-> [f.counts EXCEPT ![i] = k] ]
    BY <1>2 DEF UpdateRegionHeads, NotCounted, SlotAfter, BufferAfter
  <2>5. ~hot => k = 1 \/ k \in 1..(HotThresh - 1)
    <3>1. CASE f.heads[i] = n
      <4>1. f.counts[i] \in Nat
        BY <1>0 DEF Finder
      <4>2. k = f.counts[i] + 1 /\ (~hot => ~(k >= HotThresh))
        BY <3>1
      <4>3. ~(k >= HotThresh) => k \in 1..(HotThresh - 1)
        BY <4>1, <4>2, HotThreshAssumption
      <4> QED BY <4>2, <4>3
    <3>2. CASE f.heads[i] # n
      BY <3>2
    <3> QED BY <3>1, <3>2
  <2> HIDE DEF hot, k, h
  <2>6. g \in Finder
    <3>1. (IF hot THEN n ELSE f.head) \in Blocks \cup {NoHead}
      BY <1>0 DEF Finder
    <3>2. (IF hot THEN <<>> ELSE f.buf) \in Seq(Blocks)
      BY <1>0 DEF Finder
    <3> QED BY <2>2, <2>3, <2>4, <3>1, <3>2 DEF Finder
  <2>7. /\ \A j \in Slot : g.heads[j] = IF j = i THEN h ELSE f.heads[j]
        /\ \A j \in Slot : g.counts[j] = IF j = i THEN k ELSE f.counts[j]
    BY <1>0, <2>4 DEF Finder
  <2>8. TableOK(g)
    <3> SUFFICES ASSUME NEW j \in Slot, g.heads[j] # NoHead
                 PROVE  /\ ComputeIndex(g.heads[j]) = j
                        /\ g.counts[j] = 1 \/ g.counts[j] \in 1..(HotThresh - 1)
      BY DEF TableOK
    <3>1. CASE j = i
      <4>1. ~hot /\ h = n
        BY <2>7, <3>1 DEF h
      <4> QED BY <2>5, <2>7, <3>1, <4>1
    <3>2. CASE j # i
      BY <2>7, <3>2 DEF FinderOK, TableOK
    <3> QED BY <3>1, <3>2
  <2>9. CASE hot
    <3>1. g.en /\ g.head = n /\ g.buf = <<>> /\ g.heads[i] = NoHead
      BY <1>0, <2>4, <2>7, <2>9 DEF h
    <3>2. RecordingOK(g, n)
      BY <1>0, <3>1 DEF RecordingOK
    <3>3. Len(g.buf) <= NumEntries - 1
      BY <1>0, <3>1
    <3> QED BY <2>6, <2>8, <3>1, <3>2, <3>3 DEF FinderOK
  <2>10. CASE ~hot
    <3>1. ~g.en /\ g.buf = f.buf
      BY <2>4, <2>10
    <3> QED BY <2>6, <2>8, <3>1 DEF FinderOK, RecordingOK
  <2> QED BY <2>9, <2>10
<1> QED BY <1>1, <1>2

LEMMA NextInv == IndInv /\ [Next]_vars => IndInv'
<1> SUFFICES ASSUME IndInv, [Next]_vars PROVE IndInv'
  OBVIOUS
<1>0. rf \in Finder /\ cur \in Blocks /\ region \in Seq(Blocks) /\ FinderOK(rf, cur)
  BY DEF IndInv, FinderOK
<1>1. CASE Refuse
  <2>1. FinderOK(rf', cur')
    BY <1>0, <1>1, DisableOK DEF Refuse
  <2>2. cur' \in Blocks /\ region' = region
    BY <1>1 DEF Refuse
  <2> QED BY <1>0, <2>1, <2>2 DEF IndInv, RegionIsLoop
<1>2. ASSUME region' = Handed PROVE RegionIsLoop' /\ region' \in Seq(Blocks)
  BY <1>2, PolledOK DEF IndInv, RegionIsLoop
<1>3. CASE Interpret
  <2>1. PICK n \in Blocks : \E l \in {cur, n} : \E split \in BOOLEAN :
          /\ <<cur, n>> \in Edges
          /\ Offer(IF split THEN DisableRegionCollection(Polled) ELSE Polled, n, l)
          /\ cur' = n /\ region' = Handed
    BY <1>3 DEF Interpret
  <2>2. FinderOK(Polled, n)
    BY <2>1, PolledOK
  <2>3. PICK l \in {cur, n}, split \in BOOLEAN :
          Offer(IF split THEN DisableRegionCollection(Polled) ELSE Polled, n, l)
    BY <2>1
  <2> DEFINE f == IF split THEN DisableRegionCollection(Polled) ELSE Polled
  <2>f. FinderOK(f, n)
    BY <2>2, DisableOK
  <2>4. rf' = f \/ rf' = UpdateRegionHeads(f, n, l)
    BY <2>3 DEF Offer
  <2> HIDE DEF f
  <2>5. FinderOK(rf', n)
    BY <2>f, <2>4, OfferOK
  <2> QED BY <1>2, <2>1, <2>5 DEF IndInv
<1>4. CASE RunCompiled
  <2>1. PICK n \in Blocks, l \in Blocks : Offer(Polled, n, l) /\ cur' = n
    BY <1>4 DEF RunCompiled
  <2>2. FinderOK(Polled, n)
    BY <1>4, PolledOK DEF RunCompiled
  <2>3. rf' = Polled \/ rf' = UpdateRegionHeads(Polled, n, l)
    BY <2>1 DEF Offer
  <2>4. FinderOK(rf', n)
    BY <2>2, <2>3, OfferOK
  <2>5. region' = Handed
    BY <1>4 DEF RunCompiled
  <2> QED BY <1>2, <2>1, <2>4, <2>5 DEF IndInv
<1>5. CASE UNCHANGED vars
  BY <1>5 DEF IndInv, vars, RegionIsLoop
<1> QED BY <1>1, <1>3, <1>4, <1>5 DEF Next

LEMMA Invariance == Spec => []IndInv
<1>1. Init => IndInv
  BY IdleOK DEF Init, IndInv, RegionIsLoop
<1> QED BY <1>1, NextInv, PTL DEF Spec

\* Every variable of the region finder keeps its type.
THEOREM FinderTyped == Spec => []TypeOK
<1>1. IndInv => TypeOK
  BY DEF IndInv, FinderOK, TypeOK
<1> QED BY <1>1, Invariance, PTL

\* The recording is always a path of executed blocks from the head.
THEOREM RecordingIsPath == Spec => []Collecting
<1>1. IndInv => Collecting
  BY DEF IndInv, FinderOK, RecordingOK, Collecting
<1> QED BY <1>1, Invariance, PTL

\* update never writes behind the end of the buffer.
THEOREM RecordingFits == Spec => []BufferInBounds
<1>1. IndInv => BufferInBounds
  BY DEF IndInv, FinderOK, RecordingOK, BufferInBounds
<1> QED BY <1>1, Invariance, PTL

\* Every region handed to the compiler is a loop through its head.
THEOREM RegionsAreLoops == Spec => []RegionIsLoop
<1>1. IndInv => RegionIsLoop
  BY DEF IndInv
<1> QED BY <1>1, Invariance, PTL

\* The table of candidate heads: slots, counters and the threshold, and the head
\* being collected is not in it.
THEOREM HeadTableSound == Spec => []HeadTable
<1>1. IndInv => HeadTable
  BY DEF IndInv, FinderOK, TableOK, RecordingOK, HeadTable
<1> QED BY <1>1, Invariance, PTL
=============================================================================
