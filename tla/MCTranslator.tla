---------------------------- MODULE MCTranslator ----------------------------
(***************************************************************************)
(* Programs of seven words with the loops that matter to the translator.   *)
(***************************************************************************)
EXTENDS Translator

Op(k, T) == [kind |-> k, tgt |-> T]

wait(t) == Op("wait", {t})
alu == Op("alu", {})
store == Op("store", {})
ecall == Op("ecall", {})
br(t) == Op("branch", {t})
j(t) == Op("j", {t})
jr(T) == Op("jr", T)

\* A loop 1..3, cut by a branch into its middle.
CutLoop == <<alu, alu, br(1), br(2), ecall, ecall, ecall>>

\* Two loops of the head 2, inside a third one.
Diamond == <<alu, br(4), j(2), br(2), j(1), ecall, ecall>>

\* A loop 1, 4, 5 with a way through 2..3, whose end may also leave for 7 and
\* whose second word a block outside the loop, 6, jumps to.
SideEntry == <<br(4), alu, br(7), br(6), j(1), j(3), ecall>>

\* A call in a loop; the callee has a loop and returns by an indirect jump.
CallReturn == <<Op("jal", {5}), store, br(1), ecall, alu, br(5), jr({2, 4})>>

\* An indirect call in a loop, with a store to tohost.
Dispatch == <<store, Op("jalr", {3, 4, 6}), j(1), alu, j(1), ecall, ecall>>

\* A loop with an instruction that is refused, and a loop of one block.
Refused == <<Op("csr", {}), br(1), alu, br(3), ecall, ecall, ecall>>

\* A loop with branches forward over an instruction each, and one that contains
\* an instruction that writes x0.
Forward == <<br(3), alu, br(5), alu, j(1), ecall, ecall>>
NopLoop == <<Op("nop", {}), alu, br(1), ecall, ecall, ecall, ecall>>

\* A loop with a call through its own link register.
FarCall == <<alu, Op("farcall", {5}), br(1), ecall, alu, jr({3}), ecall>>

\* The same with another link register, and an immediate.
OffCall == <<alu, Op("offcall", {5}), br(1), ecall, alu, jr({3}), ecall>>

\* Loops that leave a request in tohost and wait for the answer: in the middle
\* of the loop, at its head, and through another block.
WaitInside == <<store, wait(2), br(1), ecall, ecall, ecall, ecall>>
WaitAtHead == <<alu, wait(1), store, j(1), ecall, ecall, ecall>>
WaitAround == <<alu, store, wait(5), br(1), j(3), ecall, ecall>>

Programs7 == {CutLoop, Diamond, SideEntry, CallReturn, Dispatch, Refused,
              WaitInside, WaitAtHead, WaitAround}

\* Those on which two recordings of a loop are few enough to explore.
TwoRecordings == {CutLoop, SideEntry, CallReturn, Dispatch, Refused}

JustSideEntry == {SideEntry}
JustForward == {Forward}
JustNopLoop == {NopLoop}
LostCalls == {FarCall, OffCall}
JustWaitAtHead == {WaitAtHead}

TwoOrders == {[i \in 1..N |-> i], [i \in 1..N |-> (N + 1) - i]}
=============================================================================
