-------------------------- MODULE MCInsnSemantics --------------------------
(***************************************************************************)
(* Words of four bits and immediates of three: every value, every code of  *)
(* every class, destinations that are x0, a source, or neither.  jalr with *)
(* a link register is left out: the run far_call shows what it does.       *)
(***************************************************************************)
EXTENDS InsnSemantics

\* Every word is found at some address.
AllWords ==
    LET ring == <<0, 0, 0, 0, 1, 0, 0, 1, 1, 0, 1, 0, 1, 1, 1, 1>>
    IN  [c \in Cells |-> ring[(c % 16) + 1]]

Form(op, sels, specials, rds, rs2s, imms) ==
    [op : {op}, sel : sels, special : specials, rd : rds, rs1 : {1}, rs2 : rs2s, imm : imms]

Codes == 0..7
Imms == 0..7

AllInsns ==
    Form("reg", Codes, {0, 1, 2, 32}, {0, 1, 2}, {0, 1, 2}, {0})
    \cup Form("imm", Codes \ {5}, {0}, {0, 1, 2}, {0}, Imms)
    \cup Form("imm", {5}, {0, 1, 32}, {0, 1, 2}, {0}, Imms)
    \cup Form("load", Codes, {0}, {0, 1}, {0}, Imms)
    \cup Form("store", Codes, {0}, {0}, {0, 1, 2}, Imms)
    \cup Form("branch", Codes, {0}, {0}, {0, 1, 2}, Imms)
    \cup Form("lui", {0}, {0}, {0, 1}, {0}, 0..1)
    \cup Form("auipc", {0}, {0}, {0, 1}, {0}, 0..1)
    \cup Form("jal", {0}, {0}, {0, 1}, {0}, Imms)
    \cup Form("jalr", {0}, {0}, {0}, {0}, Imms)
=============================================================================
