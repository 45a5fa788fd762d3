------------------------------- MODULE Guest -------------------------------
(***************************************************************************)
(* The guest program as the translator sees it.  A program is a function   *)
(* from word addresses to instructions; an instruction keeps only what the *)
(* translator branches on: its kind and the set of addresses it may send   *)
(* control to.  Register and memory contents are abstracted: a branch may  *)
(* go either way and an indirect jump may reach any of its targets.        *)
(*                                                                         *)
(* Address 0 is the null block pointer, so guest code lives in 1..N; one   *)
(* model address is one 4-byte instruction word.                           *)
(***************************************************************************)
EXTENDS Naturals, FiniteSets

CONSTANTS
    N,              \* number of instruction words of the guest program
    Programs,       \* the guest programs to consider
    HostRequests    \* what a guest store may leave in tohost

Addr == 1..N
NoBlock == 0

\* "alu" stands for every instruction that only computes (loads included);
\* "nop" is one of them whose destination is x0; "csr" is a 0x73 instruction
\* other than ecall; "fence" is opcode 0x0f; "jr" is a jalr that does not link.
\* One that links is a "farcall" when its link register is also the register it
\* jumps through (auipc ra; jalr ra,..(ra)), else an "offcall" when it adds an
\* immediate to that register, else a "jalr".
\* "wait" is a load of the tohost word and the branch on it, taken while a
\* request is there (while(tohost);), as one instruction.
Straight == {"alu", "nop", "store", "csr", "fence"}
Conditional == {"branch", "wait"}
Indirect == {"jr", "jalr", "offcall", "farcall"}
Transfers == Conditional \cup Indirect \cup {"j", "jal"}
Kinds == Straight \cup Transfers \cup {"ecall"}

Instr == [kind : Kinds, tgt : SUBSET Addr]

IsBranchOrJump(i) == i.kind \in Transfers
IsIndirect(i) == i.kind \in Indirect
IsMonitor(i) == i.kind = "ecall"

\* compile::canCompileInstr: opcode 0x73 is the only one refused.
CanCompileInstr(i) == i.kind \notin {"csr", "ecall"}

\* getInsn has no translation for a fence nor for opcode 0x73.
HasTranslation(i) == i.kind \notin {"fence", "csr", "ecall"}

\* Where control may be after the instruction at address a.  ecall leaves the
\* pc where it is.
NextPCs(c, a) ==
    CASE c[a].kind \in Conditional -> c[a].tgt \cup {a + 1}
      [] c[a].kind \in Transfers \ Conditional -> c[a].tgt
      [] c[a].kind = "ecall" -> {a}
      [] OTHER -> {a + 1}

\* Direct transfers have one target, and no instruction leaves the program.
WellFormed(c) ==
    \A a \in Addr :
        /\ c[a].kind \in Conditional \cup {"j", "jal"} => \E t \in Addr : c[a].tgt = {t}
        /\ NextPCs(c, a) \subseteq Addr
        /\ NextPCs(c, a) # {}

ASSUME NAssumption == N \in Nat \ {0}
ASSUME ProgramsAssumption ==
    /\ Programs \subseteq [Addr -> Instr]
    /\ \A c \in Programs : WellFormed(c)
ASSUME HostAssumption == HostRequests \subseteq {"call", "exit"}

(***************************************************************************)
(* The tohost word.  execRiscv looks at it before it executes each         *)
(* instruction: an odd value ("exit") stops the run and stays there, an    *)
(* even one ("call") is served and acknowledged by clearing the word.      *)
(***************************************************************************)
HostWords == {"idle", "call", "exit"}

\* Mutant: the word is looked at after the instruction.
Served_Late(h) == h
Served(h) == IF h = "call" THEN "idle" ELSE h

\* Where it is when the instruction finds h in tohost.
GoesTo(c, a, h) ==
    IF c[a].kind # "wait" THEN NextPCs(c, a)
    ELSE IF h # "idle" THEN c[a].tgt ELSE {a + 1}

HostAfter(c, a, h) ==
    IF c[a].kind = "store" THEN {h} \cup HostRequests ELSE {h}

BrkAfter(c, a, h, b) == b \/ h = "exit" \/ IsMonitor(c[a])
=============================================================================
