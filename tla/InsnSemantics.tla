---------------------------- MODULE InsnSemantics ----------------------------
(***************************************************************************)
(* What the instructions of the guest do, twice: in the interpreter        *)
(* (execRiscv) and in compiled code (generateIR of each class of           *)
(* instruction).  One instruction is executed both ways from the same      *)
(* state.  The machine is scaled down: a word has W bits and four bytes,   *)
(* an immediate of an instruction has ImmBits bits.                        *)
(***************************************************************************)
EXTENDS Integers

CONSTANTS
    W,          \* bits of a word: 32 in the program, a power of two
    ImmBits,    \* bits of an immediate: 12 in the program
    LastReg,    \* the registers are x0 to x<LastReg>
    Insns,      \* the instructions to consider
    Values,     \* the values of the registers to consider
    Memory      \* the contents of the memory

\* The powers of two.
Two[n \in Nat] == IF n = 0 THEN 1 ELSE 2 * Two[n - 1]

Word == 0..(Two[W] - 1)
Byte == 0..(Two[W \div 4] - 1)
Regs == 0..LastReg
\* An access at the last address reaches beyond the guest's address space.
Cells == 0..(Two[W] + 2)

Ops == {"load", "imm", "reg", "lui", "auipc", "store", "branch", "jal", "jalr"}

\* The mask of a shift amount is W - 1.
ASSUME WordAssumption == W \in {Two[k] : k \in 2..5} /\ ImmBits \in 1..(W - 1)
ASSUME ValuesAssumption == LastReg \in Nat /\ Values \subseteq Word
ASSUME MemoryAssumption == Memory \in [Cells -> Byte]
\* The fields of an instruction, as wide as decoding leaves them.
ASSUME InsnsAssumption ==
    Insns \subseteq [op : Ops, sel : 0..7, special : 0..127, rd : Regs, rs1 : Regs, rs2 : Regs,
                    imm : 0..(Two[ImmBits] - 1)]

VARIABLES
    stage,      \* "start", "interpreted" or "compared"
    insn,       \* the instruction
    before,     \* pc, gpr and mem before it
    after,      \* what the interpreter makes of them
    code        \* what compiled code makes of them
vars == <<stage, insn, before, after, code>>

\* In the place of a word: no outcome.
Stopped == -1       \* abort, a failed assertion, die()
Undefined == -2     \* a division that C++ gives no meaning
NoOutcome == {Stopped, Undefined}

-----------------------------------------------------------------------------
(* Words.  A word stands for its unsigned value; Signed is its signed one. *)
Wrap(x) == x % Two[W]
Signed(x) == IF x >= Two[W - 1] THEN x - Two[W] ELSE x
SExt(x, bits) == IF x >= Two[bits - 1] THEN Wrap(x - Two[bits]) ELSE x
Flag(p) == IF p THEN 1 ELSE 0

\* The operations of C++ (whose signed sums wrap as compiled) and of LLVM.
ShiftLeft(a, n) == Wrap(a * Two[n])
ShiftRight(a, n) == Wrap(Signed(a) \div Two[n])
Magnitude(x) == IF x < 0 THEN -x ELSE x
Quotient(a, b) ==
    LET q == Magnitude(Signed(a)) \div Magnitude(Signed(b))
    IN  Wrap(IF Signed(a) < 0 <=> Signed(b) < 0 THEN q ELSE -q)
Remainder(a, b) == Wrap(a - Quotient(a, b) * b)

\* The signed division whose result is no word.
Overflows(a, b) == a = Two[W - 1] /\ b = Two[W] - 1

\* Bit by bit.
Bit(x, k) == (x \div Two[k]) % 2
FromBits(bit) ==
    LET low[k \in Nat] == IF k = 0 THEN 0 ELSE low[k - 1] + bit[k - 1] * Two[k - 1]
    IN  low[W]
And(a, b) == FromBits([k \in Nat |-> Bit(a, k) * Bit(b, k)])
Or(a, b) == FromBits([k \in Nat |-> Bit(a, k) + Bit(b, k) - Bit(a, k) * Bit(b, k)])
Xor(a, b) == FromBits([k \in Nat |-> (Bit(a, k) + Bit(b, k)) % 2])

\* Of the amount to shift by, the low bits count.
ShiftAmount(b) == And(b, W - 1)

\* Memory: two bytes, four bytes, and n bytes of v stored at ea.
Half(m, ea) == m[ea] + m[ea + 1] * Two[W \div 4]
Full(m, ea) == Half(m, ea) + Half(m, ea + 2) * Two[W \div 2]

PutBytes(m, ea, n, v) ==
    [c \in Cells |-> IF c \in ea..(ea + n - 1)
                    THEN (v \div Two[(W \div 4) * (c - ea)]) % Two[W \div 4] ELSE m[c]]

-----------------------------------------------------------------------------
(***************************************************************************)
(* The interpreter.  Codes (sel, special) of no operation fail an assertion. *)
(***************************************************************************)
\* Mutant: x0 is written like the others.
Set_AlsoX0(gpr, rd, v) == [gpr EXCEPT ![rd] = v]
Set(gpr, rd, v) == IF rd = 0 THEN gpr ELSE [gpr EXCEPT ![rd] = v]

InterpOp(sel, special, a, b) ==
    LET n == ShiftAmount(b)
    IN  CASE sel = 0 /\ special = 0 -> Wrap(a + b)
          [] sel = 0 /\ special = 1 -> Wrap(a * b)
          [] sel = 0 /\ special = 32 -> Wrap(a - b)
          [] sel = 1 /\ special = 0 -> ShiftLeft(a, n)
          [] sel = 1 /\ special = 1 -> Wrap((Signed(a) * Signed(b)) \div Two[W])
          [] sel = 2 /\ special = 0 -> Flag(Signed(a) < Signed(b))
          [] sel = 3 /\ special = 0 -> Flag(a < b)
          [] sel = 3 /\ special = 1 -> (a * b) \div Two[W]
          [] sel = 4 /\ special = 0 -> Xor(a, b)
          [] sel = 4 /\ special = 1 -> IF b = 0 THEN Stopped
                                      ELSE IF Overflows(a, b) THEN Undefined ELSE Quotient(a, b)
          [] sel = 5 /\ special = 0 -> a \div Two[n]
          [] sel = 5 /\ special = 1 -> IF b = 0 THEN Stopped ELSE a \div b
          [] sel = 5 /\ special = 32 -> ShiftRight(a, n)
          [] sel = 6 /\ special = 0 -> Or(a, b)
          [] sel = 6 /\ special = 1 ->
               IF b = 0 \/ Overflows(a, b) THEN Undefined ELSE Remainder(a, b)
          [] sel = 7 /\ special = 0 -> And(a, b)
          [] sel = 7 /\ special = 1 -> IF b = 0 THEN Undefined ELSE a % b
          [] OTHER -> Stopped

\* Only the right shifts look at special; n is the shift amount.
InterpImm(sel, special, a, imm, n) ==
    CASE sel = 0 -> Wrap(a + imm)
      [] sel = 1 -> ShiftLeft(a, n)
      [] sel = 2 -> Flag(Signed(a) < Signed(imm))
      [] sel = 3 -> Flag(a < imm)
      [] sel = 4 -> Xor(a, imm)
      [] sel = 5 /\ special = 0 -> a \div Two[n]
      [] sel = 5 /\ special = 32 -> ShiftRight(a, n)
      [] sel = 6 -> Or(a, imm)
      [] sel = 7 -> And(a, imm)
      [] OTHER -> Stopped

InterpLoad(sel, m, ea) ==
    CASE sel = 0 -> SExt(m[ea], W \div 4)
      [] sel = 1 -> SExt(Half(m, ea), W \div 2)
      [] sel = 2 -> Full(m, ea)
      [] sel = 4 -> m[ea]
      [] sel = 5 -> Half(m, ea)
      [] OTHER -> Stopped

InterpStore(sel, m, ea, v) == PutBytes(m, ea, Two[sel], v)

Conditions == {0, 1, 4, 5, 6, 7}
InterpTaken(sel, a, b) ==
    CASE sel = 0 -> a = b
      [] sel = 1 -> a # b
      [] sel = 4 -> Signed(a) < Signed(b)
      [] sel = 5 -> Signed(a) >= Signed(b)
      [] sel = 6 -> a < b
      [] sel = 7 -> a >= b

\* The state after an instruction that leaves v in rd.
Computed(s, i, v) ==
    IF v \in NoOutcome THEN [s EXCEPT !.pc = v]
    ELSE [s EXCEPT !.gpr = Set(@, i.rd, v), !.pc = Wrap(@ + 4)]

\* jal and jalr.
InterpJump(s, i, imm) ==
    [s EXCEPT !.gpr = Set(@, i.rd, Wrap(s.pc + 4)),
              !.pc = IF i.op = "jal" THEN Wrap(@ + imm)
                     ELSE And(Wrap(imm + s.gpr[i.rs1]), Two[W] - 2)]

\* The branches.
InterpBranch(s, i, imm) ==
    IF i.sel \notin Conditions THEN [s EXCEPT !.pc = Stopped]
    ELSE [s EXCEPT !.pc = Wrap(@ + IF InterpTaken(i.sel, s.gpr[i.rs1], s.gpr[i.rs2])
                                   THEN imm ELSE 4)]

\* execRiscv: a computation or a load into x0 is not looked at.
Interp(s, i) ==
    LET a == s.gpr[i.rs1]
        b == s.gpr[i.rs2]
        imm == SExt(i.imm, ImmBits)
        ea == Wrap(imm + a)
        skipped == i.rd = 0
    IN  CASE i.op = "load" ->
               Computed(s, i, IF skipped THEN 0 ELSE InterpLoad(i.sel, s.mem, ea))
          [] i.op = "imm" ->
               Computed(s, i, IF skipped THEN 0
                              ELSE InterpImm(i.sel, i.special, a, imm, i.imm % W))
          [] i.op = "reg" ->
               Computed(s, i, IF skipped THEN 0 ELSE InterpOp(i.sel, i.special, a, b))
          [] i.op = "lui" -> Computed(s, i, Wrap(i.imm * Two[ImmBits]))
          [] i.op = "auipc" -> Computed(s, i, Wrap(s.pc + i.imm * Two[ImmBits]))
          [] i.op = "store" ->
               IF i.sel \notin 0..2 THEN [s EXCEPT !.pc = Stopped]
               ELSE [s EXCEPT !.mem = InterpStore(i.sel, @, ea, b), !.pc = Wrap(@ + 4)]
          [] i.op = "branch" -> InterpBranch(s, i, imm)
          [] i.op \in {"jal", "jalr"} -> InterpJump(s, i, imm)

-----------------------------------------------------------------------------
(***************************************************************************)
(* Compiled code: the instructions of LLVM that generateIR emits.          *)
(***************************************************************************)
\* sext to two words, mul, ashr by a word, trunc.
\* Mutant: zext instead of sext.
MulHigh_ZExt(a, b) == ((a * b) % Two[2 * W]) \div Two[W]
MulHigh(a, b) == ((Signed(a) * Signed(b)) % Two[2 * W]) \div Two[W]

\* The divisor: 1 is selected in the place of 0.
Divider(b) == IF b = 0 THEN 1 ELSE b

CompiledOp(sel, special, a, b) ==
    LET n == ShiftAmount(b)
        d == Divider(b)
    IN  CASE sel = 0 /\ special = 0 -> Wrap(a + b)
          [] sel = 0 /\ special = 1 -> Wrap(a * b)
          [] sel = 0 /\ special = 32 -> Wrap(a - b)
          [] sel = 1 /\ special = 0 -> ShiftLeft(a, n)
          [] sel = 1 /\ special = 1 -> MulHigh(a, b)
          [] sel = 2 /\ special = 0 -> Flag(Signed(a) < Signed(b))
          [] sel = 3 /\ special = 0 -> Flag(a < b)
          [] sel = 3 /\ special = 1 -> Wrap((a * b) \div Two[W])
          [] sel = 4 /\ special = 0 -> Xor(a, b)
          [] sel = 4 /\ special = 1 -> IF Overflows(a, d) THEN Undefined ELSE Quotient(a, d)
          [] sel = 5 /\ special = 0 -> a \div Two[n]
          [] sel = 5 /\ special = 1 -> a \div d
          [] sel = 5 /\ special = 32 -> ShiftRight(a, n)
          [] sel = 6 /\ special = 0 -> Or(a, b)
          [] sel = 6 /\ special = 1 -> IF Overflows(a, d) THEN Undefined ELSE Remainder(a, d)
          [] sel = 7 /\ special = 0 -> And(a, b)
          [] sel = 7 /\ special = 1 -> a % d
          [] OTHER -> Stopped

CompiledImm(sel, special, a, imm, n) ==
    CASE sel = 0 -> Wrap(a + imm)
      [] sel = 1 -> ShiftLeft(a, n)
      [] sel = 2 -> Flag(Signed(a) < Signed(imm))
      [] sel = 3 -> Flag(a < imm)
      [] sel = 4 -> Xor(a, imm)
      [] sel = 5 /\ special = 0 -> a \div Two[n]
      [] sel = 5 /\ special = 32 -> ShiftRight(a, n)
      [] sel = 6 -> Or(a, imm)
      [] sel = 7 -> And(a, imm)
      [] OTHER -> Stopped

\* A load of the width, then sext or zext.
CompiledLoad(sel, m, ea) ==
    CASE sel = 0 -> SExt(m[ea], W \div 4)
      [] sel = 1 -> SExt(Half(m, ea), W \div 2)
      [] sel = 2 -> Full(m, ea)
      [] sel = 4 -> m[ea]
      [] sel = 5 -> Half(m, ea)

\* trunc to the width, then a store.
CompiledStore(sel, m, ea, v) == PutBytes(m, ea, Two[sel], v % Two[(W \div 4) * Two[sel]])

CompiledTaken(sel, a, b) ==
    CASE sel = 0 -> a = b
      [] sel = 1 -> a # b
      [] sel = 4 -> Signed(a) < Signed(b)
      [] sel = 5 -> Signed(a) >= Signed(b)
      [] sel = 6 -> a < b
      [] sel = 7 -> a >= b

\* getInsn knows the instruction, and insertPhis lets it through: no region with
\* an instruction that defines x0 is compiled.
HasCode(i) ==
    /\ i.op = "load" => i.sel \in {0, 1, 2, 4, 5}
    /\ i.op = "store" => i.sel \in 0..2
    /\ i.op = "branch" => i.sel \in Conditions
    /\ i.op \in {"load", "imm", "reg", "lui", "auipc"} => i.rd # 0

Assigned(s, i, v) ==
    IF v \in NoOutcome THEN [s EXCEPT !.pc = v]
    ELSE [s EXCEPT !.gpr[i.rd] = v, !.pc = Wrap(@ + 4)]

\* The register table and the memory after the instruction, and the pc that is
\* run or aborted to: pc is a constant of the code.
Compiled(s, i) ==
    LET a == s.gpr[i.rs1]
        b == s.gpr[i.rs2]
        imm == SExt(i.imm, ImmBits)
        ea == Wrap(a + imm)
    IN  CASE i.op = "load" -> Assigned(s, i, CompiledLoad(i.sel, s.mem, ea))
          [] i.op = "imm" -> Assigned(s, i, CompiledImm(i.sel, i.special, a, imm, i.imm % W))
          [] i.op = "reg" -> Assigned(s, i, CompiledOp(i.sel, i.special, a, b))
          [] i.op = "lui" -> Assigned(s, i, Wrap(i.imm * Two[ImmBits]))
          [] i.op = "auipc" -> Assigned(s, i, Wrap(s.pc + i.imm * Two[ImmBits]))
          [] i.op = "store" ->
               [s EXCEPT !.mem = CompiledStore(i.sel, @, ea, b), !.pc = Wrap(@ + 4)]
          [] i.op = "branch" ->
               LET taken == Wrap(s.pc + imm)
                   notTaken == Wrap(s.pc + 4)
               IN  [s EXCEPT !.pc = IF CompiledTaken(i.sel, a, b) THEN taken ELSE notTaken]
          [] i.op = "jal" /\ i.rd = 0 -> [s EXCEPT !.pc = Wrap(@ + imm)]
          [] i.op = "jal" /\ i.rd # 0 ->
               [s EXCEPT !.gpr[i.rd] = Wrap(s.pc + 4), !.pc = Wrap(@ + imm)]
          [] i.op = "jalr" /\ i.rd = 0 -> [s EXCEPT !.pc = And(Wrap(a + imm), Two[W] - 2)]
          [] i.op = "jalr" /\ i.rd # 0 ->
               LET linked == [s.gpr EXCEPT ![i.rd] = Wrap(s.pc + 4)]
               IN  [s EXCEPT !.gpr = linked, !.pc = linked[i.rs1]]

-----------------------------------------------------------------------------
States == {[pc |-> 4, gpr |-> g, mem |-> Memory] :
             g \in {f \in [Regs -> Values \cup {0}] : f[0] = 0}}

Init ==
    /\ stage = "start"
    /\ insn \in Insns
    /\ before \in States
    /\ after = before /\ code = before

Interpret ==
    /\ stage = "start"
    /\ after' = Interp(before, insn)
    /\ stage' = "interpreted"
    /\ UNCHANGED <<insn, before, code>>

RunCompiled ==
    /\ stage = "interpreted" /\ HasCode(insn)
    /\ code' = Compiled(before, insn)
    /\ stage' = "compared"
    /\ UNCHANGED <<insn, before, after>>

Next == Interpret \/ RunCompiled

Spec == Init /\ [][Next]_vars

-----------------------------------------------------------------------------
(***************************************************************************)
(* Properties.                                                             *)
(***************************************************************************)
\* Types: every word and byte stays in its range, and x0 is 0 whatever is
\* executed, in the interpreter and in compiled code.
TypeOK ==
    LET StateOK(s) ==
          /\ s.pc \in Word \cup NoOutcome
          /\ s.gpr \in [Regs -> Word] /\ s.gpr[0] = 0
          /\ s.mem \in [Cells -> Byte]
    IN  /\ stage \in {"start", "interpreted", "compared"}
        /\ insn \in Insns
        /\ StateOK(before) /\ StateOK(after) /\ StateOK(code)

\* Compiled code does what the interpreter does: wherever the interpreter goes
\* on and C++ says how, registers, memory and the next pc are the same, whatever
\* the sign of the operands, the shift amount, the alignment and the width, and
\* also when the destination is a source.
Agrees ==
    stage = "compared" => after.pc \in NoOutcome \/ code = after
=============================================================================
