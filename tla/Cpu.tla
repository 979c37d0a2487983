-------------------------------- MODULE Cpu --------------------------------
(***************************************************************************)
(* The ARM simulator of TP1-ARM: process_instruction() of sim.c, the       *)
(* instructions of execute.c, and the memory, cycle() and commands of      *)
(* shell.c.                                                                *)
(*                                                                         *)
(* The machine is the same at any scale.  A byte has ByteBits bits (8 in   *)
(* the code) and a word eight bytes; the fields of an instruction have the *)
(* widths that are constants here; the last register is XZR.  What the     *)
(* text holds is left open: a fetch inside a region may yield any          *)
(* instruction at all, so that a behaviour of every program, one that *)
(* rewrites itself included, is a behaviour here; a load or a store of the *)
(* text itself is outside (OutsideText).  A word of text that decodes to   *)
(* nothing, or a fetch outside every region (which reads 0), is Unknown.   *)
(*                                                                         *)
(* A cycle is three steps: execute, from the latch CURRENT_STATE into the  *)
(* latch NEXT_STATE; the advance of the program counter; and the latching. *)
(***************************************************************************)
EXTENDS Integers

CONSTANTS
  ByteBits,                  \* bits of a byte
  XZR,                       \* the number of the last register
  BranchBits,                \* bits of BR_address and COND_BR_address
  AddressBits, Addresses,    \* bits and values of DT_address
  ImmediateBits,             \* how far shift moves an ALU_immediate
  Immediates,                \* values of ALU_immediate
  Moves,                     \* values of MOV_immediate
  ShiftAmounts,              \* values of the field immr
  Inputs,                    \* values given to the command input
  Start, Size,               \* of each region of memory but the text
  TextStart, TextSize,
  MaxCycles, MaxInputs       \* bounds: cycles, and commands input

Width     == 8 * ByteBits
Values(n) == 2 ^ (n * ByteBits)     \* how many n bytes have
ByteRange == Values(1)
HalfRange == Values(2)              \* 16 bits in the code
Mem32     == Values(4)              \* 32 bits: what one access moves
WordRange == Values(8)
Word      == 0 .. WordRange - 1
Registers == 0 .. XZR
Regions   == DOMAIN Start
Padding   == 3                      \* extra bytes allocated with each region

ASSUME CpuAssumption ==
  /\ ByteBits \in Nat \ {0} /\ XZR \in Nat \ {0}
  /\ BranchBits \in 1 .. Width - 3
  /\ AddressBits \in 1 .. Width - 1 /\ Addresses \subseteq 0 .. 2 ^ AddressBits - 1
  /\ Immediates \cup Moves \cup Inputs \subseteq Word /\ ShiftAmounts \subseteq 0 .. Width - 1
  /\ ImmediateBits \in Nat /\ TextStart \in Word /\ TextSize \in Nat \ {0}
  /\ Start \in [Regions -> Word] /\ Size \in [Regions -> Nat \ {0}]
  \* The regions are apart, and none reaches the last bytes of the addresses.
  /\ \A q, r \in Regions :
       q # r => Start[q] + Size[q] <= Start[r] \/ Start[r] + Size[r] <= Start[q]
  /\ \A r \in Regions : Start[r] + Size[r] + 7 <= WordRange
  /\ MaxCycles \in Nat /\ MaxInputs \in Nat

VARIABLES
  current, next,   \* CURRENT_STATE, NEXT_STATE: registers, pc and flags
  branchFlag,      \* BRANCH_FLAG
  runBit,          \* RUN_BIT
  count,           \* INSTRUCTION_COUNT
  mem,             \* the bytes of each region and of its padding
  phase,           \* of the cycle: "fetch", "advance" or "latch"
  ir,              \* the instruction of the cycle, decoded
  mode, left,      \* "command", "go" or "run", with left cycles to run
  inputs,          \* number of commands input
  compared         \* history: the operands of the comparison in the flags

vars == <<current, next, branchFlag, runBit, count, mem, phase, ir, mode, left,
          inputs, compared>>

NotCompared == <<>>
-----------------------------------------------------------------------------
\* Words.

Wrap(n)    == (n % WordRange)
Ones(w)    == {k \in 0 .. Width - 1 : ((w \div 2 ^ k) % 2) = 1}
Bit(S, k)  == IF k \in S THEN 2 ^ k ELSE 0
Value(S)   == LET sum[k \in 0 .. Width] == IF k = 0 THEN 0 ELSE sum[k - 1] + Bit(S, k - 1)
              IN  sum[Width]
And(a, b)  == Value(Ones(a) \cap Ones(b))
Orr(a, b)  == Value(Ones(a) \cup Ones(b))
Eor(a, b)  == Value((Ones(a) \cup Ones(b)) \ (Ones(a) \cap Ones(b)))
Not(w)     == WordRange - 1 - w
Lsl(w, n)  == Wrap(w * 2 ^ n)
Lsr(w, n)  == w \div 2 ^ n

\* mutant of sign_extend: 1U << bits
ExtendsOneUp(n, bits) == LET m == 2 ^ bits IN Wrap(Eor(n, m) - m)

\* (n ^ m) - m: the field n of so many bits as a signed word.
sign_extend(n, bits) == LET m == 2 ^ (bits - 1) IN Wrap(Eor(n, m) - m)

\* mutant of Minus: the carry forgotten
PlusNot(a, b) == Wrap(a + Not(b))

\* a + ~b + 1, as in execute_subs_cmp_imm() and execute_subs_cmp_er().
Minus(a, b) == Wrap(a + Not(b) + 1)
-----------------------------------------------------------------------------
\* Memory.

In(a, r)     == a >= Start[r] /\ a < Start[r] + Size[r]
Mapped(a)    == \E r \in Regions : In(a, r)
InText(a)    == a >= TextStart /\ a < TextStart + TextSize
RegionOf(a)  == CHOOSE r \in Regions : In(a, r)

\* Four bytes, the last of them possibly in the padding; nothing is mapped
\* outside the regions, where a read gives 0 and a write is dropped.
mem_read_32(a) ==
  IF Mapped(a)
  THEN LET r == RegionOf(a)
           o == a - Start[r]
       IN  mem[r][o + 3] * Values(3) + mem[r][o + 2] * Values(2)
             + mem[r][o + 1] * Values(1) + mem[r][o]
  ELSE 0

mem_write_32(m, a, v) ==
  IF Mapped(a)
  THEN LET r == RegionOf(a)
           o == a - Start[r]
       IN  [m EXCEPT ![r] = [b \in DOMAIN @ |->
              IF b \in o .. o + 3 THEN ((v \div Values(b - o)) % ByteRange) ELSE @[b]]]
  ELSE m
-----------------------------------------------------------------------------
\* Instructions, as decode.c leaves them in a data_t: only the fields that the
\* instruction reads.  op2 is the field op of data_t.

Unknown       == [op |-> "unknown"]    \* not in the table
NoInstruction == [op |-> "none"]       \* none in progress

Conditions == {0, 1, 11, 12, 13, 14}   \* EQ, NE, LT, GT, LE and one not handled

R(op, shamts) == [op : {op}, Rd : Registers, Rn : Registers, Rm : Registers, shamt : shamts]
I(op)     == [op : {op}, Rd : Registers, Rn : Registers, imm : Immediates, shift : {0, 1}]
D(op)     == [op : {op}, Rt : Registers, Rn : Registers, address : Addresses, op2 : {0, 1}]
B(op, ts) == [op : {op}, Rt : ts, address : 0 .. 2 ^ BranchBits - 1]
Shifts    == [op : {"lsl_lsr"}, Rd : Registers, Rn : Registers, immr : ShiftAmounts,
              imms : {0, Width - 1}]
IW(op, imms) == [op : {op}, Rd : Registers, imm : imms]

Loads    == D("ldur") \cup D("ldurb") \cup D("ldurh")
StoreOps == {"stur", "sturb", "sturh"}

Reg(r)       == current.regs[r]
Operand(i)   == IF i.shift = 1 THEN Lsl(i.imm, ImmediateBits) ELSE i.imm
Address(i)   == Wrap(Reg(i.Rn) + sign_extend(i.address, AddressBits))
Offset(i)    == sign_extend(i.address * 4, BranchBits + 2)
Target(i)    == Wrap(current.pc + Offset(i))

\* mutant of SetReg: the comparison with XZR forgotten
SetAnyReg(s, d, v) == [s EXCEPT !.regs[d] = v]

\* A result is not written into XZR.
SetReg(s, d, v) == IF d = XZR THEN s ELSE [s EXCEPT !.regs[d] = v]

SetFlags(s, v) == [s EXCEPT !.n = (v >= WordRange \div 2), !.z = (v = 0)]
-----------------------------------------------------------------------------
\* initialize(): the regions are zero (large blocks come zeroed from malloc(),
\* so the padding is too), and NEXT_STATE is a copy of CURRENT_STATE.
Init ==
  /\ current = [regs |-> [r \in Registers |-> 0], pc |-> TextStart, n |-> FALSE, z |-> FALSE]
  /\ next = current
  /\ branchFlag = FALSE
  /\ runBit = TRUE
  /\ count = 0
  /\ mem = [r \in Regions |-> [b \in 0 .. Size[r] + Padding - 1 |-> 0]]
  /\ phase = "fetch"
  /\ ir = NoInstruction
  /\ mode = "command"
  /\ left = 0
  /\ inputs = 0
  /\ compared = NotCompared

\* mutants of Loops: RUN_BIT looked at once, before the loop; i <= num_cycles
LoopsOn == mode = "run" => left > 0
LoopsOnceMore == runBit /\ (mode = "run" => left >= 0)

\* The condition of the loops of go() and run().
Loops == runBit /\ (mode = "run" => left > 0)

shellVars == <<runBit, count, mode, left, inputs>>

\* A cycle begins; MaxCycles bounds go(), and programs that do not halt.
Fetch ==
  /\ phase = "fetch" /\ mode # "command" /\ Loops
  /\ count < MaxCycles

Execute(i) ==
  /\ Fetch
  /\ Mapped(current.pc) \/ InText(current.pc)
  /\ ir' = i
  /\ phase' = "advance"
  /\ UNCHANGED <<current, count, mode, left, inputs>>

\* What an instruction writes: a register; a register and the flags, with the
\* operands c when it is a comparison; nothing; the program counter.
Write(d, v) ==
  /\ next' = SetReg(next, d, v)
  /\ UNCHANGED <<branchFlag, runBit, mem, compared>>
WriteFlags(d, v, c) ==
  /\ next' = SetReg(SetFlags(next, v), d, v)
  /\ compared' = c
  /\ UNCHANGED <<branchFlag, runBit, mem>>
WriteNothing == UNCHANGED <<next, branchFlag, runBit, mem, compared>>
Branch(target) ==
  /\ next' = [next EXCEPT !.pc = target]
  /\ branchFlag' = TRUE
  /\ UNCHANGED <<runBit, mem, compared>>
BranchIf(condition, target) == IF condition THEN Branch(target) ELSE WriteNothing
WriteMemory(m) == mem' = m /\ UNCHANGED <<next, branchFlag, runBit, compared>>
Load(i, v) ==
  /\ next' = [next EXCEPT !.regs[i.Rt] = v]
  /\ UNCHANGED <<branchFlag, runBit, mem, compared>>

execute_b == \E i \in B("b", {0}) : Execute(i) /\ Branch(Target(i))

execute_ands_sr == \E i \in R("ands", {0}) :
  Execute(i) /\ WriteFlags(i.Rd, And(Reg(i.Rn), Reg(i.Rm)), NotCompared)

execute_eor_sr == \E i \in R("eor", {0}) :
  Execute(i) /\ Write(i.Rd, Eor(Reg(i.Rn), Reg(i.Rm)))

execute_orr_sr == \E i \in R("orr", {0}) :
  Execute(i) /\ Write(i.Rd, Orr(Reg(i.Rn), Reg(i.Rm)))

execute_add_imm == \E i \in I("add_imm") :
  Execute(i) /\ Write(i.Rd, Wrap(Reg(i.Rn) + Operand(i)))

execute_adds_imm == \E i \in I("adds_imm") :
  Execute(i) /\ WriteFlags(i.Rd, Wrap(Reg(i.Rn) + Operand(i)), NotCompared)

execute_subs_cmp_imm == \E i \in I("subs_imm") :
  Execute(i) /\ WriteFlags(i.Rd, Minus(Reg(i.Rn), Operand(i)), <<Reg(i.Rn), Operand(i)>>)

\* "Assuming C=0 and V=0": a condition looks at N and Z only.
Holds(condition, n, z) ==
  CASE condition = 0  -> z
    [] condition = 1  -> ~z
    [] condition = 11 -> n
    [] condition = 12 -> ~n /\ ~z
    [] condition = 13 -> n \/ z
    [] OTHER          -> FALSE

execute_b_cond == \E i \in B("b_cond", Conditions) :
  Execute(i) /\ BranchIf(Holds(i.Rt, current.n, current.z), Target(i))

execute_cbz == \E i \in B("cbz", Registers) :
  Execute(i) /\ BranchIf(Reg(i.Rt) = 0, Target(i))

execute_cbnz == \E i \in B("cbnz", Registers) :
  Execute(i) /\ BranchIf(Reg(i.Rt) # 0, Target(i))

\* LSL by Width - immr; with immr = 0 the shift by the whole width is undefined
\* in C: the processor shifts by 0, a compiler may as well take the result as 0.
execute_lsl_lsr_imm == \E i \in Shifts :
  /\ Execute(i)
  /\ \/ i.imms = Width - 1 /\ Write(i.Rd, Lsr(Reg(i.Rn), i.immr))
     \/ i.imms # Width - 1 /\ i.immr # 0 /\ Write(i.Rd, Lsl(Reg(i.Rn), Width - i.immr))
     \/ i.imms # Width - 1 /\ i.immr = 0 /\ \E v \in {0, Reg(i.Rn)} : Write(i.Rd, v)

execute_adds_er == \E i \in R("adds_er", {0}) :
  Execute(i) /\ WriteFlags(i.Rd, Wrap(Reg(i.Rn) + Reg(i.Rm)), NotCompared)

execute_subs_cmp_er == \E i \in R("subs_er", {0}) :
  Execute(i) /\ WriteFlags(i.Rd, Minus(Reg(i.Rn), Reg(i.Rm)), <<Reg(i.Rn), Reg(i.Rm)>>)

execute_br == \E i \in R("br", {0, XZR}) :
  Execute(i) /\ BranchIf(i.Rm = XZR /\ i.shamt = 0 /\ i.Rd = 0, Reg(i.Rn))

\* It raises BRANCH_FLAG, although it does not write the program counter.
execute_add_er == \E i \in R("add_er", {0}) :
  /\ Execute(i)
  /\ IF i.Rd # XZR
     THEN /\ next' = SetReg(next, i.Rd, Wrap(Reg(i.Rn) + Reg(i.Rm)))
          /\ branchFlag' = TRUE
          /\ UNCHANGED <<runBit, mem, compared>>
     ELSE WriteNothing

execute_mul == \E i \in R("mul", {0, XZR}) :
  /\ Execute(i)
  /\ IF i.shamt = XZR THEN Write(i.Rd, Wrap(Reg(i.Rn) * Reg(i.Rm))) ELSE WriteNothing
-----------------------------------------------------------------------------
\* The text is not among the regions of mem: programs that touch it as data are
\* not among those covered.
OutsideText(i) ==
  \A a \in {Address(i), Wrap(Address(i) + 4)} : ~InText(a)

Low(w)  == (w % Mem32)
High(w) == w \div Mem32

\* mutant of Merge: what is around is not read first
LowOnly(a, n, v) == (v % Values(n))

\* Replace the low n bytes of the four at an address by those of v, and write
\* the four back.
Merge(a, n, v) == (v % Values(n)) + mem_read_32(a) - (mem_read_32(a) % Values(n))

execute_stur == \E i \in D("stur") :
  /\ Execute(i) /\ OutsideText(i)
  /\ IF i.op2 = 0
     THEN WriteMemory(mem_write_32(mem_write_32(mem, Address(i), Low(Reg(i.Rt))),
                                   Wrap(Address(i) + 4), High(Reg(i.Rt))))
     ELSE WriteNothing

execute_sturb == \E i \in D("sturb") :
  /\ Execute(i) /\ OutsideText(i)
  /\ IF i.op2 = 0
     THEN WriteMemory(mem_write_32(mem, Address(i), Merge(Address(i), 1, Reg(i.Rt))))
     ELSE WriteNothing

execute_sturh == \E i \in D("sturh") :
  /\ Execute(i) /\ OutsideText(i)
  /\ IF i.op2 = 0
     THEN WriteMemory(mem_write_32(mem, Address(i), Merge(Address(i), 2, Reg(i.Rt))))
     ELSE WriteNothing

execute_ldur == \E i \in D("ldur") :
  /\ Execute(i) /\ OutsideText(i)
  /\ IF i.op2 = 0
     THEN Load(i, mem_read_32(Address(i)) + Mem32 * mem_read_32(Wrap(Address(i) + 4)))
     ELSE WriteNothing

execute_ldurb == \E i \in D("ldurb") :
  /\ Execute(i) /\ OutsideText(i)
  /\ IF i.op2 = 0 THEN Load(i, (mem_read_32(Address(i)) % ByteRange)) ELSE WriteNothing

\* The halfword goes through an int16_t: its sign is extended.
execute_ldurh == \E i \in D("ldurh") :
  /\ Execute(i) /\ OutsideText(i)
  /\ IF i.op2 = 0
     THEN Load(i, sign_extend((mem_read_32(Address(i)) % HalfRange), 2 * ByteBits))
     ELSE WriteNothing

execute_hlt == \E i \in IW("hlt", {0}) :
  /\ Execute(i)
  /\ IF i.Rd = 0
     THEN runBit' = FALSE /\ UNCHANGED <<next, branchFlag, mem, compared>>
     ELSE WriteNothing

execute_movz == \E i \in IW("movz", Moves) : Execute(i) /\ Write(i.Rd, i.imm)
-----------------------------------------------------------------------------
\* The rest of process_instruction(): no instruction of the table matches ...
NoMatch ==
  /\ Fetch
  /\ ir' = Unknown
  /\ phase' = "latch"
  /\ UNCHANGED <<current, next, branchFlag, mem, compared, shellVars>>

\* ... or one has been executed.
StepPc(s, b) == IF b THEN s ELSE [s EXCEPT !.pc = Wrap(current.pc + 4)]

Advance ==
  /\ phase = "advance"
  /\ next' = StepPc(next, branchFlag)
  /\ branchFlag' = FALSE
  /\ phase' = "latch"
  /\ UNCHANGED <<current, mem, ir, compared, shellVars>>

\* The rest of cycle(), and the loop counter of run().
Latch ==
  /\ phase = "latch"
  /\ current' = next
  /\ count' = count + 1
  /\ left' = IF mode = "run" THEN left - 1 ELSE left
  /\ ir' = NoInstruction
  /\ phase' = "fetch"
  /\ UNCHANGED <<next, branchFlag, runBit, mem, mode, inputs, compared>>
-----------------------------------------------------------------------------
\* Commands.  rdump, mdump and help change nothing; quit ends the process.
cpuVars == <<next, branchFlag, runBit, count, mem, phase, ir, compared>>

go ==
  /\ mode = "command" /\ runBit
  /\ mode' = "go"
  /\ UNCHANGED <<current, left, inputs, cpuVars>>

run(n) ==
  /\ mode = "command" /\ runBit
  /\ mode' = "run"
  /\ left' = n
  /\ UNCHANGED <<current, inputs, cpuVars>>

Returned ==
  /\ mode # "command" /\ phase = "fetch" /\ ~Loops
  /\ mode' = "command"
  /\ left' = 0
  /\ UNCHANGED <<current, inputs, cpuVars>>

\* register_no is not checked: only valid numbers are given.
SetInput(s, r, v) == [s EXCEPT !.regs[r] = v]

\* mutant of InputNext: only CURRENT_STATE is written
NotLatched(s, r, v) == s

\* The same for NEXT_STATE.
InputNext(s, r, v) == SetInput(s, r, v)

input == \E r \in Registers, v \in Inputs :
  /\ mode = "command" /\ inputs < MaxInputs
  /\ current' = SetInput(current, r, v)
  /\ next' = InputNext(next, r, v)
  /\ inputs' = inputs + 1
  /\ UNCHANGED <<branchFlag, runBit, count, mem, phase, ir, mode, left, compared>>

Instruction ==
  \/ execute_b \/ execute_br \/ execute_b_cond \/ execute_cbz \/ execute_cbnz
  \/ execute_ands_sr \/ execute_eor_sr \/ execute_orr_sr \/ execute_mul \/ execute_lsl_lsr_imm
  \/ execute_add_imm \/ execute_adds_imm \/ execute_subs_cmp_imm
  \/ execute_add_er \/ execute_adds_er \/ execute_subs_cmp_er
  \/ execute_stur \/ execute_sturb \/ execute_sturh
  \/ execute_ldur \/ execute_ldurb \/ execute_ldurh
  \/ execute_hlt \/ execute_movz

Cycle   == Instruction \/ NoMatch \/ Advance \/ Latch
Command == go \/ (\E n \in 0 .. MaxCycles - count : run(n)) \/ Returned \/ input

Next == Cycle \/ Command
Spec == Init /\ [][Next]_vars
-----------------------------------------------------------------------------
(***************************************************************************)
(* Properties.                                                             *)
(***************************************************************************)
Byte  == 0 .. ByteRange - 1
State == [regs : [Registers -> Word], pc : Word, n : BOOLEAN, z : BOOLEAN]
BranchOps == {"b", "b_cond", "cbz", "cbnz"}

\* Every arithmetic result fits a word, and every access stays inside a region
\* and its padding and leaves bytes there.
TypeOK ==
  /\ current \in State /\ next \in State
  /\ branchFlag \in BOOLEAN /\ runBit \in BOOLEAN
  /\ count \in 0 .. MaxCycles
  /\ DOMAIN mem = Regions
  /\ \A r \in Regions : mem[r] \in [0 .. Size[r] + Padding - 1 -> Byte]
  /\ phase \in {"fetch", "advance", "latch"}
  /\ mode \in {"command", "go", "run"}
  /\ left \in 0 .. MaxCycles /\ inputs \in 0 .. MaxInputs

\* Between two cycles, commands typed in the meantime included, the latches are
\* equal and no branch is pending: an instruction writes only some fields of
\* NEXT_STATE, the others must already be the current ones.
LatchesAgree == phase = "fetch" => next = current /\ ~branchFlag

\* A branch on a condition, however many instructions after the comparison that
\* set the flags, is taken as the signed operands compare, unless their
\* difference overflows (V is not kept).
Signed(w) == IF w >= WordRange \div 2 THEN w - WordRange ELSE w

Compares(condition, a, b) ==
  \/ condition = 0  /\ a = b
  \/ condition = 1  /\ a # b
  \/ condition = 11 /\ a < b
  \/ condition = 12 /\ a > b
  \/ condition = 13 /\ a <= b

BranchesOnComparison ==
  [][phase = "fetch" /\ phase' = "advance" /\ ir'.op = "b_cond" /\ compared # NotCompared =>
       LET a == Signed(compared[1])
           b == Signed(compared[2])
       IN  a - b \in -(WordRange \div 2) .. WordRange \div 2 - 1
             => (branchFlag' <=> Compares(ir'.Rt, a, b))]_vars

\* Over a whole cycle the program counter moves to the next instruction, except
\* that a branch may move it by its signed offset, and BR to its register.  An
\* instruction that is not in the table leaves it alone, and ADD of registers is
\* the subject of AddAdvances.
SignedField(f, bits) == IF f >= 2 ^ (bits - 1) THEN f - 2 ^ bits ELSE f

PcFollows ==
  [][phase = "latch" /\ phase' = "fetch" =>
       IF ir = Unknown THEN current'.pc = current.pc
       ELSE \/ current'.pc = Wrap(current.pc + 4)
            \/ /\ ir.op \in BranchOps
               /\ current'.pc = Wrap(current.pc + 4 * SignedField(ir.address, BranchBits))
            \/ ir.op = "br" /\ current'.pc = Reg(ir.Rn)
            \/ ir.op = "add_er"]_vars

\* sim.h:38-41: process_instruction() updates the program counter "to point to
\* the instruction to be processed in the next state", for ADD of registers too.
AddAdvances ==
  [][phase = "latch" /\ phase' = "fetch" /\ ir # Unknown /\ ir.op = "add_er" =>
       current'.pc = Wrap(current.pc + 4)]_vars

\* A store changes its one, two or eight bytes and no others, up to the last
\* byte of a region, although the code writes four at a time and reads the ones
\* around first; and nothing else writes memory.
Bytes == [stur |-> 8, sturb |-> 1, sturh |-> 2]

StoredAt(i) == Wrap(Reg(i.Rn) + SignedField(i.address, AddressBits))

StoresAreExact ==
  [][IF phase = "fetch" /\ phase' = "advance" /\ ir'.op \in StoreOps /\ ir'.op2 = 0
     THEN \A r \in Regions : \A b \in 0 .. Size[r] - 1 :
            LET k == Wrap(Start[r] + b - StoredAt(ir'))
            IN  IF k < Bytes[ir'.op]
                THEN In(StoredAt(ir'), r) =>
                       mem'[r][b] = ((Reg(ir'.Rt) \div Values(k)) % ByteRange)
                ELSE mem'[r][b] = mem[r][b]
     ELSE mem' = mem]_vars

\* The register XZR keeps its value, except when a load or the command input
\* writes it: those two do not look at the number.
ZeroRegister ==
  [][\/ current'.regs[XZR] = current.regs[XZR]
     \/ mode = "command"
     \/ phase = "latch" /\ ir \in Loads]_vars

\* After HLT the cycle ends, and none begins again, in the same command or in a
\* later one.
HaltIsFinal ==
  [][~runBit /\ phase = "fetch" =>
       phase' = "fetch" /\ ~runBit' /\ UNCHANGED <<mem, count>>]_vars
=============================================================================
