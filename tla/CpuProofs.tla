----------------------------- MODULE CpuProofs -----------------------------
(***************************************************************************)
(* The simulator, for any width, any regions and any program.  First its   *)
(* control: the latches, BRANCH_FLAG, RUN_BIT and the zero register; and   *)
(* the table of opcodes.  Then its arithmetic: what words, sign_extend(),  *)
(* bytes and the two operations on memory do, that everything stays in its *)
(* type, and with that the program counter, the flags and the stores.      *)
(***************************************************************************)
EXTENDS Cpu, Decode, Arithmetic, TLAPS

\* A command is only typed between two cycles, and BRANCH_FLAG is up at most
\* between the execution of an instruction and the advance.
PhaseInv ==
  /\ phase \in {"fetch", "advance", "latch"}
  /\ mode \in {"command", "go", "run"}
  /\ mode = "command" => phase = "fetch"
  /\ phase \in {"fetch", "latch"} => branchFlag = FALSE

IInv == PhaseInv /\ LatchesAgree

\* Every instruction starts from a latched state.
LEMMA InstructionStep ==
  ASSUME Instruction
  PROVE  /\ phase = "fetch" /\ mode # "command" /\ runBit
         /\ phase' = "advance"
         /\ UNCHANGED <<current, count, mode, left, inputs>>
<1> USE DEF Execute, Fetch, Loops
<1>1. \E i : Execute(i)
  BY DEF Instruction, execute_b, execute_br, execute_b_cond, execute_cbz, execute_cbnz,
         execute_ands_sr, execute_eor_sr, execute_orr_sr, execute_mul, execute_lsl_lsr_imm,
         execute_add_imm, execute_adds_imm, execute_subs_cmp_imm,
         execute_add_er, execute_adds_er, execute_subs_cmp_er,
         execute_stur, execute_sturb, execute_sturh, execute_ldur, execute_ldurb,
         execute_ldurh, execute_hlt, execute_movz
<1> QED
  BY <1>1

\* The phases of a cycle and the agreement of the latches are inductive together.
LEMMA Inductive == Spec => []IInv
<1> USE DEF IInv, PhaseInv, LatchesAgree
<1>1. Init => IInv
  BY DEF Init
<1>2. IInv /\ [Next]_vars => IInv'
  <2> SUFFICES ASSUME IInv, [Next]_vars PROVE IInv'
    OBVIOUS
  <2>1. CASE Instruction
    BY <2>1, InstructionStep
  <2>2. CASE NoMatch
    BY <2>2 DEF NoMatch, Fetch, shellVars
  <2>3. CASE Advance
    BY <2>3 DEF Advance, shellVars
  <2>4. CASE Latch
    BY <2>4 DEF Latch
  <2>5. CASE go
    BY <2>5 DEF go, cpuVars
  <2>6. ASSUME NEW n, run(n) PROVE IInv'
    BY <2>6 DEF run, cpuVars
  <2>7. CASE Returned
    BY <2>7 DEF Returned, cpuVars
  <2>8. CASE input
    BY <2>8 DEF input, InputNext, SetInput
  <2>9. CASE UNCHANGED vars
    BY <2>9 DEF vars
  <2> QED
    BY <2>1, <2>2, <2>3, <2>4, <2>5, <2>6, <2>7, <2>8, <2>9 DEF Next, Cycle, Command
<1> QED
  BY <1>1, <1>2, PTL DEF Spec

\* Between cycles the latches are equal and no branch is pending, whatever was
\* executed or typed before.
THEOREM LatchesAlwaysAgree == Spec => []LatchesAgree
<1>1. IInv => LatchesAgree
  BY DEF IInv
<1> QED
  BY <1>1, Inductive, PTL

\* No cycle begins once RUN_BIT is down, and nothing raises it.
THEOREM HaltStays == Spec => HaltIsFinal
<1> DEFINE Halted == ~runBit /\ phase = "fetch" =>
                       phase' = "fetch" /\ ~runBit' /\ UNCHANGED <<mem, count>>
<1>1. [Next]_vars => [Halted]_vars
  <2> SUFFICES ASSUME Next, ~runBit, phase = "fetch"
               PROVE  phase' = "fetch" /\ ~runBit' /\ UNCHANGED <<mem, count>>
    BY DEF vars
  <2>1. ~Instruction
    BY InstructionStep
  <2>2. ~NoMatch /\ ~Advance /\ ~Latch
    BY DEF NoMatch, Fetch, Loops, Advance, Latch
  <2>3. Command => UNCHANGED <<runBit, count, mem, phase>>
    BY DEF Command, go, run, Returned, input, cpuVars
  <2> QED
    BY <2>1, <2>2, <2>3 DEF Next, Cycle
<1> QED
  BY <1>1, PTL DEF Spec, HaltIsFinal
-----------------------------------------------------------------------------
\* All that an update of a register asks of a latch.
Latched(s) == "regs" \in DOMAIN s /\ XZR \in DOMAIN s.regs

\* Until the end of a cycle only a load makes the latches differ in XZR.
ZeroInv ==
  /\ Latched(current) /\ Latched(next)
  /\ next.regs[XZR] = current.regs[XZR] \/ (phase # "fetch" /\ ir \in Loads)

\* Writing a register keeps the shape of a latch, and XZR when it is another one.
LEMMA RegisterUpdate ==
  ASSUME NEW s, NEW d, NEW v, Latched(s)
  PROVE  /\ Latched([s EXCEPT !.regs[d] = v])
         /\ d # XZR => [s EXCEPT !.regs[d] = v].regs[XZR] = s.regs[XZR]
<1> DEFINE f == [s.regs EXCEPT ![d] = v]
           t == [s EXCEPT !.regs = f]
<1>1. t.regs = f /\ "regs" \in DOMAIN t
  BY DEF Latched
<1>2. DOMAIN f = DOMAIN s.regs
  OBVIOUS
<1>3. d # XZR => f[XZR] = s.regs[XZR]
  BY DEF Latched
<1>4. [s EXCEPT !.regs[d] = v] = t
  OBVIOUS
<1> QED
  BY <1>1, <1>2, <1>3, <1>4 DEF Latched

\* Writing the program counter or the flags keeps every register.
LEMMA OtherUpdate ==
  ASSUME NEW s, NEW v, Latched(s)
  PROVE  /\ Latched([s EXCEPT !.pc = v]) /\ [s EXCEPT !.pc = v].regs = s.regs
         /\ Latched(SetFlags(s, v)) /\ SetFlags(s, v).regs = s.regs
<1>1. Latched([s EXCEPT !.pc = v]) /\ [s EXCEPT !.pc = v].regs = s.regs
  BY DEF Latched
<1> DEFINE n == v >= WordRange \div 2
           z == v = 0
           t == [s EXCEPT !.n = n]
<1>2. SetFlags(s, v) = [t EXCEPT !.z = z]
  BY DEF SetFlags
<1> HIDE DEF n, z
<1>3. "regs" \in DOMAIN t /\ t.regs = s.regs
  BY DEF Latched
<1> HIDE DEF t
<1>4. "regs" \in DOMAIN [t EXCEPT !.z = z] /\ [t EXCEPT !.z = z].regs = t.regs
  BY <1>3
<1> QED
  BY <1>1, <1>2, <1>3, <1>4 DEF Latched

\* A result is never written into XZR.
LEMMA ResultKeepsZero ==
  ASSUME NEW s, NEW d, NEW v, Latched(s)
  PROVE  Latched(SetReg(s, d, v)) /\ SetReg(s, d, v).regs[XZR] = s.regs[XZR]
BY RegisterUpdate DEF SetReg

\* The step keeps XZR in NEXT_STATE.
Kept == Latched(next') /\ next'.regs[XZR] = next.regs[XZR]

\* Whatever an instruction writes, except what it loads, keeps XZR.
LEMMA WritesKeep ==
  ASSUME Latched(next)
  PROVE  /\ \A d, v : Write(d, v) => Kept
         /\ \A d, v, c : WriteFlags(d, v, c) => Kept
         /\ WriteNothing => Kept
         /\ \A t : Branch(t) => Kept
         /\ \A c, t : BranchIf(c, t) => Kept
         /\ \A m : WriteMemory(m) => Kept
<1> USE DEF Kept
<1>1. ASSUME NEW d, NEW v, Write(d, v) PROVE Kept
  BY <1>1, ResultKeepsZero DEF Write
<1>2. ASSUME NEW d, NEW v, NEW c, WriteFlags(d, v, c) PROVE Kept
  <2>1. Latched(SetFlags(next, v)) /\ SetFlags(next, v).regs = next.regs
    BY OtherUpdate
  <2>2. /\ Latched(SetReg(SetFlags(next, v), d, v))
        /\ SetReg(SetFlags(next, v), d, v).regs[XZR] = SetFlags(next, v).regs[XZR]
    BY <2>1, ResultKeepsZero
  <2> QED
    BY <1>2, <2>1, <2>2 DEF WriteFlags
<1>3. ASSUME NEW t, Branch(t) PROVE Kept
  BY <1>3, OtherUpdate DEF Branch
<1>4. WriteNothing => Kept
  BY DEF WriteNothing
<1>5. \A m : WriteMemory(m) => Kept
  BY DEF WriteMemory
<1> QED
  BY <1>1, <1>2, <1>3, <1>4, <1>5 DEF BranchIf

\* A load may write XZR, but nothing that is not a register.
LEMMA LoadsKeepShape ==
  ASSUME Latched(next), NEW i, NEW v, Load(i, v)
  PROVE  Latched(next')
BY RegisterUpdate DEF Load

\* Of all instructions only the loads change XZR in NEXT_STATE.
LEMMA InstructionKeeps ==
  ASSUME Latched(next), Instruction
  PROVE  Latched(next') /\ (Kept \/ ir' \in Loads)
<1>1. CASE execute_b
  BY <1>1, WritesKeep DEF execute_b, Kept
<1>2. CASE execute_br \/ execute_b_cond \/ execute_cbz \/ execute_cbnz
  BY <1>2, WritesKeep DEF execute_br, execute_b_cond, execute_cbz, execute_cbnz, Kept
<1>3. CASE \/ execute_ands_sr \/ execute_eor_sr \/ execute_orr_sr \/ execute_mul
           \/ execute_lsl_lsr_imm
  BY <1>3, WritesKeep DEF execute_ands_sr, execute_eor_sr, execute_orr_sr, execute_mul,
         execute_lsl_lsr_imm, Kept
<1>4. CASE execute_add_imm \/ execute_adds_imm \/ execute_subs_cmp_imm
  BY <1>4, WritesKeep DEF execute_add_imm, execute_adds_imm, execute_subs_cmp_imm, Kept
<1>5. CASE execute_add_er
  BY <1>5, WritesKeep, ResultKeepsZero DEF execute_add_er, Kept
<1>6. CASE execute_adds_er \/ execute_subs_cmp_er
  BY <1>6, WritesKeep DEF execute_adds_er, execute_subs_cmp_er, Kept
<1>7. CASE execute_stur \/ execute_sturb \/ execute_sturh
  BY <1>7, WritesKeep DEF execute_stur, execute_sturb, execute_sturh, Kept
<1>8. CASE execute_ldur \/ execute_ldurb \/ execute_ldurh
  BY <1>8, WritesKeep, LoadsKeepShape
     DEF execute_ldur, execute_ldurb, execute_ldurh, Execute, Loads, Kept
<1>9. CASE execute_hlt \/ execute_movz
  BY <1>9, WritesKeep DEF execute_hlt, execute_movz, Kept
<1> QED
  BY <1>1, <1>2, <1>3, <1>4, <1>5, <1>6, <1>7, <1>8, <1>9 DEF Instruction

\* Every step of the simulator preserves ZeroInv.
LEMMA ZeroStep ==
  ASSUME IInv, ZeroInv, [Next]_vars
  PROVE  ZeroInv'
<1>1. CASE Instruction
  <2>1. next = current
    BY <1>1, InstructionStep DEF IInv, LatchesAgree
  <2> QED
    BY <1>1, <2>1, InstructionStep, InstructionKeeps DEF ZeroInv, Latched, Kept
<1>2. CASE NoMatch
  BY <1>2 DEF NoMatch, Fetch, ZeroInv, Latched
<1>3. CASE Advance
  <2>1. Latched(next') /\ next'.regs = next.regs
    BY <1>3, OtherUpdate DEF Advance, StepPc, ZeroInv
  <2> QED
    BY <1>3, <2>1 DEF Advance, ZeroInv, Latched
<1>4. CASE Latch
  BY <1>4 DEF Latch, ZeroInv, Latched
<1>5. CASE go \/ (\E n \in 0 .. MaxCycles - count : run(n)) \/ Returned
  BY <1>5 DEF go, run, Returned, cpuVars, ZeroInv, Latched
<1>6. CASE input
  <2>1. next = current
    BY <1>6 DEF input, IInv, PhaseInv, LatchesAgree
  <2>2. current' = next' /\ Latched(current')
    BY <1>6, <2>1, RegisterUpdate DEF input, SetInput, InputNext, ZeroInv
  <2> QED
    BY <2>2 DEF ZeroInv, Latched
<1>7. CASE UNCHANGED vars
  BY <1>7 DEF vars, ZeroInv, Latched
<1> QED
  BY <1>1, <1>2, <1>3, <1>4, <1>5, <1>6, <1>7 DEF Next, Cycle, Command

\* Only a load or the command input changes the register XZR.
THEOREM ZeroRegisterKept == Spec => ZeroRegister
<1>1. Init => ZeroInv
  BY CpuAssumption DEF Init, ZeroInv, Latched, Registers
<1>2. IInv /\ ZeroInv /\ [Next]_vars =>
        [\/ current'.regs[XZR] = current.regs[XZR]
         \/ mode = "command"
         \/ phase = "latch" /\ ir \in Loads]_vars
  <2> SUFFICES ASSUME ZeroInv, Next, mode # "command", current' # current
               PROVE  \/ current'.regs[XZR] = current.regs[XZR]
                      \/ phase = "latch" /\ ir \in Loads
    OBVIOUS
  <2>1. Latch
    BY InstructionStep DEF Next, Cycle, Command, NoMatch, Advance, go, run, Returned, input
  <2> QED
    BY <2>1 DEF Latch, ZeroInv
<1> QED
  BY <1>1, <1>2, ZeroStep, Inductive, PTL DEF Spec, ZeroRegister
-----------------------------------------------------------------------------
(***************************************************************************)
(* Words.  The provers know of a power only what the lemmas of Arithmetic  *)
(* say, and of the word that a set of bits makes only how it is summed up. *)
(***************************************************************************)
SignBit == 2 ^ (Width - 1)

\* The scale of the machine: what one, two, four and eight bytes can hold.
LEMMA Scale ==
  /\ ByteBits \in Nat \ {0} /\ Width \in Nat /\ Width >= 8
  /\ \A n \in Nat : Values(n) \in Nat \ {0} /\ Values(n) <= Values(n + 1)
  /\ \A m, n \in Nat : Values(m + n) = Values(m) * Values(n)
  /\ Values(0) = 1 /\ ByteRange >= 2
  /\ WordRange = 2 ^ Width /\ WordRange \in Nat \ {0} /\ WordRange = Mem32 * Mem32
  /\ SignBit \in Nat \ {0} /\ WordRange = 2 * SignBit /\ WordRange \div 2 = SignBit
<1>1. ByteBits \in Nat \ {0} /\ Width \in Nat /\ Width >= 8
  BY CpuAssumption DEF Width
<1>2. \A m, n \in Nat : /\ m * ByteBits \in Nat /\ n * ByteBits \in Nat
                        /\ (m + n) * ByteBits = m * ByteBits + n * ByteBits
  BY <1>1
<1>3. \A m, n \in Nat : Values(m + n) = Values(m) * Values(n)
  BY <1>2, Powers DEF Values
<1>4. \A n \in Nat : Values(n) \in Nat \ {0}
  BY <1>2, Powers DEF Values
<1>5. ASSUME NEW n \in Nat PROVE Values(n) <= Values(n + 1)
  <2>1. Values(n + 1) = Values(n) * Values(1) /\ Values(1) \in Nat \ {0} /\ Values(n) \in Nat \ {0}
    BY <1>3, <1>4
  <2>2. \A x, y \in Nat \ {0} : x <= x * y
    OBVIOUS
  <2> QED
    BY <2>1, <2>2
<1>6. Values(0) = 1 /\ ByteRange >= 2
  <2>1. 0 * ByteBits = 0 /\ 1 * ByteBits = (ByteBits - 1) + 1 /\ ByteBits - 1 \in Nat
    BY <1>1
  <2>2. 2 ^ ((ByteBits - 1) + 1) = 2 * 2 ^ (ByteBits - 1) /\ 2 ^ (ByteBits - 1) \in Nat \ {0}
    BY <2>1, NextPower, Powers
  <2>3. Values(0) = 2 ^ 0 /\ ByteRange = 2 ^ ((ByteBits - 1) + 1)
    BY <2>1, Zenon DEF Values, ByteRange
  <2>4. 2 ^ 0 = 1
    OBVIOUS
  <2> QED
    BY <2>2, <2>3, <2>4
<1>7. WordRange = 2 ^ Width /\ WordRange \in Nat \ {0} /\ WordRange = Mem32 * Mem32
  <2>1. 4 + 4 = 8
    OBVIOUS
  <2>2. Values(8) = Values(4) * Values(4)
    BY <1>3, <2>1
  <2> QED
    BY <1>4, <2>2 DEF WordRange, Mem32, Values, Width
<1>8. SignBit \in Nat \ {0} /\ WordRange = 2 * SignBit
  <2>1. Width - 1 \in Nat /\ (Width - 1) + 1 = Width
    BY <1>1
  <2>2. 2 ^ (Width - 1) \in Nat \ {0} /\ 2 ^ ((Width - 1) + 1) = 2 * 2 ^ (Width - 1)
    BY <2>1, NextPower, Powers
  <2>3. 2 ^ ((Width - 1) + 1) = 2 ^ Width
    BY <2>1, Zenon
  <2> QED
    BY <1>7, <2>2, <2>3 DEF SignBit
<1>9. WordRange \div 2 = SignBit
  BY <1>8
<1> QED
  BY <1>1, <1>3, <1>4, <1>5, <1>6, <1>7, <1>8, <1>9

\* Words are numbers, and so are bytes.
LEMMA WordsAreNumbers ==
  Word \subseteq Nat /\ Byte \subseteq Nat /\ 0 \in Word /\ 0 \in Byte
<1>1. WordRange \in Nat \ {0} /\ ByteRange \in Nat \ {0}
  BY Scale DEF ByteRange
<1> QED
  BY <1>1 DEF Word, Byte

\* Every integer wraps to a word, and adding words may wrap as late as one likes.
LEMMA Wraps ==
  /\ \A n \in Int : Wrap(n) \in Word
  /\ \A w \in Word : Wrap(w) = w
  /\ \A m, n \in Int : Wrap(m + Wrap(n)) = Wrap(m + n)
<1>1. WordRange \in Nat \ {0}
  BY Scale
<1>2. \A n \in Int : Wrap(n) \in Word
  BY <1>1, DivMod DEF Wrap, Word
<1>3. \A w \in Word : Wrap(w) = w
  BY <1>1 DEF Wrap, Word
<1>4. ASSUME NEW m \in Int, NEW n \in Int PROVE Wrap(m + Wrap(n)) = Wrap(m + n)
  <2> DEFINE q == n \div WordRange
             r == n % WordRange
             p == (m + r) \div WordRange
             s == (m + r) % WordRange
  <2>1. q \in Int /\ r \in 0..WordRange - 1 /\ n = WordRange * q + r
    BY <1>1, DivMod
  <2>2. m + r \in Int
    BY <1>1, <2>1
  <2>3. p \in Int /\ s \in 0..WordRange - 1 /\ m + r = WordRange * p + s
    <3> HIDE DEF r
    <3> QED
      BY <1>1, <2>2, DivMod
  <2> HIDE DEF q, p, s
  <2>4. m + n = WordRange * (q + p) + s
    <3>1. WordRange * (q + p) = WordRange * q + WordRange * p
      BY <1>1, <2>1, <2>3
    <3> HIDE DEF r
    <3> QED
      BY <1>1, <2>1, <2>3, <3>1
  <2>5. (m + n) % WordRange = s
    <3>1. q + p \in Int
      BY <2>1, <2>3
    <3>2. (WordRange * (q + p) + s) % WordRange = s
      BY <1>1, <2>3, <3>1, Quotient
    <3> QED
      BY <2>4, <3>2
  <2> QED
    BY <2>5 DEF Wrap, s
<1> QED
  BY <1>2, <1>3, <1>4

\* A set of bits is summed up from the lowest one.
SumOf(S, f) ==
  /\ f[0] = 0 /\ \A k \in 0..Width - 1 : f[k + 1] = f[k] + Bit(S, k)
  /\ Value(S) = f[Width]

\* There is such a sum: sum is defined at 0 and at each k after k - 1.
LEMMA SumExists == ASSUME NEW S PROVE \E f : SumOf(S, f)
<1> DEFINE IsSum(n, f) == f = [k \in 0..n |-> IF k = 0 THEN 0 ELSE f[k - 1] + Bit(S, k - 1)]
           Good == {n \in 0..Width : \E f : IsSum(n, f)}
<1>0. Width \in Nat
  BY Scale
<1>1. 0 \in Good
  <2>1. IsSum(0, [k \in 0..0 |-> 0])
    OBVIOUS
  <2> HIDE DEF IsSum
  <2> QED
    BY <1>0, <2>1
<1>2. ASSUME NEW n \in 0..Width - 1, n \in Good PROVE n + 1 \in Good
  <2>1. PICK f : IsSum(n, f)
    BY <1>2
  <2> DEFINE g == [k \in 0..n + 1 |-> IF k <= n THEN f[k] ELSE f[n] + Bit(S, n)]
  <2>2. ASSUME NEW k \in 0..n + 1 PROVE g[k] = IF k = 0 THEN 0 ELSE g[k - 1] + Bit(S, k - 1)
    <3>1. \A i \in 0..n : f[i] = IF i = 0 THEN 0 ELSE f[i - 1] + Bit(S, i - 1)
      BY <2>1
    <3>2. CASE k = 0
      BY <1>0, <3>1, <3>2
    <3>3. CASE k \in 1..n
      <4>1. k - 1 \in 0..n + 1 /\ k - 1 <= n /\ k <= n /\ k \in 0..n
        BY <1>0, <3>3
      <4>2. g[k] = f[k] /\ g[k - 1] = f[k - 1]
        BY <4>1
      <4> HIDE DEF g, IsSum
      <4> QED
        BY <3>1, <3>3, <4>1, <4>2
    <3>4. CASE k = n + 1
      <4>1. k - 1 = n /\ n <= n /\ ~(k <= n) /\ n \in 0..n + 1 /\ k # 0
        BY <1>0, <3>4
      <4>2. g[k] = f[n] + Bit(S, n) /\ g[n] = f[n]
        BY <4>1
      <4> HIDE DEF g, IsSum
      <4> QED
        BY <4>1, <4>2
    <3> QED
      BY <1>0, <3>2, <3>3, <3>4
  <2>3. IsSum(n + 1, g)
    <3>1. g = [k \in 0..n + 1 |-> g[k]]
      OBVIOUS
    <3> HIDE DEF g
    <3> QED
      BY <2>2, <3>1
  <2> HIDE DEF g, IsSum
  <2> QED
    BY <1>0, <2>3
<1>3. PICK g : IsSum(Width, g)
  <2>1. Width \in Good
    <3> HIDE DEF Good
    <3> QED
      BY <1>0, <1>1, <1>2, Upwards
  <2> QED
    BY <2>1
<1> DEFINE sum == CHOOSE f : IsSum(Width, f)
<1>4. IsSum(Width, sum)
  <2> HIDE DEF IsSum
  <2> QED
    BY <1>3, Zenon
<1>5. Value(S) = sum[Width]
  BY DEF Value
<1> HIDE DEF sum
<1>6. SumOf(S, sum)
  <2>1. \A k \in 0..Width : sum[k] = IF k = 0 THEN 0 ELSE sum[k - 1] + Bit(S, k - 1)
    BY <1>4
  <2>2. \A k \in 0..Width - 1 : k + 1 \in 0..Width /\ k + 1 # 0 /\ (k + 1) - 1 = k
    BY <1>0
  <2>3. 0 \in 0..Width
    BY <1>0
  <2> HIDE DEF IsSum
  <2> QED
    BY <1>5, <2>1, <2>2, <2>3 DEF SumOf
<1> QED
  BY <1>6

\* The bits of a word add up to the word; bit k is there when what is left above
\* the k lowest is odd.
LEMMA LowBits ==
  ASSUME NEW w \in Word, NEW k \in 0..Width - 1
  PROVE  w % 2 ^ (k + 1) = (w % 2 ^ k) + Bit(Ones(w), k)
<1> DEFINE a == 2 ^ k
<1>1. w \in Nat /\ k \in Nat
  BY Scale DEF Word
<1>2. a \in Nat \ {0} /\ 2 ^ (k + 1) = a * 2
  BY <1>1, NextPower, Powers
<1>3. k \in Ones(w) <=> ((w \div a) % 2) = 1
  BY DEF Ones
<1> HIDE DEF a
<1> DEFINE x == w % (a * 2)
           b == (w \div a) % 2
           r == w % a
<1>4. x \div a = b /\ x % a = r
  <2>1. w \in Int /\ 2 \in Nat \ {0}
    BY <1>1
  <2> QED
    BY <1>2, <2>1, Digits
<1>5. x \in Int /\ b \in {0, 1} /\ r \in Int
  <2>1. w \div a \in Int
    BY <1>1, <1>2, DivMod
  <2> QED
    BY <1>1, <1>2, <2>1, DivMod
<1> HIDE DEF x, b, r
<1>6. x = a * b + r
  BY <1>2, <1>4, <1>5, DivMod
<1>7. x = r + (IF b = 1 THEN a ELSE 0)
  BY <1>2, <1>5, <1>6
<1>8. Bit(Ones(w), k) = IF b = 1 THEN a ELSE 0
  BY <1>3 DEF Bit, a, b
<1> QED
  BY <1>2, <1>7, <1>8 DEF x, r, a

\* A set of bits makes a word, and the bits of a word make it again.
LEMMA ValueIsWord ==
  /\ \A S : Value(S) \in Word
  /\ \A w \in Word : Value(Ones(w)) = w
<1>0. Width \in Nat /\ WordRange = 2 ^ Width /\ WordRange \in Nat \ {0}
  BY Scale
<1>1. ASSUME NEW S PROVE Value(S) \in Word
  <2>1. PICK f : SumOf(S, f)
    BY SumExists
  <2> DEFINE Good == {k \in 0..Width : f[k] \in 0..2 ^ k - 1}
  <2>2. 0 \in Good
    BY <1>0, <2>1, Powers DEF SumOf
  <2>3. ASSUME NEW k \in 0..Width - 1, k \in Good PROVE k + 1 \in Good
    <3>1. k \in Nat /\ k + 1 \in 0..Width /\ f[k] \in 0..2 ^ k - 1
      BY <1>0, <2>3
    <3>2. 2 ^ k \in Nat \ {0} /\ 2 ^ (k + 1) = 2 * 2 ^ k
      BY <3>1, NextPower, Powers
    <3>3. f[k + 1] = f[k] + Bit(S, k) /\ Bit(S, k) \in {0, 2 ^ k}
      BY <2>1 DEF SumOf, Bit
    <3>4. f[k + 1] \in 0..2 ^ (k + 1) - 1
      BY <3>1, <3>2, <3>3
    <3> QED
      BY <3>1, <3>4
  <2>4. Width \in Good
    <3> HIDE DEF Good
    <3> QED
      BY <1>0, <2>2, <2>3, Upwards
  <2> QED
    BY <1>0, <2>1, <2>4 DEF SumOf, Word
<1>2. ASSUME NEW w \in Word PROVE Value(Ones(w)) = w
  <2>1. PICK f : SumOf(Ones(w), f)
    BY SumExists
  <2> DEFINE Good == {k \in 0..Width : f[k] = w % 2 ^ k}
  <2>2. 0 \in Good
    <3>1. w \in Nat /\ 2 ^ 0 = 1
      BY <1>0 DEF Word
    <3>2. w % 1 = 0
      BY <3>1
    <3> QED
      BY <1>0, <2>1, <3>1, <3>2 DEF SumOf
  <2>3. ASSUME NEW k \in 0..Width - 1, k \in Good PROVE k + 1 \in Good
    <3>1. f[k + 1] = w % 2 ^ (k + 1)
      BY <2>1, <2>3, LowBits DEF SumOf
    <3>2. k + 1 \in 0..Width
      BY <1>0
    <3> QED
      BY <3>1, <3>2
  <2>4. Width \in Good
    <3> HIDE DEF Good
    <3> QED
      BY <1>0, <2>2, <2>3, Upwards
  <2>5. w % WordRange = w
    BY Wraps DEF Wrap
  <2> QED
    BY <1>0, <2>1, <2>4, <2>5 DEF SumOf
<1> QED
  BY <1>1, <1>2

\* One more bit adds its weight.
LEMMA MoreBits ==
  ASSUME NEW j \in 0..Width - 1, NEW S, NEW T, T \ S = {j}, S \subseteq T
  PROVE  Value(T) = Value(S) + 2 ^ j
<1>0. Width \in Nat /\ j \in Nat
  BY Scale
<1>1. PICK f : SumOf(S, f)
  BY SumExists
<1>2. PICK g : SumOf(T, g)
  BY SumExists
<1>p. PICK p \in Nat : p = 2 ^ j
  BY <1>0, Powers
<1> DEFINE Good == {k \in 0..Width : f[k] \in Nat /\ g[k] = f[k] + (IF k > j THEN p ELSE 0)}
<1>3. 0 \in Good
  BY <1>0, <1>1, <1>2 DEF SumOf
<1>4. ASSUME NEW k \in 0..Width - 1, k \in Good PROVE k + 1 \in Good
  <2>1. k \in Nat /\ k + 1 \in 0..Width /\ 2 ^ k \in Nat
    BY <1>0, NextPower
  <2>2. f[k + 1] = f[k] + Bit(S, k) /\ g[k + 1] = g[k] + Bit(T, k)
    BY <1>1, <1>2 DEF SumOf
  <2>3. /\ Bit(S, k) \in Nat
        /\ k # j => Bit(T, k) = Bit(S, k)
        /\ k = j => Bit(T, k) = p /\ Bit(S, k) = 0
    BY <2>1, <1>p DEF Bit
  <2>4. f[k] \in Nat /\ g[k] = f[k] + (IF k > j THEN p ELSE 0)
    BY <1>4
  <2>5. f[k + 1] \in Nat /\ g[k + 1] = f[k + 1] + (IF k + 1 > j THEN p ELSE 0)
    BY <1>0, <2>1, <2>2, <2>3, <2>4
  <2> QED
    BY <2>1, <2>5
<1>5. Width \in Good
  <2> HIDE DEF Good
  <2> QED
    BY <1>0, <1>3, <1>4, Upwards
<1> QED
  BY <1>0, <1>1, <1>2, <1>p, <1>5 DEF SumOf

\* A power of two is a word of one bit.
LEMMA OneBit ==
  ASSUME NEW j \in 0..Width - 1
  PROVE  2 ^ j \in Word /\ Ones(2 ^ j) = {j}
<1>0. Width \in Nat /\ j \in Nat /\ WordRange = 2 ^ Width
  BY Scale
<1>1. 2 ^ j \in Word
  BY <1>0, Powers DEF Word
<1>2. ASSUME NEW k \in 0..Width - 1 PROVE (2 ^ j \div 2 ^ k) % 2 = 1 <=> k = j
  <2>0. k \in Nat
    BY <1>0
  <2>1. PICK p \in Nat \ {0} : p = 2 ^ k
    BY <2>0, Powers
  <2>2. CASE k < j
    <3>1. j - k - 1 \in Nat /\ k + (j - k) = j /\ (j - k - 1) + 1 = j - k /\ j - k \in Nat
      BY <1>0, <2>0, <2>2
    <3>2. PICK c \in Nat : c = 2 ^ (j - k - 1)
      BY <3>1, NextPower
    <3>3. 2 ^ (j - k) = 2 * c
      BY <3>1, <3>2, NextPower
    <3>4. 2 ^ j = p * (2 * c) + 0
      <4>1. 2 ^ (k + (j - k)) = 2 ^ k * 2 ^ (j - k)
        BY <2>0, <3>1, Powers
      <4>2. 2 ^ j = p * (2 * c)
        BY <2>1, <3>1, <3>3, <4>1, Zenon
      <4> QED
        BY <4>2
    <3>5. 2 * c \in Int /\ 0 \in 0..p - 1
      BY <2>1
    <3>6. (p * (2 * c) + 0) \div p = 2 * c
      BY <2>1, <3>5, Quotient
    <3>7. (2 * c) % 2 = 0
      OBVIOUS
    <3>8. 2 ^ j \div 2 ^ k = 2 * c
      BY <2>1, <3>4, <3>6, Zenon
    <3>9. k # j
      BY <1>0, <2>0, <2>2
    <3>10. (2 ^ j \div 2 ^ k) % 2 = 0
      BY <3>7, <3>8, Zenon
    <3> QED
      BY <3>9, <3>10
  <2>3. CASE k = j
    <3>1. 1 \in Int /\ 0 \in 0..p - 1 /\ p * 1 + 0 = p
      BY <2>1
    <3>2. p \div p = 1
      BY <2>1, <3>1, Quotient
    <3>3. 1 % 2 = 1
      OBVIOUS
    <3> QED
      BY <2>1, <2>3, <3>2, <3>3
  <2>4. CASE k > j
    <3>1. PICK q \in Nat : q = 2 ^ j
      BY <1>1, <1>0, Powers
    <3>2. q < p
      BY <1>0, <2>0, <2>1, <2>4, <3>1, Powers
    <3>3. q \in 0..p - 1 /\ 0 \in Int /\ p * 0 + q = q
      BY <2>1, <3>2
    <3>4. q \div p = 0
      BY <2>1, <3>3, Quotient
    <3>5. 0 % 2 = 0
      OBVIOUS
    <3> QED
      BY <2>1, <2>4, <3>1, <3>4, <3>5
  <2> QED
    BY <1>0, <2>0, <2>2, <2>3, <2>4
<1>3. Ones(2 ^ j) = {j}
  BY <1>2 DEF Ones
<1> QED
  BY <1>1, <1>3

\* The top bit of a field says whether it is in the upper half of its values.
LEMMA TopBit ==
  ASSUME NEW j \in 0..Width - 1, NEW n \in 0..2 ^ (j + 1) - 1
  PROVE  j \in Ones(n) <=> n >= 2 ^ j
<1>0. j \in Nat /\ Width \in Nat
  BY Scale
<1>1. PICK p \in Nat \ {0} : p = 2 ^ j
  BY <1>0, Powers
<1>2. 2 ^ (j + 1) = 2 * p
  BY <1>0, <1>1, NextPower
<1>3. n \in Nat /\ n < p * 2
  BY <1>1, <1>2
<1>4. n \div p \in 0..1 /\ n % p \in 0..p - 1 /\ n = p * (n \div p) + (n % p)
  <2>1. n \div p \in 0..2 - 1
    BY <1>3, DivBounds
  <2> QED
    BY <1>3, <2>1, DivMod
<1>5. n \div p = 1 <=> n >= p
  BY <1>3, <1>4
<1>6. (n \div p) % 2 = n \div p
  BY <1>4
<1> QED
  BY <1>1, <1>5, <1>6 DEF Ones

\* sign_extend() makes of a field the word of its signed value.
LEMMA SignExtends ==
  ASSUME NEW bits \in 1..Width, NEW n \in 0..2 ^ bits - 1
  PROVE  sign_extend(n, bits) = Wrap(SignedField(n, bits)) /\ SignedField(n, bits) \in Int
<1> DEFINE j == bits - 1
           m == 2 ^ j
<1>0. Width \in Nat /\ WordRange = 2 ^ Width /\ bits \in Nat /\ j \in 0..Width - 1 /\ j \in Nat /\ j + 1 = bits
  BY Scale
<1>1. m \in Nat \ {0} /\ 2 ^ bits = 2 * m
  <2>1. 2 ^ (j + 1) = 2 * 2 ^ j
    BY <1>0, NextPower
  <2>2. 2 ^ (j + 1) = 2 ^ bits
    BY <1>0, Zenon
  <2> QED
    BY <1>0, <2>1, <2>2, Powers
<1>2. n \in Word
  <2>1. 2 ^ bits <= 2 ^ Width
    <3>1. CASE bits = Width
      <4>1. 2 ^ bits = 2 ^ Width
        BY <3>1, Zenon
      <4> QED
        BY <1>1, <4>1
    <3>2. CASE bits < Width
      BY <1>0, <1>1, <3>2, Powers
    <3> QED
      BY <1>0, <3>1, <3>2
  <2> QED
    BY <1>0, <1>1, <2>1, Scale DEF Word
<1>3. Ones(m) = {j} /\ (j \in Ones(n) <=> n >= m)
  <2>1. n \in 0..2 ^ (j + 1) - 1
    BY <1>0, Zenon
  <2> QED
    BY <1>0, <2>1, OneBit, TopBit
<1>4. Value(Ones(n)) = n
  BY <1>2, ValueIsWord
<1> DEFINE T == (Ones(n) \cup {j}) \ (Ones(n) \cap {j})
<1>5. Eor(n, m) = Value(T)
  BY <1>3, Zenon DEF Eor
<1>6. CASE n >= m
  <2>1. Ones(n) \ T = {j} /\ T \subseteq Ones(n)
    BY <1>3, <1>6
  <2>2. n = Value(T) + m
    <3> HIDE DEF T, j
    <3> QED
      BY <1>0, <1>4, <2>1, MoreBits
  <2>3. Value(T) \in Int
    BY ValueIsWord DEF Word
  <2>4. Value(T) - m = n - 2 ^ bits
    BY <1>1, <2>2, <2>3
  <2> QED
    BY <1>1, <1>5, <1>6, <2>4 DEF sign_extend, SignedField
<1>7. CASE ~(n >= m)
  <2>1. T \ Ones(n) = {j} /\ Ones(n) \subseteq T
    BY <1>3, <1>7
  <2>2. Value(T) = n + m
    <3> HIDE DEF T, j
    <3> QED
      BY <1>0, <1>4, <2>1, MoreBits
  <2>3. Value(T) - m = n
    BY <1>1, <2>2
  <2> QED
    BY <1>1, <1>5, <1>7, <2>3 DEF sign_extend, SignedField
<1> QED
  BY <1>6, <1>7
-----------------------------------------------------------------------------
\* Bytes of every region, padding included.
Memory(m) ==
  DOMAIN m = Regions /\ \A r \in Regions : m[r] \in [0 .. Size[r] + Padding - 1 -> Byte]

\* The types, and that the cycle in progress is within the bounds.
TypeInv ==
  /\ current \in State /\ next \in State
  /\ branchFlag \in BOOLEAN /\ runBit \in BOOLEAN /\ Memory(mem)
  /\ count \in 0 .. MaxCycles /\ left \in 0 .. MaxCycles /\ inputs \in 0 .. MaxInputs
  /\ phase # "fetch" => count < MaxCycles /\ (mode = "run" => left > 0)

\* What an instruction may do to the program counter besides leaving it to Advance.
Jumped ==
  \/ /\ ir.op \in BranchOps
     /\ next.pc = Wrap(current.pc + 4 * SignedField(ir.address, BranchBits))
  \/ ir.op = "br" /\ next.pc = Reg(ir.Rn)
  \/ ir.op = "add_er"

PcInv ==
  /\ phase = "advance" => ir # Unknown /\ (branchFlag => Jumped)
  /\ phase = "latch" => IF ir = Unknown THEN next.pc = current.pc
                        ELSE next.pc = Wrap(current.pc + 4) \/ Jumped

\* The flags are those of the last comparison, when nothing else has set them.
FlagInv ==
  compared # NotCompared =>
    /\ compared \in Word \X Word
    /\ next.n = (Minus(compared[1], compared[2]) >= WordRange \div 2)
    /\ next.z = (Minus(compared[1], compared[2]) = 0)

\* The result of every operation on words is a word.
LEMMA WordOperations ==
  ASSUME NEW a \in Word, NEW b \in Word
  PROVE  /\ And(a, b) \in Word /\ Orr(a, b) \in Word /\ Eor(a, b) \in Word
         /\ Wrap(a + b) \in Word /\ Wrap(a * b) \in Word /\ Minus(a, b) \in Word
         /\ \A n \in Nat : Lsl(a, n) \in Word /\ Lsr(a, n) \in Word
<1>1. WordRange \in Nat \ {0} /\ a \in Nat /\ b \in Nat /\ a < WordRange
  BY Scale DEF Word
<1>2. And(a, b) \in Word /\ Orr(a, b) \in Word /\ Eor(a, b) \in Word
  BY ValueIsWord DEF And, Orr, Eor
<1>3. Wrap(a + b) \in Word /\ Wrap(a * b) \in Word /\ Minus(a, b) \in Word
  <2>1. a + b \in Int /\ a * b \in Int /\ a + Not(b) + 1 \in Int
    BY <1>1 DEF Not
  <2> QED
    BY <2>1, Wraps DEF Minus
<1>4. ASSUME NEW n \in Nat PROVE Lsl(a, n) \in Word /\ Lsr(a, n) \in Word
  <2>1. PICK p \in Nat \ {0} : p = 2 ^ n
    BY Powers
  <2>2. Lsl(a, n) \in Word
    <3>1. a * p \in Int
      BY <1>1
    <3> QED
      BY <2>1, <3>1, Wraps DEF Lsl
  <2>3. a \div p \in 0 .. WordRange - 1
    <3>1. a < p * WordRange
      <4>1. WordRange <= p * WordRange
        BY <1>1
      <4>2. p * WordRange \in Int
        BY <1>1
      <4> QED
        BY <1>1, <4>1, <4>2
    <3> QED
      BY <1>1, <3>1, DivBounds
  <2> QED
    BY <2>1, <2>2, <2>3 DEF Lsr, Word
<1> QED
  BY <1>2, <1>3, <1>4

\* A latch stays one when a word is written into a register or the counter.
LEMMA LatchTypes ==
  ASSUME NEW s \in State, NEW v \in Word
  PROVE  /\ [s EXCEPT !.pc = v] \in State /\ SetFlags(s, v) \in State
         /\ \A d \in Registers : [s EXCEPT !.regs[d] = v] \in State /\ SetReg(s, d, v) \in State
<1>1. [s EXCEPT !.pc = v] \in State
  BY DEF State
<1>2. SetFlags(s, v) \in State
  <2>1. PICK n, z \in BOOLEAN : n = (v >= WordRange \div 2) /\ z = (v = 0)
    <3>1. (v >= WordRange \div 2) \in BOOLEAN /\ (v = 0) \in BOOLEAN
      OBVIOUS
    <3> QED
      BY <3>1, Zenon
  <2>2. PICK t : t = [s EXCEPT !.n = n]
    OBVIOUS
  <2>3. t \in State /\ [t EXCEPT !.z = z] \in State
    BY <2>2 DEF State
  <2>4. SetFlags(s, v) = [[s EXCEPT !.n = n] EXCEPT !.z = z]
    BY <2>1 DEF SetFlags
  <2> QED
    BY <2>2, <2>3, <2>4, Zenon
<1>3. \A d \in Registers : [s EXCEPT !.regs[d] = v] \in State
  BY DEF State
<1> QED
  BY <1>1, <1>2, <1>3 DEF SetReg

\* Two digits of different weights make a number with both.
LEMMA TwoDigits ==
  ASSUME NEW p \in Nat \ {0}, NEW q \in Nat \ {0}, NEW x \in 0 .. q - 1, NEW y \in 0 .. p - 1,
         NEW w, w = p * q, NEW z, z = x * p + y
  PROVE  z \in 0 .. w - 1 /\ z \div p = x /\ z % p = y
<1>1. x * p = p * x /\ x * p \in Nat /\ p * q \in Nat
  OBVIOUS
<1>2. x * p + p <= p * q
  <2>1. p * (x + 1) <= p * q
    OBVIOUS
  <2> QED
    BY <2>1
<1>3. (p * x + y) \div p = x /\ (p * x + y) % p = y
  BY Quotient
<1>4. x * p + y \in 0 .. p * q - 1
  <2> DEFINE m == x * p
             n == p * q
  <2>1. m \in Nat /\ n \in Nat /\ m + p <= n
    BY <1>1, <1>2
  <2> HIDE DEF m, n
  <2>2. m + y \in 0 .. n - 1
    BY <2>1
  <2> QED
    BY <2>2 DEF m, n
<1> QED
  BY <1>1, <1>3, <1>4

\* The bytes of a number.
ByteAt(x, k) == (x \div Values(k)) % ByteRange

\* A low byte is in the remainder, and the bytes of a quotient are the high ones.
LEMMA ByteParts ==
  /\ \A x \in Int : \A k \in Nat : ByteAt(x, k) \in Byte
  /\ \A x, y \in Int : \A k, n \in Nat :
       k < n /\ x % Values(n) = y % Values(n) => ByteAt(x, k) = ByteAt(y, k)
  /\ \A x \in Int : \A n, j \in Nat : ByteAt(x, n + j) = ByteAt(x \div Values(n), j)
<1>0. ByteRange \in Nat \ {0} /\ ByteRange = Values(1) /\ \A n \in Nat : Values(n) \in Nat \ {0}
  BY Scale DEF ByteRange
<1>1. ASSUME NEW x \in Int, NEW k \in Nat PROVE ByteAt(x, k) \in Byte
  <2>1. PICK a \in Nat \ {0} : a = Values(k)
    BY <1>0
  <2>2. x \div a \in Int
    BY DivMod
  <2> QED
    BY <1>0, <2>1, <2>2, DivMod DEF ByteAt, Byte
<1>2. ASSUME NEW x \in Int, NEW k \in Nat, NEW n \in Nat, k < n
      PROVE  ByteAt(x, k) = (((x % Values(n)) \div Values(k)) % ByteRange)
  <2> DEFINE m == n - k - 1
  <2>1. k + (1 + m) = n /\ 1 + m \in Nat /\ 1 \in Nat /\ m \in Nat
    BY <1>2
  <2> HIDE DEF m
  <2>2. Values(n) = Values(k) * Values(1 + m) /\ Values(1 + m) = ByteRange * Values(m)
    BY <1>0, <2>1, Scale
  <2>3. PICK a, b, c \in Nat \ {0} : a = Values(k) /\ b = Values(1 + m) /\ c = Values(m)
    BY <1>0, <2>1
  <2>4. (x % (a * b)) \div a = ((x \div a) % b)
    BY Digits
  <2>5. x \div a \in Int
    BY DivMod
  <2>6. (((x \div a) % (ByteRange * c)) % ByteRange) = ((x \div a) % ByteRange)
    <3>1. PICK y \in Int : y = x \div a
      BY <2>5
    <3>2. \A z \in Int, a1, b1 \in Nat \ {0} : ((z % (a1 * b1)) % a1) = (z % a1)
      BY Digits
    <3>3. ByteRange \in Nat \ {0}
      BY <1>0
    <3>4. ((y % (ByteRange * c)) % ByteRange) = (y % ByteRange)
      BY <3>2, <3>3, Zenon
    <3> QED
      BY <3>1, <3>4
  <2> QED
    BY <2>2, <2>3, <2>4, <2>6 DEF ByteAt
<1>3. ASSUME NEW x \in Int, NEW n \in Nat, NEW j \in Nat
      PROVE  ByteAt(x, n + j) = ByteAt(x \div Values(n), j)
  <2>1. Values(n + j) = Values(n) * Values(j)
    BY Scale
  <2>2. x \div (Values(n) * Values(j)) = (x \div Values(n)) \div Values(j)
    BY <1>0, Digits
  <2> QED
    BY <2>1, <2>2, Zenon DEF ByteAt
<1>4. ASSUME NEW x \in Int, NEW y \in Int, NEW k \in Nat, NEW n \in Nat,
             k < n, x % Values(n) = y % Values(n)
      PROVE  ByteAt(x, k) = ByteAt(y, k)
  BY <1>2, <1>4, Zenon
<1> QED
  BY <1>1, <1>3, <1>4

\* A number x of four digits to the base b, from the low ones up.
Digits4(b, b2, b3, y0, y1, y2, y3, l1, l2, x) ==
  /\ b \in Nat \ {0} /\ b2 \in Nat \ {0} /\ b3 \in Nat \ {0} /\ b2 = b * b /\ b3 = b2 * b
  /\ y0 \in 0 .. b - 1 /\ y1 \in 0 .. b - 1 /\ y2 \in 0 .. b - 1 /\ y3 \in 0 .. b - 1
  /\ l1 = y1 * b + y0 /\ l2 = y2 * b2 + l1 /\ x = y3 * b3 + l2

\* Quotients and remainders take it apart again.
LEMMA FourDigits ==
  ASSUME NEW b, NEW b2, NEW b3, NEW y0, NEW y1, NEW y2, NEW y3, NEW l1, NEW l2, NEW x,
         Digits4(b, b2, b3, y0, y1, y2, y3, l1, l2, x)
  PROVE  /\ x \in 0 .. b3 * b - 1 /\ x \div b3 = y3 /\ x % b3 = l2
         /\ l2 \in 0 .. b3 - 1 /\ l2 \div b2 = y2 /\ l2 % b2 = l1
         /\ l1 \in 0 .. b2 - 1 /\ l1 \div b = y1 /\ l1 % b = y0
<1> USE DEF Digits4
<1>1. l1 \in 0 .. b2 - 1 /\ l1 \div b = y1 /\ l1 % b = y0
  BY TwoDigits
<1>2. l2 \in 0 .. b3 - 1 /\ l2 \div b2 = y2 /\ l2 % b2 = l1
  BY <1>1, TwoDigits
<1>3. PICK m : m = b3 * b
  OBVIOUS
<1>4. x \in 0 .. m - 1 /\ x \div b3 = y3 /\ x % b3 = l2
  BY <1>2, <1>3, TwoDigits
<1> QED
  BY <1>1, <1>2, <1>3, <1>4

\* What a read makes of four bytes.
FromBytes(y0, y1, y2, y3) == y3 * Values(3) + y2 * Values(2) + y1 * Values(1) + y0

\* It is within 32 bits, and has those bytes.
LEMMA FourBytes ==
  ASSUME NEW y0 \in Byte, NEW y1 \in Byte, NEW y2 \in Byte, NEW y3 \in Byte,
         NEW x, x = FromBytes(y0, y1, y2, y3)
  PROVE  /\ x \in 0 .. Mem32 - 1
         /\ ByteAt(x, 0) = y0 /\ ByteAt(x, 1) = y1 /\ ByteAt(x, 2) = y2 /\ ByteAt(x, 3) = y3
<1>1. PICK b, b2, b3 \in Nat \ {0} :
        /\ b = ByteRange /\ b = Values(1) /\ b2 = Values(2) /\ b3 = Values(3) /\ Mem32 = b3 * b
        /\ b2 = b * b /\ b3 = b2 * b
  <2>1. 1 + 1 = 2 /\ 2 + 1 = 3 /\ 3 + 1 = 4
    OBVIOUS
  <2> QED
    BY <2>1, Scale DEF Mem32, ByteRange
<1>2. y0 \in 0 .. b - 1 /\ y1 \in 0 .. b - 1 /\ y2 \in 0 .. b - 1 /\ y3 \in 0 .. b - 1
  BY <1>1 DEF Byte
<1>3. PICK l1, l2 : l1 = y1 * b + y0 /\ l2 = y2 * b2 + l1
  OBVIOUS
<1>4. x = y3 * b3 + l2
  <2>1. x = y3 * b3 + y2 * b2 + y1 * b + y0
    BY <1>1 DEF FromBytes
  <2>2. y3 * b3 \in Int /\ y2 * b2 \in Int /\ y1 * b \in Int /\ y0 \in Int
    BY <1>2
  <2> QED
    BY <2>1, <2>2, <1>3
<1>5. /\ x \in 0 .. b3 * b - 1 /\ x \div b3 = y3 /\ x % b3 = l2
      /\ l2 \in 0 .. b3 - 1 /\ l2 \div b2 = y2 /\ l2 % b2 = l1
      /\ l1 \in 0 .. b2 - 1 /\ l1 \div b = y1 /\ l1 % b = y0
  <2>1. Digits4(b, b2, b3, y0, y1, y2, y3, l1, l2, x)
    BY <1>1, <1>2, <1>3, <1>4 DEF Digits4
  <2> QED
    BY <2>1, FourDigits
<1>9. x \in 0 .. Mem32 - 1
  BY <1>1, <1>5
<1>10. l1 % b2 = l1 /\ l2 % b3 = l2 /\ y0 % b = y0 /\ y1 % b = y1 /\ y2 % b = y2 /\ y3 % b = y3
  BY <1>2, <1>5
<1>11. l1 \in Int /\ l2 \in Int /\ x \in Int
  BY <1>5
<1>12. ByteAt(x, 3) = y3
  BY <1>1, <1>5, <1>10 DEF ByteAt
<1>13. ByteAt(x, 2) = y2
  <2>1. x % Values(3) = l2 % Values(3)
    BY <1>1, <1>5, <1>10
  <2>2. ByteAt(x, 2) = ByteAt(l2, 2)
    BY <1>11, <2>1, ByteParts
  <2> QED
    BY <1>1, <1>5, <1>10, <2>2 DEF ByteAt
<1>14. ByteAt(x, 1) = y1
  <2>1. x % Values(3) = l2 % Values(3)
    BY <1>1, <1>5, <1>10
  <2>2. l2 % Values(2) = l1 % Values(2)
    BY <1>1, <1>5, <1>10
  <2>3. ByteAt(x, 1) = ByteAt(l1, 1)
    <3>1. ByteAt(x, 1) = ByteAt(l2, 1)
      BY <1>11, <2>1, ByteParts
    <3>2. ByteAt(l2, 1) = ByteAt(l1, 1)
      BY <1>11, <2>2, ByteParts
    <3> QED
      BY <3>1, <3>2
  <2> QED
    BY <1>1, <1>5, <1>10, <2>3 DEF ByteAt
<1>15. ByteAt(x, 0) = y0
  <2>1. x % Values(3) = l2 % Values(3)
    BY <1>1, <1>5, <1>10
  <2>2. l2 % Values(2) = l1 % Values(2)
    BY <1>1, <1>5, <1>10
  <2>3. ByteAt(x, 0) = ByteAt(l1, 0)
    <3>1. ByteAt(x, 0) = ByteAt(l2, 0)
      BY <1>11, <2>1, ByteParts
    <3>2. ByteAt(l2, 0) = ByteAt(l1, 0)
      BY <1>11, <2>2, ByteParts
    <3> QED
      BY <3>1, <3>2
  <2>4. l1 \div 1 = l1 /\ Values(0) = 1
    BY <1>11, Scale
  <2> QED
    BY <1>1, <1>5, <2>3, <2>4 DEF ByteAt
<1> QED
  BY <1>9, <1>12, <1>13, <1>14, <1>15

\* The region of a mapped address is the only one that has it.
LEMMA OneRegion ==
  ASSUME NEW a \in Word
  PROVE  /\ Mapped(a) => RegionOf(a) \in Regions /\ In(a, RegionOf(a))
         /\ \A r \in Regions : In(a, r) =>
              Mapped(a) /\ r = RegionOf(a) /\ a - Start[r] \in 0 .. Size[r] - 1
<1>1. /\ WordRange \in Nat /\ a \in Nat
      /\ \A r \in Regions : Start[r] \in Nat /\ Size[r] \in Nat \ {0}
  BY CpuAssumption, Scale DEF Word
<1>2. Mapped(a) => RegionOf(a) \in Regions /\ In(a, RegionOf(a))
  BY DEF Mapped, RegionOf
<1>3. ASSUME NEW r \in Regions, In(a, r)
      PROVE  Mapped(a) /\ r = RegionOf(a) /\ a - Start[r] \in 0 .. Size[r] - 1
  <2>1. Mapped(a)
    BY <1>3 DEF Mapped
  <2>2. ASSUME NEW q \in Regions, In(a, q) PROVE q = r
    <3>1. q # r => Start[q] + Size[q] <= Start[r] \/ Start[r] + Size[r] <= Start[q]
      BY CpuAssumption
    <3>2. /\ a >= Start[q] /\ a < Start[q] + Size[q]
          /\ a >= Start[r] /\ a < Start[r] + Size[r]
      BY <1>3, <2>2 DEF In
    <3> QED
      BY <1>1, <3>1, <3>2
  <2>3. a - Start[r] \in 0 .. Size[r] - 1
    BY <1>1, <1>3 DEF In
  <2> QED
    BY <1>2, <2>1, <2>2, <2>3
<1> QED
  BY <1>2, <1>3

\* A read of memory yields 32 bits, whose bytes are those in memory.
LEMMA ReadIsExact ==
  ASSUME Memory(mem), NEW a \in Word
  PROVE  /\ mem_read_32(a) \in 0 .. Mem32 - 1
         /\ \A r \in Regions : In(a, r) =>
              \A k \in 0 .. 3 : ByteAt(mem_read_32(a), k) = mem[r][a - Start[r] + k]
<1>1. CASE ~Mapped(a)
  <2>1. Mem32 \in Nat \ {0}
    BY Scale DEF Mem32
  <2>2. \A r \in Regions : ~In(a, r)
    BY <1>1, OneRegion
  <2> QED
    BY <1>1, <2>1, <2>2 DEF mem_read_32
<1>2. CASE Mapped(a)
  <2>1. PICK r \in Regions : r = RegionOf(a) /\ In(a, r)
    BY <1>2, OneRegion
  <2>2. PICK o : o = a - Start[r] /\ o \in 0 .. Size[r] - 1 /\ Size[r] \in Nat
    BY <2>1, OneRegion, CpuAssumption
  <2>3. \A k \in 0 .. 3 : mem[r][o + k] \in Byte
    <3>1. \A k \in 0 .. 3 : o + k \in 0 .. Size[r] + Padding - 1
      BY <2>2 DEF Padding
    <3> QED
      BY <3>1 DEF Memory
  <2>4. o + 0 = o
    BY <2>2
  <2>5. mem_read_32(a) = mem[r][o + 3] * Values(3) + mem[r][o + 2] * Values(2)
                           + mem[r][o + 1] * Values(1) + mem[r][o + 0]
    BY <1>2, <2>1, <2>2, <2>4 DEF mem_read_32
  <2>6. PICK y0, y1, y2, y3 \in Byte : /\ y0 = mem[r][o + 0] /\ y1 = mem[r][o + 1]
                                       /\ y2 = mem[r][o + 2] /\ y3 = mem[r][o + 3]
    BY <2>3
  <2>7. PICK x : x = mem_read_32(a)
    OBVIOUS
  <2>8. x = FromBytes(y0, y1, y2, y3)
    BY <2>5, <2>6, <2>7 DEF FromBytes
  <2>9. /\ x \in 0 .. Mem32 - 1
        /\ ByteAt(x, 0) = y0 /\ ByteAt(x, 1) = y1 /\ ByteAt(x, 2) = y2 /\ ByteAt(x, 3) = y3
    BY <2>8, FourBytes
  <2>10. \A k \in 0 .. 3 : k = 0 \/ k = 1 \/ k = 2 \/ k = 3
    OBVIOUS
  <2>11. \A k \in 0 .. 3 : ByteAt(x, k) = mem[r][o + k]
    BY <2>6, <2>9, <2>10
  <2>12. \A q \in Regions : In(a, q) => q = r
    BY <2>1, OneRegion
  <2> QED
    BY <2>2, <2>7, <2>9, <2>11, <2>12
<1> QED
  BY <1>1, <1>2

\* A write changes the four bytes from its address on in the region that has it,
\* as far as the region goes, and nothing else; there are bytes before and after.
LEMMA WriteIsExact ==
  ASSUME NEW m, Memory(m), NEW a \in Word, NEW v \in Int
  PROVE  /\ Memory(mem_write_32(m, a, v))
         /\ \A r \in Regions : \A b \in 0 .. Size[r] - 1 :
              mem_write_32(m, a, v)[r][b] =
                IF In(a, r) /\ Start[r] + b - a \in 0 .. 3
                THEN ByteAt(v, Start[r] + b - a) ELSE m[r][b]
<1>1. CASE ~Mapped(a)
  <2>1. \A r \in Regions : ~In(a, r)
    BY <1>1, OneRegion
  <2> QED
    BY <1>1, <2>1 DEF mem_write_32
<1>2. CASE Mapped(a)
  <2>1. PICK q \in Regions : q = RegionOf(a) /\ In(a, q)
    BY <1>2, OneRegion
  <2>2. PICK o : o = a - Start[q] /\ o \in 0 .. Size[q] - 1 /\ Size[q] \in Nat
    BY <2>1, OneRegion, CpuAssumption
  <2>3. PICK f : f = [b \in DOMAIN m[q] |->
                        IF b \in o .. o + 3 THEN ((v \div Values(b - o)) % ByteRange)
                        ELSE m[q][b]]
    OBVIOUS
  <2>4. mem_write_32(m, a, v) = [m EXCEPT ![q] = f]
    BY <1>2, <2>1, <2>2, <2>3 DEF mem_write_32
  <2>5. DOMAIN m[q] = 0 .. Size[q] + Padding - 1
    BY DEF Memory
  <2>6. \A b \in DOMAIN m[q] : b \in o .. o + 3 => b - o \in Nat
    BY <2>2, <2>5
  <2>7. f \in [0 .. Size[q] + Padding - 1 -> Byte]
    <3>1. \A b \in DOMAIN m[q] : f[b] \in Byte
      <4>1. \A b \in DOMAIN m[q] : m[q][b] \in Byte
        BY <2>5 DEF Memory
      <4>2. \A b \in DOMAIN m[q] : b \in o .. o + 3 => ByteAt(v, b - o) \in Byte
        BY <2>6, ByteParts
      <4> QED
        BY <2>3, <4>1, <4>2 DEF ByteAt
    <3> QED
      BY <2>3, <2>5, <3>1
  <2>8. Memory([m EXCEPT ![q] = f])
    BY <2>7 DEF Memory
  <2>9. ASSUME NEW r \in Regions, NEW b \in 0 .. Size[r] - 1
        PROVE  [m EXCEPT ![q] = f][r][b] =
                 IF In(a, r) /\ Start[r] + b - a \in 0 .. 3
                 THEN ByteAt(v, Start[r] + b - a) ELSE m[r][b]
    <3>1. CASE r = q
      <4>1. In(a, r) /\ [m EXCEPT ![q] = f][r] = f
        BY <2>1, <3>1 DEF Memory
      <4>2. a \in Int /\ Start[q] \in Int /\ b \in Int
        BY CpuAssumption, Scale DEF Word
      <4>3. Start[r] + b - a = b - o /\ (b - o \in 0 .. 3 <=> b \in o .. o + 3)
        BY <2>2, <3>1, <4>2
      <4>4. b \in DOMAIN m[q]
        BY <2>2, <2>5, <3>1 DEF Padding
      <4>5. f[b] = IF b \in o .. o + 3 THEN ((v \div Values(b - o)) % ByteRange) ELSE m[q][b]
        BY <2>3, <4>4
      <4>6. f[b] = IF b - o \in 0 .. 3 THEN ByteAt(v, b - o) ELSE m[q][b]
        BY <4>3, <4>5 DEF ByteAt
      <4> QED
        BY <3>1, <4>1, <4>3, <4>6
    <3>2. CASE r # q
      <4>1. ~In(a, r)
        BY <2>1, <3>2, OneRegion
      <4>2. [m EXCEPT ![q] = f][r] = m[r]
        BY <3>2 DEF Memory
      <4> QED
        BY <4>1, <4>2
    <3> QED
      BY <3>1, <3>2
  <2> QED
    BY <2>4, <2>8, <2>9
<1> QED
  BY <1>1, <1>2
-----------------------------------------------------------------------------
\* The registers and fields that an instruction reads.
LEMMA Operands ==
  ASSUME current \in State
  PROVE  /\ \A r \in Registers : Reg(r) \in Word
         /\ current.pc \in Word /\ XZR \in Registers
         /\ \A op : \A i \in I(op) : Operand(i) \in Word
<1>1. \A r \in Registers : Reg(r) \in Word
  BY DEF Reg, State
<1>2. ASSUME NEW op, NEW i \in I(op) PROVE Operand(i) \in Word
  <2>1. i.imm \in Word /\ 0 \in Word /\ ImmediateBits \in Nat
    BY CpuAssumption, Scale DEF I, Word
  <2>2. Lsl(i.imm, ImmediateBits) \in Word
    BY <2>1, WordOperations
  <2> QED
    BY <2>1, <2>2 DEF Operand
<1> QED
  BY <1>1, <1>2, CpuAssumption DEF State, Registers

\* A load or a store accesses its register plus its signed offset.
LEMMA Addressing ==
  ASSUME current \in State, NEW op, NEW i \in D(op)
  PROVE  /\ Address(i) \in Word /\ Address(i) = StoredAt(i)
         /\ Wrap(Address(i) + 4) \in Word
<1>1. AddressBits \in 1 .. Width /\ i.address \in 0 .. 2 ^ AddressBits - 1 /\ i.Rn \in Registers
  <2>1. AddressBits \in 1 .. Width - 1 /\ Addresses \subseteq 0 .. 2 ^ AddressBits - 1
    BY CpuAssumption
  <2>2. i.address \in Addresses /\ i.Rn \in Registers
    BY DEF D
  <2>3. Width \in Nat
    BY Scale
  <2>4. AddressBits \in 1 .. Width
    BY <2>1, <2>3
  <2> QED
    BY <2>1, <2>2, <2>4, Zenon
<1>2. PICK x : x = SignedField(i.address, AddressBits)
  OBVIOUS
<1>3. sign_extend(i.address, AddressBits) = Wrap(x) /\ x \in Int
  BY <1>1, <1>2, SignExtends
<1>4. Reg(i.Rn) \in Int
  <2>1. Reg(i.Rn) \in Word
    BY <1>1, Operands
  <2> QED
    BY <2>1, Scale DEF Word
<1>5. Reg(i.Rn) + x \in Int
  BY <1>3, <1>4
<1>6. Wrap(Reg(i.Rn) + Wrap(x)) = Wrap(Reg(i.Rn) + x) /\ Wrap(Reg(i.Rn) + x) \in Word
  BY <1>3, <1>4, <1>5, Wraps
<1>7. Address(i) \in Word /\ Address(i) = StoredAt(i)
  BY <1>2, <1>3, <1>6 DEF Address, StoredAt
<1>8. Address(i) + 4 \in Int
  BY <1>7, Scale DEF Word
<1> QED
  BY <1>7, <1>8, Wraps

\* A branch goes as many instructions away as its signed field says.
LEMMA Branching ==
  ASSUME current \in State, NEW a \in 0 .. 2 ^ BranchBits - 1, NEW i, i.address = a
  PROVE  Target(i) \in Word /\ Target(i) = Wrap(current.pc + 4 * SignedField(a, BranchBits))
<1>0. BranchBits \in Nat /\ BranchBits + 2 \in 1 .. Width /\ BranchBits - 1 \in Nat
  BY CpuAssumption, Scale
<1>1. PICK m \in Nat \ {0} : m = 2 ^ (BranchBits - 1)
  BY <1>0, Powers
<1>2. 2 ^ BranchBits = 2 * m /\ 2 ^ ((BranchBits + 2) - 1) = 4 * m /\ 2 ^ (BranchBits + 2) = 8 * m
  <2>1. 2 ^ ((BranchBits - 1) + 1) = 2 * m /\ (BranchBits - 1) + 1 = BranchBits
    BY <1>0, <1>1, NextPower
  <2>2. 2 ^ BranchBits = 2 * m
    BY <2>1, Zenon
  <2>3. 2 ^ (BranchBits + 1) = 4 * m /\ (BranchBits + 2) - 1 = BranchBits + 1
    <3>1. 2 ^ (BranchBits + 1) = 2 * 2 ^ BranchBits
      BY <1>0, NextPower
    <3> QED
      BY <1>0, <2>2, <3>1
  <2>4. 2 ^ ((BranchBits + 2) - 1) = 4 * m
    BY <2>3, Zenon
  <2>5. 2 ^ ((BranchBits + 1) + 1) = 8 * m /\ (BranchBits + 1) + 1 = BranchBits + 2
    <3>1. BranchBits + 1 \in Nat
      BY <1>0
    <3>2. 2 ^ ((BranchBits + 1) + 1) = 2 * 2 ^ (BranchBits + 1)
      BY <3>1, NextPower
    <3> QED
      BY <1>0, <2>3, <3>2
  <2>6. 2 ^ (BranchBits + 2) = 8 * m
    BY <2>5, Zenon
  <2> QED
    BY <2>2, <2>4, <2>6
<1>3. a \in 0 .. 2 * m - 1 /\ a * 4 \in 0 .. 2 ^ (BranchBits + 2) - 1
  BY <1>1, <1>2
<1>4. SignedField(a, BranchBits) = IF a >= m THEN a - 2 * m ELSE a
  BY <1>1, <1>2 DEF SignedField
<1>5. SignedField(a * 4, BranchBits + 2) = IF a * 4 >= 4 * m THEN a * 4 - 8 * m ELSE a * 4
  BY <1>2 DEF SignedField
<1>6. PICK x \in Int : x = 4 * SignedField(a, BranchBits) /\ x = SignedField(a * 4, BranchBits + 2)
  BY <1>3, <1>4, <1>5
<1>7. Offset(i) = Wrap(x)
  <2>1. sign_extend(a * 4, BranchBits + 2) = Wrap(SignedField(a * 4, BranchBits + 2))
    BY <1>0, <1>3, SignExtends
  <2> QED
    BY <1>6, <2>1 DEF Offset
<1>8. current.pc \in Int
  <2>1. current.pc \in Word
    BY DEF State
  <2>2. Word \subseteq Int
    BY Scale DEF Word
  <2> QED
    BY <2>1, <2>2, Zenon
<1>9. current.pc + x \in Int
  BY <1>8
<1>10. Wrap(current.pc + Wrap(x)) = Wrap(current.pc + x) /\ Wrap(current.pc + x) \in Word
  BY <1>8, <1>9, Wraps
<1> QED
  BY <1>6, <1>7, <1>10 DEF Target

\* The part of the state that instructions write, well typed, and again after the step.
Written == /\ next \in State /\ branchFlag \in BOOLEAN /\ runBit \in BOOLEAN /\ Memory(mem)
Rewritten == /\ next' \in State /\ branchFlag' \in BOOLEAN /\ runBit' \in BOOLEAN /\ Memory(mem')

\* Whatever an instruction writes, it writes words.
LEMMA WritesTypes ==
  ASSUME Written
  PROVE  /\ \A d \in Registers, v \in Word : Write(d, v) => Rewritten
         /\ \A d \in Registers, v \in Word : \A c : WriteFlags(d, v, c) => Rewritten
         /\ WriteNothing => Rewritten
         /\ \A c : \A t \in Word : BranchIf(c, t) => Rewritten
         /\ \A t \in Word : Branch(t) => Rewritten
         /\ \A m : Memory(m) /\ WriteMemory(m) => Rewritten
         /\ \A i : \A v \in Word : i.Rt \in Registers /\ Load(i, v) => Rewritten
<1> USE DEF Written, Rewritten
<1>1. ASSUME NEW d \in Registers, NEW v \in Word, Write(d, v) PROVE Rewritten
  BY <1>1, LatchTypes DEF Write
<1>2. ASSUME NEW d \in Registers, NEW v \in Word, NEW c, WriteFlags(d, v, c) PROVE Rewritten
  <2>1. SetFlags(next, v) \in State
    BY LatchTypes
  <2>2. SetReg(SetFlags(next, v), d, v) \in State
    BY <2>1, LatchTypes
  <2> QED
    BY <1>2, <2>2 DEF WriteFlags
<1>3. WriteNothing => Rewritten
  BY DEF WriteNothing
<1>4. ASSUME NEW t \in Word, Branch(t) PROVE Rewritten
  BY <1>4, LatchTypes DEF Branch
<1>5. ASSUME NEW m, Memory(m), WriteMemory(m) PROVE Rewritten
  BY <1>5 DEF WriteMemory
<1>6. ASSUME NEW i, NEW v \in Word, i.Rt \in Registers, Load(i, v) PROVE Rewritten
  BY <1>6, LatchTypes DEF Load
<1> QED
  BY <1>1, <1>2, <1>3, <1>4, <1>5, <1>6 DEF BranchIf

\* What a load reads is a word.
LEMMA MemoryTypes ==
  ASSUME Memory(mem), NEW a \in Word, NEW c \in Word
  PROVE  /\ mem_read_32(a) + Mem32 * mem_read_32(c) \in Word
         /\ (mem_read_32(a) % ByteRange) \in Word
         /\ sign_extend((mem_read_32(a) % HalfRange), 2 * ByteBits) \in Word
<1>0. PICK x, y : x = mem_read_32(a) /\ y = mem_read_32(c)
  OBVIOUS
<1>1. x \in 0 .. Mem32 - 1 /\ y \in 0 .. Mem32 - 1
  BY <1>0, ReadIsExact
<1>2. PICK m, h, b, v \in Nat \ {0} : m = Mem32 /\ h = HalfRange /\ b = ByteRange /\ v = WordRange
  BY Scale DEF Mem32, HalfRange, ByteRange
<1>3. v = m * m /\ m <= v
  <2>1. v = m * m
    BY <1>2, Scale
  <2>2. m <= m * m
    OBVIOUS
  <2> QED
    BY <2>1, <2>2
<1>4. x + m * y \in Word
  <2>1. x \in 0 .. m - 1 /\ y \in 0 .. m - 1
    BY <1>1, <1>2
  <2>2. PICK z : z = y * m + x
    OBVIOUS
  <2>3. z \in 0 .. v - 1
    BY <1>3, <2>1, <2>2, TwoDigits
  <2>4. y * m = m * y /\ y * m \in Int /\ x \in Int
    BY <2>1
  <2>5. z = x + m * y
    BY <2>2, <2>4
  <2> QED
    BY <1>2, <2>3, <2>5 DEF Word
<1>5. (x % b) \in Word
  <2>1. x % b \in 0 .. b - 1 /\ x \in Int
    BY <1>1, DivMod
  <2>2. b <= m
    <3>1. 1 + 1 = 2 /\ 2 + 1 = 3 /\ 3 + 1 = 4
      OBVIOUS
    <3>2. Values(1) <= Values(2) /\ Values(2) <= Values(3) /\ Values(3) <= Values(4)
      BY <3>1, Scale
    <3>3. Values(1) \in Nat /\ Values(2) \in Nat /\ Values(3) \in Nat /\ Values(4) \in Nat
      BY Scale
    <3> QED
      BY <1>2, <3>2, <3>3 DEF ByteRange, Mem32
  <2> QED
    BY <1>2, <1>3, <2>1, <2>2 DEF Word
<1>6. sign_extend((x % h), 2 * ByteBits) \in Word
  <2>1. 2 * ByteBits \in 1 .. Width
    BY Scale DEF Width
  <2>2. (x % h) \in 0 .. h - 1
    BY <1>1, DivMod
  <2>3. h = 2 ^ (2 * ByteBits)
    BY <1>2 DEF HalfRange, Values
  <2>4. PICK f : f = x % h
    OBVIOUS
  <2>5. f \in 0 .. 2 ^ (2 * ByteBits) - 1
    BY <2>2, <2>3, <2>4
  <2>6. /\ sign_extend(f, 2 * ByteBits) = Wrap(SignedField(f, 2 * ByteBits))
        /\ SignedField(f, 2 * ByteBits) \in Int
    BY <2>1, <2>5, SignExtends
  <2> QED
    BY <2>4, <2>6, Wraps
<1> QED
  BY <1>0, <1>2, <1>4, <1>5, <1>6

\* What a store writes are numbers.
LEMMA StoreTypes ==
  ASSUME Memory(mem), NEW a \in Word, NEW w \in Word
  PROVE  /\ Low(w) \in 0 .. Mem32 - 1 /\ High(w) \in 0 .. Mem32 - 1
         /\ \A n \in Nat : Merge(a, n, w) \in Int
<1>0. w \in Nat
  BY WordsAreNumbers
<1>1. PICK m \in Nat \ {0} : m = Mem32
  BY Scale DEF Mem32
<1>2. Low(w) \in 0 .. Mem32 - 1 /\ High(w) \in 0 .. Mem32 - 1
  <2>1. w < m * m
    BY <1>0, <1>1, Scale DEF Word
  <2>2. w % m \in 0 .. m - 1 /\ w \div m \in 0 .. m - 1
    <3>1. w % m \in 0 .. m - 1
      BY <1>0, DivMod
    <3>2. w \div m \in 0 .. m - 1
      BY <1>0, <2>1, DivBounds
    <3> QED
      BY <3>1, <3>2
  <2> QED
    BY <1>1, <2>2 DEF Low, High
<1>3. ASSUME NEW n \in Nat PROVE Merge(a, n, w) \in Int
  <2>1. PICK p \in Nat \ {0} : p = Values(n)
    BY Scale
  <2>2. PICK x \in Int : x = mem_read_32(a)
    BY ReadIsExact, Scale DEF Mem32
  <2>3. w % p \in Int /\ x % p \in Int
    BY <1>0, DivMod
  <2>4. Merge(a, n, w) = (w % p) + x - (x % p)
    BY <2>1, <2>2 DEF Merge
  <2> QED
    BY <2>2, <2>3, <2>4
<1> QED
  BY <1>2, <1>3

\* Every instruction rewrites the state with words and bytes.
LEMMA InstructionTypes ==
  ASSUME current \in State, Written, Instruction
  PROVE  Rewritten
<1> USE Operands, WritesTypes
<1>1. CASE execute_b \/ execute_b_cond \/ execute_cbz \/ execute_cbnz
  <2>1. PICK op, ts, i : i \in B(op, ts) /\ (Branch(Target(i)) \/ \E c : BranchIf(c, Target(i)))
    BY <1>1, Zenon DEF execute_b, execute_b_cond, execute_cbz, execute_cbnz
  <2>2. Target(i) \in Word
    BY <2>1, Branching DEF B
  <2> QED
    BY <2>1, <2>2
<1>2. CASE execute_br
  BY <1>2 DEF execute_br, R
<1>3. CASE \/ execute_ands_sr \/ execute_eor_sr \/ execute_orr_sr \/ execute_adds_er
           \/ execute_subs_cmp_er
  <2>1. PICK op, i :
       /\ i \in R(op, {0})
       /\ \/ \E c : \E v \in {And(Reg(i.Rn), Reg(i.Rm)), Wrap(Reg(i.Rn) + Reg(i.Rm)),
                              Minus(Reg(i.Rn), Reg(i.Rm))} : WriteFlags(i.Rd, v, c)
          \/ \E v \in {Eor(Reg(i.Rn), Reg(i.Rm)), Orr(Reg(i.Rn), Reg(i.Rm))} : Write(i.Rd, v)
    BY <1>3 DEF execute_ands_sr, execute_eor_sr, execute_orr_sr, execute_adds_er,
                execute_subs_cmp_er
  <2>2. i.Rd \in Registers /\ Reg(i.Rn) \in Word /\ Reg(i.Rm) \in Word
    BY <2>1 DEF R
  <2>3. /\ And(Reg(i.Rn), Reg(i.Rm)) \in Word /\ Wrap(Reg(i.Rn) + Reg(i.Rm)) \in Word
        /\ Minus(Reg(i.Rn), Reg(i.Rm)) \in Word /\ Eor(Reg(i.Rn), Reg(i.Rm)) \in Word
        /\ Orr(Reg(i.Rn), Reg(i.Rm)) \in Word
    BY <2>2, WordOperations
  <2> QED
    BY <2>1, <2>2, <2>3
<1>4. CASE execute_add_er \/ execute_mul
  <2>1. PICK op, s, i :
       /\ i \in R(op, s)
       /\ \/ \E v \in {Wrap(Reg(i.Rn) + Reg(i.Rm)), Wrap(Reg(i.Rn) * Reg(i.Rm))} :
               /\ next' = SetReg(next, i.Rd, v) /\ branchFlag' \in {branchFlag, TRUE}
               /\ UNCHANGED <<runBit, mem>>
          \/ WriteNothing
    BY <1>4 DEF execute_add_er, execute_mul, Write
  <2>2. i.Rd \in Registers /\ Reg(i.Rn) \in Word /\ Reg(i.Rm) \in Word
    BY <2>1 DEF R
  <2>3. Wrap(Reg(i.Rn) + Reg(i.Rm)) \in Word /\ Wrap(Reg(i.Rn) * Reg(i.Rm)) \in Word
    BY <2>2, WordOperations
  <2>4. \A v \in Word : SetReg(next, i.Rd, v) \in State
    BY <2>2, LatchTypes DEF Written
  <2> QED
    BY <2>1, <2>3, <2>4 DEF Written, Rewritten
<1>5. CASE execute_lsl_lsr_imm
  <2>1. PICK i \in Shifts :
          \E v \in {Lsr(Reg(i.Rn), i.immr), Lsl(Reg(i.Rn), Width - i.immr), 0, Reg(i.Rn)} :
            Write(i.Rd, v)
    BY <1>5 DEF execute_lsl_lsr_imm
  <2>2. i.Rd \in Registers /\ Reg(i.Rn) \in Word /\ i.immr \in ShiftAmounts
    BY DEF Shifts
  <2>3. i.immr \in Nat /\ Width - i.immr \in Nat
    <3>1. PICK w \in Nat : w = Width
      BY Scale
    <3>2. i.immr \in 0 .. w - 1
      BY <2>2, <3>1, CpuAssumption
    <3> QED
      BY <3>1, <3>2
  <2>4. Lsr(Reg(i.Rn), i.immr) \in Word /\ Lsl(Reg(i.Rn), Width - i.immr) \in Word /\ 0 \in Word
    BY <2>2, <2>3, WordOperations, WordsAreNumbers
  <2> QED
    BY <2>1, <2>2, <2>4
<1>6. CASE execute_add_imm \/ execute_adds_imm \/ execute_subs_cmp_imm
  <2>1. PICK op, i :
       /\ i \in I(op)
       /\ \E v \in {Wrap(Reg(i.Rn) + Operand(i)), Minus(Reg(i.Rn), Operand(i))} :
            \/ Write(i.Rd, v)
            \/ \E c : WriteFlags(i.Rd, v, c)
    BY <1>6 DEF execute_add_imm, execute_adds_imm, execute_subs_cmp_imm
  <2>2. i.Rd \in Registers /\ Reg(i.Rn) \in Word
    BY <2>1 DEF I
  <2>3. Operand(i) \in Word
    BY <2>1
  <2>4. Wrap(Reg(i.Rn) + Operand(i)) \in Word /\ Minus(Reg(i.Rn), Operand(i)) \in Word
    BY <2>2, <2>3, WordOperations
  <2> QED
    BY <2>1, <2>2, <2>4
<1>7. CASE execute_stur
  <2>1. PICK i \in D("stur") :
          \/ WriteMemory(mem_write_32(mem_write_32(mem, Address(i), Low(Reg(i.Rt))),
                                      Wrap(Address(i) + 4), High(Reg(i.Rt))))
          \/ WriteNothing
    BY <1>7 DEF execute_stur
  <2>2. Address(i) \in Word /\ Wrap(Address(i) + 4) \in Word /\ Reg(i.Rt) \in Word
    BY <2>1, Addressing DEF D
  <2>3. Low(Reg(i.Rt)) \in Int /\ High(Reg(i.Rt)) \in Int
    BY <2>2, StoreTypes, Scale DEF Written, Mem32
  <2>4. PICK m : m = mem_write_32(mem, Address(i), Low(Reg(i.Rt)))
    OBVIOUS
  <2>5. Memory(m)
    BY <2>2, <2>3, <2>4, WriteIsExact DEF Written
  <2>6. Memory(mem_write_32(m, Wrap(Address(i) + 4), High(Reg(i.Rt))))
    BY <2>2, <2>3, <2>5, WriteIsExact
  <2> QED
    BY <2>1, <2>4, <2>6
<1>8. CASE execute_sturb \/ execute_sturh
  <2>1. PICK op, i, n :
       /\ i \in D(op) /\ n \in Nat
       /\ \/ WriteMemory(mem_write_32(mem, Address(i), Merge(Address(i), n, Reg(i.Rt))))
          \/ WriteNothing
    BY <1>8 DEF execute_sturb, execute_sturh
  <2>2. Address(i) \in Word /\ Reg(i.Rt) \in Word
    BY <2>1, Addressing DEF D
  <2>3. Merge(Address(i), n, Reg(i.Rt)) \in Int
    BY <2>1, <2>2, StoreTypes DEF Written
  <2>4. Memory(mem_write_32(mem, Address(i), Merge(Address(i), n, Reg(i.Rt))))
    BY <2>2, <2>3, WriteIsExact DEF Written
  <2> QED
    BY <2>1, <2>4
<1>9. CASE execute_ldur \/ execute_ldurb \/ execute_ldurh
  <2>1. PICK op, i :
       /\ i \in D(op)
       /\ \/ \E v \in {mem_read_32(Address(i)) + Mem32 * mem_read_32(Wrap(Address(i) + 4)),
                       (mem_read_32(Address(i)) % ByteRange),
                       sign_extend((mem_read_32(Address(i)) % HalfRange), 2 * ByteBits)} :
               Load(i, v)
          \/ WriteNothing
    BY <1>9 DEF execute_ldur, execute_ldurb, execute_ldurh
  <2>2. Address(i) \in Word /\ Wrap(Address(i) + 4) \in Word /\ i.Rt \in Registers
    BY <2>1, Addressing DEF D
  <2>3. /\ mem_read_32(Address(i)) + Mem32 * mem_read_32(Wrap(Address(i) + 4)) \in Word
        /\ (mem_read_32(Address(i)) % ByteRange) \in Word
        /\ sign_extend((mem_read_32(Address(i)) % HalfRange), 2 * ByteBits) \in Word
    BY <2>2, MemoryTypes DEF Written
  <2> QED
    BY <2>1, <2>2, <2>3
<1>10. CASE execute_hlt
  BY <1>10 DEF execute_hlt, Written, Rewritten
<1>11. CASE execute_movz
  <2>1. \A i \in IW("movz", Moves) : i.Rd \in Registers /\ i.imm \in Word
    BY CpuAssumption DEF IW
  <2> QED
    BY <1>11, <2>1 DEF execute_movz
<1> QED
  BY <1>1, <1>2, <1>3, <1>4, <1>5, <1>6, <1>7, <1>8, <1>9, <1>10, <1>11 DEF Instruction

\* TypeInv is inductive.
LEMMA TypeStep ==
  ASSUME IInv, TypeInv, [Next]_vars
  PROVE  TypeInv'
<1> USE DEF TypeInv
<1>0. MaxCycles \in Nat /\ MaxInputs \in Nat
  BY CpuAssumption
<1>1. CASE Instruction
  <2>1. Rewritten
    BY <1>1, InstructionTypes DEF Written
  <2>2. count < MaxCycles /\ (mode = "run" => left > 0)
    BY <1>1 DEF Instruction, execute_b, execute_br, execute_b_cond, execute_cbz, execute_cbnz,
         execute_ands_sr, execute_eor_sr, execute_orr_sr, execute_mul, execute_lsl_lsr_imm,
         execute_add_imm, execute_adds_imm, execute_subs_cmp_imm,
         execute_add_er, execute_adds_er, execute_subs_cmp_er,
         execute_stur, execute_sturb, execute_sturh, execute_ldur, execute_ldurb,
         execute_ldurh, execute_hlt, execute_movz, Execute, Fetch, Loops
  <2>3. UNCHANGED <<current, count, mode, left, inputs>>
    BY <1>1, InstructionStep
  <2> QED
    BY <2>1, <2>2, <2>3 DEF Rewritten
<1>2. CASE NoMatch
  BY <1>2 DEF NoMatch, Fetch, Loops, shellVars, Memory
<1>3. CASE Advance
  <2>1. current.pc + 4 \in Int
    <3>1. current.pc \in Word
      BY DEF State
    <3>2. current.pc \in Nat
      BY <3>1, WordsAreNumbers
    <3> QED
      BY <3>2
  <2>2. StepPc(next, branchFlag) \in State
    BY <2>1, LatchTypes, Wraps DEF StepPc
  <2> QED
    BY <1>3, <2>2 DEF Advance, shellVars, Memory
<1>4. CASE Latch
  <2>1. count + 1 \in 0 .. MaxCycles /\ (mode = "run" => left - 1 \in 0 .. MaxCycles)
    BY <1>0, <1>4 DEF Latch
  <2> QED
    BY <1>4, <2>1 DEF Latch, Memory
<1>5. CASE go
  BY <1>5 DEF go, cpuVars, Memory, IInv, PhaseInv
<1>6. ASSUME NEW n \in 0 .. MaxCycles - count, run(n) PROVE TypeInv'
  <2>1. n \in 0 .. MaxCycles
    BY <1>0
  <2> QED
    BY <1>6, <2>1 DEF run, cpuVars, Memory, IInv, PhaseInv
<1>7. CASE Returned
  BY <1>0, <1>7 DEF Returned, cpuVars, Memory
<1>8. CASE input
  <2>1. PICK r \in Registers, v \in Inputs :
          /\ inputs < MaxInputs
          /\ current' = SetInput(current, r, v) /\ next' = InputNext(next, r, v)
          /\ inputs' = inputs + 1
          /\ UNCHANGED <<branchFlag, runBit, count, mem, phase, ir, mode, left, compared>>
    BY <1>8 DEF input
  <2>2. v \in Word
    BY CpuAssumption
  <2>3. SetInput(current, r, v) \in State /\ InputNext(next, r, v) \in State
    BY <2>2, LatchTypes DEF SetInput, InputNext
  <2>4. inputs + 1 \in 0 .. MaxInputs
    BY <1>0, <2>1
  <2> QED
    BY <2>1, <2>3, <2>4 DEF Memory
<1>9. CASE UNCHANGED vars
  BY <1>9 DEF vars, Memory
<1> QED
  BY <1>1, <1>2, <1>3, <1>4, <1>5, <1>6, <1>7, <1>8, <1>9 DEF Next, Cycle, Command

\* It holds at the beginning.
LEMMA InitialTypes == Init => TypeInv
<1> SUFFICES ASSUME Init PROVE TypeInv
  OBVIOUS
<1>1. 0 \in Word /\ TextStart \in Word /\ 0 \in Byte
  BY CpuAssumption, WordsAreNumbers
<1>2. current \in State
  BY <1>1 DEF Init, State
<1>3. Memory(mem)
  BY <1>1 DEF Init, Memory
<1>4. 0 \in 0 .. MaxCycles /\ 0 \in 0 .. MaxInputs
  BY CpuAssumption
<1> QED
  BY <1>2, <1>3, <1>4 DEF Init, TypeInv

\* Every arithmetic result fits a word, and every access stays inside a region
\* and its padding: for any width, registers, regions and program.
THEOREM TypeCorrect == Spec => []TypeOK
<1>1. IInv /\ TypeInv => TypeOK
  BY DEF IInv, PhaseInv, TypeInv, Memory, TypeOK
<1> QED
  BY <1>1, InitialTypes, TypeStep, Inductive, PTL DEF Spec
-----------------------------------------------------------------------------
\* An instruction of which the program counter is read afterwards.
LEMMA Jumps ==
  ASSUME current \in State, next = current, ~branchFlag, Instruction
  PROVE  ir' # Unknown /\ (branchFlag' => Jumped')
<1> USE DEF Jumped, Unknown, Reg
<1>0. current' = current
  BY InstructionStep
<1>1. \A t : [next EXCEPT !.pc = t].pc = t
  BY DEF State
<1>2. CASE execute_b \/ execute_b_cond \/ execute_cbz \/ execute_cbnz
  <2>1. PICK op, ts, i :
          /\ i \in B(op, ts) /\ op \in BranchOps /\ ir' = i
          /\ Branch(Target(i)) \/ WriteNothing
    BY <1>2 DEF execute_b, execute_b_cond, execute_cbz, execute_cbnz, BranchOps, Execute, BranchIf
  <2>2. i.op \in BranchOps /\ i.op # "unknown" /\ i.address \in 0 .. 2 ^ BranchBits - 1
    BY <2>1 DEF B, BranchOps
  <2>3. Target(i) = Wrap(current.pc + 4 * SignedField(i.address, BranchBits))
    BY <2>2, Branching
  <2>4. branchFlag' => next'.pc = Target(i)
    BY <1>1, <2>1 DEF Branch, WriteNothing
  <2> QED
    BY <1>0, <2>1, <2>2, <2>3, <2>4
<1>3. CASE execute_br
  <2>1. PICK i \in R("br", {0, XZR}) : ir' = i /\ (Branch(Reg(i.Rn)) \/ WriteNothing)
    BY <1>3 DEF execute_br, Execute, BranchIf
  <2>2. i.op = "br"
    BY DEF R
  <2>3. branchFlag' => next'.pc = Reg(i.Rn)
    BY <1>1, <2>1 DEF Branch, WriteNothing
  <2> QED
    BY <1>0, <2>1, <2>2, <2>3
<1>4. CASE execute_add_er
  BY <1>4 DEF execute_add_er, Execute, R
<1>5. CASE \/ execute_ands_sr \/ execute_eor_sr \/ execute_orr_sr \/ execute_adds_er
           \/ execute_subs_cmp_er \/ execute_mul
  BY <1>5 DEF execute_ands_sr, execute_eor_sr, execute_orr_sr, execute_adds_er,
              execute_subs_cmp_er, execute_mul, Execute, R, Write, WriteFlags, WriteNothing
<1>6. CASE \/ execute_lsl_lsr_imm \/ execute_add_imm \/ execute_adds_imm
           \/ execute_subs_cmp_imm \/ execute_movz \/ execute_hlt
  BY <1>6 DEF execute_lsl_lsr_imm, execute_add_imm, execute_adds_imm, execute_subs_cmp_imm,
              execute_movz, execute_hlt, Execute, Shifts, I, IW, Write, WriteFlags, WriteNothing
<1>7. CASE \/ execute_stur \/ execute_sturb \/ execute_sturh
           \/ execute_ldur \/ execute_ldurb \/ execute_ldurh
  <2>1. PICK op, i : /\ i \in D(op) /\ op # "unknown" /\ ir' = i
                     /\ \/ \E m : WriteMemory(m)
                        \/ \E v : Load(i, v)
                        \/ WriteNothing
    BY <1>7 DEF execute_stur, execute_sturb, execute_sturh, execute_ldur, execute_ldurb,
                execute_ldurh, Execute
  <2>2. i.op # "unknown"
    BY <2>1 DEF D
  <2> QED
    BY <2>1, <2>2 DEF WriteMemory, Load, WriteNothing
<1> QED
  BY <1>2, <1>3, <1>4, <1>5, <1>6, <1>7 DEF Instruction

\* PcInv is inductive.
LEMMA PcStep ==
  ASSUME IInv, TypeInv, PcInv, [Next]_vars
  PROVE  PcInv'
<1> USE DEF PcInv
<1>1. CASE Instruction
  <2>1. next = current /\ ~branchFlag
    BY <1>1, InstructionStep DEF IInv, LatchesAgree
  <2>2. ir' # Unknown /\ (branchFlag' => Jumped')
    BY <1>1, <2>1, Jumps DEF TypeInv
  <2>3. phase' = "advance"
    BY <1>1, InstructionStep
  <2> QED
    BY <2>2, <2>3
<1>2. CASE NoMatch
  BY <1>2 DEF NoMatch, Fetch, IInv, LatchesAgree, Unknown
<1>3. CASE Advance
  <2>1. phase = "advance" /\ phase' = "latch" /\ UNCHANGED <<current, ir>> /\ ir # Unknown
    BY <1>3 DEF Advance
  <2>2. CASE branchFlag
    <3>1. next' = next /\ Jumped
      BY <1>3, <2>1, <2>2 DEF Advance, StepPc
    <3> QED
      BY <2>1, <3>1 DEF Jumped, Reg
  <2>3. CASE ~branchFlag
    <3>1. next'.pc = Wrap(current.pc + 4)
      BY <1>3, <2>3 DEF Advance, StepPc, TypeInv, State
    <3> QED
      BY <2>1, <3>1
  <2> QED
    BY <2>2, <2>3
<1>4. CASE Latch
  BY <1>4 DEF Latch
<1>5. CASE go \/ (\E n \in 0 .. MaxCycles - count : run(n)) \/ Returned
  BY <1>5 DEF go, run, Returned, cpuVars, Jumped, Reg
<1>6. CASE input
  BY <1>6 DEF input, IInv, PhaseInv
<1>7. CASE UNCHANGED vars
  BY <1>7 DEF vars, Jumped, Reg
<1> QED
  BY <1>1, <1>2, <1>3, <1>4, <1>5, <1>6, <1>7 DEF Next, Cycle, Command

\* Over a whole cycle the program counter moves to the next instruction, by the
\* signed offset of a branch, or to the register of BR; an unknown word leaves it
\* alone, and of ADD of registers nothing is said.
THEOREM CounterFollows == Spec => PcFollows
<1>1. Init => TypeInv /\ PcInv
  BY InitialTypes DEF Init, PcInv
<1>2. IInv /\ TypeInv /\ PcInv /\ [Next]_vars =>
        [phase = "latch" /\ phase' = "fetch" =>
           IF ir = Unknown THEN current'.pc = current.pc
           ELSE \/ current'.pc = Wrap(current.pc + 4)
                \/ /\ ir.op \in BranchOps
                   /\ current'.pc = Wrap(current.pc + 4 * SignedField(ir.address, BranchBits))
                \/ ir.op = "br" /\ current'.pc = Reg(ir.Rn)
                \/ ir.op = "add_er"]_vars
  <2> SUFFICES ASSUME PcInv, Next, phase = "latch", phase' = "fetch"
               PROVE  IF ir = Unknown THEN current'.pc = current.pc
                      ELSE \/ current'.pc = Wrap(current.pc + 4)
                           \/ /\ ir.op \in BranchOps
                              /\ current'.pc = Wrap(current.pc + 4 * SignedField(ir.address, BranchBits))
                           \/ ir.op = "br" /\ current'.pc = Reg(ir.Rn)
                           \/ ir.op = "add_er"
    OBVIOUS
  <2>1. Latch
    BY InstructionStep DEF Next, Cycle, Command, NoMatch, Fetch, Advance, go, run, Returned, input,
                           cpuVars
  <2>2. current' = next
    BY <2>1 DEF Latch
  <2>3. IF ir = Unknown THEN next.pc = current.pc ELSE next.pc = Wrap(current.pc + 4) \/ Jumped
    BY DEF PcInv
  <2> QED
    BY <2>2, <2>3 DEF Jumped
<1> QED
  BY <1>1, <1>2, TypeStep, PcStep, Inductive, PTL DEF Spec, PcFollows
-----------------------------------------------------------------------------
\* What an update does to the flags.
LEMMA FlagUpdates ==
  ASSUME NEW s \in State, NEW d, NEW v
  PROVE  /\ [s EXCEPT !.regs[d] = v].n = s.n /\ [s EXCEPT !.regs[d] = v].z = s.z
         /\ SetReg(s, d, v).n = s.n /\ SetReg(s, d, v).z = s.z
         /\ [s EXCEPT !.pc = v].n = s.n /\ [s EXCEPT !.pc = v].z = s.z
<1>1. [s EXCEPT !.regs[d] = v].n = s.n /\ [s EXCEPT !.regs[d] = v].z = s.z
  BY DEF State
<1>2. [s EXCEPT !.pc = v].n = s.n /\ [s EXCEPT !.pc = v].z = s.z
  BY DEF State
<1> QED
  BY <1>1, <1>2 DEF SetReg

\* SetFlags() sets them to the sign and the nullity of a result.
LEMMA SetFlagsSets ==
  ASSUME NEW s \in State, NEW v \in Word
  PROVE  /\ SetFlags(s, v) \in State
         /\ SetFlags(s, v).n = (v >= WordRange \div 2) /\ SetFlags(s, v).z = (v = 0)
<1>1. PICK n, z \in BOOLEAN : n = (v >= WordRange \div 2) /\ z = (v = 0)
  <2>1. (v >= WordRange \div 2) \in BOOLEAN /\ (v = 0) \in BOOLEAN
    OBVIOUS
  <2> QED
    BY <2>1, Zenon
<1>2. PICK t : t = [s EXCEPT !.n = n]
  OBVIOUS
<1>3. t \in State /\ t.n = n
  BY <1>2 DEF State
<1>4. PICK u : u = [t EXCEPT !.z = z]
  OBVIOUS
<1>5. u.n = n /\ u.z = z
  BY <1>3, <1>4 DEF State
<1>6. SetFlags(s, v) = [[s EXCEPT !.n = n] EXCEPT !.z = z]
  BY <1>1 DEF SetFlags
<1>7. SetFlags(s, v) = u
  BY <1>2, <1>4, <1>6, Zenon
<1>8. SetFlags(s, v) \in State
  BY LatchTypes
<1>9. SetFlags(s, v).n = n /\ SetFlags(s, v).z = z
  BY <1>5, <1>7, Zenon
<1> QED
  BY <1>1, <1>8, <1>9, Zenon

\* The flags and what was compared stay; or the flags become those of a result,
\* and what was compared its operands, if it is that of a comparison.
FlagsStay == next'.n = next.n /\ next'.z = next.z /\ compared' = compared
FlagsOf(v) == next'.n = (v >= WordRange \div 2) /\ next'.z = (v = 0)

\* What an instruction writes, as far as the flags are concerned.
LEMMA WritesFlags ==
  ASSUME next \in State
  PROVE  /\ \A d, v : Write(d, v) => FlagsStay
         /\ \A d, c : \A v \in Word : WriteFlags(d, v, c) => FlagsOf(v) /\ compared' = c
         /\ WriteNothing => FlagsStay
         /\ \A c, t : BranchIf(c, t) => FlagsStay
         /\ \A t : Branch(t) => FlagsStay
         /\ \A m : WriteMemory(m) => FlagsStay
         /\ \A i, v : Load(i, v) => FlagsStay
<1> USE DEF FlagsStay
<1>1. ASSUME NEW d, NEW v, Write(d, v) PROVE FlagsStay
  BY <1>1, FlagUpdates DEF Write
<1>2. ASSUME NEW d, NEW v \in Word, NEW c, WriteFlags(d, v, c) PROVE FlagsOf(v) /\ compared' = c
  <2>1. PICK s \in State : /\ s = SetFlags(next, v)
                           /\ s.n = (v >= WordRange \div 2) /\ s.z = (v = 0)
    BY SetFlagsSets
  <2>2. next' = SetReg(s, d, v) /\ compared' = c
    BY <1>2, <2>1 DEF WriteFlags
  <2>3. next'.n = s.n /\ next'.z = s.z
    BY <2>2, FlagUpdates
  <2> QED
    BY <2>1, <2>2, <2>3, Zenon DEF FlagsOf
<1>3. WriteNothing => FlagsStay
  BY DEF WriteNothing
<1>4. ASSUME NEW t, Branch(t) PROVE FlagsStay
  BY <1>4, FlagUpdates DEF Branch
<1>5. ASSUME NEW m, WriteMemory(m) PROVE FlagsStay
  BY <1>5 DEF WriteMemory
<1>6. ASSUME NEW i, NEW v, Load(i, v) PROVE FlagsStay
  BY <1>6, FlagUpdates DEF Load
<1> QED
  BY <1>1, <1>2, <1>3, <1>4, <1>5, <1>6 DEF BranchIf

\* Of all instructions, only those that set the flags touch them.
LEMMA InstructionFlags ==
  ASSUME current \in State, next \in State, Instruction
  PROVE  \/ FlagsStay
         \/ compared' = NotCompared
         \/ \E a, b \in Word : FlagsOf(Minus(a, b)) /\ compared' = <<a, b>>
<1> USE WritesFlags
<1>1. CASE execute_b \/ execute_br \/ execute_b_cond \/ execute_cbz \/ execute_cbnz
  BY <1>1 DEF execute_b, execute_br, execute_b_cond, execute_cbz, execute_cbnz
<1>2. CASE \/ execute_eor_sr \/ execute_orr_sr \/ execute_mul \/ execute_lsl_lsr_imm
           \/ execute_add_imm \/ execute_movz
  BY <1>2 DEF execute_eor_sr, execute_orr_sr, execute_mul, execute_lsl_lsr_imm,
              execute_add_imm, execute_movz
<1>3. CASE execute_ands_sr \/ execute_adds_imm \/ execute_adds_er
  BY <1>3 DEF execute_ands_sr, execute_adds_imm, execute_adds_er, WriteFlags
<1>4. CASE execute_subs_cmp_imm
  <2>1. PICK i \in I("subs_imm") :
          WriteFlags(i.Rd, Minus(Reg(i.Rn), Operand(i)), <<Reg(i.Rn), Operand(i)>>)
    BY <1>4 DEF execute_subs_cmp_imm
  <2>2. Reg(i.Rn) \in Word /\ Operand(i) \in Word
    BY Operands DEF I
  <2>3. Minus(Reg(i.Rn), Operand(i)) \in Word
    BY <2>2, WordOperations
  <2>4. FlagsOf(Minus(Reg(i.Rn), Operand(i))) /\ compared' = <<Reg(i.Rn), Operand(i)>>
    BY <2>1, <2>3
  <2> QED
    BY <2>2, <2>4
<1>5. CASE execute_subs_cmp_er
  <2>1. PICK i \in R("subs_er", {0}) :
          WriteFlags(i.Rd, Minus(Reg(i.Rn), Reg(i.Rm)), <<Reg(i.Rn), Reg(i.Rm)>>)
    BY <1>5 DEF execute_subs_cmp_er
  <2>2. Reg(i.Rn) \in Word /\ Reg(i.Rm) \in Word
    BY Operands DEF R
  <2>3. Minus(Reg(i.Rn), Reg(i.Rm)) \in Word
    BY <2>2, WordOperations
  <2>4. FlagsOf(Minus(Reg(i.Rn), Reg(i.Rm))) /\ compared' = <<Reg(i.Rn), Reg(i.Rm)>>
    BY <2>1, <2>3
  <2> QED
    BY <2>2, <2>4
<1>6. CASE execute_add_er
  BY <1>6, FlagUpdates DEF execute_add_er, FlagsStay
<1>7. CASE \/ execute_stur \/ execute_sturb \/ execute_sturh
           \/ execute_ldur \/ execute_ldurb \/ execute_ldurh
  BY <1>7 DEF execute_stur, execute_sturb, execute_sturh, execute_ldur, execute_ldurb,
              execute_ldurh
<1>8. CASE execute_hlt
  BY <1>8 DEF execute_hlt, FlagsStay
<1> QED
  BY <1>1, <1>2, <1>3, <1>4, <1>5, <1>6, <1>7, <1>8 DEF Instruction

\* FlagInv is inductive.
LEMMA FlagStep ==
  ASSUME IInv, TypeInv, FlagInv, [Next]_vars
  PROVE  FlagInv'
<1>0. ASSUME FlagsStay PROVE FlagInv'
  BY <1>0 DEF FlagInv, FlagsStay
<1>1. CASE Instruction
  <2>1. ASSUME NEW a \in Word, NEW b \in Word, FlagsOf(Minus(a, b)), compared' = <<a, b>>
        PROVE  FlagInv'
    <3>1. <<a, b>> \in Word \X Word /\ <<a, b>>[1] = a /\ <<a, b>>[2] = b
      OBVIOUS
    <3> QED
      BY <2>1, <3>1 DEF FlagInv, FlagsOf
  <2>2. compared' = NotCompared => FlagInv'
    BY DEF FlagInv
  <2> QED
    BY <1>0, <1>1, <2>1, <2>2, InstructionFlags DEF TypeInv
<1>2. CASE NoMatch \/ Latch
  BY <1>0, <1>2 DEF NoMatch, Latch, FlagsStay
<1>3. CASE Advance
  BY <1>0, <1>3, FlagUpdates DEF Advance, StepPc, TypeInv, FlagsStay
<1>4. CASE go \/ (\E n \in 0 .. MaxCycles - count : run(n)) \/ Returned
  BY <1>0, <1>4 DEF go, run, Returned, cpuVars, FlagsStay
<1>5. CASE input
  BY <1>0, <1>5, FlagUpdates DEF input, InputNext, SetInput, TypeInv, FlagsStay
<1>6. CASE UNCHANGED vars
  BY <1>0, <1>6 DEF vars, FlagsStay
<1> QED
  BY <1>1, <1>2, <1>3, <1>4, <1>5, <1>6 DEF Next, Cycle, Command

\* The subtraction of words, with the borrow that wraps.
LEMMA MinusSubtracts ==
  ASSUME NEW a \in Word, NEW b \in Word
  PROVE  Minus(a, b) = IF a >= b THEN a - b ELSE a - b + WordRange
<1>1. PICK w \in Nat \ {0} : w = WordRange
  BY Scale
<1>2. a \in 0 .. w - 1 /\ b \in 0 .. w - 1
  BY <1>1 DEF Word
<1>3. Minus(a, b) = (a + (w - 1 - b) + 1) % w
  BY <1>1 DEF Minus, Not, Wrap
<1>4. CASE a >= b
  <2>1. PICK r \in 0 .. w - 1 : r = a - b /\ a + (w - 1 - b) + 1 = w * 1 + r
    BY <1>2, <1>4
  <2>2. (w * 1 + r) % w = r
    BY Quotient
  <2> QED
    BY <1>3, <1>4, <2>1, <2>2
<1>5. CASE ~(a >= b)
  <2>1. a - b + w \in 0 .. w - 1 /\ a + (w - 1 - b) + 1 = w * 0 + (a - b + w)
    BY <1>2, <1>5
  <2>2. (w * 0 + (a - b + w)) % w = a - b + w
    BY <2>1, Quotient
  <2> QED
    BY <1>1, <1>3, <1>5, <2>1, <2>2
<1> QED
  BY <1>4, <1>5

\* Its sign and its nullity compare the signed operands, unless their difference
\* does not fit.
LEMMA SignsCompare ==
  ASSUME NEW x \in Word, NEW y \in Word,
         Signed(x) - Signed(y) \in -(WordRange \div 2) .. WordRange \div 2 - 1
  PROVE  /\ Minus(x, y) >= WordRange \div 2 <=> Signed(x) < Signed(y)
         /\ Minus(x, y) = 0 <=> Signed(x) = Signed(y)
         /\ Signed(x) \in Int /\ Signed(y) \in Int
<1>1. PICK s \in Nat \ {0} : WordRange = 2 * s /\ WordRange \div 2 = s
  BY Scale
<1>2. x \in 0 .. 2 * s - 1 /\ y \in 0 .. 2 * s - 1
  BY <1>1 DEF Word
<1>3. PICK a, b \in Int : /\ a = Signed(x) /\ a = (IF x >= s THEN x - 2 * s ELSE x)
                          /\ b = Signed(y) /\ b = (IF y >= s THEN y - 2 * s ELSE y)
  BY <1>1, <1>2 DEF Signed
<1>4. PICK d : d = Minus(x, y) /\ d = (IF x >= y THEN x - y ELSE x - y + 2 * s)
  BY <1>1, MinusSubtracts
<1>5. a - b \in -s .. s - 1
  BY <1>1, <1>3
<1>6. (d >= s <=> a < b) /\ (d = 0 <=> a = b)
  BY <1>2, <1>3, <1>4, <1>5
<1> QED
  BY <1>1, <1>3, <1>4, <1>6

\* An instruction decoded as B.cond is executed as one.
LEMMA OnlyBCond ==
  ASSUME Instruction, ir'.op = "b_cond"
  PROVE  execute_b_cond
<1> USE DEF Execute
<1>1. ~(execute_b \/ execute_cbz \/ execute_cbnz)
  BY DEF execute_b, execute_cbz, execute_cbnz, B
<1>2. ~(\/ execute_ands_sr \/ execute_eor_sr \/ execute_orr_sr \/ execute_adds_er
        \/ execute_subs_cmp_er \/ execute_br \/ execute_add_er \/ execute_mul)
  BY DEF execute_ands_sr, execute_eor_sr, execute_orr_sr, execute_adds_er,
         execute_subs_cmp_er, execute_br, execute_add_er, execute_mul, R
<1>3. ~(\/ execute_lsl_lsr_imm \/ execute_add_imm \/ execute_adds_imm
        \/ execute_subs_cmp_imm \/ execute_movz \/ execute_hlt)
  BY DEF execute_lsl_lsr_imm, execute_add_imm, execute_adds_imm, execute_subs_cmp_imm,
         execute_movz, execute_hlt, Shifts, I, IW
<1>4. ~(\/ execute_stur \/ execute_sturb \/ execute_sturh
        \/ execute_ldur \/ execute_ldurb \/ execute_ldurh)
  BY DEF execute_stur, execute_sturb, execute_sturh, execute_ldur, execute_ldurb,
         execute_ldurh, D
<1> QED
  BY <1>1, <1>2, <1>3, <1>4 DEF Instruction

\* A conditional branch after a comparison goes where the signed operands say, unless
\* their difference overflows.
THEOREM ComparisonBranches == Spec => BranchesOnComparison
<1>1. Init => TypeInv /\ FlagInv
  BY InitialTypes DEF Init, FlagInv
<1>2. IInv /\ TypeInv /\ FlagInv /\ [Next]_vars =>
        [phase = "fetch" /\ phase' = "advance" /\ ir'.op = "b_cond" /\ compared # NotCompared =>
           LET a == Signed(compared[1])
               b == Signed(compared[2])
           IN  a - b \in -(WordRange \div 2) .. WordRange \div 2 - 1
                 => (branchFlag' <=> Compares(ir'.Rt, a, b))]_vars
  <2> SUFFICES ASSUME IInv, TypeInv, FlagInv, Next,
                      phase = "fetch", phase' = "advance", ir'.op = "b_cond",
                      compared # NotCompared,
                      Signed(compared[1]) - Signed(compared[2])
                        \in -(WordRange \div 2) .. WordRange \div 2 - 1
               PROVE  branchFlag' <=> Compares(ir'.Rt, Signed(compared[1]), Signed(compared[2]))
    OBVIOUS
  <2>1. Instruction
    BY DEF Next, Cycle, Command, NoMatch, Advance, Latch, go, run, Returned, input, cpuVars
  <2>2. next = current /\ branchFlag = FALSE
    BY DEF IInv, PhaseInv, LatchesAgree
  <2>3. PICK i \in B("b_cond", Conditions) :
          ir' = i /\ BranchIf(Holds(i.Rt, current.n, current.z), Target(i))
    BY <2>1, OnlyBCond DEF execute_b_cond, Execute
  <2>4. branchFlag' <=> Holds(i.Rt, current.n, current.z)
    BY <2>2, <2>3 DEF BranchIf, Branch, WriteNothing
  <2>5. PICK x, y \in Word : x = compared[1] /\ y = compared[2]
    BY DEF FlagInv
  <2>6. /\ current.n <=> Signed(x) < Signed(y)
        /\ current.z <=> Signed(x) = Signed(y)
        /\ Signed(x) \in Int /\ Signed(y) \in Int
    <3>1. /\ current.n <=> Minus(x, y) >= WordRange \div 2
          /\ current.z <=> Minus(x, y) = 0
      BY <2>2, <2>5 DEF FlagInv
    <3>2. /\ Minus(x, y) >= WordRange \div 2 <=> Signed(x) < Signed(y)
          /\ Minus(x, y) = 0 <=> Signed(x) = Signed(y)
          /\ Signed(x) \in Int /\ Signed(y) \in Int
      BY <2>5, SignsCompare
    <3> QED
      BY <3>1, <3>2
  <2>7. i.Rt \in Conditions
    BY DEF B
  <2>8. PICK a, b \in Int : a = Signed(x) /\ b = Signed(y)
    BY <2>6
  <2>9. PICK n, z \in BOOLEAN : n = current.n /\ z = current.z
    BY DEF TypeInv, State
  <2>10. Holds(i.Rt, n, z) <=> Compares(i.Rt, a, b)
    <3>1. (n <=> a < b) /\ (z <=> a = b)
      BY <2>6, <2>8, <2>9
    <3>2. ~n /\ ~z <=> a > b
      BY <3>1
    <3>3. n \/ z <=> a <= b
      BY <3>1
    <3> QED
      BY <2>7, <3>1, <3>2, <3>3 DEF Conditions, Holds, Compares
  <2> QED
    BY <2>3, <2>4, <2>5, <2>8, <2>9, <2>10
<1> QED
  BY <1>1, <1>2, TypeStep, FlagStep, Inductive, PTL DEF Spec, BranchesOnComparison
-----------------------------------------------------------------------------
\* How many bytes after an address the byte b of region r comes.
After(r, b, a) == Wrap(Start[r] + b - a)

\* The distance is what it seems, or a whole turn of the addresses more.
LEMMA Distances ==
  ASSUME NEW a \in Word, NEW r \in Regions, NEW b \in 0 .. Size[r] - 1
  PROVE  \E w \in Nat \ {0}, s, n \in Nat :
           /\ w = WordRange /\ s = Start[r] /\ n = Size[r] /\ w >= 8
           /\ s + n + 7 <= w /\ a \in 0 .. w - 1 /\ b \in 0 .. n - 1
           /\ After(r, b, a) = (IF s + b >= a THEN s + b - a ELSE s + b - a + w)
<1>1. PICK w \in Nat \ {0} : w = WordRange
  BY Scale
<1>2. PICK s, n \in Nat : s = Start[r] /\ n = Size[r] /\ s + n + 7 <= w
  BY <1>1, CpuAssumption, WordsAreNumbers
<1>3. a \in 0 .. w - 1 /\ b \in 0 .. n - 1 /\ w >= 8
  BY <1>1, <1>2 DEF Word
<1>4. After(r, b, a) = (s + b - a) % w
  BY <1>1, <1>2 DEF After, Wrap
<1>5. CASE s + b >= a
  <2>1. PICK e \in 0 .. w - 1 : e = s + b - a /\ w * 0 + e = s + b - a
    BY <1>2, <1>3, <1>5
  <2>2. (w * 0 + e) % w = e
    BY Quotient
  <2> QED
    BY <1>1, <1>2, <1>3, <1>4, <1>5, <2>1, <2>2
<1>6. CASE ~(s + b >= a)
  <2>1. PICK e \in 0 .. w - 1 : e = s + b - a + w /\ w * (-1) + e = s + b - a
    BY <1>2, <1>3, <1>6
  <2>2. (w * (-1) + e) % w = e
    BY Quotient
  <2> QED
    BY <1>1, <1>2, <1>3, <1>4, <1>6, <2>1, <2>2
<1> QED
  BY <1>5, <1>6

\* What a write of four bytes changes; a region that has the address does not
\* have the addresses that come up to eight bytes before it after a turn.
LEMMA OneWrite ==
  ASSUME NEW m, Memory(m), NEW a \in Word, NEW v \in Int,
         NEW r \in Regions, NEW b \in 0 .. Size[r] - 1
  PROVE  /\ After(r, b, a) \in Nat
         /\ In(a, r) /\ After(r, b, a) < 4 =>
              mem_write_32(m, a, v)[r][b] = ByteAt(v, After(r, b, a))
         /\ After(r, b, a) >= 4 => mem_write_32(m, a, v)[r][b] = m[r][b]
<1>1. PICK w \in Nat \ {0}, s, n \in Nat :
        /\ s = Start[r] /\ n = Size[r] /\ s + n + 7 <= w /\ a \in 0 .. w - 1 /\ b \in 0 .. n - 1
        /\ After(r, b, a) = (IF s + b >= a THEN s + b - a ELSE s + b - a + w)
  BY Distances
<1>2. PICK k \in Nat : k = After(r, b, a) /\ k = (IF s + b >= a THEN s + b - a ELSE s + b - a + w)
  BY <1>1
<1>3. PICK d \in Int : d = Start[r] + b - a /\ d = s + b - a
  BY <1>1
<1>4. mem_write_32(m, a, v)[r][b] =
        IF In(a, r) /\ d \in 0 .. 3 THEN ByteAt(v, d) ELSE m[r][b]
  BY <1>3, WriteIsExact
<1>5. ASSUME In(a, r), k < 4 PROVE mem_write_32(m, a, v)[r][b] = ByteAt(v, k)
  <2>1. a < s + n
    BY <1>1, <1>5 DEF In
  <2>2. d = k /\ d \in 0 .. 3
    BY <1>1, <1>2, <1>3, <1>5, <2>1
  <2> QED
    BY <1>4, <1>5, <2>2
<1>6. k >= 4 => ~(d \in 0 .. 3)
  BY <1>1, <1>2, <1>3
<1> QED
  BY <1>2, <1>4, <1>5, <1>6

\* The second half of a doubleword goes four bytes further on.
LEMMA SecondHalf ==
  ASSUME NEW a \in Word, NEW r \in Regions, NEW b \in 0 .. Size[r] - 1,
         NEW c \in Word, c = Wrap(a + 4)
  PROVE  /\ After(r, b, c) < 4 => After(r, b, a) \in 4 .. 7
         /\ In(a, r) /\ After(r, b, a) \in 4 .. 7 =>
              In(c, r) /\ After(r, b, c) = After(r, b, a) - 4 /\ After(r, b, a) - 4 \in 0 .. 3
<1>1. PICK w \in Nat \ {0}, s, n \in Nat :
        /\ w = WordRange /\ s = Start[r] /\ n = Size[r] /\ w >= 8
        /\ s + n + 7 <= w /\ a \in 0 .. w - 1 /\ b \in 0 .. n - 1
        /\ After(r, b, a) = (IF s + b >= a THEN s + b - a ELSE s + b - a + w)
  BY Distances
<1>2. /\ c \in 0 .. w - 1
      /\ After(r, b, c) = (IF s + b >= c THEN s + b - c ELSE s + b - c + w)
  <2>1. PICK u \in Nat \ {0}, t, p \in Nat :
          /\ u = WordRange /\ t = Start[r] /\ p = Size[r] /\ u >= 8
          /\ t + p + 7 <= u /\ c \in 0 .. u - 1 /\ b \in 0 .. p - 1
          /\ After(r, b, c) = (IF t + b >= c THEN t + b - c ELSE t + b - c + u)
    BY Distances
  <2> QED
    BY <1>1, <2>1
<1>3. c = IF a + 4 < w THEN a + 4 ELSE a + 4 - w
  <2>0. c = (a + 4) % w
    BY <1>1 DEF Wrap
  <2>1. CASE a + 4 < w
    <3>1. PICK e \in 0 .. w - 1 : e = a + 4 /\ w * 0 + e = a + 4
      BY <1>1, <2>1
    <3>2. (w * 0 + e) % w = e
      BY Quotient
    <3> QED
      BY <2>0, <2>1, <3>1, <3>2
  <2>2. CASE ~(a + 4 < w)
    <3>1. PICK e \in 0 .. w - 1 : e = a + 4 - w /\ w * 1 + e = a + 4
      BY <1>1, <2>2
    <3>2. (w * 1 + e) % w = e
      BY Quotient
    <3> QED
      BY <2>0, <2>2, <3>1, <3>2
  <2> QED
    BY <2>1, <2>2
<1>4. In(a, r) => a >= s /\ a < s + n
  BY <1>1 DEF In
<1>5. c >= s /\ c < s + n => In(c, r)
  BY <1>1 DEF In
<1>6. PICK j, k : j = After(r, b, c) /\ k = After(r, b, a)
  OBVIOUS
<1>7. j < 4 => k \in 4 .. 7
  <2>1. PICK e \in Nat : e = s + b /\ e + 8 <= w
    BY <1>1
  <2>2. j = (IF e >= c THEN e - c ELSE e - c + w) /\ k = (IF e >= a THEN e - a ELSE e - a + w)
    BY <1>1, <1>2, <1>6, <2>1
  <2>4. w \in Int /\ a \in Int /\ c \in Int /\ w >= 8 /\ a < w /\ a >= 0 /\ c < w /\ c >= 0
    BY <1>1, <1>2
  <2>5. CASE a + 4 < w
    <3>1. c = a + 4
      BY <1>3, <2>5
    <3> QED
      BY <2>1, <2>2, <2>4, <2>5, <3>1
  <2>6. CASE ~(a + 4 < w)
    <3>1. c = a + 4 - w
      BY <1>3, <2>6
    <3> QED
      BY <2>1, <2>2, <2>4, <2>6, <3>1
  <2> QED
    BY <2>5, <2>6
<1>8. ASSUME In(a, r), k \in 4 .. 7 PROVE In(c, r) /\ j = k - 4 /\ k - 4 \in 0 .. 3
  BY <1>1, <1>2, <1>3, <1>4, <1>5, <1>6, <1>8
<1> QED
  BY <1>6, <1>7, <1>8

\* The bytes of the two halves of a doubleword are its own.
LEMMA Halves ==
  ASSUME NEW w \in Word
  PROVE  /\ Low(w) \in Int /\ High(w) \in Int
         /\ \A k \in 0 .. 3 : ByteAt(Low(w), k) = ByteAt(w, k) /\ ByteAt(High(w), k) = ByteAt(w, k + 4)
<1>1. PICK m \in Nat \ {0} : m = Mem32 /\ m = Values(4)
  BY Scale DEF Mem32
<1>2. w \in Int /\ w % m \in 0 .. m - 1 /\ w \div m \in Int
  BY WordsAreNumbers, DivMod
<1>3. PICK l, h \in Int : l = Low(w) /\ h = High(w) /\ l = w % m /\ h = w \div m /\ l % m = l
  BY <1>1, <1>2 DEF Low, High
<1>4. ASSUME NEW k \in 0 .. 3 PROVE ByteAt(l, k) = ByteAt(w, k) /\ ByteAt(h, k) = ByteAt(w, k + 4)
  <2>1. k \in Nat /\ k < 4 /\ 4 \in Nat /\ k + 4 = 4 + k
    OBVIOUS
  <2>2. l % Values(4) = w % Values(4)
    BY <1>1, <1>3
  <2>3. ByteAt(l, k) = ByteAt(w, k)
    BY <1>2, <2>1, <2>2, ByteParts
  <2>4. ByteAt(w, 4 + k) = ByteAt(w \div Values(4), k)
    BY <1>2, <2>1, ByteParts
  <2> QED
    BY <1>1, <1>3, <2>1, <2>3, <2>4
<1> QED
  BY <1>3, <1>4

\* A merge has the low bytes of the value, and the others of memory.
LEMMA Merges ==
  ASSUME Memory(mem), NEW a \in Word, NEW v \in Word, NEW n \in Nat
  PROVE  /\ Merge(a, n, v) \in Int
         /\ \A k \in Nat : k < n => ByteAt(Merge(a, n, v), k) = ByteAt(v, k)
         /\ \A k \in Nat : k >= n => ByteAt(Merge(a, n, v), k) = ByteAt(mem_read_32(a), k)
<1>1. PICK p \in Nat \ {0} : p = Values(n)
  BY Scale
<1>2. PICK x \in Int : x = mem_read_32(a)
  BY ReadIsExact, Scale DEF Mem32
<1>3. v \in Int /\ v % p \in 0 .. p - 1
  BY WordsAreNumbers, DivMod
<1>4. PICK q \in Int, r, t \in 0 .. p - 1 : q = x \div p /\ r = x % p /\ x = p * q + r /\ t = v % p
  BY <1>3, DivMod
<1>5. PICK y : y = p * q + t
  OBVIOUS
<1>6. y = Merge(a, n, v) /\ y \in Int
  <2>1. Merge(a, n, v) = t + x - r
    BY <1>1, <1>2, <1>4 DEF Merge
  <2>2. PICK z \in Int : z = p * q
    OBVIOUS
  <2> QED
    BY <1>4, <1>5, <2>1, <2>2
<1>7. y \div p = q /\ y % p = t
  BY <1>5, Quotient
<1>8. ASSUME NEW k \in Nat, k < n PROVE ByteAt(y, k) = ByteAt(v, k)
  <2>1. y % Values(n) = v % Values(n)
    BY <1>1, <1>4, <1>7
  <2> QED
    BY <1>3, <1>6, <1>8, <2>1, ByteParts
<1>9. ASSUME NEW k \in Nat, k >= n PROVE ByteAt(y, k) = ByteAt(x, k)
  <2>1. PICK j \in Nat : j = k - n /\ n + j = k
    BY <1>9
  <2>2. ByteAt(y, n + j) = ByteAt(y \div Values(n), j) /\ ByteAt(x, n + j) = ByteAt(x \div Values(n), j)
    BY <1>6, ByteParts
  <2>3. y \div Values(n) = x \div Values(n)
    BY <1>1, <1>4, <1>7
  <2> QED
    BY <2>1, <2>2, <2>3
<1> QED
  BY <1>2, <1>6, <1>8, <1>9

\* STUR writes eight bytes.
LEMMA StoresDoubleword ==
  ASSUME Memory(mem), NEW a \in Word, NEW v \in Word,
         NEW c \in Word, c = Wrap(a + 4),
         NEW r \in Regions, NEW b \in 0 .. Size[r] - 1,
         NEW m, m = mem_write_32(mem_write_32(mem, a, Low(v)), c, High(v))
  PROVE  IF After(r, b, a) < 8
         THEN In(a, r) => m[r][b] = ByteAt(v, After(r, b, a))
         ELSE m[r][b] = mem[r][b]
<1>1. PICK m1 : m1 = mem_write_32(mem, a, Low(v)) /\ Memory(m1)
  BY Halves, WriteIsExact
<1>2. m = mem_write_32(m1, c, High(v))
  BY <1>1
<1>3. PICK j, k \in Nat : j = After(r, b, c) /\ k = After(r, b, a)
  BY OneWrite, Halves
<1>4. /\ In(a, r) /\ k < 4 => m1[r][b] = ByteAt(Low(v), k)
      /\ k >= 4 => m1[r][b] = mem[r][b]
  BY <1>1, <1>3, OneWrite, Halves
<1>5. /\ In(c, r) /\ j < 4 => m[r][b] = ByteAt(High(v), j)
      /\ j >= 4 => m[r][b] = m1[r][b]
  BY <1>1, <1>2, <1>3, OneWrite, Halves
<1>6. /\ j < 4 => k \in 4 .. 7
      /\ In(a, r) /\ k \in 4 .. 7 => In(c, r) /\ j = k - 4 /\ j \in 0 .. 3
  BY <1>3, SecondHalf
<1>7. CASE k < 4 /\ In(a, r)
  <2>1. j >= 4 /\ k \in 0 .. 3
    BY <1>3, <1>6, <1>7
  <2>2. ByteAt(Low(v), k) = ByteAt(v, k)
    BY <2>1, Halves
  <2> QED
    BY <1>3, <1>4, <1>5, <1>7, <2>1, <2>2
<1>8. CASE k \in 4 .. 7 /\ In(a, r)
  <2>1. In(c, r) /\ j \in 0 .. 3 /\ j < 4 /\ j + 4 = k
    BY <1>3, <1>6, <1>8
  <2>2. ByteAt(High(v), j) = ByteAt(v, j + 4)
    BY <2>1, Halves
  <2>3. m[r][b] = ByteAt(v, k)
    BY <1>5, <2>1, <2>2
  <2> QED
    BY <1>3, <1>8, <2>3
<1>9. CASE k >= 8
  <2>1. j >= 4 /\ k >= 4 /\ ~(k < 8)
    BY <1>3, <1>6, <1>9
  <2> QED
    BY <1>3, <1>4, <1>5, <2>1
<1>10. k < 4 \/ k \in 4 .. 7 \/ k >= 8
  BY <1>3
<1> QED
  BY <1>3, <1>7, <1>8, <1>9, <1>10

\* STURB and STURH write one and two.
LEMMA StoresPart ==
  ASSUME Memory(mem), NEW a \in Word, NEW v \in Word, NEW n \in 1 .. 4,
         NEW r \in Regions, NEW b \in 0 .. Size[r] - 1,
         NEW m, m = mem_write_32(mem, a, Merge(a, n, v))
  PROVE  IF After(r, b, a) < n
         THEN In(a, r) => m[r][b] = ByteAt(v, After(r, b, a))
         ELSE m[r][b] = mem[r][b]
<1>1. PICK x : x = Merge(a, n, v)
  OBVIOUS
<1>2. /\ x \in Int
      /\ \A k \in Nat : k < n => ByteAt(x, k) = ByteAt(v, k)
      /\ \A k \in Nat : k >= n => ByteAt(x, k) = ByteAt(mem_read_32(a), k)
  BY <1>1, Merges
<1>3. PICK k \in Nat : k = After(r, b, a)
  BY <1>2, OneWrite
<1>4. /\ In(a, r) /\ k < 4 => m[r][b] = ByteAt(x, k)
      /\ k >= 4 => m[r][b] = mem[r][b]
  BY <1>1, <1>2, <1>3, OneWrite
<1>5. CASE k < n /\ In(a, r)
  <2>1. k < 4
    BY <1>3, <1>5
  <2> QED
    BY <1>2, <1>3, <1>4, <1>5, <2>1
<1>6. CASE k >= n /\ k < 4 /\ In(a, r)
  <2>1. m[r][b] = ByteAt(mem_read_32(a), k)
    BY <1>2, <1>4, <1>6
  <2>2. a - Start[r] + k = b
    <3>1. PICK w \in Nat \ {0}, s, z \in Nat :
            /\ w = WordRange /\ s = Start[r] /\ z = Size[r] /\ w >= 8
            /\ s + z + 7 <= w /\ a \in 0 .. w - 1 /\ b \in 0 .. z - 1
            /\ After(r, b, a) = (IF s + b >= a THEN s + b - a ELSE s + b - a + w)
      BY Distances
    <3>2. a < s + z
      BY <1>6, <3>1 DEF In
    <3> QED
      BY <1>3, <1>6, <3>1, <3>2
  <2>3. k \in 0 .. 3
    BY <1>6
  <2>4. ByteAt(mem_read_32(a), k) = mem[r][a - Start[r] + k]
    BY <1>6, <2>3, ReadIsExact
  <2>5. m[r][b] = mem[r][b]
    BY <2>1, <2>2, <2>4
  <2>6. ~(k < n)
    BY <1>3, <1>6
  <2> QED
    BY <1>3, <2>5, <2>6
<1>7. CASE ~In(a, r) /\ k < 4
  <2>1. m[r][b] = mem[r][b]
    BY <1>1, <1>2, <1>7, WriteIsExact
  <2> QED
    BY <1>7, <2>1
<1>8. CASE k >= 4
  <2>1. ~(k < n)
    BY <1>3, <1>8
  <2> QED
    BY <1>3, <1>4, <1>8, <2>1
<1> QED
  BY <1>3, <1>5, <1>6, <1>7, <1>8

\* An instruction that is not an effective store leaves memory alone, and one
\* that is writes it as its function does.
LEMMA InstructionMemory ==
  ASSUME Instruction
  PROVE  IF ir'.op \in StoreOps /\ ir'.op2 = 0
         THEN /\ ir' \in D(ir'.op)
              /\ ir'.op = "stur" =>
                   mem' = mem_write_32(mem_write_32(mem, Address(ir'), Low(Reg(ir'.Rt))),
                                       Wrap(Address(ir') + 4), High(Reg(ir'.Rt)))
              /\ ir'.op = "sturb" =>
                   mem' = mem_write_32(mem, Address(ir'), Merge(Address(ir'), 1, Reg(ir'.Rt)))
              /\ ir'.op = "sturh" =>
                   mem' = mem_write_32(mem, Address(ir'), Merge(Address(ir'), 2, Reg(ir'.Rt)))
         ELSE mem' = mem
<1>1. CASE \/ execute_b \/ execute_b_cond \/ execute_cbz \/ execute_cbnz
  <2>1. mem' = mem
    BY <1>1 DEF execute_b, execute_b_cond, execute_cbz, execute_cbnz, BranchIf, Branch, WriteNothing
  <2>2. ir'.op \notin StoreOps
    BY <1>1 DEF execute_b, execute_b_cond, execute_cbz, execute_cbnz, Execute, B, StoreOps
  <2> QED
    BY <2>1, <2>2
<1>2. CASE \/ execute_ands_sr \/ execute_eor_sr \/ execute_orr_sr \/ execute_adds_er
           \/ execute_subs_cmp_er \/ execute_br \/ execute_add_er \/ execute_mul
  <2>1. mem' = mem
    BY <1>2 DEF execute_ands_sr, execute_eor_sr, execute_orr_sr, execute_adds_er,
                execute_subs_cmp_er, execute_br, execute_add_er, execute_mul,
                Write, WriteFlags, BranchIf, Branch, WriteNothing
  <2>2. ir'.op \notin StoreOps
    BY <1>2 DEF execute_ands_sr, execute_eor_sr, execute_orr_sr, execute_adds_er,
                execute_subs_cmp_er, execute_br, execute_add_er, execute_mul, Execute, R, StoreOps
  <2> QED
    BY <2>1, <2>2
<1>3. CASE \/ execute_lsl_lsr_imm \/ execute_add_imm \/ execute_adds_imm
           \/ execute_subs_cmp_imm \/ execute_movz \/ execute_hlt
  <2>1. mem' = mem
    BY <1>3 DEF execute_lsl_lsr_imm, execute_add_imm, execute_adds_imm, execute_subs_cmp_imm,
                execute_movz, execute_hlt, Write, WriteFlags, WriteNothing
  <2>2. ir'.op \notin StoreOps
    BY <1>3 DEF execute_lsl_lsr_imm, execute_add_imm, execute_adds_imm, execute_subs_cmp_imm,
                execute_movz, execute_hlt, Execute, Shifts, I, IW, StoreOps
  <2> QED
    BY <2>1, <2>2
<1>4. CASE execute_ldur \/ execute_ldurb \/ execute_ldurh
  <2>1. mem' = mem
    BY <1>4 DEF execute_ldur, execute_ldurb, execute_ldurh, Load, WriteNothing
  <2>2. ir'.op \notin StoreOps
    BY <1>4 DEF execute_ldur, execute_ldurb, execute_ldurh, Execute, D, StoreOps
  <2> QED
    BY <2>1, <2>2
<1>5. CASE execute_stur
  <2>1. PICK i \in D("stur") :
          /\ ir' = i
          /\ IF i.op2 = 0
             THEN mem' = mem_write_32(mem_write_32(mem, Address(i), Low(Reg(i.Rt))),
                                      Wrap(Address(i) + 4), High(Reg(i.Rt)))
             ELSE mem' = mem
    BY <1>5 DEF execute_stur, Execute, WriteMemory, WriteNothing
  <2>2. i.op = "stur"
    BY DEF D
  <2> QED
    BY <2>1, <2>2 DEF StoreOps
<1>6. CASE execute_sturb
  <2>1. PICK i \in D("sturb") :
          /\ ir' = i
          /\ IF i.op2 = 0
             THEN mem' = mem_write_32(mem, Address(i), Merge(Address(i), 1, Reg(i.Rt)))
             ELSE mem' = mem
    BY <1>6 DEF execute_sturb, Execute, WriteMemory, WriteNothing
  <2>2. i.op = "sturb"
    BY DEF D
  <2> QED
    BY <2>1, <2>2 DEF StoreOps
<1>7. CASE execute_sturh
  <2>1. PICK i \in D("sturh") :
          /\ ir' = i
          /\ IF i.op2 = 0
             THEN mem' = mem_write_32(mem, Address(i), Merge(Address(i), 2, Reg(i.Rt)))
             ELSE mem' = mem
    BY <1>7 DEF execute_sturh, Execute, WriteMemory, WriteNothing
  <2>2. i.op = "sturh"
    BY DEF D
  <2> QED
    BY <2>1, <2>2 DEF StoreOps
<1> QED
  BY <1>1, <1>2, <1>3, <1>4, <1>5, <1>6, <1>7 DEF Instruction

\* An effective store changes its bytes and no others.
LEMMA StoreExact ==
  ASSUME current \in State, Memory(mem), Instruction, ir'.op \in StoreOps, ir'.op2 = 0,
         NEW r \in Regions, NEW b \in 0 .. Size[r] - 1
  PROVE  IF After(r, b, StoredAt(ir')) < Bytes[ir'.op]
         THEN In(StoredAt(ir'), r) =>
                mem'[r][b] = ByteAt(Reg(ir'.Rt), After(r, b, StoredAt(ir')))
         ELSE mem'[r][b] = mem[r][b]
<1>1. PICK i, op : i = ir' /\ op = ir'.op /\ i \in D(op) /\ op \in {"stur", "sturb", "sturh"}
  BY InstructionMemory DEF StoreOps
<1>2. PICK a \in Word, c \in Word : a = Address(i) /\ a = StoredAt(i) /\ c = Wrap(a + 4)
  BY <1>1, Addressing
<1>3. PICK v \in Word : v = Reg(i.Rt)
  <2>1. i.Rt \in Registers
    BY <1>1 DEF D
  <2> QED
    BY <2>1, Operands
<1>4. /\ op = "stur" => mem' = mem_write_32(mem_write_32(mem, a, Low(v)), c, High(v))
      /\ op = "sturb" => mem' = mem_write_32(mem, a, Merge(a, 1, v))
      /\ op = "sturh" => mem' = mem_write_32(mem, a, Merge(a, 2, v))
  BY <1>1, <1>2, <1>3, InstructionMemory
<1>5. PICK m : m = mem'
  OBVIOUS
<1>6. IF After(r, b, a) < Bytes[op]
      THEN In(a, r) => m[r][b] = ByteAt(v, After(r, b, a))
      ELSE m[r][b] = mem[r][b]
  <2>1. CASE op = "stur"
    <3>1. m = mem_write_32(mem_write_32(mem, a, Low(v)), c, High(v)) /\ Bytes[op] = 8
      BY <1>4, <1>5, <2>1 DEF Bytes
    <3> QED
      BY <1>2, <3>1, StoresDoubleword
  <2>2. CASE op = "sturb"
    <3>1. m = mem_write_32(mem, a, Merge(a, 1, v)) /\ Bytes[op] = 1 /\ 1 \in 1 .. 4
      BY <1>4, <1>5, <2>2 DEF Bytes
    <3> QED
      BY <3>1, StoresPart
  <2>3. CASE op = "sturh"
    <3>1. m = mem_write_32(mem, a, Merge(a, 2, v)) /\ Bytes[op] = 2 /\ 2 \in 1 .. 4
      BY <1>4, <1>5, <2>3 DEF Bytes
    <3> QED
      BY <3>1, StoresPart
  <2> QED
    BY <1>1, <2>1, <2>2, <2>3
<1> QED
  BY <1>1, <1>2, <1>3, <1>5, <1>6

\* A store changes its one, two or eight bytes and no others, whatever the sizes
\* and the places of the regions; nothing else writes memory.
THEOREM StoresExact == Spec => StoresAreExact
<1>1. IInv /\ TypeInv /\ [Next]_vars =>
        [IF phase = "fetch" /\ phase' = "advance" /\ ir'.op \in StoreOps /\ ir'.op2 = 0
         THEN \A r \in Regions : \A b \in 0 .. Size[r] - 1 :
                LET k == Wrap(Start[r] + b - StoredAt(ir'))
                IN  IF k < Bytes[ir'.op]
                    THEN In(StoredAt(ir'), r) =>
                           mem'[r][b] = ((Reg(ir'.Rt) \div Values(k)) % ByteRange)
                    ELSE mem'[r][b] = mem[r][b]
         ELSE mem' = mem]_vars
  <2> SUFFICES ASSUME IInv, TypeInv, Next
               PROVE  IF phase = "fetch" /\ phase' = "advance" /\ ir'.op \in StoreOps /\ ir'.op2 = 0
                      THEN \A r \in Regions : \A b \in 0 .. Size[r] - 1 :
                             IF After(r, b, StoredAt(ir')) < Bytes[ir'.op]
                             THEN In(StoredAt(ir'), r) =>
                                    mem'[r][b] = ByteAt(Reg(ir'.Rt), After(r, b, StoredAt(ir')))
                             ELSE mem'[r][b] = mem[r][b]
                      ELSE mem' = mem
    BY DEF After, ByteAt
  <2>1. CASE Instruction
    <3>1. phase = "fetch" /\ phase' = "advance"
      BY <2>1, InstructionStep
    <3>2. CASE ir'.op \in StoreOps /\ ir'.op2 = 0
      BY <2>1, <3>1, <3>2, StoreExact DEF TypeInv
    <3>3. CASE ~(ir'.op \in StoreOps /\ ir'.op2 = 0)
      BY <2>1, <3>3, InstructionMemory
    <3> QED
      BY <3>2, <3>3
  <2>2. CASE ~Instruction
    <3>1. mem' = mem
      BY <2>2 DEF Next, Cycle, Command, NoMatch, Advance, Latch, go, run, Returned, input, cpuVars
    <3>2. ~(phase = "fetch" /\ phase' = "advance")
      BY <2>2 DEF Next, Cycle, Command, NoMatch, Advance, Latch, go, run, Returned, input, cpuVars
    <3> QED
      BY <3>1, <3>2
  <2> QED
    BY <2>1, <2>2
<1> QED
  BY <1>1, InitialTypes, TypeStep, Inductive, PTL DEF Spec, StoresAreExact
-----------------------------------------------------------------------------
\* The lengths in the table, and the opcodes of each length.
LEMMA Opcodes ==
  ASSUME NEW i \in 1..24, NEW e, e = instructions[i]
  PROVE  /\ e.opcode_length \in {6, 8, 10, 11}
         /\ e.opcode_length = 6 => e.opcode = 5
         /\ e.opcode_length = 8 => e.opcode \in {84, 145, 170, 177, 180, 181, 202, 234, 241}
         /\ e.opcode_length = 10 => e.opcode = 845
         /\ e.opcode_length = 11 => e.opcode \in {448, 450, 960, 962, 1112, 1240, 1368,
                                                 1684, 1698, 1712, 1880, 1984, 1986}
BY DEF instructions, Entry

\* No opcode is in the table twice with one length.
LEMMA OpcodesDiffer ==
  ASSUME NEW i \in 1..24, NEW j \in 1..24,
         instructions[i].opcode_length = instructions[j].opcode_length,
         instructions[i].opcode = instructions[j].opcode
  PROVE  i = j
BY DEF instructions, Entry

\* The high bits of a word, for each length of an opcode.
LEMMA HighBits ==
  ASSUME NEW e, NEW word \in Nat
  PROVE  /\ e.opcode_length = 6 => Opcode(e, word) = word \div 67108864
         /\ e.opcode_length = 8 => Opcode(e, word) = word \div 16777216
         /\ e.opcode_length = 10 => Opcode(e, word) = word \div 4194304
         /\ e.opcode_length = 11 => Opcode(e, word) = word \div 2097152
<1>1. 2 ^ 26 = 67108864 /\ 2 ^ 24 = 16777216 /\ 2 ^ 22 = 4194304 /\ 2 ^ 21 = 2097152
  OBVIOUS
<1> DEFINE p == 2 ^ (WordBits - e.opcode_length)
<1>2. /\ e.opcode_length = 6 => p = 2 ^ 26
      /\ e.opcode_length = 8 => p = 2 ^ 24
      /\ e.opcode_length = 10 => p = 2 ^ 22
      /\ e.opcode_length = 11 => p = 2 ^ 21
  <2>1. WordBits - 6 = 26 /\ WordBits - 8 = 24 /\ WordBits - 10 = 22 /\ WordBits - 11 = 21
    BY DEF WordBits
  <2> QED
    BY <2>1, Zenon
<1>3. Opcode(e, word) = word \div p
  BY DEF Opcode
<1> HIDE DEF p
<1> QED
  BY <1>1, <1>2, <1>3

\* The fewer of them are the leading ones of the more.
LEMMA LeadingBits ==
  ASSUME NEW word \in Nat
  PROVE  /\ word \div 67108864 = (word \div 16777216) \div 4
         /\ word \div 67108864 = (word \div 4194304) \div 16
         /\ word \div 67108864 = (word \div 2097152) \div 32
         /\ word \div 16777216 = (word \div 4194304) \div 4
         /\ word \div 16777216 = (word \div 2097152) \div 8
         /\ word \div 4194304 = (word \div 2097152) \div 2
OBVIOUS

\* No short opcode of the table is the beginning of a longer one: a word matches
\* one entry at most, so no instruction hides a later one from the search.
THEOREM OneMatch ==
  ASSUME NEW word \in Nat, Matching(word) # {}
  PROVE  Matching(word) = {FirstMatch(word)}
<1>1. Matching(word) \subseteq 1..24
  <2>1. Len(instructions) = 24
    BY DEF instructions
  <2> QED
    BY <2>1 DEF Matching
<1>2. ASSUME NEW i \in Matching(word), NEW j \in Matching(word) PROVE i = j
  <2> DEFINE e == instructions[i]
             f == instructions[j]
  <2>1. e.opcode = Opcode(e, word) /\ f.opcode = Opcode(f, word)
    BY DEF Matching
  <2>2. e.opcode_length = f.opcode_length
    BY <1>1, <2>1, Opcodes, HighBits, LeadingBits
  <2>3. e.opcode = f.opcode
    BY <1>1, <2>1, <2>2, Opcodes, HighBits
  <2> QED
    BY <1>1, <2>2, <2>3, OpcodesDiffer
<1>3. PICK i : Matching(word) = {i}
  BY <1>2
<1>4. i <= i
  BY <1>1, <1>3
<1> QED
  BY <1>3, <1>4 DEF FirstMatch
=============================================================================
