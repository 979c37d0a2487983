------------------------------- MODULE Decode -------------------------------
(***************************************************************************)
(* Which instruction of the ARM simulator a word of text is: the table and *)
(* the search of sim.c, at their real scale.  Cpu is about what the        *)
(* instructions do, and leaves open which one is fetched.                  *)
(***************************************************************************)
EXTENDS Integers, Sequences

WordBits == 32

\* instruction_t: how many high bits are the opcode, their value, the format
\* that the fields are taken from, and the function that executes it.
Entry(length, opcode, format, execute) ==
  [opcode_length |-> length, opcode |-> opcode, decode |-> format, execute |-> execute]

instructions == <<
  Entry(6, 5, "decode_b", "execute_b"),
  Entry(8, 234, "decode_r", "execute_ands_sr"),
  Entry(8, 202, "decode_r", "execute_eor_sr"),
  Entry(8, 170, "decode_r", "execute_orr_sr"),
  Entry(8, 145, "decode_i", "execute_add_imm"),
  Entry(8, 177, "decode_i", "execute_adds_imm"),
  Entry(8, 241, "decode_i", "execute_subs_cmp_imm"),
  Entry(8, 84, "decode_cb", "execute_b_cond"),
  Entry(8, 180, "decode_cb", "execute_cbz"),
  Entry(8, 181, "decode_cb", "execute_cbnz"),
  Entry(10, 845, "decode_i", "execute_lsl_lsr_imm"),
  Entry(11, 1368, "decode_r", "execute_adds_er"),
  Entry(11, 1880, "decode_r", "execute_subs_cmp_er"),
  Entry(11, 1712, "decode_r", "execute_br"),
  Entry(11, 1112, "decode_r", "execute_add_er"),
  Entry(11, 1240, "decode_r", "execute_mul"),
  Entry(11, 1984, "decode_d", "execute_stur"),
  Entry(11, 448, "decode_d", "execute_sturb"),
  Entry(11, 960, "decode_d", "execute_sturh"),
  Entry(11, 1986, "decode_d", "execute_ldur"),
  Entry(11, 450, "decode_d", "execute_ldurb"),
  Entry(11, 962, "decode_d", "execute_ldurh"),
  Entry(11, 1698, "decode_iw", "execute_hlt"),
  Entry(11, 1684, "decode_iw", "execute_movz") >>

Opcode(e, word) == word \div 2 ^ (WordBits - e.opcode_length)

\* The entries that a word matches, and the one at which the search ends when
\* there is any.
Matching(word) == {i \in 1..Len(instructions) :
                     instructions[i].opcode = Opcode(instructions[i], word)}
FirstMatch(word) == CHOOSE i \in Matching(word) : \A j \in Matching(word) : i <= j
=============================================================================
