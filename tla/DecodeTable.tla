---------------------------- MODULE DecodeTable ----------------------------
(***************************************************************************)
(* The generated decode table of the 8088/8086 (i808x/decode_table.py):    *)
(* 256 rows indexed by opcode, then twelve groups of eight rows indexed by *)
(* the reg field of the ModRM byte.  A row keeps what decides the length   *)
(* of an instruction and the shape of its operands: its group, the one GDR *)
(* signal the decoder looks at (NO_MODRM) and its two operand templates.   *)
(* Mnemonics, microcode addresses and the register a fixed template names  *)
(* are left out.                                                           *)
(***************************************************************************)
EXTENDS Integers, Sequences

\* _PREFIX_FLAGS: the four segment overrides, LOCK twice, the two REPs; and, for
\* a mutant, LOCK once.
SegmentPrefixes == {38, 46, 54, 62}
PrefixBytesWithoutF1 == SegmentPrefixes \union {240, 242, 243}
PrefixBytes == SegmentPrefixes \union 240..243

\* InstTemplate.grp of a base row: the twelve opcodes that name a group.
GroupOpcodes == <<128, 129, 130, 131, 208, 209, 210, 211, 246, 247, 254, 255>>
GroupOf(opcode) ==
  IF \E g \in 1..12 : GroupOpcodes[g] = opcode
  THEN CHOOSE g \in 1..12 : GroupOpcodes[g] = opcode
  ELSE 0

\* Mutant: the GDR words of the loads and moves at 0xC4..0xC7 say NO_MODRM.
HasModRmNotC4ToC7(opcode) ==
  \/ opcode < 64 /\ opcode % 8 < 4
  \/ opcode \in 128..143 \union 208..211 \union 216..223
  \/ opcode \in {246, 247, 254, 255}

\* The base rows whose GDR word leaves the NO_MODRM bit clear.
HasModRm(opcode) ==
  \/ opcode < 64 /\ opcode % 8 < 4
  \/ opcode \in 128..143 \union 196..199 \union 208..211 \union 216..223
  \/ opcode \in {246, 247, 254, 255}

\* Rows 0x00..0x3F: eight arithmetic blocks with one layout, whose last two
\* columns push and pop a segment register below 0x20.
ArithmeticOperands(opcode) ==
  CASE opcode % 8 \in 0..5 ->
         << <<"MODRM8", "REG8">>,   <<"MODRM16", "REG16">>,
            <<"REG8", "MODRM8">>,   <<"REG16", "MODRM16">>,
            <<"FIXED8", "IMM8">>,   <<"FIXED16", "IMM16">> >>[(opcode % 8) + 1]
    [] opcode % 8 > 5 /\ opcode < 32 -> <<"FIXED16", "NONE">>
    [] OTHER -> <<"NONE", "NONE">>

\* Rows 0x40..0x7F: the register forms, then jumps.
RegisterAndJumpOperands(opcode) ==
  IF opcode < 96 THEN <<"FIXED16", "NONE">> ELSE <<"REL8", "NONE">>

\* Rows 0x80..0xBF: moves, exchanges, accumulator and string forms.
MoveOperands(opcode) ==
  CASE opcode \in {132, 136} -> <<"MODRM8", "REG8">>
    [] opcode \in {133, 137} -> <<"MODRM16", "REG16">>
    [] opcode \in {134, 138} -> <<"REG8", "MODRM8">>
    [] opcode \in {135, 139, 141} -> <<"REG16", "MODRM16">>
    [] opcode = 140 -> <<"MODRM16", "SREG">>
    [] opcode = 142 -> <<"SREG", "MODRM16">>
    [] opcode = 143 -> <<"MODRM16", "NONE">>
    [] opcode \in 144..151 -> <<"FIXED16", "FIXED16">>
    [] opcode = 154 -> <<"FAR", "NONE">>
    [] opcode = 160 -> <<"FIXED8", "OFF8">>
    [] opcode = 161 -> <<"FIXED16", "OFF16">>
    [] opcode = 162 -> <<"OFF8", "FIXED8">>
    [] opcode = 163 -> <<"OFF16", "FIXED16">>
    [] opcode = 168 \/ opcode \in 176..183 -> <<"FIXED8", "IMM8">>
    [] opcode = 169 \/ opcode \in 184..191 -> <<"FIXED16", "IMM16">>
    [] OTHER -> <<"NONE", "NONE">>

\* Rows 0xC0..0xFF: returns, coprocessor escapes, loops, ports, far jumps.
ControlOperands(opcode) ==
  CASE opcode \in {192, 194, 200, 202} -> <<"IMM16", "NONE">>
    [] opcode \in {196, 197} -> <<"REG16", "MODRM16">>
    [] opcode = 198 -> <<"MODRM8", "IMM8">>
    [] opcode = 199 -> <<"MODRM16", "IMM16">>
    [] opcode \in {205, 212, 213} -> <<"IMM8", "NONE">>
    [] opcode \in 216..223 -> <<"MODRM16", "NONE">>
    [] opcode \in 224..227 \union {235} -> <<"REL8", "NONE">>
    [] opcode = 228 -> <<"FIXED8", "IMM8">>
    [] opcode = 229 -> <<"FIXED16", "IMM8">>
    [] opcode = 230 -> <<"IMM8", "FIXED8">>
    [] opcode = 231 -> <<"IMM8", "FIXED16">>
    [] opcode \in {232, 233} -> <<"REL16", "NONE">>
    [] opcode = 234 -> <<"FAR", "NONE">>
    [] opcode = 236 -> <<"FIXED8", "FIXED16">>
    [] opcode = 237 -> <<"FIXED16", "FIXED16">>
    [] opcode = 238 -> <<"FIXED16", "FIXED8">>
    [] opcode = 239 -> <<"FIXED16", "FIXED16">>
    [] OTHER -> <<"NONE", "NONE">>

\* Rows 256..351: group g, re-indexed on reg.
GroupOperands(g, reg) ==
  CASE g \in {1, 3} \/ (g = 9 /\ reg < 2) -> <<"MODRM8", "IMM8">>
    [] g = 2 \/ (g = 10 /\ reg < 2) -> <<"MODRM16", "IMM16">>
    [] g = 4 -> <<"MODRM16", "IMM8SE">>
    [] g \in {5, 11} \/ (g = 9 /\ reg > 1) -> <<"MODRM8", "NONE">>
    [] g \in {6, 12} \/ (g = 10 /\ reg > 1) -> <<"MODRM16", "NONE">>
    [] g = 7 -> <<"MODRM8", "FIXED8">>
    [] g = 8 -> <<"MODRM16", "FIXED8">>

BaseOperands(opcode) ==
  CASE opcode \in 0..63    -> ArithmeticOperands(opcode)
    [] opcode \in 64..127  -> RegisterAndJumpOperands(opcode)
    [] opcode \in 128..191 -> MoveOperands(opcode)
    [] opcode \in 192..255 -> ControlOperands(opcode)

\* The grp and GDR fields of a group row are never read once it is reached.
Row(i) ==
  IF i < 256
  THEN [grp |-> GroupOf(i), has_modrm |-> HasModRm(i), operands |-> BaseOperands(i)]
  ELSE [grp |-> 0, has_modrm |-> TRUE,
        operands |-> GroupOperands(1 + (i - 256) \div 8, i % 8)]

DecodeRows == [i \in 0..351 |-> Row(i)]
=============================================================================
