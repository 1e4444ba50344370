----------------------------- MODULE Mnemonics -----------------------------
(***************************************************************************)
(* The names a listing prints: the mnemonic and the fixed registers of     *)
(* each row of the decode table (i808x/decode_table.py), the register and  *)
(* address tables of cpu_common.py, and the classes of mnemonics the two   *)
(* renderers ask about (mnemonic.py).  Names are those of the enumerations *)
(* in the code; the letter case of a style is layout and is left out.      *)
(***************************************************************************)
EXTENDS Integers, Sequences

\* Where no register, segment or size is named.
None == ""

REGISTER8_LUT  == << "AL", "CL", "DL", "BL", "AH", "CH", "DH", "BH" >>
REGISTER16_LUT == << "AX", "CX", "DX", "BX", "SP", "BP", "SI", "DI" >>
SREGISTER16_LUT == << "ES", "CS", "SS", "DS" >>

-----------------------------------------------------------------------------
(* InstTemplate.mnemonic, in the order of the rows.                        *)

ArithmeticNames == << "ADD", "OR", "ADC", "SBB", "AND", "SUB", "XOR", "CMP" >>
ShiftNames      == << "ROL", "ROR", "RCL", "RCR", "SHL", "SHR", "SETMO", "SAR" >>
UnaryNames      == << "TEST", "TEST", "NOT", "NEG", "MUL", "IMUL", "DIV", "IDIV" >>
StepNames       == << "INC", "DEC", "CALL", "CALLF", "JMP", "JMPF", "PUSH", "PUSH" >>
JumpNames       == << "JO", "JNO", "JB", "JNB", "JZ", "JNZ", "JBE", "JNBE",
                      "JS", "JNS", "JP", "JNP", "JL", "JNL", "JLE", "JNLE" >>

\* Rows 0x00..0x7F.
ArithmeticMnemonic(row) ==
  IF row % 8 < 6 THEN ArithmeticNames[row \div 8 + 1]
  ELSE IF row < 32 THEN (IF row % 8 = 6 THEN "PUSH" ELSE "POP")
  ELSE IF row % 8 = 6 THEN "Prefix"
  ELSE << "DAA", "DAS", "AAA", "AAS" >>[row \div 8 - 3]

RegisterOrJumpMnemonic(row) ==
  IF row < 96 THEN << "INC", "DEC", "PUSH", "POP" >>[row \div 8 - 7]
  ELSE JumpNames[(row % 16) + 1]

\* Rows 0x80..0xBF.
MoveMnemonic(row) ==
  CASE row \in 128..131 -> "Group"
    [] row \in {132, 133, 168, 169} -> "TEST"
    [] row \in {134, 135} \union 145..151 -> "XCHG"
    [] row = 141 -> "LEA"
    [] row = 143 -> "POP"
    [] row = 144 -> "NOP"
    [] row \in 152..159 ->
         << "CBW", "CWD", "CALLF", "WAIT", "PUSHF", "POPF", "SAHF", "LAHF" >>[row - 151]
    [] row \in 164..167 -> << "MOVSB", "MOVSW", "CMPSB", "CMPSW" >>[row - 163]
    [] row \in 170..175 ->
         << "STOSB", "STOSW", "LODSB", "LODSW", "SCASB", "SCASW" >>[row - 169]
    [] OTHER -> "MOV"

\* Rows 0xC0..0xFF.
ControlMnemonic(row) ==
  CASE row \in 192..195 -> "RET"
    [] row \in 196..199 -> << "LES", "LDS", "MOV", "MOV" >>[row - 195]
    [] row \in 200..203 -> "RETF"
    [] row \in 204..207 -> << "INT3", "INT", "INTO", "IRET" >>[row - 203]
    [] row \in 208..211 \union {246, 247, 254, 255} -> "Group"
    [] row \in 212..215 -> << "AAM", "AAD", "SALC", "XLAT" >>[row - 211]
    [] row \in 216..223 -> "ESC"
    [] row \in 224..227 -> << "LOOPNE", "LOOPE", "LOOP", "JCXZ" >>[row - 223]
    [] row \in {228, 229, 236, 237} -> "IN"
    [] row \in {230, 231, 238, 239} -> "OUT"
    [] row \in 232..235 -> << "CALL", "JMP", "JMPF", "JMP" >>[row - 231]
    [] row \in {240, 241} -> "LOCK"
    [] row \in {242, 243} -> "Prefix"
    [] row \in {244, 245} -> << "HLT", "CMC" >>[row - 243]
    [] row \in 248..253 -> << "CLC", "STC", "CLI", "STI", "CLD", "STD" >>[row - 247]

\* Rows 256..351; groups 7 and 8 name row 6 of the shifts for their CL count.
GroupMnemonic(g, reg) ==
  CASE g \in 1..4   -> ArithmeticNames[reg + 1]
    [] g \in {7, 8} /\ reg = 6 -> "SETMOC"
    [] g \in 5..8   -> ShiftNames[reg + 1]
    [] g \in {9, 10}  -> UnaryNames[reg + 1]
    [] g \in {11, 12} -> StepNames[reg + 1]

RowMnemonic(row) ==
  CASE row \in 0..63    -> ArithmeticMnemonic(row)
    [] row \in 64..127  -> RegisterOrJumpMnemonic(row)
    [] row \in 128..191 -> MoveMnemonic(row)
    [] row \in 192..255 -> ControlMnemonic(row)
    [] row \in 256..351 -> GroupMnemonic(1 + (row - 256) \div 8, row % 8)

\* The registers of a row's fixed operands; None for an operand that is not fixed.
FixedRegisters(row) ==
  CASE row < 64 /\ row % 8 \in {4, 5} -> << <<"AL", "AX">>[(row % 8) - 3], None >>
    [] row < 32 /\ row % 8 \in {6, 7} -> << SREGISTER16_LUT[row \div 8 + 1], None >>
    [] row \in 64..95   -> << REGISTER16_LUT[(row % 8) + 1], None >>
    [] row \in 144..151 -> << REGISTER16_LUT[(row % 8) + 1], "AX" >>
    [] row \in 176..183 -> << REGISTER8_LUT[(row % 8) + 1], None >>
    [] row \in 184..191 -> << REGISTER16_LUT[(row % 8) + 1], None >>
    [] row \in {160, 168, 228} -> << "AL", None >>
    [] row \in {161, 169, 229} -> << "AX", None >>
    [] row \in {162, 230} -> << None, "AL" >>
    [] row \in {163, 231} -> << None, "AX" >>
    [] row = 236 -> << "AL", "DX" >>
    [] row = 237 -> << "AX", "DX" >>
    [] row = 238 -> << "DX", "AL" >>
    [] row = 239 -> << "DX", "AX" >>
    [] row \in 304..319 -> << None, "CL" >>
    [] OTHER -> << None, None >>

-----------------------------------------------------------------------------
(* mnemonic.py, over the whole enumeration.                                *)

_STOS == {"STOSB", "STOSW", "STOSD"}
_SCAS == {"SCASB", "SCASW", "SCASD"}
_INS  == {"INSB", "INSW", "INSD"}
_STRING_OPS == _STOS \union _SCAS \union _INS \union
  {"MOVSB", "MOVSW", "MOVSD", "CMPSB", "CMPSW", "CMPSD",
   "LODSB", "LODSW", "LODSD", "OUTSB", "OUTSW", "OUTSD"}

rep1_prefix(mnemonic) == IF mnemonic \in _STRING_OPS THEN "REPNE" ELSE "REP"
rep2_prefix(mnemonic) ==
  IF mnemonic \in _SCAS \union {"CMPSB", "CMPSW", "CMPSD"} THEN "REPE" ELSE "REP"

\* Members of the enumeration that are no instruction: MNEMONIC_FALLBACK.
Placeholders == {"Invalid", "NoOpcode", "Group", "Extension", "Prefix", "UNDEF"}

mnemonic_to_str(mnemonic) ==
  CASE mnemonic = "CALLF" -> "CALL"
    [] mnemonic = "JMPF"  -> "JMP"
    [] mnemonic = "XLAT"  -> "XLATB"
    [] mnemonic \in Placeholders -> "INVALID"
    [] OTHER -> mnemonic

\* The mnemonics iced-x86 spells otherwise, and its spelling.
_ICED_ALIASES ==
  [m \in {"JNL", "JNLE", "JNB", "JNBE", "JZ", "JNZ",
          "SETZ", "SETNZ", "SETNL", "SETNLE", "SETNBE", "SETNB"} |->
     CASE m = "JNL" -> "JGE"   [] m = "JNLE" -> "JG"    [] m = "JNB" -> "JAE"
       [] m = "JNBE" -> "JA"   [] m = "JZ" -> "JE"      [] m = "JNZ" -> "JNE"
       [] m = "SETZ" -> "SETE" [] m = "SETNZ" -> "SETNE" [] m = "SETNL" -> "SETGE"
       [] m = "SETNLE" -> "SETG" [] m = "SETNBE" -> "SETA" [] m = "SETNB" -> "SETAE"]
=============================================================================
