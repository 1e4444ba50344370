------------------------- MODULE DecodedInstruction -------------------------
(***************************************************************************)
(* What a renderer sees of a decoded instruction: its mnemonic, its        *)
(* operands with their registers named, and its 16-bit addresses           *)
(* (instruction.py, cpu_common.py, and the row i808x/decode.py took them   *)
(* from).  Both renderers read the prefixes out of prefix_bytes, because   *)
(* the decoder derives nothing from them.                                  *)
(***************************************************************************)
EXTENDS Decoder, Mnemonics

_raw_opcode(i) == i.instruction_bytes[i.opcode_offset + 1]
ModRmByte(i)   == i.instruction_bytes[i.modrm_offset + 1]

\* The row whose operands and mnemonic the decode used last.
RowOf(i)    == IF i.has_modrm THEN GroupRow(i.opcode, ModRmByte(i)) ELSE i.opcode
Mnemonic(i) == RowMnemonic(RowOf(i))

\* A group extension; -1 stands for the None of an instruction without one.
_modrm_extension(i) == IF i.has_modrm THEN Reg(ModRmByte(i)) ELSE -1

length(i) == Len(i.instruction_bytes)

RegisterKinds == {"reg8", "reg16", "sreg16"}

\* The register an operand names, out of a table or out of the row.
RegisterName(operand, fixed) ==
  CASE operand.kind \notin RegisterKinds -> None
    [] operand.kind \in RegisterKinds /\ operand.value = << >> -> fixed
    [] operand.kind = "reg8"   /\ operand.value # << >> -> REGISTER8_LUT[operand.value[1] + 1]
    [] operand.kind = "reg16"  /\ operand.value # << >> -> REGISTER16_LUT[operand.value[1] + 1]
    [] operand.kind = "sreg16" /\ operand.value # << >> -> SREGISTER16_LUT[operand.value[1] + 1]

NamedOperand(operand, fixed) ==
  [kind |-> operand.kind, value |-> operand.value, register |-> RegisterName(operand, fixed)]

\* operand1_type and operand2_type without NO_OPERAND; the third is never set.
WithoutNone(operand) == IF operand.kind = "none" THEN << >> ELSE << operand >>

DecodedOperands(i) ==
  LET fixed == FixedRegisters(RowOf(i))
  IN WithoutNone(NamedOperand(i.operand1, fixed[1]))
     \o WithoutNone(NamedOperand(i.operand2, fixed[2]))

is_memory(operand) == operand.kind \in {"addr16", "offset8_16", "offset16_16", "far16"}

-----------------------------------------------------------------------------
(* AddressOffset16: an addr16 operand is << mod, rm, displacement, size >>. *)

BaseRegisters ==
  << <<"BX", "SI">>, <<"BX", "DI">>, <<"BP", "SI">>, <<"BP", "DI">>,
     <<"SI">>, <<"DI">>, <<"BP">>, <<"BX">> >>

IsDisp16(mode) == mode[1] = 0 /\ mode[2] = 6

ADDR16_REGISTER_TEXT(mode) == IF IsDisp16(mode) THEN << >> ELSE BaseRegisters[mode[2] + 1]

carries_displacement(mode) == mode[1] # 0 \/ IsDisp16(mode)

\* Mutant: only the plain [bp] forms are relative to the stack.
base_register_alone(mode) ==
  IF ADDR16_REGISTER_TEXT(mode) = << "BP" >> THEN "SS" ELSE "DS"

\* The segment of an address that has no override.
base_register(mode) ==
  IF ~IsDisp16(mode) /\ ADDR16_REGISTER_TEXT(mode)[1] = "BP" THEN "SS" ELSE "DS"

-----------------------------------------------------------------------------
(* Prefix bytes, and the text of one operand.                              *)

_SEGMENT_PREFIXES ==
  [b \in {38, 46, 54, 62} |-> << "ES", "CS", "SS", "DS" >>[(b - 30) \div 8]]

\* The byte of S that a walk through bytes leaves in force, or none.
At(bytes, S) == {k \in DOMAIN bytes : bytes[k] \in S}

LastIn(bytes, S) ==
  IF At(bytes, S) = {} THEN {}
  ELSE {bytes[CHOOSE k \in At(bytes, S) : \A j \in At(bytes, S) : j <= k]}

FirstIn(bytes, S) ==
  IF At(bytes, S) = {} THEN {}
  ELSE {bytes[CHOOSE k \in At(bytes, S) : \A j \in At(bytes, S) : k <= j]}

\* Mutant: an override is only taken when there is none yet.
_segment_override_first(i) ==
  LET first == FirstIn(i.prefix_bytes, {38, 46, 54, 62})
  IN IF first = {} THEN None ELSE _SEGMENT_PREFIXES[CHOOSE b \in first : TRUE]

\* Each override replaces the previous one.
_segment_override(i) ==
  LET last == LastIn(i.prefix_bytes, {38, 46, 54, 62})
  IN IF last = {} THEN None ELSE _SEGMENT_PREFIXES[CHOOSE b \in last : TRUE]

\* What is printed of an operand: the words and the numbers in it.  A
\* displacement that is not printed is no number.
Text(kind, size, segment, registers, numbers) ==
  [kind |-> kind, size |-> size, segment |-> segment,
   registers |-> registers, numbers |-> numbers]

RegisterText(name)  == Text("register", None, None, << name >>, << >>)
NumberText(value)   == Text("number", None, None, << >>, << value >>)
PairText(segment, offset) == Text("pair", None, None, << >>, << segment, offset >>)
OffsetText(offset)  == Text("offset", None, None, << >>, << offset >>)
MemoryText(size, segment, registers, numbers) ==
  Text("memory", size, segment, registers, numbers)

\* What a rendering returned or raised.
Rendered(raised, prefixes, mnemonic, operands) ==
  [raised |-> raised, prefixes |-> prefixes, mnemonic |-> mnemonic, operands |-> operands]

NoText == Rendered("none", << >>, None, << >>)
=============================================================================
