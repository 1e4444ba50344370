--------------------------- MODULE GhidraListing ---------------------------
(***************************************************************************)
(* The Ghidra-compatible listing (ghidra.py): which operands a line shows  *)
(* and in which order, what it says of segments, sizes and repetition, and *)
(* where its targets point.  Addresses are linear and code_segment is the  *)
(* optional argument of render_body.  Columns, letter case and digits are  *)
(* layout.                                                                 *)
(***************************************************************************)
EXTENDS DecodedInstruction

\* code_segment is None.
NoSegment == -1

\* Ghidra names these jumps by the complementary test.
_MNEMONIC_OVERRIDES(mnemonic) ==
  CASE mnemonic = "JB"   -> "JC"
    [] mnemonic = "JNB"  -> "JNC"
    [] mnemonic = "JNL"  -> "JGE"
    [] mnemonic = "JNLE" -> "JG"
    [] mnemonic = "JNBE" -> "JA"
    [] OTHER -> mnemonic

\* 0xA0..0xA3, LES, LDS and LEA.
_SIZE_IMPLIED_OPCODES == 160..163 \union {196, 197, 141}

_SHIFT_GROUP_OPCODES == 208..211
_SHIFT_MNEMONICS == {"ROL", "ROR", "RCL", "RCR", "SHL", "SHR", "SAR"}

\* The operations of 0x83 whose immediate prints with its sign.
_SIGNED_IMM8_EXTENSIONS == {0, 2, 3, 5, 7}

-----------------------------------------------------------------------------
(* Mnemonic, size and segment.                                             *)

IsFarIndirect(i) == _raw_opcode(i) = 255 /\ _modrm_extension(i) \in {3, 5}

_supplies_own_size(i) == _raw_opcode(i) \in _SIZE_IMPLIED_OPCODES \/ IsFarIndirect(i)

_shows_segment_override(i) == _segment_override(i) # None /\ ~IsFarIndirect(i)

ShownSegment(i) == IF _shows_segment_override(i) THEN _segment_override(i) ELSE None

\* An F2 anywhere among the prefixes is looked at before an F3.
_rep_suffix(i) ==
  LET has(b) == \E k \in 1..Len(i.prefix_bytes) : i.prefix_bytes[k] = b
  IN CASE has(242)              -> << rep1_prefix(Mnemonic(i)) >>
       [] ~has(242) /\ has(243) -> << rep2_prefix(Mnemonic(i)) >>
       [] OTHER                 -> << >>

-----------------------------------------------------------------------------
(* Operands.                                                               *)

\* The implicit operands: ES:DI whatever the prefixes, and SI with the segment
\* that is not DS.  The doubleword forms are not 8086 instructions.
_string_operands(i) ==
  LET s == _segment_override(i)
      destination == Text("pointer", None, "ES", << "DI" >>, << >>)
      source == Text("pointer", None, IF s = "DS" THEN None ELSE s, << "SI" >>, << >>)
  IN CASE Mnemonic(i) \in _STOS \union _SCAS    -> << destination >>
       [] Mnemonic(i) \in {"LODSB", "LODSW"}    -> << source >>
       [] Mnemonic(i) \in {"MOVSB", "MOVSW", "CMPSB", "CMPSW"} -> << destination, source >>
       [] OTHER -> << >>

\* A byte displacement keeps its sign; a word is the address it is.
PrintedDisplacement(mode) ==
  CASE ~carries_displacement(mode) -> << >>
    [] carries_displacement(mode) /\ mode[1] = 1 -> << mode[3] >>
    [] carries_displacement(mode) /\ mode[1] # 1 -> << mode[3] % 65536 >>

_render_addr16(mode, i, size) ==
  MemoryText(size, ShownSegment(i), ADDR16_REGISTER_TEXT(mode), PrintedDisplacement(mode))

\* operand_size is 16 bits in every 8086 instruction.
_immediate_value(i, value) ==
  IF \/ value >= 0
     \/ _raw_opcode(i) = 131 /\ _modrm_extension(i) \in _SIGNED_IMM8_EXTENSIONS
  THEN value
  ELSE value % 65536

normalize(linear) == << (linear \div 65536) * 4096, linear % 65536 >>

\* (address >> 4) & 0xF000, the aligned 64K the instruction is in.
AlignedSegment(address) == ((address \div 65536) % 16) * 4096

\* Mutant: the offset may leave its segment.
NearTargetTextUnwrapped(i, address, code_segment, distance) ==
  LET segment == IF code_segment = NoSegment THEN AlignedSegment(address) ELSE code_segment
  IN PairText(segment, address - segment * 16 + length(i) + distance)

NearTargetText(i, address, code_segment, distance) ==
  LET segment == IF code_segment = NoSegment THEN AlignedSegment(address) ELSE code_segment
  IN PairText(segment, (address - segment * 16 + length(i) + distance) % 65536)

\* Mutant: an offset that carries leaves the segment as it is.
FarPointerTextUncarried(segment, offset) ==
  PairText((segment \div 4096) * 4096, (segment * 16 + offset) % 65536)

FarPointerText(segment, offset) ==
  LET pair == normalize(segment * 16 + offset) IN PairText(pair[1], pair[2])

\* An operand of any kind the decoder builds; NO_OPERAND was dropped before.
_render_operand(i, operand, address, code_segment) ==
  LET kind == operand.kind
      v    == operand.value
      size == IF _supplies_own_size(i) THEN None ELSE IF v[4] = 8 THEN "byte" ELSE "word"
  IN CASE kind \in RegisterKinds     -> RegisterText(operand.register)
       [] kind \in {"imm8", "imm16"} -> NumberText(v[1])
       [] kind = "imm8s"             -> NumberText(_immediate_value(i, v[1]))
       [] kind \in {"rel8", "rel16"} -> NearTargetText(i, address, code_segment, v[1])
       [] kind = "far16"             -> FarPointerText(v[1], v[2])
       [] kind \in {"offset8_16", "offset16_16"} ->
            MemoryText(None, ShownSegment(i), << >>, << v[1] % 65536 >>)
       [] kind = "addr16"            -> _render_addr16(v, i, size)

\* The default prints XCHG, and a MOV to a segment register from a register,
\* the other way round.
PrintsReversed(i, operands) ==
  \/ Mnemonic(i) = "XCHG"
  \/ _raw_opcode(i) = 142 /\ Len(operands) = 2 /\ ~is_memory(operands[2])

ImpliesCount(i, operands) ==
  /\ _raw_opcode(i) \in _SHIFT_GROUP_OPCODES
  /\ Mnemonic(i) \in _SHIFT_MNEMONICS
  /\ Len(operands) = 1

ImpliedCount(i) ==
  IF _raw_opcode(i) \in {208, 209}
  THEN [kind |-> "imm8", value |-> << 1 >>, register |-> None]
  ELSE [kind |-> "reg8", value |-> << 1 >>, register |-> "CL"]

_effective_operands(i, preserve_operand_order) ==
  LET decoded  == DecodedOperands(i)
      reversed == ~preserve_operand_order /\ PrintsReversed(i, decoded)
      ordered  == IF reversed THEN << decoded[2], decoded[1] >> ELSE decoded
  IN CASE Mnemonic(i) = "NOP"     -> << >>
       [] Mnemonic(i) # "NOP" /\ ImpliesCount(i, decoded) -> Append(ordered, ImpliedCount(i))
       [] OTHER -> ordered

\* A code segment that is no paragraph, or that the instruction is not in.
IsRefused(address, code_segment) ==
  /\ code_segment # NoSegment
  /\ \/ code_segment \notin 0..65535
     \/ address - code_segment * 16 \notin 0..65535

render_operands(i, address, preserve_operand_order, code_segment) ==
  IF Mnemonic(i) \in _STRING_OPS THEN _string_operands(i)
  ELSE LET operands == _effective_operands(i, preserve_operand_order)
       IN [k \in 1..Len(operands) |-> _render_operand(i, operands[k], address, code_segment)]

\* The repetition is a suffix of the mnemonic.
render_body(i, address, preserve_operand_order, code_segment) ==
  CASE ~i.is_complete -> NoText
    [] i.is_complete /\ IsRefused(address, code_segment) ->
         Rendered("ValueError", << >>, None, << >>)
    [] OTHER ->
         Rendered("none", IF Mnemonic(i) \in _STRING_OPS THEN _rep_suffix(i) ELSE << >>,
                  _MNEMONIC_OVERRIDES(Mnemonic(i)),
                  render_operands(i, address, preserve_operand_order, code_segment))
=============================================================================
