------------------------------ MODULE Operands ------------------------------
(***************************************************************************)
(* Operand templates and their resolution (i808x/operands.py).  A template *)
(* decides how many bytes of the stream an operand consumes; the resolver  *)
(* reads them as a number, builds the operand from the number, and then    *)
(* encodes the number AGAIN to record the bytes it consumed.  The second   *)
(* encoding is where the recorded bytes can part from the stream.          *)
(***************************************************************************)
EXTENDS Integers, Sequences, ModRm16

ModRmTemplates == {"MODRM8", "MODRM16", "REG8", "REG16", "SREG"}

OperandTemplate == ModRmTemplates \union
  {"NONE", "IMM8", "IMM16", "IMM8SE", "REL8", "REL16", "OFF8", "OFF16",
   "FAR", "FIXED8", "FIXED16"}

Words == {"IMM16", "REL16", "OFF8", "OFF16"}

\* Bytes the template consumes after the ModRM byte and its displacement.
ImmediateWidth(template) ==
  CASE template \in {"IMM8", "REL8", "IMM8SE"} -> 1
    [] template \in Words -> 2
    [] template = "FAR" -> 4
    [] OTHER -> 0

\* read_u16 of two of the bytes read, and read_farptr16's offset-first pair.
FarOffset(raw)  == U16(raw[1], raw[2])
FarSegment(raw) == U16(raw[3], raw[4])

\* Mutant: a far pointer is recorded in the order it is printed.
RecordedBytesSegmentFirst(template, raw) ==
  IF template = "FAR"
  THEN LittleEndian(FarSegment(raw)) \o LittleEndian(FarOffset(raw))
  ELSE raw

\* What is appended to instruction_bytes and to immediate_bytes.
RecordedBytes(template, raw) ==
  CASE template \in {"IMM8", "REL8"} -> << raw[1] >>
    [] template = "IMM8SE" -> << Signed8(raw[1]) % 256 >>
    [] template \in Words -> LittleEndian(U16(raw[1], raw[2]))
    [] template = "FAR" -> LittleEndian(FarOffset(raw)) \o LittleEndian(FarSegment(raw))
    [] OTHER -> << >>

OperandKind ==
  {"none", "reg8", "reg16", "sreg16", "addr16", "imm8", "imm8s", "imm16",
   "rel8", "rel16", "offset8_16", "offset16_16", "far16"}

Operand == [kind : OperandKind, value : Seq(Int)]

NO_OPERAND == [kind |-> "none", value |-> << >>]

\* The registers of a ModRM byte are their index in the register tables; the
\* segment table repeats its four registers over the eight values of reg.  A
\* memory operand carries its mod and rm, the displacement and its width.
ModRmOperand(template, modrm, displacement) ==
  CASE template = "REG8"  -> [kind |-> "reg8",  value |-> << Reg(modrm) >>]
    [] template = "REG16" -> [kind |-> "reg16", value |-> << Reg(modrm) >>]
    [] template = "SREG"  -> [kind |-> "sreg16", value |-> << Reg(modrm) % 4 >>]
    [] template = "MODRM8"  /\ IsAddressingMode(modrm) ->
         [kind |-> "addr16", value |-> << Mod(modrm), Rm(modrm), displacement, 8 >>]
    [] template = "MODRM16" /\ IsAddressingMode(modrm) ->
         [kind |-> "addr16", value |-> << Mod(modrm), Rm(modrm), displacement, 16 >>]
    [] template = "MODRM8"  /\ ~IsAddressingMode(modrm) ->
         [kind |-> "reg8",  value |-> << Rm(modrm) >>]
    [] template = "MODRM16" /\ ~IsAddressingMode(modrm) ->
         [kind |-> "reg16", value |-> << Rm(modrm) >>]

\* The register of a fixed template is left out.
ImmediateOperand(template, raw) ==
  CASE template = "NONE"    -> NO_OPERAND
    [] template = "FIXED8"  -> [kind |-> "reg8",  value |-> << >>]
    [] template = "FIXED16" -> [kind |-> "reg16", value |-> << >>]
    [] template = "IMM8"    -> [kind |-> "imm8",  value |-> << raw[1] >>]
    [] template = "REL8"    -> [kind |-> "rel8",  value |-> << Signed8(raw[1]) >>]
    [] template = "IMM8SE"  -> [kind |-> "imm8s", value |-> << Signed8(raw[1]) >>]
    [] template = "IMM16"   -> [kind |-> "imm16", value |-> << U16(raw[1], raw[2]) >>]
    [] template = "REL16"   -> [kind |-> "rel16", value |-> << Signed16(U16(raw[1], raw[2])) >>]
    [] template = "OFF8"    -> [kind |-> "offset8_16",  value |-> << U16(raw[1], raw[2]) >>]
    [] template = "OFF16"   -> [kind |-> "offset16_16", value |-> << U16(raw[1], raw[2]) >>]
    [] template = "FAR"     -> [kind |-> "far16", value |-> << FarSegment(raw), FarOffset(raw) >>]
=============================================================================
