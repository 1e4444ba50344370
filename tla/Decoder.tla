------------------------------ MODULE Decoder ------------------------------
(***************************************************************************)
(* The streaming decoder (decoder.py, byte_reader.py) and the 8088/8086    *)
(* decode it drives (i808x/decode.py, i808x/modrm16.py, i808x/operands.py).*)
(*                                                                         *)
(* A decoder is a cursor over a buffer.  Between calls pc is "idle" and    *)
(* the caller may seek, rewind, swap the options or ask for the next       *)
(* instruction; a decode then runs phase by phase -- prefixes and opcode,  *)
(* ModRM byte, first operand, second operand -- and any read past the end  *)
(* raises out of the middle of it, with the cursor left where the failing  *)
(* read left it and the half-built instruction dropped.                    *)
(***************************************************************************)
EXTENDS Integers, Sequences, Operands

CONSTANTS
  Buffers,      \* the inputs a decoder may be created over
  DECODE,       \* the decode table: 256 base rows and 96 group rows
  PrefixFlags   \* the bytes that are prefixes (keys of _PREFIX_FLAGS)

GROUP_BASE   == 256
GROUP_STRIDE == 8

RowIndex == 0..351

TableRow == [grp : 0..12, has_modrm : BOOLEAN,
             operands : OperandTemplate \X OperandTemplate]

ASSUME BufferAssumption == Buffers \subseteq Seq(Byte)
ASSUME TableAssumption  == DECODE \in [RowIndex -> TableRow]
ASSUME PrefixAssumption == PrefixFlags \subseteq Byte

\* The four families that are not ported all take the same branch.
CpuType == {"Intel808x", "NotPorted"}

VARIABLES
  buf,           \* ByteReader._buf
  position,      \* ByteReader.position
  cpu,           \* options.cpu
  pc,            \* where in a decode the program is
  via,           \* the entry point of the latest decode
  start,         \* position at the entry of the latest decode
  inst,          \* the Instruction under construction
  row,           \* index of the table row in force
  modrm,         \* the raw ModRM byte, NoModRm before one is read
  displacement,  \* the signed displacement it carried
  outcome,       \* what the latest call returned or raised
  result         \* the Instruction it returned

local == << inst, row, modrm, displacement >>
vars  == << buf, position, cpu, pc, via, start, local, outcome, result >>

NoModRm == -1

Blank ==
  [instruction_bytes |-> << >>, prefix_bytes |-> << >>,
   displacement_bytes |-> << >>, immediate_bytes |-> << >>,
   prefix_ct |-> 0, opcode |-> 0, opcode_offset |-> 0,
   has_modrm |-> FALSE, modrm_offset |-> 0, displacement_size |-> 0,
   operand1 |-> NO_OPERAND, operand2 |-> NO_OPERAND, is_complete |-> FALSE]

Init ==
  /\ buf \in Buffers
  /\ position = 0
  /\ cpu = "Intel808x"
  /\ pc = "idle"
  /\ via = "decode_next"
  /\ start = 0
  /\ inst = Blank /\ row = 0 /\ modrm = NoModRm /\ displacement = 0
  /\ outcome = "none"
  /\ result = Blank

-----------------------------------------------------------------------------
(* Reads.  A word is two byte reads and a far pointer four, so a read that *)
(* the input is too short for takes every byte there is before it raises.  *)

CanRead(n) == position + n <= Len(buf)
Read(n)    == SubSeq(buf, position + 1, position + n)

\* A call returns i, or raises o and leaves its locals behind.
Return(o, i) ==
  /\ pc' = "idle"
  /\ outcome' = o
  /\ result' = i
  /\ inst' = Blank /\ row' = 0 /\ modrm' = NoModRm /\ displacement' = 0

\* Mutant: the end of the input is taken for its middle by its length alone.
EndOfInputUnlessEmpty ==
  IF Len(buf) # 0 THEN "UnexpectedEof"
  ELSE IF via = "__next__" THEN "StopIteration" ELSE "Eof"

\* decode_next tells "nothing here" from "stopped in the middle" by whether
\* the cursor moved, and __next__ turns the former into StopIteration.
EndOfInput ==
  IF Len(buf) # start THEN "UnexpectedEof"
  ELSE IF via = "__next__" THEN "StopIteration" ELSE "Eof"

\* The calls that are not decodes keep none of the latest decode's record.
Answer(o) ==
  /\ Return(o, Blank)
  /\ start' = 0 /\ via' = "decode_next"

\* Mutant: a read at the end of the input waits for more of it.
RunsOutWaiting(n) ==
  /\ ~CanRead(n)
  /\ UNCHANGED vars

RunsOut(n) ==
  /\ ~CanRead(n)
  /\ position' = Len(buf)
  /\ Return(EndOfInput, Blank)
  /\ UNCHANGED << buf, cpu, via, start >>

-----------------------------------------------------------------------------
(* Calls made between decodes.                                             *)

\* Mutant: any position is taken.
SetPositionUnchecked(p) ==
  /\ pc = "idle"
  /\ position' = p
  /\ Answer("none")
  /\ UNCHANGED << buf, cpu >>

SetPosition(p) ==
  /\ pc = "idle"
  /\ position' = IF p \in 0..Len(buf) THEN p ELSE position
  /\ Answer(IF p \in 0..Len(buf) THEN "none" ELSE "ValueError")
  /\ UNCHANGED << buf, cpu >>

Rewind ==
  /\ pc = "idle"
  /\ position' = 0
  /\ Answer("none")
  /\ UNCHANGED << buf, cpu >>

\* Mutant: new options start the input again.
SetOptionsRewinding(c) ==
  /\ pc = "idle"
  /\ cpu' = c
  /\ position' = 0
  /\ Answer("none")
  /\ UNCHANGED buf

SetOptions(c) ==
  /\ pc = "idle"
  /\ cpu' = c
  /\ Answer("none")
  /\ UNCHANGED << buf, position >>

\* decode_next up to the dispatch on the CPU; nothing is read for the others.
DecodeNext(v) ==
  /\ pc = "idle"
  /\ via' = v
  /\ start' = position
  /\ IF cpu = "Intel808x"
     THEN /\ pc' = "opcode"
          /\ outcome' = "none" /\ result' = Blank
          /\ UNCHANGED local
     ELSE Return("DecodeError", Blank)
  /\ UNCHANGED << buf, position, cpu >>

-----------------------------------------------------------------------------
(* The decode itself.                                                      *)

\* A group opcode has a ModRM byte whatever its GDR word says.
WantsModRm(i) == DECODE[i].has_modrm \/ DECODE[i].grp # 0

\* One turn of the prefix loop; the byte that ends it is the opcode.
ReadPrefixOrOpcode ==
  LET b     == buf[position + 1]
      taken == Append(inst.instruction_bytes, b)
  IN /\ pc = "opcode"
     /\ CanRead(1)
     /\ position' = position + 1
     /\ IF b \in PrefixFlags
        THEN /\ inst' = [inst EXCEPT !.instruction_bytes = taken,
                                     !.prefix_bytes = Append(@, b)]
             /\ UNCHANGED << pc, row >>
        ELSE /\ inst' = [inst EXCEPT !.instruction_bytes = taken,
                                     !.prefix_ct = Len(inst.prefix_bytes),
                                     !.opcode_offset = Len(taken) - 1,
                                     !.opcode = b]
             /\ row' = b
             /\ pc' = IF WantsModRm(b) THEN "modrm" ELSE "operand1"
     /\ UNCHANGED << buf, cpu, via, start, modrm, displacement, outcome, result >>

GroupRow(i, raw) ==
  IF DECODE[i].grp = 0 THEN i
  ELSE GROUP_BASE + (DECODE[i].grp - 1) * GROUP_STRIDE + Reg(raw)

\* The displacement value of a ModRM byte, and the bytes recorded for it.
DisplacementValue(width, raw) ==
  CASE width = 0 -> 0
    [] width = 1 -> Signed8(raw[1])
    [] width = 2 -> Signed16(U16(raw[1], raw[2]))

DisplacementRecorded(width, raw) ==
  IF width = 2 THEN LittleEndian(U16(raw[1], raw[2])) ELSE raw

\* The displacement is read with the ModRM byte, before any operand.
ReadModRm ==
  LET raw   == buf[position + 1]
      width == DisplacementWidth(raw)
      disp  == SubSeq(buf, position + 2, position + 1 + width)
  IN /\ pc = "modrm"
     /\ CanRead(1)
     /\ CanRead(1 + width)
     /\ position' = position + 1 + width
     /\ modrm' = raw
     /\ displacement' = DisplacementValue(width, disp)
     /\ inst' = [inst EXCEPT
          !.instruction_bytes = Append(@, raw) \o DisplacementRecorded(width, disp),
          !.has_modrm = TRUE,
          !.modrm_offset = Len(inst.instruction_bytes),
          !.displacement_size = width]
     /\ row' = GroupRow(row, raw)
     /\ pc' = "operand1"
     /\ UNCHANGED << buf, cpu, via, start, outcome, result >>

\* resolve_operand: the operand and the instruction that records its bytes.
Resolved(template, raw) ==
  IF template \in ModRmTemplates
  THEN ModRmOperand(template, modrm, displacement)
  ELSE ImmediateOperand(template, raw)

\* Mutants: an operand's bytes enter one of the two records only.
RecordedInStreamOnly(template, raw) ==
  [inst EXCEPT !.instruction_bytes = @ \o RecordedBytes(template, raw)]

RecordedInPartOnly(template, raw) ==
  [inst EXCEPT !.immediate_bytes = @ \o RecordedBytes(template, raw)]

Recorded(template, raw) ==
  [inst EXCEPT !.instruction_bytes = @ \o RecordedBytes(template, raw),
               !.immediate_bytes   = @ \o RecordedBytes(template, raw)]

\* modrm is None: the attribute lookup raises, and nothing catches it.
LacksModRm(template) == template \in ModRmTemplates /\ modrm = NoModRm

ModRmIsNone == Return("AttributeError", Blank) /\ UNCHANGED position

ResolveOperand1 ==
  LET template == DECODE[row].operands[1]
      raw      == Read(ImmediateWidth(template))
  IN /\ pc = "operand1"
     /\ CanRead(ImmediateWidth(template))
     /\ IF LacksModRm(template) THEN ModRmIsNone
        ELSE /\ position' = position + ImmediateWidth(template)
             /\ inst' = [Recorded(template, raw) EXCEPT
                           !.operand1 = Resolved(template, raw)]
             /\ pc' = "operand2"
             /\ UNCHANGED << row, modrm, displacement, outcome, result >>
     /\ UNCHANGED << buf, cpu, via, start >>

ResolveOperand2 ==
  LET template == DECODE[row].operands[2]
      raw      == Read(ImmediateWidth(template))
  IN /\ pc = "operand2"
     /\ CanRead(ImmediateWidth(template))
     /\ IF LacksModRm(template) THEN ModRmIsNone
        ELSE /\ position' = position + ImmediateWidth(template)
             /\ Return("instruction",
                       [Recorded(template, raw) EXCEPT
                          !.operand2 = Resolved(template, raw), !.is_complete = TRUE])
     /\ UNCHANGED << buf, cpu, via, start >>

\* UnexpectedEof out of any of the reads above.
RunsOutInPhase ==
  \/ pc = "opcode" /\ RunsOut(1)
  \/ /\ pc = "modrm"
     /\ RunsOut(IF CanRead(1) THEN 1 + DisplacementWidth(buf[position + 1]) ELSE 1)
  \/ pc = "operand1" /\ RunsOut(ImmediateWidth(DECODE[row].operands[1]))
  \/ pc = "operand2" /\ RunsOut(ImmediateWidth(DECODE[row].operands[2]))

DecodeStep ==
  \/ ReadPrefixOrOpcode
  \/ ReadModRm
  \/ ResolveOperand1
  \/ ResolveOperand2
  \/ RunsOutInPhase

Call ==
  \/ \E p \in -1..(Len(buf) + 1) : SetPosition(p)
  \/ Rewind
  \/ \E c \in CpuType : SetOptions(c)
  \/ \E v \in {"decode_next", "__next__"} : DecodeNext(v)

Next == Call \/ DecodeStep

Spec == Init /\ [][Next]_vars

\* The program is sequential: a decode once entered runs until it returns.
FairSpec == Spec /\ WF_vars(DecodeStep)

-----------------------------------------------------------------------------
(* Properties.                                                             *)

InstructionRecord ==
  [instruction_bytes : Seq(Byte), prefix_bytes : Seq(Byte),
   displacement_bytes : Seq(Byte), immediate_bytes : Seq(Byte),
   prefix_ct : Nat, opcode : Byte, opcode_offset : Nat,
   has_modrm : BOOLEAN, modrm_offset : Nat, displacement_size : 0..2,
   operand1 : Operand, operand2 : Operand, is_complete : BOOLEAN]

Phases   == {"opcode", "modrm", "operand1", "operand2"}
Outcomes == {"none", "instruction", "Eof", "StopIteration", "UnexpectedEof",
             "DecodeError", "ValueError", "AttributeError"}

\* The cursor stays inside the input, the row inside the table, and every
\* byte the decoder records is a byte: ByteReader, DECODE, bytearray.
TypeOK ==
  /\ buf \in Seq(Byte)
  /\ position \in 0..Len(buf)
  /\ cpu \in CpuType
  /\ pc \in Phases \union {"idle"}
  /\ via \in {"decode_next", "__next__"}
  /\ start \in 0..Len(buf)
  /\ inst \in InstructionRecord
  /\ row \in RowIndex
  /\ modrm \in Byte \union {NoModRm}
  /\ displacement \in SignedDisplacement
  /\ outcome \in Outcomes
  /\ result \in InstructionRecord

Returned == pc = "idle" /\ outcome = "instruction"
Current  == IF pc = "idle" THEN result ELSE inst

\* instruction_bytes is authoritative for length (instruction.py): at every
\* point of a decode, and in what it returns, it is the stretch of input the
\* cursor has passed since the call -- through every word and far pointer
\* that was read as a number and encoded again.
BytesAreConsumed ==
  pc # "idle" \/ outcome = "instruction" =>
    /\ Len(Current.instruction_bytes) = position - start
    /\ \A k \in 1..Len(Current.instruction_bytes) :
         Current.instruction_bytes[k] = buf[start + k]

\* The parts of a returned instruction tile it in encoding order: prefixes,
\* opcode, ModRM byte with its displacement, immediates -- and the recorded
\* count and offsets say where each begins, whichever operand came first.
PartsTileInstruction ==
  Returned =>
    LET all   == result.instruction_bytes
        after == IF result.has_modrm
                 THEN result.modrm_offset + 1 + result.displacement_size
                 ELSE result.opcode_offset + 1
    IN /\ result.prefix_ct = result.opcode_offset
       /\ result.has_modrm => result.modrm_offset = result.opcode_offset + 1
       /\ SubSeq(all, 1, result.prefix_ct) = result.prefix_bytes
       /\ all[result.opcode_offset + 1] = result.opcode
       /\ SubSeq(all, after + 1, Len(all)) = result.immediate_bytes

\* The value n little-endian bytes spell, unsigned or in two's complement.
Number(b) == CASE Len(b) = 0 -> 0
               [] Len(b) = 1 -> b[1]
               [] Len(b) = 2 -> b[1] + 256 * b[2]
Unsigned(v, b) == v = Number(b)
Signed(v, b)   == LET m == 256 ^ Len(b) IN v % m = Number(b) /\ 2 * v \in (-m)..(m - 1)

\* An operand carries the number its bytes spell, disp being the displacement
\* bytes of the instruction and imm its immediate ones.
Spells(op, disp, imm) ==
  /\ op.kind = "addr16" => Signed(op.value[3], disp)
  /\ op.kind \in {"rel8", "imm8s", "rel16"} => Signed(op.value[1], imm)
  /\ op.kind \in {"imm8", "imm16", "offset8_16", "offset16_16"} => Unsigned(op.value[1], imm)
  /\ op.kind = "far16" => /\ Unsigned(op.value[2], SubSeq(imm, 1, 2))
                          /\ Unsigned(op.value[1], SubSeq(imm, 3, 4))

DisplacementOf(i) ==
  SubSeq(i.instruction_bytes, i.modrm_offset + 2, i.modrm_offset + 1 + i.displacement_size)

\* The numbers a returned operand carries are the ones its bytes spell: jump
\* distances, sign-extended immediates and displacements in two's complement,
\* other immediates and offsets unsigned, a far pointer offset first -- and a
\* memory operand's displacement comes from after the ModRM byte even when an
\* immediate follows it.
OperandsSpellTheirBytes ==
  Returned =>
    /\ Spells(result.operand1, DisplacementOf(result), result.immediate_bytes)
    /\ Spells(result.operand2, DisplacementOf(result), result.immediate_bytes)

\* No row asks the ModRM byte for an operand on a path that did not read one.
\* The decision to read it is a bit of the GDR word, the need for it is in the
\* operand templates, and nothing but the table keeps the two in step.
OperandsHaveTheirModRm == outcome # "AttributeError"

\* "Nothing here" and "stopped in the middle" are never confused: the walkers
\* stop on the first and resynchronise on the second (decoder.py).
EofIsClassified ==
  /\ outcome \in {"Eof", "StopIteration"} /\ pc = "idle" =>
       position = Len(buf) /\ start = Len(buf)
  /\ outcome = "UnexpectedEof" /\ pc = "idle" =>
       position = Len(buf) /\ start < Len(buf)

\* A decode that was entered returns or raises: the prefix loop, the one loop
\* in it, cannot outlast the input.
DecodeReturns == pc # "idle" ~> pc = "idle"

-----------------------------------------------------------------------------
(* The length of the instruction at s, by what it is made of.              *)

PrefixesAt(b, s) ==
  CHOOSE k \in 0..(Len(b) - s) :
    /\ \A i \in 1..k : b[s + i] \in PrefixFlags
    /\ s + k + 1 <= Len(b) => b[s + k + 1] \notin PrefixFlags

\* The index of the opcode byte, one past the buffer when there is none.
OpcodeAt(b, s) == s + PrefixesAt(b, s) + 1

ModRmLength(b, o) == IF WantsModRm(b[o]) THEN 1 + DisplacementWidth(b[o + 1]) ELSE 0
LastRow(b, o)     == IF WantsModRm(b[o]) THEN GroupRow(b[o], b[o + 1]) ELSE b[o]
OperandsLength(i) == ImmediateWidth(DECODE[i].operands[1])
                     + ImmediateWidth(DECODE[i].operands[2])

\* 0 when the instruction is cut off by the end of the buffer.
DeclaredExtent(b, s) ==
  LET o    == OpcodeAt(b, s)
      last == o + ModRmLength(b, o) + OperandsLength(LastRow(b, o))
  IN IF o <= Len(b) /\ (WantsModRm(b[o]) => o + 1 <= Len(b)) /\ last <= Len(b)
     THEN last - s
     ELSE 0

\* A decode in progress has not happened yet for the caller.
Stream == INSTANCE InstructionStream WITH
            Extent    <- DeclaredExtent,
            position  <- IF pc = "idle" THEN position ELSE start,
            supported <- cpu = "Intel808x",
            bytes     <- result.instruction_bytes

\* The phases, failures and reused locals of a decode add up to one atomic
\* call whose outcome depends on the buffer and the cursor only.
ImplementsStream == Stream!Spec
=============================================================================
