-------------------------- MODULE Rendering_proofs --------------------------
(***************************************************************************)
(* What the texts of the shipped decoder say, for every input: the         *)
(* composition leaves the decoder's theorems alone, and what an            *)
(* instruction carries to a renderer decides what is printed of it.        *)
(***************************************************************************)
EXTENDS Rendering, DecodeTable_proofs, WellFoundedInduction

\* A rendering changes nothing of the decoder.
THEOREM RenderingIsDecoding == RenderSpec => Spec
<1>1. RenderInit => Init
  BY DEF RenderInit
<1>2. [RenderNext]_renderVars => [Next]_vars
  <2> SUFFICES ASSUME [RenderNext]_renderVars PROVE [Next]_vars
    OBVIOUS
  <2>1. CASE Decode
    BY <2>1 DEF Decode, Next, Call
  <2>2. CASE Decoding
    BY <2>2 DEF Decoding, Next
  <2>3. CASE Render
    BY <2>3, Zenon DEF Render, RenderBody, FormatInstruction
  <2>4. CASE UNCHANGED renderVars
    BY <2>4 DEF renderVars
  <2> QED
    BY <2>1, <2>2, <2>3, <2>4 DEF RenderNext
<1> QED
  BY <1>1, <1>2, PTL DEF RenderSpec, Spec

-----------------------------------------------------------------------------
(* What a renderer is given.                                               *)
(*                                                                         *)
(* A returned record names its row: an opcode that is no prefix, with a    *)
(* ModRM byte exactly when the table wants one, and the operands resolved  *)
(* from the templates of that row.                                         *)

\* An operand a template can resolve to, whatever bytes it is read from.
From(op, t) ==
  \E m \in Byte, d \in SignedDisplacement, raw \in Seq(Byte) :
    /\ DisplacementWidth(m) = 0 => d = 0
    /\ Len(raw) = ImmediateWidth(t)
    /\ op = IF t \in ModRmTemplates THEN ModRmOperand(t, m, d) ELSE ImmediateOperand(t, raw)

OpcodeIsTaken(i) ==
  /\ i.opcode \in Byte \ PrefixFlags
  /\ i.has_modrm <=> WantsModRm(i.opcode)

RowInForce ==
  /\ pc = "modrm" => /\ row = inst.opcode /\ inst.opcode \in Byte \ PrefixFlags
                     /\ WantsModRm(inst.opcode)
  /\ pc \in {"operand1", "operand2"} => OpcodeIsTaken(inst) /\ row = RowOf(inst)
  /\ pc = "operand2" => From(inst.operand1, Template(1))
  /\ Returned => /\ OpcodeIsTaken(result) /\ result.is_complete
                 /\ From(result.operand1, DECODE[RowOf(result)].operands[1])
                 /\ From(result.operand2, DECODE[RowOf(result)].operands[2])

\* A ModRM byte without a displacement leaves zero for one.
NoDisplacement == modrm \in Byte /\ DisplacementWidth(modrm) = 0 => displacement = 0

\* read_modrm keeps no displacement of the instruction before.
LEMMA NoDisplacementHolds == Spec => []NoDisplacement
<1>1. Init => NoDisplacement
  BY NoModRmIsNoByte DEF Init, NoDisplacement
<1>2. NoDisplacement /\ [Next]_vars => NoDisplacement'
  <2> SUFFICES ASSUME NoDisplacement, [Next]_vars PROVE NoDisplacement'
    OBVIOUS
  <2>1. ASSUME modrm' = NoModRm PROVE NoDisplacement'
    BY <2>1, NoModRmIsNoByte DEF NoDisplacement
  <2>2. ASSUME modrm' = modrm, displacement' = displacement PROVE NoDisplacement'
    BY <2>2 DEF NoDisplacement
  <2>3. ASSUME NEW o, NEW i, Return(o, i) PROVE NoDisplacement'
    BY <2>1, <2>3 DEF Return
  <2>4. CASE Call
    BY <2>2, <2>3, <2>4, Zenon DEF Call, SetPosition, Rewind, SetOptions, DecodeNext, Answer, local
  <2>5. CASE ReadPrefixOrOpcode
    BY <2>2, <2>5 DEF ReadPrefixOrOpcode
  <2>6. CASE ReadModRm
    <3> DEFINE raw == buf[position + 1]
               width == DisplacementWidth(raw)
    <3>1. /\ modrm' = raw
          /\ displacement' = DisplacementValue(width, SubSeq(buf, position + 2, position + 1 + width))
      BY <2>6 DEF ReadModRm
    <3>2. width = 0 => displacement' = 0
      <4> HIDE DEF width
      <4> QED
        BY <3>1 DEF DisplacementValue
    <3> QED
      BY <3>1, <3>2 DEF NoDisplacement
  <2>7. CASE ResolveOperand1
    BY <2>2, <2>3, <2>7, Zenon DEF ResolveOperand1, ModRmIsNone
  <2>8. CASE ResolveOperand2
    BY <2>3, <2>8, Zenon DEF ResolveOperand2, ModRmIsNone
  <2>9. CASE RunsOutInPhase
    BY <2>3, <2>9, Zenon DEF RunsOutInPhase, RunsOut
  <2>10. CASE UNCHANGED vars
    BY <2>2, <2>10 DEF vars, local
  <2> QED
    BY <2>4, <2>5, <2>6, <2>7, <2>8, <2>9, <2>10 DEF Next, DecodeStep
<1> QED
  BY <1>1, <1>2, PTL DEF Spec

\* The row is that of the head of a record and the ModRM byte behind it.
LEMMA RowStays ==
  ASSUME NEW i \in InstructionRecord, Tiled(i), NEW r \in Seq(Byte), NEW j,
         SameHead(i, j), j.instruction_bytes = i.instruction_bytes \o r
  PROVE  RowOf(j) = RowOf(i)
<1> DEFINE s == i.instruction_bytes
           o == i.modrm_offset
<1>1. /\ s \in Seq(Byte) /\ o \in Nat /\ i.displacement_size \in Nat /\ Len(s) \in Nat
  BY FieldsAreTyped
<1>2. j.opcode = i.opcode /\ j.has_modrm = i.has_modrm /\ j.modrm_offset = o
  BY DEF SameHead
<1>3. CASE i.has_modrm
  <2>1. o + 1 + i.displacement_size <= Len(s)
    BY <1>3, ImmediatesCases DEF Tiled
  <2>2. o + 1 \in 1..Len(s)
    <3> HIDE DEF s, o
    <3> QED
      BY <1>1, <2>1
  <2>3. (s \o r)[o + 1] = s[o + 1]
    <3> HIDE DEF s, o
    <3> QED
      BY <1>1, <2>2, ConcatProperties
  <2>4. ModRmByte(j) = ModRmByte(i)
    BY <1>2, <2>3 DEF ModRmByte
  <2> QED
    BY <1>2, <1>3, <2>4, Zenon DEF RowOf
<1>4. CASE ~i.has_modrm
  BY <1>2, <1>4, Zenon DEF RowOf
<1> QED
  BY <1>3, <1>4

\* A step that returns anything but an instruction names no row.
LEMMA RowReturn ==
  ASSUME NEW o, NEW i, Return(o, i),
         o = "instruction" => /\ OpcodeIsTaken(i) /\ i.is_complete
                              /\ From(i.operand1, DECODE[RowOf(i)].operands[1])
                              /\ From(i.operand2, DECODE[RowOf(i)].operands[2])
  PROVE  RowInForce'
BY Zenon DEF Return, RowInForce, Returned

\* Before the first call no row is in force.
LEMMA RowInit == Init => RowInForce
BY DEF Init, RowInForce, Returned

\* A call from outside starts without a row or returns without a record.
LEMMA RowCall == Call => RowInForce'
<1> SUFFICES ASSUME Call PROVE RowInForce'
  OBVIOUS
<1>1. ASSUME NEW o, o # "instruction", Return(o, Blank) PROVE RowInForce'
  BY <1>1, RowReturn, Zenon
<1>2. ASSUME NEW p \in -1..(Len(buf) + 1), SetPosition(p) PROVE RowInForce'
  BY <1>1, <1>2 DEF SetPosition, Answer
<1>3. CASE Rewind
  BY <1>1, <1>3 DEF Rewind, Answer
<1>4. ASSUME NEW c \in CpuType, SetOptions(c) PROVE RowInForce'
  BY <1>1, <1>4 DEF SetOptions, Answer
<1>5. ASSUME NEW v \in {"decode_next", "__next__"}, DecodeNext(v) PROVE RowInForce'
  <2>1. CASE cpu = "Intel808x"
    <3>1. pc' = "opcode"
      BY <1>5, <2>1 DEF DecodeNext
    <3> QED
      BY <3>1 DEF RowInForce, Returned
  <2>2. CASE cpu # "Intel808x"
    BY <1>1, <1>5, <2>2 DEF DecodeNext
  <2> QED
    BY <2>1, <2>2
<1> QED
  BY <1>2, <1>3, <1>4, <1>5, Zenon DEF Call

\* The byte that ends the prefix loop is the opcode, and its row is in force.
LEMMA RowPrefixOrOpcode == TypeOK /\ PartsInPlace /\ ReadPrefixOrOpcode => RowInForce'
<1> SUFFICES ASSUME TypeOK, PartsInPlace, ReadPrefixOrOpcode PROVE RowInForce'
  OBVIOUS
<1> DEFINE b     == buf[position + 1]
           taken == Append(inst.instruction_bytes, b)
<1>1. pc = "opcode" /\ CanRead(1)
  BY DEF ReadPrefixOrOpcode
<1>2. b \in Byte
  BY <1>1, ReadIsTyped
<1>3. inst \in InstructionRecord
  BY Zenon DEF TypeOK
<1>4. inst.has_modrm = FALSE
  BY <1>1 DEF PartsInPlace
<1>5. CASE b \in PrefixFlags
  BY <1>1, <1>5 DEF ReadPrefixOrOpcode, RowInForce, Returned
<1>6. CASE b \notin PrefixFlags
  <2>1. /\ inst' = [inst EXCEPT !.instruction_bytes = taken,
                                !.prefix_ct = Len(inst.prefix_bytes),
                                !.opcode_offset = Len(taken) - 1,
                                !.opcode = b]
        /\ row' = b
        /\ pc' = IF WantsModRm(b) THEN "modrm" ELSE "operand1"
    BY <1>6 DEF ReadPrefixOrOpcode
  <2> HIDE DEF b, taken
  <2>2. inst'.opcode = b /\ inst'.has_modrm = FALSE
    BY <1>3, <1>4, <2>1 DEF InstructionRecord
  <2>3. ~WantsModRm(b) => OpcodeIsTaken(inst') /\ RowOf(inst') = b
    BY <1>2, <1>6, <2>2 DEF OpcodeIsTaken, RowOf, b
  <2> QED
    BY <1>2, <1>6, <2>1, <2>2, <2>3 DEF RowInForce, Returned, b
<1> QED
  BY <1>5, <1>6

\* The ModRM byte picks the row of a group.
LEMMA RowModRm == TypeOK /\ PartsInPlace /\ RowInForce /\ ReadModRm => RowInForce'
<1> SUFFICES ASSUME TypeOK, PartsInPlace, RowInForce, ReadModRm PROVE RowInForce'
  OBVIOUS
<1> DEFINE s   == inst.instruction_bytes
           r   == Read(ModRmBytes)
           raw == buf[position + 1]
<1>1. pc = "modrm" /\ pc' = "operand1" /\ row' = GroupRow(row, raw)
  BY DEF ReadModRm
<1>2. inst \in InstructionRecord
  BY Zenon DEF TypeOK
<1>3. s \in Seq(Byte) /\ Len(s) \in Nat
  BY <1>2, FieldsAreTyped
<1>4. r \in Seq(Byte) /\ Len(r) >= 1 /\ r[1] = raw
  <2>1. ModRmBytes \in Nat /\ ModRmBytes >= 1 /\ CanRead(ModRmBytes)
    BY ModRmStep
  <2>2. r \in Seq(Byte) /\ Len(r) = ModRmBytes /\ IsSlice(r, buf, position, position + ModRmBytes)
    BY <2>1, ReadIsTyped
  <2>3. r[1] = buf[position + 1]
    BY <2>1, <2>2, Cursor DEF IsSlice
  <2> QED
    BY <2>1, <2>2, <2>3
<1>5. /\ inst'.instruction_bytes = s \o r /\ inst'.has_modrm = TRUE
      /\ inst'.modrm_offset = Len(s) /\ inst'.opcode = inst.opcode
  <2>1. inst' = [inst EXCEPT !.instruction_bytes = s \o r, !.has_modrm = TRUE,
                             !.modrm_offset = Len(s), !.displacement_size = ModRmBytes - 1]
    BY ModRmStep
  <2> HIDE DEF r
  <2> QED
    BY <1>2, <2>1 DEF InstructionRecord
<1>6. (s \o r)[Len(s) + 1] = r[1]
  <2> HIDE DEF s, r
  <2> QED
    BY <1>3, <1>4, ConcatProperties
<1>7. ModRmByte(inst') = raw
  BY <1>4, <1>5, <1>6 DEF ModRmByte
<1>8. /\ row = inst.opcode /\ inst.opcode \in Byte \ PrefixFlags /\ WantsModRm(inst.opcode)
  BY <1>1 DEF RowInForce
<1>9. OpcodeIsTaken(inst') /\ row' = RowOf(inst')
  BY <1>1, <1>5, <1>7, <1>8, Zenon DEF OpcodeIsTaken, RowOf
<1> QED
  BY <1>1, <1>9 DEF RowInForce, Returned

\* An operand is resolved from the template of its row.
LEMMA ResolvedIsFrom ==
  ASSUME TypeOK, NoDisplacement, NEW k \in {1, 2}, CanRead(ImmediateWidth(Template(k))), ~LacksModRm(Template(k))
  PROVE  From(Resolved(Template(k), Read(ImmediateWidth(Template(k)))), Template(k))
<1> DEFINE t == Template(k)
           r == Read(ImmediateWidth(t))
<1>1. t \in OperandTemplate /\ r \in Seq(Byte) /\ Len(r) = ImmediateWidth(t)
  BY RecordedFields
<1>2. modrm \in Byte \union {NoModRm} /\ displacement \in SignedDisplacement
  BY Zenon DEF TypeOK
<1> HIDE DEF t, r
<1>3. CASE t \in ModRmTemplates
  <2>1. modrm \in Byte
    BY <1>2, <1>3 DEF LacksModRm, t
  <2>2. Resolved(t, r) = ModRmOperand(t, modrm, displacement)
    BY <1>3 DEF Resolved
  <2>3. DisplacementWidth(modrm) = 0 => displacement = 0
    BY <2>1 DEF NoDisplacement
  <2>4. From(Resolved(t, r), t)
    BY <1>1, <1>2, <1>3, <2>1, <2>2, <2>3, Zenon DEF From
  <2> QED
    BY <2>4 DEF t, r
<1>4. CASE t \notin ModRmTemplates
  <2>1. Resolved(t, r) = ImmediateOperand(t, r)
    BY <1>4 DEF Resolved
  <2>2. 0 \in Byte /\ 0 \in SignedDisplacement
    BY ByteRange, DisplacementRange
  <2>3. From(Resolved(t, r), t)
    BY <1>1, <1>4, <2>1, <2>2, Zenon DEF From
  <2> QED
    BY <2>3 DEF t, r
<1> QED
  BY <1>3, <1>4

\* The first operand is resolved from the first template of its row, and what
\* can be returned there is a failure.
LEMMA RowOperand1 == TypeOK /\ PartsInPlace /\ NoDisplacement /\ RowInForce /\ ResolveOperand1 => RowInForce'
<1> SUFFICES ASSUME TypeOK, PartsInPlace, NoDisplacement, RowInForce, ResolveOperand1 PROVE RowInForce'
  OBVIOUS
<1> DEFINE r   == Read(ImmediateWidth(Template(1)))
           rec == Recorded(Template(1), r)
           op  == Resolved(Template(1), r)
<1>1. CanRead(ImmediateWidth(Template(1))) /\ pc = "operand1"
  BY DEF ResolveOperand1, Template
<1>2. CASE LacksModRm(Template(1))
  <2>1. Return("AttributeError", Blank)
    BY <1>2 DEF ResolveOperand1, ModRmIsNone, Template
  <2> QED
    BY <2>1, RowReturn, Zenon
<1>3. CASE ~LacksModRm(Template(1))
  <2>1. inst' = [rec EXCEPT !.operand1 = op] /\ pc' = "operand2" /\ row' = row
    BY <1>3 DEF ResolveOperand1, Template
  <2>2. /\ rec \in InstructionRecord /\ SameHead(inst, rec) /\ r \in Seq(Byte)
        /\ rec.instruction_bytes = inst.instruction_bytes \o r
    BY <1>1, RecordedFields
  <2>3. From(op, Template(1))
    BY <1>1, <1>3, ResolvedIsFrom
  <2>4. inst \in InstructionRecord /\ Tiled(inst)
    BY <1>1 DEF TypeOK, PartsInPlace
  <2> HIDE DEF rec, op, r
  <2>5. /\ inst'.operand1 = op /\ SameHead(inst, inst')
        /\ inst'.instruction_bytes = inst.instruction_bytes \o r
    BY <2>1, <2>2 DEF InstructionRecord, SameHead
  <2>6. RowOf(inst') = RowOf(inst)
    BY <2>2, <2>4, <2>5, RowStays
  <2>7. OpcodeIsTaken(inst) /\ row = RowOf(inst)
    BY <1>1 DEF RowInForce
  <2>8. OpcodeIsTaken(inst')
    BY <2>5, <2>7 DEF OpcodeIsTaken, SameHead
  <2>9. Template(1)' = Template(1)
    BY <2>1 DEF Template
  <2> QED
    BY <2>1, <2>3, <2>5, <2>6, <2>7, <2>8, <2>9 DEF RowInForce, Returned
<1> QED
  BY <1>2, <1>3

\* The second from the second, and then the record is returned complete.
LEMMA RowOperand2 == TypeOK /\ PartsInPlace /\ NoDisplacement /\ RowInForce /\ ResolveOperand2 => RowInForce'
<1> SUFFICES ASSUME TypeOK, PartsInPlace, NoDisplacement, RowInForce, ResolveOperand2 PROVE RowInForce'
  OBVIOUS
<1> DEFINE r   == Read(ImmediateWidth(Template(2)))
           rec == Recorded(Template(2), r)
           op  == Resolved(Template(2), r)
           all == [rec EXCEPT !.operand2 = op, !.is_complete = TRUE]
<1>1. CanRead(ImmediateWidth(Template(2))) /\ pc = "operand2"
  BY DEF ResolveOperand2, Template
<1>2. CASE LacksModRm(Template(2))
  <2>1. Return("AttributeError", Blank)
    BY <1>2 DEF ResolveOperand2, ModRmIsNone, Template
  <2> QED
    BY <2>1, RowReturn, Zenon
<1>3. CASE ~LacksModRm(Template(2))
  <2>1. Return("instruction", all)
    BY <1>3 DEF ResolveOperand2, Template
  <2>2. /\ rec \in InstructionRecord /\ SameHead(inst, rec) /\ r \in Seq(Byte)
        /\ rec.instruction_bytes = inst.instruction_bytes \o r
        /\ rec.operand1 = inst.operand1
    BY <1>1, RecordedFields
  <2>3. From(op, Template(2))
    BY <1>1, <1>3, ResolvedIsFrom
  <2>4. inst \in InstructionRecord /\ Tiled(inst)
    BY <1>1 DEF TypeOK, PartsInPlace
  <2> HIDE DEF rec, op, r
  <2>5. /\ all.operand1 = inst.operand1 /\ all.operand2 = op /\ all.is_complete
        /\ SameHead(inst, all) /\ all.instruction_bytes = inst.instruction_bytes \o r
    BY <2>2 DEF InstructionRecord, SameHead
  <2> HIDE DEF all
  <2>6. RowOf(all) = RowOf(inst)
    BY <2>2, <2>4, <2>5, RowStays
  <2>7. OpcodeIsTaken(inst) /\ row = RowOf(inst) /\ From(inst.operand1, Template(1))
    BY <1>1 DEF RowInForce
  <2>8. OpcodeIsTaken(all)
    BY <2>5, <2>7 DEF OpcodeIsTaken, SameHead
  <2>9. /\ From(all.operand1, DECODE[RowOf(all)].operands[1])
        /\ From(all.operand2, DECODE[RowOf(all)].operands[2])
    BY <2>3, <2>5, <2>6, <2>7, Zenon DEF Template
  <2> QED
    BY <2>1, <2>5, <2>8, <2>9, RowReturn
<1> QED
  BY <1>2, <1>3

\* Every record is resolved from the row that its opcode and ModRM byte name.
LEMMA RowHolds == Spec => []RowInForce
<1>1. TypeOK /\ PartsInPlace /\ NoDisplacement /\ RowInForce /\ [Next]_vars => RowInForce'
  <2> SUFFICES ASSUME TypeOK, PartsInPlace, NoDisplacement, RowInForce, [Next]_vars PROVE RowInForce'
    OBVIOUS
  <2>1. CASE RunsOutInPhase
    <3>1. Return(EndOfInput, Blank) /\ EndOfInput # "instruction"
      BY <2>1, RunningOut DEF EndOfInput
    <3> QED
      BY <3>1, RowReturn, Zenon
  <2>2. CASE UNCHANGED vars
    BY <2>2 DEF vars, local, RowInForce, Returned, Template
  <2> QED
    BY <2>1, <2>2, RowCall, RowPrefixOrOpcode, RowModRm, RowOperand1, RowOperand2, Zenon
       DEF Next, DecodeStep
<1> QED
  BY <1>1, RowInit, TypeCorrect, PartsHold, NoDisplacementHolds, PTL DEF Spec

-----------------------------------------------------------------------------
(* The text is the answer to what was asked.                               *)

\* Nothing was asked, or the arguments are those of a call and the text is what
\* the renderer makes of the instruction that was returned last.
TextIsAnswer ==
  \/ asked = Nothing /\ text = NoText
  \/ /\ Returned
     /\ asked.address \in Nat /\ asked.code_segment \in Int
     /\ asked.options \in FormatOptions
     /\ \/ /\ asked.style = "ghidra"
           /\ text = render_body(result, asked.address, asked.preserve_operand_order,
                                 asked.code_segment)
        \/ /\ asked.style = "nasm"
           /\ text = format_instruction(result, asked.options, asked.address)

\* The options nobody set are options.
LEMMA NothingIsTyped ==
  /\ Nothing.style = "none" /\ Nothing.address \in Nat /\ Nothing.code_segment \in Int
  /\ Nothing.options \in FormatOptions
BY DEF Nothing, NoSegment, FormatOptions

\* The address of an instruction is that of its buffer and its position in it.
LEMMA AddressIsTyped ==
  ASSUME TypeOK, NEW c \in Contexts
  PROVE  c.origin + start \in Nat /\ c.code_segment \in Int
<1>1. c.origin \in Nat /\ c.code_segment \in Int
  BY ContextAssumption DEF Context
<1>2. start \in Nat
  BY Cursor
<1> QED
  BY <1>1, <1>2

\* A text is written once, from the record at hand, and dropped by the next
\* decode.
LEMMA TextStep == TypeOK /\ TextIsAnswer /\ [RenderNext]_renderVars => TextIsAnswer'
<1> SUFFICES ASSUME TypeOK, TextIsAnswer, [RenderNext]_renderVars PROVE TextIsAnswer'
  OBVIOUS
<1>1. CASE Decode
  BY <1>1 DEF Decode, TextIsAnswer
<1>2. CASE Decoding
  <2>1. pc # "idle"
    BY <1>2, RunningOut DEF Decoding, DecodeStep, ReadPrefixOrOpcode, ReadModRm,
                            ResolveOperand1, ResolveOperand2
  <2> QED
    BY <1>2, <2>1 DEF Decoding, TextIsAnswer, Returned
<1>3. ASSUME NEW c \in Contexts, NEW p \in BOOLEAN, RenderBody(c, p)
      PROVE  TextIsAnswer'
  <2> DEFINE a == c.origin + start
  <2>1. /\ Returned /\ UNCHANGED vars
        /\ asked' = [Nothing EXCEPT !.style = "ghidra", !.address = a,
                                    !.code_segment = c.code_segment,
                                    !.preserve_operand_order = p]
        /\ text' = render_body(result, a, p, c.code_segment)
    BY <1>3 DEF RenderBody
  <2>2. a \in Nat /\ c.code_segment \in Int
    BY AddressIsTyped
  <2> HIDE DEF a
  <2>3. /\ asked'.style = "ghidra" /\ asked'.address = a
        /\ asked'.code_segment = c.code_segment /\ asked'.preserve_operand_order = p
        /\ asked'.options = Nothing.options
    BY <2>1 DEF Nothing
  <2>4. Returned' /\ result' = result
    BY <2>1 DEF vars, Returned
  <2> QED
    BY <2>1, <2>2, <2>3, <2>4, NothingIsTyped, Zenon DEF TextIsAnswer
<1>4. ASSUME NEW c \in Contexts, NEW o \in StyleOptions, FormatInstruction(c, o)
      PROVE  TextIsAnswer'
  <2> DEFINE a == c.origin + start
  <2>1. /\ Returned /\ UNCHANGED vars
        /\ asked' = [Nothing EXCEPT !.style = "nasm", !.address = a, !.options = o]
        /\ text' = format_instruction(result, o, a)
    BY <1>4 DEF FormatInstruction
  <2>2. a \in Nat
    BY AddressIsTyped
  <2> HIDE DEF a
  <2>3. /\ asked'.style = "nasm" /\ asked'.address = a
        /\ asked'.code_segment = Nothing.code_segment /\ asked'.options = o
    BY <2>1 DEF Nothing
  <2>4. Returned' /\ result' = result
    BY <2>1 DEF vars, Returned
  <2>5. o \in FormatOptions
    BY OptionsAssumption
  <2> QED
    BY <2>1, <2>2, <2>3, <2>4, <2>5, NothingIsTyped, Zenon DEF TextIsAnswer
<1>5. CASE UNCHANGED renderVars
  BY <1>5 DEF renderVars, vars, TextIsAnswer, Returned
<1> QED
  BY <1>1, <1>2, <1>3, <1>4, <1>5, Zenon DEF RenderNext, Render

\* Whatever was asked, the text is the renderer's answer to it.
LEMMA TextHolds == RenderSpec => []TextIsAnswer
<1>1. RenderInit => TextIsAnswer
  BY DEF RenderInit, TextIsAnswer
<1>2. RenderSpec => []TypeOK
  BY RenderingIsDecoding, TypeCorrect, PTL
<1> QED
  BY <1>1, <1>2, TextStep, PTL DEF RenderSpec

-----------------------------------------------------------------------------
(* The rows of the shipped table and their names.                          *)

\* A row below the groups is that of its opcode; one above belongs to the group
\* the opcode names, at the ModRM byte's reg.
LEMMA RowIs ==
  ASSUME NEW i \in InstructionRecord, Tiled(i), OpcodeIsTaken(i), DECODE = DecodeRows
  PROVE  /\ i.opcode \in Byte /\ _raw_opcode(i) = i.opcode
         /\ RowOf(i) \in Int /\ 0 <= RowOf(i) /\ RowOf(i) <= 351
         /\ DECODE[RowOf(i)] = Row(RowOf(i))
         /\ RowOf(i) < 256 => RowOf(i) = i.opcode /\ GroupOf(i.opcode) = 0
         /\ RowOf(i) >= 256 =>
              /\ i.has_modrm /\ GroupOf(i.opcode) \in 1..12
              /\ _modrm_extension(i) \in 0..7
              /\ RowOf(i) = 256 + (GroupOf(i.opcode) - 1) * 8 + _modrm_extension(i)
<1> DEFINE r == RowOf(i)
           b == ModRmByte(i)
           o == i.opcode
<1>1. o \in Byte /\ o \in Int /\ 0 <= o /\ o <= 255
  BY ByteRange DEF OpcodeIsTaken
<1>2. _raw_opcode(i) = o
  BY DEF Tiled, _raw_opcode
<1>3. o \in RowIndex
  BY <1>1, RowRange
<1>4. \A n \in RowIndex : DECODE[n] = Row(n)
  BY Zenon DEF DecodeRows, RowIndex
<1>5. DECODE[o].grp = GroupOf(o)
  <2>1. o < 256
    BY <1>1
  <2>2. Row(o) = [grp |-> GroupOf(o), has_modrm |-> HasModRm(o), operands |-> BaseOperands(o)]
    BY <2>1 DEF Row
  <2> QED
    BY <1>3, <1>4, <2>2
<1>6. CASE ~i.has_modrm
  <2>1. GroupOf(o) = 0
    BY <1>5, <1>6 DEF OpcodeIsTaken, WantsModRm
  <2> QED
    BY <1>1, <1>2, <1>3, <1>4, <1>6, <2>1 DEF RowOf
<1>7. CASE i.has_modrm
  <2>1. b \in Byte
    <3> DEFINE s == i.instruction_bytes
               m == i.modrm_offset
    <3>1. s \in Seq(Byte) /\ m \in Nat /\ i.displacement_size \in Nat /\ Len(s) \in Nat
      BY FieldsAreTyped
    <3>2. m + 1 + i.displacement_size <= Len(s)
      BY <1>7, ImmediatesCases DEF Tiled
    <3>3. m + 1 \in 1..Len(s)
      BY <3>1, <3>2
    <3> HIDE DEF s, m
    <3>4. s[m + 1] \in Byte
      BY <3>1, <3>3, ElementOfSeq
    <3> QED
      BY <3>4 DEF ModRmByte, s, m
  <2>2. r = GroupRow(o, b) /\ _modrm_extension(i) = Reg(b)
    BY <1>7 DEF RowOf, _modrm_extension
  <2>3. r \in RowIndex
    BY <1>3, <2>1, <2>2, GroupRowInTable
  <2>4. DECODE[r] = Row(r) /\ r \in Int /\ 0 <= r /\ r <= 351
    BY <1>4, <2>3, RowRange
  <2>5. Reg(b) \in Int /\ 0 <= Reg(b) /\ Reg(b) <= 7
    BY <2>1, ModRmFields
  <2> DEFINE g == GroupOf(o)
             e == Reg(b)
  <2>6. g \in 0..12
    BY <1>3, <1>5, RowsAreTyped
  <2>7. r = IF g = 0 THEN o ELSE 256 + (g - 1) * 8 + e
    BY <1>5, <2>2 DEF GroupRow, GROUP_BASE, GROUP_STRIDE
  <2>8. /\ r < 256 => r = o /\ g = 0
        /\ r >= 256 => g \in 1..12 /\ e \in 0..7 /\ r = 256 + (g - 1) * 8 + e
    <3> HIDE DEF g, e, r
    <3>1. g \in Int /\ 0 <= g /\ g <= 12 /\ e \in Int /\ 0 <= e /\ e <= 7
      BY <2>5, <2>6 DEF e
    <3> QED
      BY <1>1, <2>7, <3>1
  <2> QED
    BY <1>1, <1>2, <1>7, <2>2, <2>4, <2>8, Zenon
<1> QED
  BY <1>6, <1>7

\* The names in each part of the table.
ArithmeticText ==
  {"ADD", "OR", "ADC", "SBB", "AND", "SUB", "XOR", "CMP", "PUSH", "POP",
   "DAA", "DAS", "AAA", "AAS", "Prefix"}

JumpText ==
  {"JO", "JNO", "JB", "JNB", "JZ", "JNZ", "JBE", "JNBE",
   "JS", "JNS", "JP", "JNP", "JL", "JNL", "JLE", "JNLE"}

MoveText ==
  {"Group", "TEST", "XCHG", "LEA", "POP", "NOP", "CBW", "CWD", "CALLF", "WAIT",
   "PUSHF", "POPF", "SAHF", "LAHF", "MOVSB", "MOVSW", "CMPSB", "CMPSW",
   "STOSB", "STOSW", "LODSB", "LODSW", "SCASB", "SCASW", "MOV"}

ControlText ==
  {"RET", "LES", "LDS", "MOV", "RETF", "INT3", "INT", "INTO", "IRET", "Group",
   "AAM", "AAD", "SALC", "XLAT", "ESC", "LOOPNE", "LOOPE", "LOOP", "JCXZ",
   "IN", "OUT", "CALL", "JMP", "JMPF", "LOCK", "Prefix", "HLT", "CMC",
   "CLC", "STC", "CLI", "STI", "CLD", "STD"}

GroupText ==
  {"ADD", "OR", "ADC", "SBB", "AND", "SUB", "XOR", "CMP",
   "ROL", "ROR", "RCL", "RCR", "SHL", "SHR", "SETMO", "SAR", "SETMOC",
   "TEST", "NOT", "NEG", "MUL", "IMUL", "DIV", "IDIV",
   "INC", "DEC", "CALL", "CALLF", "JMP", "JMPF", "PUSH"}

\* The names of the arithmetic blocks and of the two rows around them.
LEMMA ArithmeticMnemonics ==
  ASSUME NEW r \in Int, 0 <= r, r <= 63
  PROVE  /\ ArithmeticMnemonic(r) \in ArithmeticText
         /\ ArithmeticMnemonic(r) = "Prefix" => r \in SegmentPrefixes
<1> DEFINE q == r \div 8
           c == r % 8
<1>1. q \in 0..7 /\ c \in 0..7 /\ r = 8 * q + c
  OBVIOUS
<1>2. ArithmeticMnemonic(r) =
        IF c < 6 THEN ArithmeticNames[q + 1]
        ELSE IF r < 32 THEN (IF c = 6 THEN "PUSH" ELSE "POP")
        ELSE IF c = 6 THEN "Prefix"
        ELSE << "DAA", "DAS", "AAA", "AAS" >>[q - 3]
  BY DEF ArithmeticMnemonic
<1> HIDE DEF q, c
<1>3. CASE c < 6
  BY <1>1, <1>2, <1>3 DEF ArithmeticNames, ArithmeticText
<1>4. CASE ~(c < 6) /\ r < 32
  BY <1>2, <1>4 DEF ArithmeticText
<1>5. CASE ~(c < 6) /\ ~(r < 32) /\ c = 6
  BY <1>1, <1>2, <1>5 DEF SegmentPrefixes, ArithmeticText
<1>6. CASE ~(c < 6) /\ ~(r < 32) /\ c # 6
  BY <1>1, <1>2, <1>6 DEF ArithmeticText
<1> QED
  BY <1>3, <1>4, <1>5, <1>6

\* The sixteen conditional jumps are named by jumps.
LEMMA JumpMnemonics ==
  ASSUME NEW n \in 0..15
  PROVE  JumpNames[n + 1] \in JumpText
BY DEF JumpNames, JumpText

\* The rows 0x40..0x7F are register operations and jumps.
LEMMA RegisterOrJumpMnemonics ==
  ASSUME NEW r \in Int, 64 <= r, r <= 127
  PROVE  RegisterOrJumpMnemonic(r) \in {"INC", "DEC", "PUSH", "POP"} \union JumpText
<1>1. CASE r < 96
  BY <1>1 DEF RegisterOrJumpMnemonic
<1>2. CASE r >= 96
  <2>1. r % 16 \in 0..15
    OBVIOUS
  <2>2. RegisterOrJumpMnemonic(r) = JumpNames[(r % 16) + 1]
    BY <1>2 DEF RegisterOrJumpMnemonic
  <2> QED
    BY <2>1, <2>2, JumpMnemonics
<1> QED
  BY <1>1, <1>2

\* Rows 0x80..0xBF, by what is looked for in them.
LEMMA MoveMnemonics ==
  ASSUME NEW r \in Int, 128 <= r, r <= 191
  PROVE  LET m == MoveMnemonic(r)
         IN /\ m \in MoveText
            /\ m = "Group" <=> r <= 131
            /\ m = "XCHG" => r \in {134, 135} \/ (145 <= r /\ r <= 151)
            /\ m = "LEA" <=> r = 141
            /\ m = "NOP" <=> r = 144
            /\ m = "CALLF" <=> r = 154
            /\ m \in _STRING_OPS => 164 <= r /\ r <= 175 /\ r \notin {168, 169}
<1>1. CASE r <= 163
  BY <1>1 DEF MoveMnemonic, _STRING_OPS, _STOS, _SCAS, _INS, MoveText
<1>2. CASE 164 <= r /\ r <= 167
  BY <1>2 DEF MoveMnemonic, MoveText
<1>3. CASE 168 <= r /\ r <= 169
  BY <1>3 DEF MoveMnemonic, _STRING_OPS, _STOS, _SCAS, _INS, MoveText
<1>4. CASE 170 <= r /\ r <= 175
  BY <1>4 DEF MoveMnemonic, MoveText
<1>5. CASE 176 <= r
  BY <1>5 DEF MoveMnemonic, _STRING_OPS, _STOS, _SCAS, _INS, MoveText
<1> QED
  BY <1>1, <1>2, <1>3, <1>4, <1>5

\* Rows 0xC0..0xFF, the same.
LEMMA ControlMnemonics ==
  ASSUME NEW r \in Int, 192 <= r, r <= 255
  PROVE  LET m == ControlMnemonic(r)
         IN /\ m \in ControlText
            /\ m = "Group" => r \in {208, 209, 210, 211, 246, 247, 254, 255}
            /\ m = "LOCK" => r \in {240, 241}
            /\ m = "Prefix" => r \in {242, 243}
            /\ m = "LES" <=> r = 196
            /\ m = "LDS" <=> r = 197
            /\ m = "AAM" <=> r = 212
            /\ m = "AAD" <=> r = 213
            /\ m = "XLAT" <=> r = 215
            /\ m = "JMPF" <=> r = 234
            /\ m = "CALL" <=> r = 232
            /\ m = "JMP" <=> r \in {233, 235}
<1>1. CASE r <= 215
  BY <1>1, SMTT(30) DEF ControlMnemonic, ControlText
<1>2. CASE 216 <= r /\ r <= 231
  BY <1>2, SMTT(30) DEF ControlMnemonic, ControlText
<1>3. CASE 232 <= r /\ r <= 245
  BY <1>3, SMTT(30) DEF ControlMnemonic, ControlText
<1>4. CASE 246 <= r
  BY <1>4, SMTT(30) DEF ControlMnemonic, ControlText
<1> QED
  BY <1>1, <1>2, <1>3, <1>4

\* The rows of the groups.
LEMMA GroupMnemonics ==
  ASSUME NEW g \in 1..12, NEW e \in 0..7
  PROVE  LET m == GroupMnemonic(g, e)
         IN /\ m \in GroupText
            /\ m \in _SHIFT_MNEMONICS => g \in 5..8
            /\ m \in {"CALL", "CALLF", "JMP", "JMPF"} => g \in {11, 12}
            /\ g \in {11, 12} => /\ m = "CALLF" <=> e = 3
                                 /\ m = "JMPF" <=> e = 5
<1>1. CASE g \in 1..4
  BY <1>1 DEF GroupMnemonic, ArithmeticNames, _SHIFT_MNEMONICS, GroupText
<1>2. CASE g \in 5..8
  BY <1>2 DEF GroupMnemonic, ShiftNames, GroupText
<1>3. CASE g \in {9, 10}
  BY <1>3 DEF GroupMnemonic, UnaryNames, _SHIFT_MNEMONICS, GroupText
<1>4. CASE g \in {11, 12}
  BY <1>4 DEF GroupMnemonic, StepNames, _SHIFT_MNEMONICS, GroupText
<1> QED
  BY <1>1, <1>2, <1>3, <1>4


\* The five tables a name comes from.
LEMMA RowNames ==
  ASSUME NEW r \in Int, 0 <= r, r <= 351
  PROVE  /\ r <= 63 => RowMnemonic(r) = ArithmeticMnemonic(r)
         /\ 64 <= r /\ r <= 127 => RowMnemonic(r) = RegisterOrJumpMnemonic(r)
         /\ 128 <= r /\ r <= 191 => RowMnemonic(r) = MoveMnemonic(r)
         /\ 192 <= r /\ r <= 255 => RowMnemonic(r) = ControlMnemonic(r)
         /\ 256 <= r => RowMnemonic(r) = GroupMnemonic(1 + (r - 256) \div 8, r % 8)
BY DEF RowMnemonic

\* The five tables the operands come from.
LEMMA RowOperands ==
  ASSUME NEW r \in Int, 0 <= r, r <= 351
  PROVE  LET pair == Row(r).operands
         IN /\ r <= 63 => pair = ArithmeticOperands(r)
            /\ 64 <= r /\ r <= 127 => pair = RegisterAndJumpOperands(r)
            /\ 128 <= r /\ r <= 191 => pair = MoveOperands(r)
            /\ 192 <= r /\ r <= 255 => pair = ControlOperands(r)
            /\ 256 <= r => pair = GroupOperands(1 + (r - 256) \div 8, r % 8)
<1>1. CASE r < 256
  <2>1. Row(r).operands = BaseOperands(r)
    BY <1>1 DEF Row
  <2> QED
    BY <1>1, <2>1 DEF BaseOperands
<1>2. CASE r >= 256
  BY <1>2 DEF Row
<1> QED
  BY <1>1, <1>2

\* A row above the groups is one of eight of one of twelve.
LEMMA GroupIndex ==
  ASSUME NEW r \in Int, 256 <= r, r <= 351
  PROVE  1 + (r - 256) \div 8 \in 1..12 /\ r % 8 \in 0..7
OBVIOUS

\* The index a group's row has is that of its number and its reg.
LEMMA GroupIndexIs ==
  ASSUME NEW g \in 1..12, NEW e \in 0..7
  PROVE  LET r == 256 + (g - 1) * 8 + e
         IN r \in Int /\ 256 <= r /\ r <= 351 /\ 1 + (r - 256) \div 8 = g /\ r % 8 = e
OBVIOUS

\* A group's opcode has a group, and no other opcode.
LEMMA GroupsAre ==
  ASSUME NEW o
  PROVE  /\ GroupOf(o) = 0 => o \notin {128, 129, 130, 131, 208, 209, 210, 211,
                                        246, 247, 254, 255}
         /\ \A g \in 1..12 : GroupOf(o) = g => o = GroupOpcodes[g]
<1>1. CASE \E g \in 1..12 : GroupOpcodes[g] = o
  <2>1. GroupOf(o) \in 1..12 /\ GroupOpcodes[GroupOf(o)] = o
    BY <1>1 DEF GroupOf
  <2> QED
    BY <2>1
<1>2. CASE ~\E g \in 1..12 : GroupOpcodes[g] = o
  <2>1. GroupOf(o) = 0
    BY <1>2, Zenon DEF GroupOf
  <2>2. \A g \in 1..12 : GroupOpcodes[g] # o
    BY <1>2
  <2>3. /\ GroupOpcodes[1] # o /\ GroupOpcodes[2] # o /\ GroupOpcodes[3] # o
        /\ GroupOpcodes[4] # o /\ GroupOpcodes[5] # o /\ GroupOpcodes[6] # o
        /\ GroupOpcodes[7] # o /\ GroupOpcodes[8] # o /\ GroupOpcodes[9] # o
        /\ GroupOpcodes[10] # o /\ GroupOpcodes[11] # o /\ GroupOpcodes[12] # o
    BY <2>2
  <2> QED
    BY <2>1, <2>3 DEF GroupOpcodes
<1> QED
  BY <1>1, <1>2

BranchNames ==
  {"JO", "JNO", "JB", "JNB", "JZ", "JNZ", "JBE", "JNBE",
   "JS", "JNS", "JP", "JNP", "JL", "JNL", "JLE", "JNLE",
   "LOOPNE", "LOOPE", "LOOP", "JCXZ", "CALL", "CALLF", "JMP", "JMPF"}

\* A row whose first operand is a target is a branch and has no other operand.
LEMMA TargetRows ==
  ASSUME NEW r \in Int, 0 <= r, r <= 351, Row(r).operands[1] \in {"REL8", "REL16", "FAR"}
  PROVE  /\ r < 256 /\ r # 142 /\ r \notin 208..211
         /\ Row(r).operands[2] = "NONE"
         /\ RowMnemonic(r) \in BranchNames
<1> DEFINE pair == Row(r).operands
<1>1. CASE r <= 63
  <2>1. r % 8 \in 0..7 /\ pair = ArithmeticOperands(r)
    BY <1>1, RowOperands
  <2>2. pair[1] \in {"MODRM8", "MODRM16", "REG8", "REG16", "FIXED8", "FIXED16", "NONE"}
    BY <2>1 DEF ArithmeticOperands
  <2> QED
    BY <2>2
<1>2. CASE 64 <= r /\ r <= 127
  <2>1. pair = RegisterAndJumpOperands(r)
    BY <1>2, RowOperands
  <2>2. r >= 96 /\ pair[2] = "NONE"
    BY <2>1 DEF RegisterAndJumpOperands
  <2>3. RowMnemonic(r) = JumpNames[(r % 16) + 1] /\ r % 16 \in 0..15
    BY <1>2, <2>2, RowNames DEF RegisterOrJumpMnemonic
  <2>4. RowMnemonic(r) \in BranchNames
    BY <2>3, JumpMnemonics DEF BranchNames, JumpText
  <2> QED
    BY <1>2, <2>2, <2>4
<1>3. CASE 128 <= r /\ r <= 191
  <2>1. pair = MoveOperands(r)
    BY <1>3, RowOperands
  <2>2. r = 154
    BY <1>3, <2>1 DEF MoveOperands
  <2>3. RowMnemonic(r) = "CALLF"
    BY <1>3, <2>2, RowNames, MoveMnemonics
  <2>4. pair[2] = "NONE"
    BY <2>1, <2>2 DEF MoveOperands
  <2> QED
    BY <2>2, <2>3, <2>4 DEF BranchNames
<1>4. CASE 192 <= r /\ r <= 255
  <2>1. pair = ControlOperands(r)
    BY <1>4, RowOperands
  <2>2. (224 <= r /\ r <= 227) \/ (232 <= r /\ r <= 235)
    BY <1>4, <2>1 DEF ControlOperands
  <2>3. pair[2] = "NONE"
    BY <2>1, <2>2 DEF ControlOperands
  <2>4. RowMnemonic(r) \in BranchNames
    <3>1. RowMnemonic(r) = ControlMnemonic(r)
      BY <1>4, RowNames
    <3> QED
      BY <2>2, <3>1 DEF ControlMnemonic, BranchNames
  <2> QED
    BY <2>2, <2>3, <2>4
<1>5. CASE 256 <= r
  <2> DEFINE g == 1 + (r - 256) \div 8
             e == r % 8
  <2>1. pair = GroupOperands(g, e) /\ g \in 1..12 /\ e \in 0..7
    BY <1>5, RowOperands, GroupIndex
  <2> HIDE DEF g, e
  <2>2. pair[1] \in {"MODRM8", "MODRM16"}
    BY <2>1 DEF GroupOperands
  <2> QED
    BY <2>2
<1> QED
  BY <1>1, <1>2, <1>3, <1>4, <1>5

-----------------------------------------------------------------------------
(* The operands a renderer is given.                                       *)

\* What the value of an operand is, by its kind.
ValueIs(op) ==
  /\ op \in Operand
  /\ op.kind \in RegisterKinds =>
       op.value = << >> \/ (\E n \in 0..7 : op.value = << n >> /\ (op.kind = "sreg16" => n <= 3))
  /\ op.kind \in {"imm8", "imm16", "offset8_16", "offset16_16"} =>
       \E n \in Int : op.value = << n >> /\ 0 <= n /\ n <= 65535
  /\ op.kind \in {"imm8s", "rel8", "rel16"} =>
       \E n \in Int : op.value = << n >> /\ -32768 <= n /\ n <= 32767
  /\ op.kind = "far16" =>
       \E s, o \in Int : /\ op.value = << s, o >>
                         /\ 0 <= s /\ s <= 65535 /\ 0 <= o /\ o <= 65535
  /\ op.kind = "addr16" =>
       \E m \in 0..2, n \in 0..7, d \in Int, w \in {8, 16} :
         /\ op.value = << m, n, d, w >>
         /\ -32768 <= d /\ d <= 32767
         /\ m = 0 /\ n # 6 => d = 0

\* The kind an operand has says which template it came from.
KindIs(op, t) ==
  /\ op.kind = "none" <=> t = "NONE"
  /\ op.kind = "imm8"  <=> t = "IMM8"
  /\ op.kind = "imm16" <=> t = "IMM16"
  /\ op.kind = "imm8s" <=> t = "IMM8SE"
  /\ op.kind = "rel8"  <=> t = "REL8"
  /\ op.kind = "rel16" <=> t = "REL16"
  /\ op.kind = "far16" <=> t = "FAR"
  /\ op.kind = "offset8_16"  <=> t = "OFF8"
  /\ op.kind = "offset16_16" <=> t = "OFF16"
  /\ op.kind \in RegisterKinds =>
       /\ op.value = << >> <=> t \in {"FIXED8", "FIXED16"}
       /\ t \in {"FIXED8", "REG8", "MODRM8"} <=> op.kind = "reg8"
  /\ op.kind = "addr16" => t = IF op.value[4] = 8 THEN "MODRM8" ELSE "MODRM16"
  /\ t \in {"FIXED8", "FIXED16", "REG8", "REG16", "SREG"} => op.kind \in RegisterKinds
  /\ t \in {"MODRM8", "MODRM16"} => op.kind \in {"reg8", "reg16", "addr16"}

\* A register.
LEMMA RegisterIs ==
  ASSUME NEW op \in Operand, NEW n \in 0..7, op.kind \in RegisterKinds,
         op.value = << n >>, op.kind = "sreg16" => n <= 3
  PROVE  ValueIs(op)
BY DEF ValueIs, RegisterKinds

\* The operands of a ModRM byte.
LEMMA ModRmOperandIs ==
  ASSUME NEW t \in ModRmTemplates, NEW m \in Byte, NEW d \in SignedDisplacement,
         DisplacementWidth(m) = 0 => d = 0
  PROVE  LET op == ModRmOperand(t, m, d) IN ValueIs(op) /\ KindIs(op, t)
<1> DEFINE op == ModRmOperand(t, m, d)
<1>1. d \in Int /\ -32768 <= d /\ d <= 32767
  BY DisplacementRange
<1>2. /\ Reg(m) \in 0..7 /\ Rm(m) \in 0..7 /\ Mod(m) \in 0..3
      /\ Reg(m) % 4 \in 0..7 /\ Reg(m) % 4 <= 3
  BY ByteRange DEF Reg, Rm, Mod
<1>3. op \in Operand
  BY <1>1, ModRmOperandIsTyped
<1>4. CASE t \in {"REG8", "REG16", "SREG"}
  <2>1. CASE t = "REG8"
    <3>1. op = [kind |-> "reg8", value |-> << Reg(m) >>]
      BY <2>1 DEF ModRmOperand
    <3>2. op.kind = "reg8" /\ op.value = << Reg(m) >> /\ op.value # << >>
      BY <3>1
    <3> HIDE DEF op
    <3>3. ValueIs(op)
      BY <1>2, <1>3, <3>2, RegisterIs DEF RegisterKinds
    <3>4. KindIs(op, t)
      BY <2>1, <3>2 DEF KindIs, RegisterKinds
    <3> QED
      BY <3>3, <3>4 DEF op
  <2>2. CASE t = "REG16"
    <3>1. op = [kind |-> "reg16", value |-> << Reg(m) >>]
      BY <2>2 DEF ModRmOperand
    <3>2. op.kind = "reg16" /\ op.value = << Reg(m) >> /\ op.value # << >>
      BY <3>1
    <3> HIDE DEF op
    <3>3. ValueIs(op)
      BY <1>2, <1>3, <3>2, RegisterIs DEF RegisterKinds
    <3>4. KindIs(op, t)
      BY <2>2, <3>2 DEF KindIs, RegisterKinds
    <3> QED
      BY <3>3, <3>4 DEF op
  <2>3. CASE t = "SREG"
    <3> DEFINE n == Reg(m) % 4
    <3>1. op = [kind |-> "sreg16", value |-> << n >>] /\ n \in 0..7 /\ n <= 3
      BY <1>2, <2>3 DEF ModRmOperand
    <3> HIDE DEF n
    <3>2. op.kind = "sreg16" /\ op.value = << n >> /\ op.value # << >>
      BY <3>1
    <3> HIDE DEF op
    <3>3. ValueIs(op)
      BY <1>3, <3>1, <3>2, RegisterIs DEF RegisterKinds
    <3>4. KindIs(op, t)
      BY <2>3, <3>2 DEF KindIs, RegisterKinds
    <3> QED
      BY <3>3, <3>4 DEF op
  <2> QED
    BY <1>4, <2>1, <2>2, <2>3
<1>5. CASE t \in {"MODRM8", "MODRM16"} /\ IsAddressingMode(m)
  <2> DEFINE w == IF t = "MODRM8" THEN 8 ELSE 16
  <2>1. op = [kind |-> "addr16", value |-> << Mod(m), Rm(m), d, w >>] /\ w \in {8, 16}
    BY <1>5 DEF ModRmOperand
  <2>2. Mod(m) \in 0..2
    BY <1>2, <1>5 DEF IsAddressingMode
  <2>3. op.kind = "addr16" /\ op.value = << Mod(m), Rm(m), d, w >> /\ op.value[4] = w
    BY <2>1
  <2>4. t = IF w = 8 THEN "MODRM8" ELSE "MODRM16"
    BY <1>5
  <2>7. Mod(m) = 0 /\ Rm(m) # 6 => d = 0
    BY DEF DisplacementWidth, IsAbsolute
  <2> HIDE DEF w, op
  <2>5. ValueIs(op)
    BY <1>1, <1>2, <1>3, <2>1, <2>2, <2>3, <2>7 DEF ValueIs, RegisterKinds
  <2>6. KindIs(op, t)
    BY <1>5, <2>3, <2>4 DEF KindIs, RegisterKinds
  <2> QED
    BY <2>5, <2>6 DEF op
<1>6. CASE t \in {"MODRM8", "MODRM16"} /\ ~IsAddressingMode(m)
  <2>1. op = [kind |-> IF t = "MODRM8" THEN "reg8" ELSE "reg16", value |-> << Rm(m) >>]
    BY <1>6 DEF ModRmOperand
  <2> QED
    BY <1>2, <1>3, <1>6, <2>1, RegisterIs DEF KindIs, RegisterKinds
<1> QED
  BY <1>4, <1>5, <1>6 DEF ModRmTemplates

\* The operands of the immediates, and the fixed ones.
LEMMA ImmediateOperandIs ==
  ASSUME NEW t \in OperandTemplate \ ModRmTemplates,
         NEW raw \in Seq(Byte), Len(raw) = ImmediateWidth(t)
  PROVE  LET op == ImmediateOperand(t, raw) IN ValueIs(op) /\ KindIs(op, t)
<1> DEFINE op == ImmediateOperand(t, raw)
<1>1. op \in Operand
  BY ImmediateOperandIsTyped
<1>2. CASE t \in {"NONE", "FIXED8", "FIXED16"}
  <2>1. op = [kind |-> IF t = "NONE" THEN "none" ELSE IF t = "FIXED8" THEN "reg8" ELSE "reg16",
              value |-> << >>]
    BY <1>2 DEF ImmediateOperand, NO_OPERAND
  <2> QED
    BY <1>1, <1>2, <2>1 DEF ValueIs, KindIs, RegisterKinds
<1>3. CASE t \in {"IMM8", "REL8", "IMM8SE"}
  <2>1. raw[1] \in Byte
    BY <1>3, ElementOfSeq DEF ImmediateWidth, Words
  <2>2. /\ raw[1] \in Int /\ 0 <= raw[1] /\ raw[1] <= 65535
        /\ Signed8(raw[1]) \in Int /\ -32768 <= Signed8(raw[1]) /\ Signed8(raw[1]) <= 32767
    BY <2>1, ByteRange, SignedByte
  <2>3. op = CASE t = "IMM8"   -> [kind |-> "imm8",  value |-> << raw[1] >>]
               [] t = "REL8"   -> [kind |-> "rel8",  value |-> << Signed8(raw[1]) >>]
               [] t = "IMM8SE" -> [kind |-> "imm8s", value |-> << Signed8(raw[1]) >>]
    BY <1>3 DEF ImmediateOperand
  <2> QED
    BY <1>1, <1>3, <2>2, <2>3, SMTT(30) DEF ValueIs, KindIs, RegisterKinds
<1>4. CASE t \in Words
  <2> DEFINE n == U16(raw[1], raw[2])
             z == Signed16(n)
  <2>1. raw[1] \in Byte /\ raw[2] \in Byte
    BY <1>4, ElementOfSeq DEF ImmediateWidth, Words
  <2>2. n \in Int /\ 0 <= n /\ n <= 65535
    BY <2>1, WordRange
  <2>3. z \in Int /\ -32768 <= z /\ z <= 32767
    BY <2>1, SignedWord
  <2>4. op = CASE t = "IMM16" -> [kind |-> "imm16", value |-> << n >>]
               [] t = "REL16" -> [kind |-> "rel16", value |-> << z >>]
               [] t = "OFF8"  -> [kind |-> "offset8_16",  value |-> << n >>]
               [] t = "OFF16" -> [kind |-> "offset16_16", value |-> << n >>]
    BY <1>4 DEF ImmediateOperand, Words
  <2> HIDE DEF n, z
  <2> QED
    BY <1>1, <1>4, <2>2, <2>3, <2>4, SMTT(30) DEF ValueIs, KindIs, RegisterKinds, Words
<1>5. CASE t = "FAR"
  <2> DEFINE s == FarSegment(raw)
             o == FarOffset(raw)
  <2>1. raw[1] \in Byte /\ raw[2] \in Byte /\ raw[3] \in Byte /\ raw[4] \in Byte
    BY <1>5, ElementOfSeq DEF ImmediateWidth, Words
  <2>2. s = U16(raw[3], raw[4]) /\ o = U16(raw[1], raw[2])
    BY Zenon DEF FarSegment, FarOffset
  <2>3. s \in Int /\ 0 <= s /\ s <= 65535 /\ o \in Int /\ 0 <= o /\ o <= 65535
    <3> DEFINE s1 == U16(raw[3], raw[4])
               o1 == U16(raw[1], raw[2])
    <3>1. s1 \in Int /\ 0 <= s1 /\ s1 <= 65535
      <4> DEFINE lo == raw[3]
                 hi == raw[4]
      <4>1. lo \in Byte /\ hi \in Byte
        BY <2>1
      <4> HIDE DEF lo, hi
      <4>2. U16(lo, hi) \in Int /\ 0 <= U16(lo, hi) /\ U16(lo, hi) <= 65535
        BY <4>1, WordRange
      <4> QED
        BY <4>2 DEF lo, hi
    <3>2. o1 \in Int /\ 0 <= o1 /\ o1 <= 65535
      <4> DEFINE lo == raw[1]
                 hi == raw[2]
      <4>1. lo \in Byte /\ hi \in Byte
        BY <2>1
      <4> HIDE DEF lo, hi
      <4>2. U16(lo, hi) \in Int /\ 0 <= U16(lo, hi) /\ U16(lo, hi) <= 65535
        BY <4>1, WordRange
      <4> QED
        BY <4>2 DEF lo, hi
    <3>3. s = s1 /\ o = o1
      BY <2>2
    <3> HIDE DEF s, o, s1, o1
    <3> QED
      BY <3>1, <3>2, <3>3
  <2>4. op = [kind |-> "far16", value |-> << s, o >>]
    BY <1>5 DEF ImmediateOperand
  <2> HIDE DEF s, o
  <2> QED
    BY <1>1, <1>5, <2>3, <2>4 DEF ValueIs, KindIs, RegisterKinds
<1> QED
  BY <1>2, <1>3, <1>4, <1>5 DEF OperandTemplate, Words

\* What a template resolves to: the kind of operand it is for, with a value of
\* that kind's shape.
LEMMA OperandIs ==
  ASSUME NEW op, NEW t \in OperandTemplate, From(op, t)
  PROVE  ValueIs(op) /\ KindIs(op, t)
<1>1. CASE t \in ModRmTemplates
  BY <1>1, ModRmOperandIs DEF From
<1>2. CASE t \notin ModRmTemplates
  BY <1>2, ImmediateOperandIs DEF From
<1> QED
  BY <1>1, <1>2

\* What a returned instruction is, for the renderers.
Decoded(i) ==
  /\ i \in InstructionRecord /\ Tiled(i) /\ OpcodeIsTaken(i) /\ i.is_complete
  /\ From(i.operand1, DECODE[RowOf(i)].operands[1])
  /\ From(i.operand2, DECODE[RowOf(i)].operands[2])

\* A record the decoder returned is a decoded instruction.
LEMMA ReturnedIsDecoded == TypeOK /\ PartsInPlace /\ RowInForce /\ Returned => Decoded(result)
BY DEF TypeOK, PartsInPlace, RowInForce, Decoded

\* The operands of an instruction are those of its row of the table.
LEMMA OperandsAre ==
  ASSUME NEW i, Decoded(i), DECODE = DecodeRows
  PROVE  LET pair == Row(RowOf(i)).operands
         IN /\ ValueIs(i.operand1) /\ KindIs(i.operand1, pair[1])
            /\ ValueIs(i.operand2) /\ KindIs(i.operand2, pair[2])
<1> DEFINE r == RowOf(i)
<1>1. r \in Int /\ 0 <= r /\ r <= 351 /\ DECODE[r] = Row(r)
  BY RowIs DEF Decoded
<1>2. r \in RowIndex
  BY <1>1, RowRange
<1>3. DECODE[r].operands[1] \in OperandTemplate /\ DECODE[r].operands[2] \in OperandTemplate
  BY <1>2, RowsAreTyped
<1>4. From(i.operand1, DECODE[r].operands[1]) /\ From(i.operand2, DECODE[r].operands[2])
  BY DEF Decoded
<1> HIDE DEF r
<1>5. /\ ValueIs(i.operand1) /\ KindIs(i.operand1, DECODE[r].operands[1])
      /\ ValueIs(i.operand2) /\ KindIs(i.operand2, DECODE[r].operands[2])
  BY <1>3, <1>4, OperandIs
<1> QED
  BY <1>1, <1>5, Zenon DEF r

\* What is put together of two sequences of one element at most.
LEMMA ShortConcat ==
  ASSUME NEW a, NEW b
  PROVE  /\ << >> \o << >> = << >>
         /\ << a >> \o << >> = << a >> /\ << >> \o << b >> = << b >>
         /\ << a >> \o << b >> = << a, b >>
<1> DEFINE S == {a, b}
<1>1. << a >> \in Seq(S) /\ << b >> \in Seq(S) /\ << a, b >> \in Seq(S) /\ << >> \in Seq(S)
  OBVIOUS
<1> HIDE DEF S
<1>2. << a >> \o << >> = << a >> /\ << >> \o << b >> = << b >> /\ << >> \o << >> = << >>
  BY <1>1, ConcatEmptySeq, Zenon
<1> DEFINE x == << a >>
           y == << b >>
<1>3. Len(x) = 1 /\ Len(y) = 1 /\ x[1] = a /\ y[1] = b /\ x \in Seq(S) /\ y \in Seq(S)
  BY <1>1
<1> HIDE DEF x, y
<1>4. /\ x \o y \in Seq(S) /\ Len(x \o y) = 2 /\ (x \o y)[1] = a /\ (x \o y)[2] = b
  <2>1. /\ x \o y \in Seq(S) /\ Len(x \o y) = Len(x) + Len(y)
        /\ \A i \in 1..(Len(x) + Len(y)) :
             (x \o y)[i] = IF i <= Len(x) THEN x[i] ELSE y[i - Len(x)]
    BY <1>3, ConcatProperties
  <2>2. Len(x \o y) = 2 /\ 1 \in 1..(Len(x) + Len(y)) /\ 2 \in 1..(Len(x) + Len(y))
    BY <1>3, <2>1
  <2>3. (x \o y)[1] = x[1] /\ (x \o y)[2] = y[1]
    <3>1. (x \o y)[1] = IF 1 <= Len(x) THEN x[1] ELSE y[1 - Len(x)]
      BY <2>1, <2>2, Zenon
    <3>2. (x \o y)[2] = IF 2 <= Len(x) THEN x[2] ELSE y[2 - Len(x)]
      BY <2>1, <2>2, Zenon
    <3> QED
      BY <1>3, <3>1, <3>2
  <2> QED
    BY <1>3, <2>1, <2>2, <2>3, Zenon
<1>5. x \o y = << a, b >>
  <2> DEFINE z == << a, b >>
             c == x \o y
  <2>1. z \in Seq(S) /\ Len(z) = 2 /\ z[1] = a /\ z[2] = b
    BY <1>1
  <2>2. c \in Seq(S) /\ Len(c) = 2 /\ c[1] = a /\ c[2] = b
    BY <1>4
  <2> HIDE DEF z, c
  <2>3. Len(c) = Len(z) /\ \A i \in 1..Len(c) : c[i] = z[i]
    BY <2>1, <2>2
  <2>4. c = z
    BY <2>1, <2>2, <2>3, SeqEqual
  <2> QED
    BY <2>4 DEF c, z
<1> QED
  BY <1>2, <1>5 DEF x, y

\* The operands a renderer shows, with their fixed registers.
First(i)  == NamedOperand(i.operand1, FixedRegisters(RowOf(i))[1])
Second(i) == NamedOperand(i.operand2, FixedRegisters(RowOf(i))[2])

\* operand1_type and operand2_type, whichever of them there are.
LEMMA DecodedOperandsAre ==
  ASSUME NEW i
  PROVE  DecodedOperands(i) =
           IF i.operand1.kind = "none"
           THEN IF i.operand2.kind = "none" THEN << >> ELSE << Second(i) >>
           ELSE IF i.operand2.kind = "none" THEN << First(i) >> ELSE << First(i), Second(i) >>
<1>1. DecodedOperands(i) = WithoutNone(First(i)) \o WithoutNone(Second(i))
  BY DEF DecodedOperands, First, Second
<1>2. First(i).kind = i.operand1.kind /\ Second(i).kind = i.operand2.kind
  BY DEF First, Second, NamedOperand
<1>3. /\ << >> \o << >> = << >>
      /\ << First(i) >> \o << >> = << First(i) >>
      /\ << >> \o << Second(i) >> = << Second(i) >>
      /\ << First(i) >> \o << Second(i) >> = << First(i), Second(i) >>
  BY ShortConcat
<1> QED
  BY <1>1, <1>2, <1>3, Zenon DEF WithoutNone

-----------------------------------------------------------------------------
(* Targets.                                                                *)

\* An instruction with a target has no other operand, is printed as decoded and
\* touches no memory that its name implies.
LEMMA TargetIsAlone ==
  ASSUME NEW i, Decoded(i), DECODE = DecodeRows, i.operand1.kind \in {"rel8", "rel16", "far16"}
  PROVE  /\ DecodedOperands(i) = << First(i) >>
         /\ First(i).kind = i.operand1.kind /\ First(i).value = i.operand1.value
         /\ Mnemonic(i) \in BranchNames
         /\ _raw_opcode(i) # 142 /\ _raw_opcode(i) \notin 208..211
<1> DEFINE r    == RowOf(i)
           pair == Row(r).operands
<1>1. /\ r \in Int /\ 0 <= r /\ r <= 351 /\ (r < 256 => r = i.opcode)
      /\ _raw_opcode(i) = i.opcode
  BY RowIs DEF Decoded
<1>2. KindIs(i.operand1, pair[1]) /\ KindIs(i.operand2, pair[2])
  BY OperandsAre
<1> HIDE DEF r
<1>3. pair[1] \in {"REL8", "REL16", "FAR"}
  BY <1>2 DEF KindIs
<1>4. /\ r < 256 /\ r # 142 /\ r \notin 208..211
      /\ pair[2] = "NONE" /\ RowMnemonic(r) \in BranchNames
  BY <1>1, <1>3, TargetRows
<1>5. i.operand2.kind = "none"
  BY <1>2, <1>4 DEF KindIs
<1>6. DecodedOperands(i) = << First(i) >>
  BY <1>5, DecodedOperandsAre
<1>7. First(i).kind = i.operand1.kind /\ First(i).value = i.operand1.value
  BY DEF First, NamedOperand
<1> QED
  BY <1>1, <1>4, <1>6, <1>7 DEF Mnemonic, r

\* A branch is none of the operations whose operands are not printed as decoded.
LEMMA BranchesArePlain ==
  ASSUME NEW m \in BranchNames
  PROVE  m \notin _STRING_OPS \union {"NOP", "XCHG", "AAM", "AAD", "Invalid"}
BY DEF BranchNames, _STRING_OPS, _STOS, _SCAS, _INS

\* What each renderer makes of a target.
LEMMA RenderedTarget ==
  ASSUME NEW i, NEW o, NEW a, NEW c
  PROVE  /\ o.kind \in {"rel8", "rel16"} =>
              _render_operand(i, o, a, c) = NearTargetText(i, a, c, o.value[1])
         /\ o.kind = "far16" =>
              _render_operand(i, o, a, c) = FarPointerText(o.value[1], o.value[2])
<1>1. CASE o.kind = "rel8"
  BY <1>1, SMT DEF _render_operand, RegisterKinds
<1>2. CASE o.kind = "rel16"
  BY <1>2, SMT DEF _render_operand, RegisterKinds
<1>3. CASE o.kind = "far16"
  BY <1>3, SMT DEF _render_operand, RegisterKinds
<1> QED
  BY <1>1, <1>2, <1>3

\* The NASM style prints a near target as an offset.
LEMMA FormattedOffset ==
  ASSUME NEW i, NEW o, NEW s, NEW a, o.kind \in {"rel8", "rel16"}
  PROVE  format_operand(i, o, s, a) = OffsetText(NearOffset(i, a, o.value[1]))
<1>1. CASE o.kind = "rel8"
  BY <1>1, SMT DEF format_operand, RegisterKinds
<1>2. CASE o.kind = "rel16"
  BY <1>2, SMT DEF format_operand, RegisterKinds
<1> QED
  BY <1>1, <1>2

\* What the listing prints of it.
LEMMA ListedTarget ==
  ASSUME NEW i, Decoded(i), DECODE = DecodeRows, i.operand1.kind \in {"rel8", "rel16", "far16"},
         NEW a, NEW p, NEW c
  PROVE  render_operands(i, a, p, c)[1] =
           IF i.operand1.kind = "far16"
           THEN FarPointerText(i.operand1.value[1], i.operand1.value[2])
           ELSE NearTargetText(i, a, c, i.operand1.value[1])
<1> DEFINE ops == _effective_operands(i, p)
<1>1. Mnemonic(i) \notin _STRING_OPS \union {"NOP", "XCHG"}
  BY TargetIsAlone, BranchesArePlain
<1>2. ~PrintsReversed(i, << First(i) >>) /\ ~ImpliesCount(i, << First(i) >>)
  BY <1>1, TargetIsAlone DEF PrintsReversed, ImpliesCount, _SHIFT_GROUP_OPCODES
<1>3. ops = << First(i) >>
  BY <1>1, <1>2, TargetIsAlone DEF _effective_operands
<1>4. Len(ops) = 1 /\ ops[1] = First(i)
  BY <1>3
<1> HIDE DEF ops
<1>5. render_operands(i, a, p, c) = [k \in 1..Len(ops) |-> _render_operand(i, ops[k], a, c)]
  BY <1>1 DEF render_operands, ops
<1>6. render_operands(i, a, p, c)[1] = _render_operand(i, First(i), a, c)
  BY <1>4, <1>5
<1>7. First(i).kind = i.operand1.kind /\ First(i).value = i.operand1.value
  BY TargetIsAlone
<1> QED
  BY <1>6, <1>7, RenderedTarget

\* What the assembler's style prints of it.
LEMMA FormattedTarget ==
  ASSUME NEW i, Decoded(i), DECODE = DecodeRows, i.operand1.kind \in {"rel8", "rel16"},
         NEW opts, NEW a, format_operands(i, opts, a) # << >>
  PROVE  format_operands(i, opts, a)[1] = OffsetText(NearOffset(i, a, i.operand1.value[1]))
<1> DEFINE ops == DecodedOperands(i)
           s   == _prefix_state(i, opts).segment
<1>1. Len(ops) = 1 /\ ops[1] = First(i)
  BY TargetIsAlone
<1> HIDE DEF ops, s
<1>2. format_operands(i, opts, a) = [k \in 1..Len(ops) |-> format_operand(i, ops[k], s, a)]
  BY DEF format_operands, ops, s
<1>3. format_operands(i, opts, a)[1] = format_operand(i, First(i), s, a)
  BY <1>1, <1>2
<1>4. First(i).kind = i.operand1.kind /\ First(i).value = i.operand1.value
  BY TargetIsAlone
<1> QED
  BY <1>3, <1>4, FormattedOffset

\* The two numbers of a near target, for a given segment and for none: the
\* aligned 64K of a branch that does not leave it is where it points.
Wrapped(a, s, n, d) == (a - s * 16 + n + d) % 65536

IsPairOf(a, c, s, w, z) ==
  /\ w = (z - s * 16) % 65536
  /\ c = NoSegment =>
       /\ s \in {k * 4096 : k \in 0..15}
       /\ z \div 65536 = a \div 65536 /\ a < 1048576 => s * 16 + w = z

\* Without a segment the aligned one and the low word are the target's byte,
\* with one the offset is the instruction pointer's own.
LEMMA NearPair ==
  ASSUME NEW a \in Nat, NEW n \in Nat, NEW d \in Int, NEW c \in Int,
         NEW s, s = IF c = NoSegment THEN AlignedSegment(a) ELSE c,
         NEW w, w = Wrapped(a, s, n, d),
         NEW z, z = a + n + d
  PROVE  IsPairOf(a, c, s, w, z)
<1> DEFINE q == a \div 65536
<1>1. q \in Nat /\ 65536 * q <= a /\ a < 65536 * q + 65536 /\ z \in Int
  BY SMT
<1>2. q % 16 \in 0..15
  BY <1>1, SMT
<1>3. s = IF c = NoSegment THEN (q % 16) * 4096 ELSE c
  BY SMT DEF AlignedSegment
<1>4. s \in Int
  BY <1>2, <1>3, SMT
<1>5. w = (z - s * 16) % 65536
  <2>1. a - s * 16 + n + d = z - s * 16
    BY <1>4, SMT
  <2> QED
    BY <2>1, SMT DEF Wrapped
<1>6. ASSUME c = NoSegment
      PROVE  /\ s \in {k * 4096 : k \in 0..15}
             /\ z \div 65536 = q /\ a < 1048576 => s * 16 + w = z
  <2>1. s = (q % 16) * 4096
    BY <1>3, <1>6, SMT
  <2>2. s \in {k * 4096 : k \in 0..15}
    BY <1>2, <2>1, SMT
  <2>3. ASSUME z \div 65536 = q, a < 1048576 PROVE s * 16 + w = z
    <3>1. q % 16 = q
      BY <1>1, <2>3, SMT
    <3>2. 65536 * q <= z /\ z < 65536 * q + 65536
      <4> HIDE DEF q
      <4> QED
        BY <1>1, <2>3, SMT
    <3>3. s * 16 = 65536 * q
      BY <1>1, <2>1, <3>1, SMT
    <3> HIDE DEF q
    <3>4. (z - s * 16) % 65536 = z - s * 16
      BY <1>1, <3>2, <3>3, SMT
    <3> QED
      BY <1>1, <1>4, <1>5, <3>4, SMT
  <2> QED
    BY <2>2, <2>3, SMT
<1> QED
  BY <1>5, <1>6, SMT DEF IsPairOf

\* A pair's numbers.
LEMMA PairNumbers == ASSUME NEW x, NEW y PROVE PairText(x, y).numbers = << x, y >>
BY DEF PairText, Text

\* An offset's number.
LEMMA OffsetNumbers == ASSUME NEW x PROVE OffsetText(x).numbers = << x >>
BY DEF OffsetText, Text

\* A far pointer's normalized pair names the same byte.
LEMMA FarPair ==
  ASSUME NEW n \in Int,
         NEW x, x = (n \div 65536) * 4096,
         NEW y, y = n % 65536
  PROVE  x % 4096 = 0 /\ x * 16 + y = n
<1> DEFINE q == n \div 65536
<1>1. q \in Int
  BY SMT
<1>2. y = n - 65536 * q
  BY SMT
<1>3. x = q * 4096
  BY SMT
<1> HIDE DEF q
<1>4. x \in Int /\ x % 4096 = 0 /\ x * 16 = 65536 * q
  BY <1>1, <1>3, SMT
<1> QED
  BY <1>1, <1>2, <1>4, SMT

\* The instruction pointer's offset does not see what is above its 16 bits.
LEMMA OffsetWraps ==
  ASSUME NEW a \in Nat, NEW n \in Nat, NEW d \in Int
  PROVE  ((a % 65536) + d + n) % 65536 = (a + n + d) % 65536
OBVIOUS

\* The length of an instruction is a number.
LEMMA LengthIsTyped == ASSUME NEW i, Decoded(i) PROVE length(i) \in Nat
BY FieldsAreTyped DEF Decoded, length

\* The target a text names is the byte the branch goes to, whatever the input,
\* the address it is loaded at and the code segment it is listed under.
THEOREM TargetsAreRight ==
  ASSUME DECODE = DecodeRows
  PROVE  RenderSpec => []TargetsNameTheirByte
<1> DEFINE i == result
           L == length(result)
           A == asked.address
           c == asked.code_segment
           v == result.operand1.value
           near == result.operand1.kind \in {"rel8", "rel16"}
<1>1. ASSUME Decoded(result), near PROVE L \in Nat /\ v[1] \in Int
  <2>1. ValueIs(result.operand1)
    BY <1>1, OperandsAre, SMT
  <2> QED
    BY <1>1, <2>1, LengthIsTyped, SMT DEF ValueIs
<1>2. ASSUME Decoded(result), A \in Nat, c \in Int, asked.style = "ghidra",
             NEW p, text = render_body(result, A, p, c)
      PROVE  TargetsNameTheirByte
  <2> SUFFICES ASSUME text.operands # << >>, Listed,
                      result.operand1.kind \in {"rel8", "rel16", "far16"}
               PROVE  LET o == text.operands[1]
                      IN /\ near /\ c # NoSegment =>
                              /\ o.numbers[1] = c
                              /\ o.numbers[2] = (Straight - o.numbers[1] * 16) % 65536
                         /\ near /\ c = NoSegment =>
                              /\ o.numbers[1] \in {s * 4096 : s \in 0..15}
                              /\ Straight \div 65536 = A \div 65536 /\ A < 1048576
                                   => LinearOf(o) = Straight
                         /\ result.operand1.kind = "far16" =>
                              /\ o.numbers[1] % 4096 = 0
                              /\ LinearOf(o) = v[1] * 16 + v[2]
    BY <1>2, SMTT(30) DEF TargetsNameTheirByte, Formatted
  <2>1. text.operands = render_operands(result, A, p, c)
    <3>1. result.is_complete /\ text.raised = "none"
      BY <1>2, SMT DEF Decoded, Listed
    <3>2. ASSUME IsRefused(A, c) PROVE FALSE
      <4>1. text = Rendered("ValueError", << >>, None, << >>)
        BY <1>2, <3>1, <3>2, Zenon DEF render_body
      <4> QED
        BY <3>1, <4>1, Zenon DEF Rendered
    <3> DEFINE r == IF Mnemonic(result) \in _STRING_OPS THEN _rep_suffix(result) ELSE << >>
               m == _MNEMONIC_OVERRIDES(Mnemonic(result))
               ops == render_operands(result, A, p, c)
    <3>3. text = Rendered("none", r, m, ops)
      BY <1>2, <3>1, <3>2, Zenon DEF render_body
    <3> HIDE DEF r, m, ops
    <3>4. text.operands = ops
      BY <3>3, Zenon DEF Rendered
    <3> QED
      BY <3>4 DEF ops
  <2>2. text.operands[1] = IF result.operand1.kind = "far16" THEN FarPointerText(v[1], v[2])
                           ELSE NearTargetText(result, A, c, v[1])
    BY <1>2, <2>1, ListedTarget, SMT
  <2>3. CASE near
    <3> DEFINE z == A + L + v[1]
               s == IF c = NoSegment THEN AlignedSegment(A) ELSE c
               w == Wrapped(A, s, L, v[1])
               o == text.operands[1]
    <3>1. o = PairText(s, w)
      BY <2>2, <2>3, SMT DEF NearTargetText, Wrapped
    <3>2. o.numbers[1] = s /\ o.numbers[2] = w /\ LinearOf(o) = s * 16 + w
      <4> HIDE DEF s, w
      <4>1. o.numbers = << s, w >>
        BY <3>1, PairNumbers, SMT
      <4> HIDE DEF o
      <4> QED
        BY <4>1, SMT DEF LinearOf
    <3>3. Straight = z
      BY SMT DEF Straight, NextIP
    <3>4. IsPairOf(A, c, s, w, z)
      <4>1. L \in Nat /\ v[1] \in Int /\ A \in Nat /\ c \in Int
        BY <1>1, <1>2, <2>3, Zenon
      <4> QED
        BY <4>1, NearPair, Zenon
    <3>5. c # NoSegment => s = c
      BY SMT
    <3> HIDE DEF w, z, s, o
    <3> QED
      BY <2>3, <3>2, <3>3, <3>4, <3>5, SMT DEF o, IsPairOf
  <2>4. CASE result.operand1.kind = "far16"
    <3> DEFINE o == text.operands[1]
               n == v[1] * 16 + v[2]
    <3>1. v[1] \in Int /\ v[2] \in Int
      <4>1. ValueIs(result.operand1)
        BY <1>2, OperandsAre, SMT
      <4> QED
        BY <2>4, <4>1, SMT DEF ValueIs
    <3>2. o = PairText((n \div 65536) * 4096, n % 65536)
      BY <2>2, <2>4, SMT DEF FarPointerText, normalize
    <3> DEFINE x == (n \div 65536) * 4096
               y == n % 65536
    <3>3. n \in Int
      BY <3>1, SMT
    <3>4. o = PairText(x, y)
      BY <3>2, SMT
    <3> HIDE DEF n
    <3>5. x % 4096 = 0 /\ x * 16 + y = n
      <4>1. x = (n \div 65536) * 4096 /\ y = n % 65536
        BY SMT
      <4> HIDE DEF x, y
      <4> QED
        BY <3>3, <4>1, FarPair, SMT
    <3>6. o.numbers[1] % 4096 = 0 /\ LinearOf(o) = n
      <4> HIDE DEF x, y
      <4>1. o.numbers = << x, y >>
        BY <3>4, PairNumbers, SMT
      <4> HIDE DEF o
      <4> QED
        BY <3>5, <4>1, SMT DEF LinearOf
    <3> QED
      BY <2>4, <3>6, SMT DEF n
  <2> QED
    BY <2>3, <2>4, SMT
<1>3. ASSUME Decoded(result), A \in Nat, asked.style = "nasm",
             text = format_instruction(result, asked.options, A)
      PROVE  TargetsNameTheirByte
  <2> SUFFICES ASSUME text.operands # << >>, Formatted, near
               PROVE  text.operands[1].numbers[1] = Straight % 65536
    BY <1>3, SMT DEF TargetsNameTheirByte, Listed
  <2>1. text.operands = format_operands(result, asked.options, A)
    <3>1. ~asked.options.mnemonic_only /\ text.operands # << >>
      BY SMT DEF Formatted
    <3> DEFINE m == format_mnemonic(result, asked.options)
               p == (IF result.is_complete THEN << >> ELSE << "(bad)" >>)
                      \o format_prefixes(result, asked.options)
               ops == format_operands(result, asked.options, A)
    <3>2. text = IF Mnemonic(result) = "Invalid" THEN Rendered("none", << "(bad)" >>, None, << >>)
                 ELSE Rendered("none", p, m, IF operands_suppressed(result) THEN << >> ELSE ops)
      BY <1>3, <3>1, Zenon DEF format_instruction
    <3> HIDE DEF m, p, ops
    <3> QED
      BY <3>1, <3>2, Zenon DEF Rendered, ops
  <2>2. text.operands[1] = OffsetText(NearOffset(result, A, v[1]))
    BY <1>3, <2>1, FormattedTarget, SMT
  <2>3. NearOffset(result, A, v[1]) = (A + L + v[1]) % 65536
    BY <1>1, <1>3, OffsetWraps, SMT DEF NearOffset
  <2> QED
    <3>1. Straight = A + L + v[1]
      BY SMT DEF Straight, NextIP
    <3> DEFINE x == (A + L + v[1]) % 65536
               o == text.operands[1]
    <3>2. o = OffsetText(x)
      BY <2>2, <2>3, SMT
    <3> HIDE DEF x
    <3>3. o.numbers = << x >>
      BY <3>2, OffsetNumbers, SMT
    <3> HIDE DEF o
    <3>4. o.numbers[1] = x
      BY <3>3, SMT
    <3> QED
      BY <3>1, <3>4, SMT DEF x, o
<1>4. ASSUME asked = Nothing, text = NoText PROVE TargetsNameTheirByte
  <2>1. text.operands = << >>
    BY <1>4, Zenon DEF NoText, Rendered
  <2> QED
    BY <2>1, SMT DEF TargetsNameTheirByte
<1>5. TypeOK /\ PartsInPlace /\ RowInForce /\ TextIsAnswer => TargetsNameTheirByte
  BY <1>2, <1>3, <1>4, ReturnedIsDecoded, SMT DEF TextIsAnswer
<1> QED
  BY <1>5, RenderingIsDecoding, TypeCorrect, PartsHold, RowHolds, TextHolds, PTL

-----------------------------------------------------------------------------
(* Names.                                                                  *)

\* What a name never is.
NoNames == Placeholders \union {"INVALID", "LOCK", None}

\* The names a style gives that are none of the table.
StyleText ==
  {"JC", "JNC", "JGE", "JG", "JA", "CALL", "JMP", "XLATB", "JAE", "JE", "JNE",
   "SETE", "SETNE", "SETGE", "SETG", "SETA", "SETAE"}

\* No name is empty.
LEMMA NoneIsNoName ==
  /\ None \notin ArithmeticText /\ None \notin {"INC", "DEC", "PUSH", "POP"} \union JumpText
  /\ None \notin MoveText /\ None \notin ControlText /\ None \notin GroupText
  /\ None \notin StyleText
BY Zenon DEF None, ArithmeticText, JumpText, MoveText, ControlText, GroupText, StyleText

\* What is no name in each part of the table.
LEMMA PartsAreNamed ==
  ASSUME NEW m \in NoNames
  PROVE  /\ m \in ArithmeticText => m = "Prefix"
         /\ m \notin {"INC", "DEC", "PUSH", "POP"} \union JumpText
         /\ m \in MoveText => m = "Group"
         /\ m \in ControlText => m \in {"Group", "LOCK", "Prefix"}
         /\ m \notin GroupText
<1>1. CASE m = None
  BY <1>1, NoneIsNoName, Zenon
<1>2. CASE m # None
  BY <1>2 DEF NoNames, Placeholders, ArithmeticText, JumpText, MoveText, ControlText, GroupText
<1> QED
  BY <1>1, <1>2

\* The names of the table are names, but for the bytes that are prefixes and the
\* opcodes that have a group.
LEMMA TableNames ==
  ASSUME NEW r \in Int, 0 <= r, r <= 351, RowMnemonic(r) \in NoNames
  PROVE  r < 256 /\ (r \in PrefixBytes \/ r \in {128, 129, 130, 131, 208, 209, 210, 211,
                                                 246, 247, 254, 255})
<1> DEFINE m == RowMnemonic(r)
<1>1. CASE r <= 63
  <2>1. m = ArithmeticMnemonic(r)
    BY <1>1, RowNames
  <2>2. /\ ArithmeticMnemonic(r) \in ArithmeticText
        /\ ArithmeticMnemonic(r) = "Prefix" => r \in SegmentPrefixes
    BY <1>1, ArithmeticMnemonics
  <2>3. r \in SegmentPrefixes
    BY <2>1, <2>2, PartsAreNamed, Zenon
  <2> QED
    BY <2>3 DEF PrefixBytes, SegmentPrefixes
<1>2. CASE 64 <= r /\ r <= 127
  <2>1. m = RegisterOrJumpMnemonic(r)
    BY <1>2, RowNames
  <2>2. RegisterOrJumpMnemonic(r) \in {"INC", "DEC", "PUSH", "POP"} \union JumpText
    BY <1>2, RegisterOrJumpMnemonics
  <2>3. m \notin {"INC", "DEC", "PUSH", "POP"} \union JumpText
    BY PartsAreNamed
  <2> HIDE DEF m
  <2> QED
    BY <2>1, <2>2, <2>3
<1>3. CASE 128 <= r /\ r <= 191
  <2>1. m = MoveMnemonic(r)
    BY <1>3, RowNames
  <2>2. MoveMnemonic(r) \in MoveText
    BY <1>3, MoveMnemonics
  <2>3. MoveMnemonic(r) = "Group"
    BY <2>1, <2>2, PartsAreNamed, Zenon
  <2>4. r <= 131
    BY <1>3, <2>3, MoveMnemonics
  <2> QED
    BY <1>3, <2>4
<1>4. CASE 192 <= r /\ r <= 255
  <2>1. m = ControlMnemonic(r)
    BY <1>4, RowNames
  <2> DEFINE n == ControlMnemonic(r)
  <2>2. /\ n \in ControlText
        /\ n = "Group" => r \in {208, 209, 210, 211, 246, 247, 254, 255}
        /\ n = "LOCK" => r \in {240, 241}
        /\ n = "Prefix" => r \in {242, 243}
    BY <1>4, ControlMnemonics
  <2> HIDE DEF n
  <2>3. n \in {"Group", "LOCK", "Prefix"}
    BY <2>1, <2>2, PartsAreNamed, Zenon DEF n
  <2> QED
    BY <1>4, <2>2, <2>3 DEF PrefixBytes
<1>5. CASE 256 <= r
  <2> DEFINE g == 1 + (r - 256) \div 8
             e == r % 8
  <2>1. m = GroupMnemonic(g, e) /\ g \in 1..12 /\ e \in 0..7
    BY <1>5, RowNames, GroupIndex
  <2> HIDE DEF g, e
  <2>2. GroupMnemonic(g, e) \in GroupText
    BY <2>1, GroupMnemonics
  <2>3. m \notin GroupText
    BY PartsAreNamed
  <2> HIDE DEF m
  <2> QED
    BY <2>1, <2>2, <2>3
<1> QED
  BY <1>1, <1>2, <1>3, <1>4, <1>5

\* An instruction has a name: its opcode is no prefix, and the row of a group's
\* opcode is one of the group.
LEMMA InstructionsAreNamed ==
  ASSUME NEW i, Decoded(i), DECODE = DecodeRows, PrefixFlags = PrefixBytes
  PROVE  Mnemonic(i) \notin NoNames
<1> DEFINE r == RowOf(i)
<1>1. /\ r \in Int /\ 0 <= r /\ r <= 351
      /\ r < 256 => r = i.opcode /\ GroupOf(i.opcode) = 0
  BY RowIs DEF Decoded
<1>2. i.opcode \notin PrefixBytes
  BY DEF Decoded, OpcodeIsTaken
<1> HIDE DEF r
<1>3. ASSUME RowMnemonic(r) \in NoNames PROVE FALSE
  BY <1>1, <1>2, <1>3, TableNames, GroupsAre
<1> QED
  BY <1>3 DEF Mnemonic, r

\* The styles give a name another name.
LEMMA StylesName ==
  ASSUME NEW m, m \notin NoNames, NEW opts, NEW i, m = Mnemonic(i)
  PROVE  _MNEMONIC_OVERRIDES(m) \notin NoNames /\ format_mnemonic(i, opts) \notin NoNames
<1>1. _MNEMONIC_OVERRIDES(m) \notin NoNames
  BY NoneIsNoName DEF _MNEMONIC_OVERRIDES, NoNames, Placeholders, StyleText
<1>2. mnemonic_to_str(m) \notin NoNames
  BY NoneIsNoName DEF mnemonic_to_str, NoNames, Placeholders, StyleText
<1>3. ASSUME m \in DOMAIN _ICED_ALIASES PROVE _ICED_ALIASES[m] \notin NoNames
  BY <1>3, NoneIsNoName DEF _ICED_ALIASES, NoNames, Placeholders, StyleText
<1> QED
  BY <1>1, <1>2, <1>3, Zenon DEF format_mnemonic

\* Prefix set and table agree on what is an instruction: no line of either
\* style, whatever the input, shows a prefix, a group or another member of the
\* enumeration that stands for none.
THEOREM NamesAreInstructions ==
  ASSUME DECODE = DecodeRows, PrefixFlags = PrefixBytes
  PROVE  RenderSpec => []PlaceholdersNeverPrint
<1> DEFINE m == Mnemonic(result)
<1>1. ASSUME Decoded(result), NEW a, NEW p, NEW c, text = render_body(result, a, p, c),
             text.raised = "none"
      PROVE  text.mnemonic \notin NoNames
  <2>1. result.is_complete
    BY <1>1 DEF Decoded
  <2>2. ASSUME IsRefused(a, c) PROVE FALSE
    <3>1. text = Rendered("ValueError", << >>, None, << >>)
      BY <1>1, <2>1, <2>2, Zenon DEF render_body
    <3>2. text.raised = "ValueError"
      BY <3>1, Zenon DEF Rendered
    <3> QED
      BY <1>1, <3>2
  <2>3. text.mnemonic = _MNEMONIC_OVERRIDES(m)
    BY <1>1, <2>1, <2>2, Zenon DEF render_body, Rendered
  <2>4. m \notin NoNames
    BY <1>1, InstructionsAreNamed
  <2> QED
    BY <2>3, <2>4, StylesName
<1>2. ASSUME Decoded(result), NEW a, NEW o, text = format_instruction(result, o, a)
      PROVE  text.mnemonic \notin NoNames
  <2>1. m \notin NoNames
    BY <1>2, InstructionsAreNamed
  <2>2. m # "Invalid"
    BY <2>1 DEF NoNames, Placeholders
  <2>3. text.mnemonic = format_mnemonic(result, o)
    BY <1>2, <2>2, Zenon DEF format_instruction, Rendered
  <2> QED
    BY <2>1, <2>3, StylesName
<1>3. TypeOK /\ PartsInPlace /\ RowInForce /\ TextIsAnswer => PlaceholdersNeverPrint
  <2> SUFFICES ASSUME TypeOK, PartsInPlace, RowInForce, TextIsAnswer,
                      asked.style # "none", text.raised = "none"
               PROVE  text.mnemonic \notin NoNames
    BY DEF PlaceholdersNeverPrint, NoNames
  <2>1. asked # Nothing
    BY NothingIsTyped
  <2> QED
    BY <1>1, <1>2, <2>1, ReturnedIsDecoded DEF TextIsAnswer
<1> QED
  BY <1>3, RenderingIsDecoding, TypeCorrect, PartsHold, RowHolds, TextHolds, PTL
-----------------------------------------------------------------------------
(* What the decoder promises, while it is rendered.                        *)

\* The bytes of an instruction to print are its parts, one behind the other.
THEOREM RenderedPartsTile == RenderSpec => []PartsTileInstruction
BY RenderingIsDecoding, PartsTile, PTL

\* The numbers a renderer is given are the ones the bytes spell.
THEOREM RenderedNumbersAreSpelt ==
  ASSUME DECODE = DecodeRows
  PROVE  RenderSpec => []OperandsSpellTheirBytes
<1>1. Spec => []OperandsSpellTheirBytes
  BY ShippedNumbersAreSpelt
<1> QED
  BY <1>1, RenderingIsDecoding, PTL

-----------------------------------------------------------------------------
(* What the renderers need of a row, by its name and by its templates.     *)

\* Where the operations are whose operands are implied, dropped or exchanged.
LEMMA NamedRows ==
  ASSUME NEW r \in Int, 0 <= r, r <= 351
  PROVE  LET m == RowMnemonic(r)
         IN /\ m \in _STRING_OPS => 164 <= r /\ r <= 175 /\ r # 168 /\ r # 169
            /\ m = "XLAT" => r = 215
            /\ m = "NOP"  => r = 144
            /\ m = "XCHG" => r = 134 \/ r = 135 \/ (145 <= r /\ r <= 151)
            /\ m = "AAM" => r = 212
            /\ m = "AAD" => r = 213
            /\ m = "LES" <=> r = 196
            /\ m = "LDS" <=> r = 197
            /\ m = "LEA" <=> r = 141
            /\ m \in _SHIFT_MNEMONICS => 288 <= r /\ r <= 319
            /\ m = "CALLF" => r = 154 \/ 336 <= r
            /\ m = "JMPF"  => r = 234 \/ 336 <= r
            /\ r = 154 => m = "CALLF"
            /\ r = 234 => m = "JMPF"
            /\ r = 142 => m = "MOV"
<1> DEFINE m == RowMnemonic(r)
<1>1. CASE r <= 63
  <2>1. m = ArithmeticMnemonic(r) /\ ArithmeticMnemonic(r) \in ArithmeticText
    BY <1>1, RowNames, ArithmeticMnemonics
  <2>2. m \in ArithmeticText
    BY <2>1
  <2>3. m \notin _STRING_OPS \union _SHIFT_MNEMONICS
           \union {"XLAT", "NOP", "XCHG", "AAM", "AAD", "LES", "LDS", "LEA", "CALLF", "JMPF"}
    <3> HIDE DEF m
    <3> QED
      BY <2>2 DEF ArithmeticText, _STRING_OPS, _STOS, _SCAS, _INS, _SHIFT_MNEMONICS
  <2> HIDE DEF m
  <2> QED
    BY <1>1, <2>3 DEF m
<1>2. CASE 64 <= r /\ r <= 127
  <2>1. m \in {"INC", "DEC", "PUSH", "POP"} \union JumpText
    BY <1>2, RowNames, RegisterOrJumpMnemonics
  <2>2. m \notin _STRING_OPS \union _SHIFT_MNEMONICS
           \union {"XLAT", "NOP", "XCHG", "AAM", "AAD", "LES", "LDS", "LEA", "CALLF", "JMPF"}
    <3> HIDE DEF m
    <3> QED
      BY <2>1 DEF JumpText, _STRING_OPS, _STOS, _SCAS, _INS, _SHIFT_MNEMONICS
  <2> HIDE DEF m
  <2> QED
    BY <1>2, <2>2 DEF m
<1>3. CASE 128 <= r /\ r <= 191
  <2>1. m = MoveMnemonic(r)
    BY <1>3, RowNames
  <2>2. /\ m \in MoveText
        /\ m = "XCHG" => r = 134 \/ r = 135 \/ (145 <= r /\ r <= 151)
        /\ m = "LEA" <=> r = 141
        /\ m = "NOP" <=> r = 144
        /\ m = "CALLF" <=> r = 154
        /\ m \in _STRING_OPS => 164 <= r /\ r <= 175 /\ r # 168 /\ r # 169
    BY <1>3, <2>1, MoveMnemonics
  <2>3. r = 142 => m = "MOV"
    BY <2>1 DEF MoveMnemonic
  <2>4. m \notin _SHIFT_MNEMONICS \union {"XLAT", "AAM", "AAD", "LES", "LDS", "JMPF"}
    <3> HIDE DEF m
    <3> QED
      BY <2>2 DEF MoveText, _SHIFT_MNEMONICS
  <2> HIDE DEF m
  <2> QED
    BY <1>3, <2>2, <2>3, <2>4 DEF m
<1>4. CASE 192 <= r /\ r <= 255
  <2>1. m = ControlMnemonic(r)
    BY <1>4, RowNames
  <2>2. /\ m \in ControlText
        /\ m = "LES" <=> r = 196
        /\ m = "LDS" <=> r = 197
        /\ m = "AAM" <=> r = 212
        /\ m = "AAD" <=> r = 213
        /\ m = "XLAT" <=> r = 215
        /\ m = "JMPF" <=> r = 234
    BY <1>4, <2>1, ControlMnemonics
  <2>3. m \notin _STRING_OPS \union _SHIFT_MNEMONICS \union {"NOP", "XCHG", "LEA", "CALLF"}
    <3> HIDE DEF m
    <3> QED
      BY <2>2 DEF ControlText, _STRING_OPS, _STOS, _SCAS, _INS, _SHIFT_MNEMONICS
  <2> HIDE DEF m
  <2> QED
    BY <1>4, <2>2, <2>3 DEF m
<1>5. CASE 256 <= r
  <2> DEFINE g == 1 + (r - 256) \div 8
             e == r % 8
  <2>1. m = GroupMnemonic(g, e) /\ g \in 1..12 /\ e \in 0..7
    BY <1>5, RowNames, GroupIndex
  <2>2. /\ g \in 5..8 => 288 <= r /\ r <= 319
        /\ g \in {11, 12} => 336 <= r
    BY <1>5
  <2> HIDE DEF g, e
  <2>3. /\ m \in GroupText
        /\ m \in _SHIFT_MNEMONICS => g \in 5..8
        /\ m \in {"CALLF", "JMPF"} => g \in {11, 12}
    BY <2>1, GroupMnemonics
  <2>4. m \notin _STRING_OPS
           \union {"XLAT", "NOP", "XCHG", "AAM", "AAD", "LES", "LDS", "LEA"}
    <3> HIDE DEF m
    <3> QED
      BY <2>3 DEF GroupText, _STRING_OPS, _STOS, _SCAS, _INS
  <2> HIDE DEF m
  <2> QED
    BY <1>5, <2>2, <2>3, <2>4 DEF m
<1> QED
  BY <1>1, <1>2, <1>3, <1>4, <1>5


\* The operands of those rows.
LEMMA NamedPairs ==
  ASSUME NEW r \in Int, 0 <= r, r <= 351
  PROVE  LET pair == Row(r).operands
         IN /\ (164 <= r /\ r <= 175 /\ r # 168 /\ r # 169) \/ r = 215 => pair = <<"NONE", "NONE">>
            /\ r = 134 \/ r = 135 \/ r = 142 \/ (144 <= r /\ r <= 151) =>
                 pair[1] # "NONE" /\ pair[2] # "NONE"
            /\ r = 141 \/ r = 196 \/ r = 197 => pair = <<"REG16", "MODRM16">>
            /\ r = 160 => pair = <<"FIXED8", "OFF8">>
            /\ r = 161 => pair = <<"FIXED16", "OFF16">>
            /\ r = 162 => pair = <<"OFF8", "FIXED8">>
            /\ r = 163 => pair = <<"OFF16", "FIXED16">>
            /\ r = 212 \/ r = 213 => pair = <<"IMM8", "NONE">>
            /\ r = 154 \/ r = 234 => pair = <<"FAR", "NONE">>
<1> DEFINE pair == Row(r).operands
<1>1. CASE 128 <= r /\ r <= 191
  <2>1. pair = MoveOperands(r)
    BY <1>1, RowOperands
  <2> HIDE DEF pair
  <2>2. 164 <= r /\ r <= 175 /\ r # 168 /\ r # 169 => pair = <<"NONE", "NONE">>
    BY <2>1 DEF MoveOperands
  <2>3. r = 134 \/ r = 135 \/ r = 142 \/ (144 <= r /\ r <= 151) =>
          pair[1] # "NONE" /\ pair[2] # "NONE"
    <3>1. r = 134 => pair = <<"REG8", "MODRM8">>
      BY <2>1 DEF MoveOperands
    <3>2. r = 135 => pair = <<"REG16", "MODRM16">>
      BY <2>1 DEF MoveOperands
    <3>3. r = 142 => pair = <<"SREG", "MODRM16">>
      BY <2>1 DEF MoveOperands
    <3>4. (144 <= r /\ r <= 151) => pair = <<"FIXED16", "FIXED16">>
      BY <2>1 DEF MoveOperands
    <3> QED
      BY <3>1, <3>2, <3>3, <3>4
  <2>4. /\ r = 141 => pair = <<"REG16", "MODRM16">>
        /\ r = 160 => pair = <<"FIXED8", "OFF8">>
        /\ r = 161 => pair = <<"FIXED16", "OFF16">>
        /\ r = 162 => pair = <<"OFF8", "FIXED8">>
        /\ r = 163 => pair = <<"OFF16", "FIXED16">>
        /\ r = 154 => pair = <<"FAR", "NONE">>
    BY <2>1, SMTT(30) DEF MoveOperands
  <2> QED
    BY <1>1, <2>2, <2>3, <2>4 DEF pair
<1>2. CASE 192 <= r /\ r <= 255
  <2>1. pair = ControlOperands(r)
    BY <1>2, RowOperands
  <2> HIDE DEF pair
  <2>2. /\ r = 215 => pair = <<"NONE", "NONE">>
        /\ r = 196 \/ r = 197 => pair = <<"REG16", "MODRM16">>
        /\ r = 212 \/ r = 213 => pair = <<"IMM8", "NONE">>
        /\ r = 234 => pair = <<"FAR", "NONE">>
    BY <2>1 DEF ControlOperands
  <2> QED
    BY <1>2, <2>2 DEF pair
<1>3. CASE r < 128 \/ r > 255
  BY <1>3
<1> QED
  BY <1>1, <1>2, <1>3

\* Which rows have a target or an offset, and what stands beside it.
LEMMA PairRows ==
  ASSUME NEW r \in Int, 0 <= r, r <= 351
  PROVE  LET pair == Row(r).operands
         IN /\ pair[1] = "NONE" => pair[2] = "NONE"
            /\ pair[1] = "FAR" => r = 154 \/ r = 234
            /\ pair[2] \notin {"REL8", "REL16", "FAR"}
            /\ pair[1] \in {"OFF8", "OFF16"} \/ pair[2] \in {"OFF8", "OFF16"} =>
                 160 <= r /\ r <= 163
<1> DEFINE pair == Row(r).operands
<1>1. CASE r <= 63
  <2>1. pair = ArithmeticOperands(r) /\ r % 8 \in 0..7
    BY <1>1, RowOperands
  <2> HIDE DEF pair
  <2>2. pair \in {<<"MODRM8", "REG8">>,   <<"MODRM16", "REG16">>, <<"REG8", "MODRM8">>,
                  <<"REG16", "MODRM16">>, <<"FIXED8", "IMM8">>,   <<"FIXED16", "IMM16">>,
                  <<"FIXED16", "NONE">>,  <<"NONE", "NONE">>}
    BY <2>1 DEF ArithmeticOperands
  <2> QED
    BY <2>2 DEF pair
<1>2. CASE 64 <= r /\ r <= 127
  <2>1. pair = RegisterAndJumpOperands(r)
    BY <1>2, RowOperands
  <2> HIDE DEF pair
  <2>2. pair \in {<<"FIXED16", "NONE">>, <<"REL8", "NONE">>}
    BY <2>1 DEF RegisterAndJumpOperands
  <2> QED
    BY <2>2 DEF pair
<1>3. CASE 128 <= r /\ r <= 191
  <2>1. pair = MoveOperands(r)
    BY <1>3, RowOperands
  <2> HIDE DEF pair
  <2>2. pair[2] = "NONE" \/ pair[1] # "NONE"
    BY <2>1, Zenon DEF MoveOperands
  <2>3. pair[1] = "FAR" => r = 154
    BY <2>1 DEF MoveOperands
  <2>4. pair[2] \notin {"REL8", "REL16", "FAR"}
    BY <2>1 DEF MoveOperands
  <2>5. pair[1] \in {"OFF8", "OFF16"} => 160 <= r /\ r <= 163
    BY <2>1 DEF MoveOperands
  <2>6. pair[2] \in {"OFF8", "OFF16"} => 160 <= r /\ r <= 163
    BY <2>1 DEF MoveOperands
  <2> QED
    BY <2>2, <2>3, <2>4, <2>5, <2>6 DEF pair
<1>4. CASE 192 <= r /\ r <= 255
  <2>1. pair = ControlOperands(r)
    BY <1>4, RowOperands
  <2> HIDE DEF pair
  <2>2. pair[2] = "NONE" \/ pair[1] # "NONE"
    BY <2>1, ZenonT(30) DEF ControlOperands
  <2>3. pair[1] = "FAR" => r = 234
    BY <2>1 DEF ControlOperands
  <2>4. pair[2] \notin {"REL8", "REL16", "FAR", "OFF8", "OFF16"}
    BY <2>1 DEF ControlOperands
  <2>5. pair[1] \notin {"OFF8", "OFF16"}
    BY <2>1 DEF ControlOperands
  <2> QED
    BY <2>2, <2>3, <2>4, <2>5 DEF pair
<1>5. CASE 256 <= r
  <2> DEFINE g == 1 + (r - 256) \div 8
             e == r % 8
  <2>1. pair = GroupOperands(g, e) /\ g \in 1..12 /\ e \in 0..7
    BY <1>5, RowOperands, GroupIndex
  <2> HIDE DEF g, e, pair
  <2>2. /\ pair[1] \in {"MODRM8", "MODRM16"}
        /\ pair[2] \in {"NONE", "IMM8", "IMM16", "IMM8SE", "FIXED8"}
    BY <2>1 DEF GroupOperands
  <2> QED
    BY <2>2 DEF pair
<1> QED
  BY <1>1, <1>2, <1>3, <1>4, <1>5

\* The shifts of the groups, and the steps of theirs.
LEMMA GroupPairs ==
  ASSUME NEW g \in 1..12, NEW e \in 0..7
  PROVE  LET r == 256 + (g - 1) * 8 + e
             pair == Row(r).operands
         IN /\ r \in Int /\ 256 <= r /\ r <= 351
            /\ pair[1] \in {"MODRM8", "MODRM16"}
            /\ g \in {5, 6} => pair[2] = "NONE"
            /\ g \in {7, 8} => pair[2] = "FIXED8"
            /\ g \in {11, 12} => pair[2] = "NONE"
            /\ g = 11 => pair[1] = "MODRM8"
            /\ g = 12 => pair[1] = "MODRM16"
            /\ RowMnemonic(r) = GroupMnemonic(g, e)
            /\ 288 <= r /\ r <= 319 => g \in 5..8
            /\ 336 <= r => g \in {11, 12}
<1> DEFINE r == 256 + (g - 1) * 8 + e
           pair == Row(r).operands
<1>1. /\ r \in Int /\ 256 <= r /\ r <= 351 /\ 1 + (r - 256) \div 8 = g /\ r % 8 = e
      /\ 288 <= r /\ r <= 319 => g \in 5..8
      /\ 336 <= r => g \in {11, 12}
  <2>1. r \in Int /\ 256 <= r /\ r <= 351 /\ 1 + (r - 256) \div 8 = g /\ r % 8 = e
    BY GroupIndexIs
  <2>2. /\ 288 <= r /\ r <= 319 => g \in 5..8
        /\ 336 <= r => g \in {11, 12}
    OBVIOUS
  <2> QED
    BY <2>1, <2>2
<1> HIDE DEF r
<1>2. pair = GroupOperands(g, e) /\ RowMnemonic(r) = GroupMnemonic(g, e)
  <2>1. /\ pair = GroupOperands(1 + (r - 256) \div 8, r % 8)
        /\ RowMnemonic(r) = GroupMnemonic(1 + (r - 256) \div 8, r % 8)
    BY <1>1, RowOperands, RowNames
  <2> QED
    BY <1>1, <2>1
<1> HIDE DEF pair
<1>3. /\ pair[1] \in {"MODRM8", "MODRM16"}
      /\ g \in {5, 6} => pair[2] = "NONE"
      /\ g \in {7, 8} => pair[2] = "FIXED8"
      /\ g \in {11, 12} => pair[2] = "NONE"
      /\ g = 11 => pair[1] = "MODRM8"
      /\ g = 12 => pair[1] = "MODRM16"
  BY <1>2 DEF GroupOperands
<1> QED
  BY <1>1, <1>2, <1>3 DEF r, pair

\* The registers of the accumulator's moves.
LEMMA FixedAccumulator ==
  ASSUME NEW r \in Int
  PROVE  /\ r = 160 => FixedRegisters(r)[1] = "AL"
         /\ r = 161 => FixedRegisters(r)[1] = "AX"
         /\ r = 162 => FixedRegisters(r)[2] = "AL"
         /\ r = 163 => FixedRegisters(r)[2] = "AX"
<1>1. r = 160 => FixedRegisters(r) = << "AL", None >>
  BY DEF FixedRegisters
<1>2. r = 161 => FixedRegisters(r) = << "AX", None >>
  BY DEF FixedRegisters
<1>3. r = 162 => FixedRegisters(r) = << None, "AL" >>
  BY DEF FixedRegisters
<1>4. r = 163 => FixedRegisters(r) = << None, "AX" >>
  BY DEF FixedRegisters
<1> QED
  BY <1>1, <1>2, <1>3, <1>4

-----------------------------------------------------------------------------
(* Prefixes.                                                               *)

\* Where a sequence has an element of S it has a last one.
LEMMA LastIsLast ==
  ASSUME NEW bytes, bytes \in Seq(Byte), NEW S, At(bytes, S) # {}
  PROVE  \E k \in At(bytes, S) : \A j \in At(bytes, S) : j <= k
<1> DEFINE R == {ss \in Nat \X Nat : ss[1] < ss[2]}
           n == Len(bytes)
           A == At(bytes, S)
           T == {n - k : k \in A}
<1>1. n \in Nat /\ A \subseteq 1..n /\ A # {}
  BY LenProperties DEF At
<1> HIDE DEF n, A
<1>2. T \subseteq Nat /\ T # {}
  <2>1. ASSUME NEW k \in A PROVE n - k \in Nat
    <3>1. k \in 1..n
      BY <1>1
    <3> QED
      BY <1>1, <3>1
  <2> QED
    BY <1>1, <2>1
<1>3. IsWellFoundedOn(R, Nat)
  BY NatLessThanWellFounded DEF OpToRel
<1>4. PICK t \in T : \A y \in T : ~ (<< y, t >> \in R)
  <2> HIDE DEF R, T
  <2> QED
    BY <1>2, <1>3, WFMin
<1>5. PICK k \in A : t = n - k
  OBVIOUS
<1>6. ASSUME NEW j \in A PROVE j <= k
  <2>1. n - j \in T /\ t \in Nat /\ n - j \in Nat
    BY <1>2
  <2>2. ~(n - j < t)
    <3> HIDE DEF T
    <3> QED
      BY <1>4, <2>1
  <2>3. j \in 1..n /\ k \in 1..n
    BY <1>1
  <2> QED
    BY <1>1, <1>5, <2>2, <2>3
<1> QED
  BY <1>6 DEF A

\* The byte a walk leaves in force is the latest one.
LEMMA LatestIsLastIn ==
  ASSUME NEW bytes, bytes \in Seq(Byte), NEW S
  PROVE  /\ Latest(bytes, S) = LastIn(bytes, S)
         /\ At(bytes, S) = {} => Latest(bytes, S) = {}
         /\ At(bytes, S) # {} => \E k \in At(bytes, S) : Latest(bytes, S) = {bytes[k]}
<1> DEFINE A == At(bytes, S)
           B == {k \in DOMAIN bytes :
                   bytes[k] \in S /\ \A j \in DOMAIN bytes : j > k => bytes[j] \notin S}
<1>1. \A k \in DOMAIN bytes : k \in Int
  <2>1. Len(bytes) \in Nat /\ DOMAIN bytes = 1..Len(bytes)
    BY LenProperties
  <2> QED
    BY <2>1
<1>2. B = {k \in A : \A j \in A : j <= k}
  BY <1>1 DEF At
<1>3. Latest(bytes, S) = {bytes[k] : k \in B}
  BY Zenon DEF Latest
<1>4. CASE A = {}
  <2>1. B = {}
    BY <1>2, <1>4
  <2>2. Latest(bytes, S) = {}
    BY <1>3, <2>1
  <2> QED
    BY <1>4, <2>2 DEF LastIn
<1>5. CASE A # {}
  <2>1. PICK k \in A : \A j \in A : j <= k
    BY <1>5, LastIsLast
  <2>2. A \subseteq DOMAIN bytes
    BY DEF At
  <2>3. \A l \in A : (\A j \in A : j <= l) => l = k
    <3> SUFFICES ASSUME NEW l \in A, \A j \in A : j <= l PROVE l = k
      OBVIOUS
    <3>1. l <= k /\ k <= l /\ l \in Int /\ k \in Int
      BY <1>1, <2>1, <2>2
    <3> QED
      BY <3>1
  <2>4. B = {k}
    BY <1>2, <2>1, <2>3
  <2>5. (CHOOSE l \in A : \A j \in A : j <= l) = k
    <3> HIDE DEF A
    <3> QED
      BY <2>1, <2>3
  <2>6. Latest(bytes, S) = {bytes[k]}
    BY <1>3, <2>4
  <2>7. LastIn(bytes, S) = {bytes[k]}
    BY <1>5, <2>5, Zenon DEF LastIn
  <2> QED
    BY <1>5, <2>1, <2>6, <2>7
<1> QED
  BY <1>4, <1>5

\* The renderers' override is the processor's.
LEMMA OverrideIs ==
  ASSUME NEW i, i.prefix_bytes \in Seq(Byte)
  PROVE  _segment_override(i) = Override(i) /\ Override(i) \in {None} \union Segments
<1> DEFINE b == i.prefix_bytes
           S == {38, 46, 54, 62}
           p == Latest(b, S)
           last == LastIn(b, S)
<1>1. p = last
  BY LatestIsLastIn
<1>2. p = {} \/ \E x \in S : p = {x}
  <2>1. CASE At(b, S) = {}
    BY <2>1, LatestIsLastIn
  <2>2. CASE At(b, S) # {}
    <3>1. PICK k \in At(b, S) : p = {b[k]}
      BY <2>2, LatestIsLastIn
    <3>2. b[k] \in S
      BY DEF At
    <3> QED
      BY <3>1, <3>2
  <2> QED
    BY <2>1, <2>2
<1>3. Override(i) = CASE p = {38} -> "ES" [] p = {46} -> "CS" [] p = {54} -> "SS"
                      [] p = {62} -> "DS" [] p = {} -> None
  BY Zenon DEF Override
<1>4. _segment_override(i) = IF last = {} THEN None ELSE _SEGMENT_PREFIXES[CHOOSE x \in last : TRUE]
  BY Zenon DEF _segment_override
<1> HIDE DEF p, last
<1>5. \A x : (CHOOSE y \in {x} : TRUE) = x
  OBVIOUS
<1>6. /\ _SEGMENT_PREFIXES[38] = "ES" /\ _SEGMENT_PREFIXES[46] = "CS"
      /\ _SEGMENT_PREFIXES[54] = "SS" /\ _SEGMENT_PREFIXES[62] = "DS"
  BY DEF _SEGMENT_PREFIXES
<1>7. CASE p = {}
  <2>1. p # {38} /\ p # {46} /\ p # {54} /\ p # {62}
    BY <1>7
  <2> QED
    BY <1>1, <1>3, <1>4, <1>7, <2>1, Zenon
<1>8. ASSUME NEW x \in S, p = {x} PROVE _segment_override(i) = _SEGMENT_PREFIXES[x]
  <2>1. p # {}
    BY <1>8
  <2>2. (CHOOSE y \in p : TRUE) = x
    BY <1>5, <1>8, Zenon
  <2> QED
    BY <1>1, <1>4, <2>1, <2>2, Zenon
<1>9. CASE p = {38}
  <2>4. 38 \in p /\ 46 \notin p /\ 54 \notin p /\ 62 \notin p
    BY <1>9
  <2>1. p # {} /\ p # {46} /\ p # {54} /\ p # {62}
    BY <2>4
  <2>2. Override(i) = "ES"
    BY <1>3, <1>9, <2>1, Zenon
  <2>3. _segment_override(i) = "ES"
    BY <1>6, <1>8, <1>9
  <2> QED
    BY <2>2, <2>3 DEF Segments
<1>10. CASE p = {46}
  <2>4. 46 \in p /\ 38 \notin p /\ 54 \notin p /\ 62 \notin p
    BY <1>10
  <2>1. p # {} /\ p # {38} /\ p # {54} /\ p # {62}
    BY <2>4
  <2>2. Override(i) = "CS"
    BY <1>3, <1>10, <2>1, Zenon
  <2>3. _segment_override(i) = "CS"
    BY <1>6, <1>8, <1>10
  <2> QED
    BY <2>2, <2>3 DEF Segments
<1>11. CASE p = {54}
  <2>4. 54 \in p /\ 38 \notin p /\ 46 \notin p /\ 62 \notin p
    BY <1>11
  <2>1. p # {} /\ p # {38} /\ p # {46} /\ p # {62}
    BY <2>4
  <2>2. Override(i) = "SS"
    BY <1>3, <1>11, <2>1, Zenon
  <2>3. _segment_override(i) = "SS"
    BY <1>6, <1>8, <1>11
  <2> QED
    BY <2>2, <2>3 DEF Segments
<1>12. CASE p = {62}
  <2>4. 62 \in p /\ 38 \notin p /\ 46 \notin p /\ 54 \notin p
    BY <1>12
  <2>1. p # {} /\ p # {38} /\ p # {46} /\ p # {54}
    BY <2>4
  <2>2. Override(i) = "DS"
    BY <1>3, <1>12, <2>1, Zenon
  <2>3. _segment_override(i) = "DS"
    BY <1>6, <1>8, <1>12
  <2> QED
    BY <2>2, <2>3 DEF Segments
<1> QED
  BY <1>2, <1>7, <1>9, <1>10, <1>11, <1>12


\* The repetition a string operation keeps.
LEMMA RepeatsAre ==
  ASSUME NEW i, i.prefix_bytes \in Seq(Byte), Mnemonic(i) \in _STRING_OPS
  PROVE  /\ Repeats(i) = LastIn(i.prefix_bytes, {242, 243})
         /\ 242 \notin Present(i) /\ 243 \notin Present(i) <=> Repeats(i) = {}
         /\ 242 \in Present(i) /\ 243 \notin Present(i) => Repeats(i) = {242}
         /\ 242 \notin Present(i) /\ 243 \in Present(i) => Repeats(i) = {243}
         /\ Repeats(i) \in {{}, {242}, {243}}
<1> DEFINE b == i.prefix_bytes
           S == {242, 243}
<1>1. Repeats(i) = Latest(b, S)
  BY Zenon DEF Repeats
<1>2. /\ 242 \in Present(i) <=> \E k \in DOMAIN b : b[k] = 242
      /\ 243 \in Present(i) <=> \E k \in DOMAIN b : b[k] = 243
  BY DEF Present
<1>3. At(b, S) = {k \in DOMAIN b : b[k] = 242 \/ b[k] = 243}
  BY DEF At
<1>4. CASE At(b, S) = {}
  <2>1. 242 \notin Present(i) /\ 243 \notin Present(i)
    BY <1>2, <1>3, <1>4
  <2>2. Repeats(i) = {}
    BY <1>1, <1>4, LatestIsLastIn
  <2> QED
    BY <1>1, <2>1, <2>2, LatestIsLastIn
<1>5. CASE At(b, S) # {}
  <2>1. PICK k \in At(b, S) : Latest(b, S) = {b[k]}
    BY <1>5, LatestIsLastIn
  <2>2. (b[k] = 242 /\ 242 \in Present(i)) \/ (b[k] = 243 /\ 243 \in Present(i))
    <3>1. k \in DOMAIN b /\ (b[k] = 242 \/ b[k] = 243)
      BY <1>3
    <3> QED
      BY <1>2, <3>1
  <2>3. Repeats(i) = {b[k]} /\ Repeats(i) # {}
    BY <1>1, <2>1, ZenonT(30)
  <2>4. Repeats(i) = LastIn(b, S)
    BY <1>1, LatestIsLastIn
  <2>5. CASE b[k] = 242 /\ 242 \in Present(i)
    BY <2>3, <2>4, <2>5
  <2>6. CASE b[k] = 243 /\ 243 \in Present(i)
    BY <2>3, <2>4, <2>6
  <2> QED
    BY <2>2, <2>5, <2>6
<1> QED
  BY <1>4, <1>5

\* What is said by no word and by one.
LEMMA SaidIs ==
  /\ Said(<< >>) = {}
  /\ \A x : Said(<< x >>) = {x}
<1>1. Said(<< >>) = {}
  BY DEF Said
<1>2. ASSUME NEW x PROVE Said(<< x >>) = {x}
  BY DEF Said
<1> QED
  BY <1>1, <1>2

\* The words of two texts are those of either.
LEMMA SaidJoins ==
  ASSUME NEW X, NEW s \in Seq(X), NEW t \in Seq(X)
  PROVE  Said(s \o t) = Said(s) \union Said(t)
<1>1. /\ Len(s) \in Nat /\ Len(t) \in Nat /\ s \o t \in Seq(X)
      /\ Len(s \o t) = Len(s) + Len(t)
      /\ \A k \in 1..(Len(s) + Len(t)) :
           (s \o t)[k] = IF k <= Len(s) THEN s[k] ELSE t[k - Len(s)]
  BY LenProperties, ConcatProperties
<1>2. DOMAIN s = 1..Len(s) /\ DOMAIN t = 1..Len(t) /\ DOMAIN (s \o t) = 1..(Len(s) + Len(t))
  BY <1>1, LenProperties
<1>3. ASSUME NEW x \in Said(s \o t) PROVE x \in Said(s) \union Said(t)
  <2>1. PICK k \in 1..(Len(s) + Len(t)) : x = (s \o t)[k]
    BY <1>2 DEF Said
  <2>2. CASE k <= Len(s)
    BY <1>1, <1>2, <2>1, <2>2 DEF Said
  <2>3. CASE ~(k <= Len(s))
    <3>1. k - Len(s) \in DOMAIN t /\ x = t[k - Len(s)]
      BY <1>1, <1>2, <2>1, <2>3
    <3> QED
      BY <3>1, Zenon DEF Said
  <2> QED
    BY <2>2, <2>3
<1>4. ASSUME NEW x \in Said(s) PROVE x \in Said(s \o t)
  <2>1. PICK k \in 1..Len(s) : x = s[k]
    BY <1>2 DEF Said
  <2>2. k \in DOMAIN (s \o t) /\ x = (s \o t)[k]
    BY <1>1, <1>2, <2>1
  <2> QED
    BY <2>2, Zenon DEF Said
<1>5. ASSUME NEW x \in Said(t) PROVE x \in Said(s \o t)
  <2>1. PICK k \in 1..Len(t) : x = t[k]
    BY <1>2 DEF Said
  <2>2. k + Len(s) \in 1..(Len(s) + Len(t)) /\ ~(k + Len(s) <= Len(s)) /\ k + Len(s) - Len(s) = k
    BY <1>1
  <2>3. x = (s \o t)[k + Len(s)]
    BY <1>1, <2>1, <2>2
  <2> QED
    BY <1>2, <2>2, <2>3, Zenon DEF Said
<1> QED
  BY <1>3, <1>4, <1>5

\* The repetition read from one word.
LEMMA RepeatWords ==
  /\ RepeatRead(<< >>) = {}
  /\ RepeatRead(<< "REPNE" >>) = {242}
  /\ RepeatRead(<< "REP" >>) = {243} /\ RepeatRead(<< "REPE" >>) = {243}
<1>1. RepeatRead(<< >>) = {}
  BY SaidIs DEF RepeatRead
<1>2. ASSUME NEW x, x \notin {"LOCK"} \union Segments
      PROVE  RepeatRead(<< x >>) = {IF x = "REPNE" THEN 242 ELSE 243}
  <2>1. Said(<< x >>) = {x}
    BY SaidIs
  <2>2. {x} \ ({"LOCK"} \union Segments) = {x}
    BY <1>2
  <2> QED
    BY <2>1, <2>2 DEF RepeatRead
<1>3. "REPNE" \notin {"LOCK"} \union Segments /\ "REP" \notin {"LOCK"} \union Segments
      /\ "REPE" \notin {"LOCK"} \union Segments
  BY DEF Segments
<1> QED
  BY <1>1, <1>2, <1>3

\* The suffix of a listed mnemonic is the repetition of its string operation,
\* unless both are among the prefixes.
LEMMA ListedRepeats ==
  ASSUME NEW i, i.prefix_bytes \in Seq(Byte), ~({242, 243} \subseteq Present(i))
  PROVE  RepeatRead(IF Mnemonic(i) \in _STRING_OPS THEN _rep_suffix(i) ELSE << >>) = Repeats(i)
<1> DEFINE m == Mnemonic(i)
<1>1. CASE m \notin _STRING_OPS
  BY <1>1, RepeatWords DEF Repeats
<1>2. CASE m \in _STRING_OPS
  <2>1. rep1_prefix(m) = "REPNE" /\ rep2_prefix(m) \in {"REP", "REPE"}
    BY <1>2 DEF rep1_prefix, rep2_prefix
  <2> DEFINE h2 == \E k \in 1..Len(i.prefix_bytes) : i.prefix_bytes[k] = 242
             h3 == \E k \in 1..Len(i.prefix_bytes) : i.prefix_bytes[k] = 243
  <2>2. (h2 <=> 242 \in Present(i)) /\ (h3 <=> 243 \in Present(i))
    <3>1. DOMAIN i.prefix_bytes = 1..Len(i.prefix_bytes)
      BY LenProperties
    <3> QED
      BY <3>1 DEF Present
  <2>3. _rep_suffix(i) = CASE h2 -> << rep1_prefix(m) >>
                           [] ~h2 /\ h3 -> << rep2_prefix(m) >>
                           [] OTHER -> << >>
    BY Zenon DEF _rep_suffix
  <2> HIDE DEF h2, h3
  <2>4. CASE h2
    <3>1. _rep_suffix(i) = << "REPNE" >> /\ Repeats(i) = {242}
      BY <1>2, <2>1, <2>2, <2>3, <2>4, RepeatsAre
    <3> QED
      BY <1>2, <3>1, RepeatWords
  <2>5. CASE ~h2 /\ h3
    <3>1. _rep_suffix(i) \in {<< "REP" >>, << "REPE" >>} /\ Repeats(i) = {243}
      BY <1>2, <2>1, <2>2, <2>3, <2>5, RepeatsAre
    <3> QED
      BY <1>2, <3>1, RepeatWords
  <2>6. CASE ~h2 /\ ~h3
    <3>1. _rep_suffix(i) = << >> /\ Repeats(i) = {}
      BY <1>2, <2>2, <2>3, <2>6, RepeatsAre
    <3> QED
      BY <1>2, <3>1, RepeatWords
  <2> QED
    BY <2>4, <2>5, <2>6
<1> QED
  BY <1>1, <1>2

-----------------------------------------------------------------------------
(* What is read of one printed operand.                                    *)

\* A register.
LEMMA ReadRegister ==
  ASSUME NEW t, NEW x, NEW next
  PROVE  OperandRead(t, RegisterText(x), next) = Register(x)
<1> DEFINE o == RegisterText(x)
<1>1. o.kind = "register" /\ o.registers = << x >>
  BY DEF RegisterText, Text
<1> HIDE DEF o
<1>2. OperandRead(t, o, next) = Register(o.registers[1])
  BY <1>1, SMT DEF OperandRead
<1> QED
  BY <1>1, <1>2 DEF o

\* A number.
LEMMA ReadNumber ==
  ASSUME NEW t, NEW x, NEW next
  PROVE  OperandRead(t, NumberText(x), next) = Number16(x)
<1> DEFINE o == NumberText(x)
<1>1. o.kind = "number" /\ o.numbers = << x >>
  BY DEF NumberText, Text
<1> HIDE DEF o
<1>2. OperandRead(t, o, next) = Number16(o.numbers[1])
  BY <1>1, SMT DEF OperandRead
<1>3. o.numbers[1] = x
  BY <1>1
<1> QED
  BY <1>2, <1>3 DEF o

\* Memory.
LEMMA ReadMemory ==
  ASSUME NEW t, NEW size, NEW s, NEW r, NEW n, NEW next
  PROVE  OperandRead(t, MemoryText(size, s, r, n), next) =
           MemoryAt(WidthRead(t, size), IF s = None THEN DefaultSegment(r) ELSE s, r, NumberOr0(n))
<1> DEFINE o == MemoryText(size, s, r, n)
<1>1. /\ o.kind = "memory" /\ o.size = size /\ o.segment = s /\ o.registers = r
      /\ o.numbers = n
  BY Zenon DEF MemoryText, Text
<1> HIDE DEF o
<1>2. OperandRead(t, o, next) =
        MemoryAt(WidthRead(t, o.size),
                 IF o.segment = None THEN DefaultSegment(o.registers) ELSE o.segment,
                 o.registers, NumberOr0(o.numbers))
  BY <1>1, SMT DEF OperandRead
<1> QED
  BY <1>1, <1>2, Zenon DEF o

\* The operand a string operation implies.
LEMMA ReadPointer ==
  ASSUME NEW t, NEW s, NEW r, NEW next
  PROVE  OperandRead(t, Text("pointer", None, s, r, << >>), next) =
           MemoryAt(0, IF s = None THEN DefaultSegment(r) ELSE s, r, 0)
<1> DEFINE o == Text("pointer", None, s, r, << >>)
<1>1. o.kind = "pointer" /\ o.segment = s /\ o.registers = r
  BY Zenon DEF Text
<1> HIDE DEF o
<1>2. OperandRead(t, o, next) =
        MemoryAt(0, IF o.segment = None THEN DefaultSegment(o.registers) ELSE o.segment,
                 o.registers, 0)
  BY <1>1, SMT DEF OperandRead
<1> QED
  BY <1>1, <1>2, Zenon DEF o

\* A target's distance, when the operation is not a far one.
Near(distance) == Meaning("near", 0, None, << >>, distance % 65536)
Far(n)         == Meaning("far", 0, None, << >>, n)

\* A pair.
LEMMA ReadPair ==
  ASSUME NEW t, NEW s, NEW w, NEW next
  PROVE  OperandRead(t, PairText(s, w), next) =
           IF t.mnemonic \in {"CALLF", "JMPF"} THEN Far(s * 16 + w) ELSE Near(s * 16 + w - next)
<1> DEFINE o == PairText(s, w)
<1>1. o.kind = "pair" /\ o.numbers = << s, w >>
  BY DEF PairText, Text
<1> HIDE DEF o
<1> DEFINE n == o.numbers
<1>2. n[1] = s /\ n[2] = w
  BY <1>1
<1>3. OperandRead(t, o, next) =
        IF t.mnemonic \in {"CALLF", "JMPF"} THEN Far(n[1] * 16 + n[2])
        ELSE Near(n[1] * 16 + n[2] - next)
  BY <1>1, SMT DEF OperandRead, Far, Near
<1> HIDE DEF n
<1> QED
  BY <1>2, <1>3, SMT DEF o

\* An offset.
LEMMA ReadOffset ==
  ASSUME NEW t, NEW w, NEW next
  PROVE  OperandRead(t, OffsetText(w), next) = Near(w - next)
<1> DEFINE o == OffsetText(w)
<1>1. o.kind = "offset" /\ o.numbers = << w >>
  BY DEF OffsetText, Text
<1> HIDE DEF o
<1>2. o.numbers[1] = w
  BY <1>1
<1>3. OperandRead(t, o, next) = Near(o.numbers[1] - next)
  BY <1>1, SMT DEF OperandRead, Near
<1> QED
  BY <1>2, <1>3, SMT DEF o

-----------------------------------------------------------------------------
(* What each kind of operand means, and what is printed of it.             *)

\* A register means itself.
LEMMA MeaningOfRegister ==
  ASSUME NEW i, NEW o, o.kind \in RegisterKinds
  PROVE  OperandMeaning(i, o) = Register(o.register)
<1>1. CASE o.kind = "reg8"
  BY <1>1, SMT DEF OperandMeaning, RegisterKinds
<1>2. CASE o.kind = "reg16"
  BY <1>2, SMT DEF OperandMeaning, RegisterKinds
<1>3. CASE o.kind = "sreg16"
  BY <1>3, SMT DEF OperandMeaning, RegisterKinds
<1> QED
  BY <1>1, <1>2, <1>3 DEF RegisterKinds

\* An immediate means its value in 16 bits.
LEMMA MeaningOfNumber ==
  ASSUME NEW i, NEW o, o.kind \in {"imm8", "imm16", "imm8s"}
  PROVE  OperandMeaning(i, o) = Number16(o.value[1])
<1>1. CASE o.kind = "imm8"
  BY <1>1, SMT DEF OperandMeaning, RegisterKinds
<1>2. CASE o.kind = "imm16"
  BY <1>2, SMT DEF OperandMeaning, RegisterKinds
<1>3. CASE o.kind = "imm8s"
  BY <1>3, SMT DEF OperandMeaning, RegisterKinds
<1> QED
  BY <1>1, <1>2, <1>3

\* A target means its distance or the byte it names.
LEMMA MeaningOfTarget ==
  ASSUME NEW i, NEW o
  PROVE  /\ o.kind \in {"rel8", "rel16"} => OperandMeaning(i, o) = Near(o.value[1])
         /\ o.kind = "far16" => OperandMeaning(i, o) = Far(o.value[1] * 16 + o.value[2])
<1>1. CASE o.kind = "rel8"
  BY <1>1, SMT DEF OperandMeaning, RegisterKinds, Near
<1>2. CASE o.kind = "rel16"
  BY <1>2, SMT DEF OperandMeaning, RegisterKinds, Near
<1>3. CASE o.kind = "far16"
  BY <1>3, SMT DEF OperandMeaning, RegisterKinds, Far
<1> QED
  BY <1>1, <1>2, <1>3

\* A moved accumulator's memory is where the offset says.
LEMMA MeaningOfOffset ==
  ASSUME NEW i, NEW o
  PROVE  /\ o.kind = "offset8_16" =>
              OperandMeaning(i, o) = MemoryAt(8, In(i, "DS"), << >>, o.value[1])
         /\ o.kind = "offset16_16" =>
              OperandMeaning(i, o) = MemoryAt(16, In(i, "DS"), << >>, o.value[1])
<1>1. CASE o.kind = "offset8_16"
  BY <1>1, SMT DEF OperandMeaning, RegisterKinds
<1>2. CASE o.kind = "offset16_16"
  BY <1>2, SMT DEF OperandMeaning, RegisterKinds
<1> QED
  BY <1>1, <1>2

\* An addressing mode's registers are those both renderers print.
LEMMA MeaningOfAddress ==
  ASSUME NEW i, NEW o, o.kind = "addr16"
  PROVE  LET r == ADDR16_REGISTER_TEXT(o.value)
         IN OperandMeaning(i, o) =
              MemoryAt(IF Unsized(Mnemonic(i)) /\ o.value[4] = 16 THEN 0 ELSE o.value[4],
                       In(i, DefaultSegment(r)), r, o.value[3])
BY SMT DEF OperandMeaning, RegisterKinds, ADDR16_REGISTER_TEXT, IsDisp16

\* The listing prints a register.
LEMMA ListedRegister ==
  ASSUME NEW i, NEW o, NEW a, NEW c, o.kind \in RegisterKinds
  PROVE  _render_operand(i, o, a, c) =
           RegisterText(o.register)
<1> DEFINE shown == _render_operand(i, o, a, c)
           said == RegisterText(o.register)
<1>1. o.kind = "reg8" => shown = said
  BY SMT DEF _render_operand, RegisterKinds
<1>2. o.kind = "reg16" => shown = said
  BY SMT DEF _render_operand, RegisterKinds
<1>3. o.kind = "sreg16" => shown = said
  BY SMT DEF _render_operand, RegisterKinds
<1> HIDE DEF shown, said
<1>4. shown = said
  BY <1>1, <1>2, <1>3 DEF RegisterKinds
<1> QED
  BY <1>4 DEF shown, said

\* An immediate.
LEMMA ListedNumber ==
  ASSUME NEW i, NEW o, NEW a, NEW c, o.kind \in {"imm8", "imm16"}
  PROVE  _render_operand(i, o, a, c) =
           NumberText(o.value[1])
<1> DEFINE shown == _render_operand(i, o, a, c)
           said == NumberText(o.value[1])
<1>1. o.kind = "imm8" => shown = said
  BY SMT DEF _render_operand, RegisterKinds
<1>2. o.kind = "imm16" => shown = said
  BY SMT DEF _render_operand, RegisterKinds
<1> HIDE DEF shown, said
<1>3. shown = said
  BY <1>1, <1>2 DEF RegisterKinds
<1> QED
  BY <1>3 DEF shown, said

\* A signed one.
LEMMA ListedSigned ==
  ASSUME NEW i, NEW o, NEW a, NEW c, o.kind = "imm8s"
  PROVE  _render_operand(i, o, a, c) =
           NumberText(_immediate_value(i, o.value[1]))
BY SMT DEF _render_operand, RegisterKinds

\* The offset of a moved accumulator.
LEMMA ListedOffset ==
  ASSUME NEW i, NEW o, NEW a, NEW c, o.kind \in {"offset8_16", "offset16_16"},
         NEW w, w = o.value[1] % 65536
  PROVE  _render_operand(i, o, a, c) =
           MemoryText(None, ShownSegment(i), << >>, << w >>)
<1>1. CASE o.kind = "offset8_16"
  BY <1>1, SMT DEF _render_operand, RegisterKinds
<1>2. CASE o.kind = "offset16_16"
  BY <1>2, SMT DEF _render_operand, RegisterKinds
<1> QED
  BY <1>1, <1>2, SMT

\* An addressing mode.
LEMMA ListedAddress ==
  ASSUME NEW i, NEW o, NEW a, NEW c, o.kind = "addr16"
  PROVE  _render_operand(i, o, a, c) =
           _render_addr16(o.value, i, IF _supplies_own_size(i) THEN None
                                      ELSE IF o.value[4] = 8 THEN "byte" ELSE "word")
BY SMT DEF _render_operand, RegisterKinds

\* The assembler's style names the segment of every memory operand.
Named(s, default) == IF s # None THEN s ELSE default

\* It prints a register.
LEMMA FormattedRegister ==
  ASSUME NEW i, NEW o, NEW s, NEW a, o.kind \in RegisterKinds
  PROVE  format_operand(i, o, s, a) =
           RegisterText(o.register)
<1> DEFINE shown == format_operand(i, o, s, a)
           said == RegisterText(o.register)
<1>1. o.kind = "reg8" => shown = said
  BY SMT DEF format_operand, RegisterKinds
<1>2. o.kind = "reg16" => shown = said
  BY SMT DEF format_operand, RegisterKinds
<1>3. o.kind = "sreg16" => shown = said
  BY SMT DEF format_operand, RegisterKinds
<1> HIDE DEF shown, said
<1>4. shown = said
  BY <1>1, <1>2, <1>3 DEF RegisterKinds
<1> QED
  BY <1>4 DEF shown, said

\* An immediate.
LEMMA FormattedNumber ==
  ASSUME NEW i, NEW o, NEW s, NEW a, o.kind \in {"imm8", "imm16"}
  PROVE  format_operand(i, o, s, a) =
           NumberText(o.value[1])
<1> DEFINE shown == format_operand(i, o, s, a)
           said == NumberText(o.value[1])
<1>1. o.kind = "imm8" => shown = said
  BY SMT DEF format_operand, RegisterKinds
<1>2. o.kind = "imm16" => shown = said
  BY SMT DEF format_operand, RegisterKinds
<1> HIDE DEF shown, said
<1>3. shown = said
  BY <1>1, <1>2 DEF RegisterKinds
<1> QED
  BY <1>3 DEF shown, said

\* A signed one.
LEMMA FormattedSigned ==
  ASSUME NEW i, NEW o, NEW s, NEW a, o.kind = "imm8s"
  PROVE  format_operand(i, o, s, a) =
           NumberText(o.value[1] % 65536)
BY SMT DEF format_operand, RegisterKinds

\* A far pointer.
LEMMA FormattedFar ==
  ASSUME NEW i, NEW o, NEW s, NEW a, o.kind = "far16"
  PROVE  format_operand(i, o, s, a) =
           PairText(o.value[1], o.value[2])
BY SMT DEF format_operand, RegisterKinds

\* An offset.
LEMMA FormattedMoffs ==
  ASSUME NEW i, NEW o, NEW s, NEW a, o.kind \in {"offset8_16", "offset16_16"}
  PROVE  format_operand(i, o, s, a) =
           MemoryText(None, Named(s, "DS"), << >>, << o.value[1] >>)
<1> DEFINE shown == format_operand(i, o, s, a)
           said == MemoryText(None, Named(s, "DS"), << >>, << o.value[1] >>)
<1>1. o.kind = "offset8_16" => shown = said
  BY SMT DEF format_operand, Named, RegisterKinds
<1>2. o.kind = "offset16_16" => shown = said
  BY SMT DEF format_operand, Named, RegisterKinds
<1> HIDE DEF shown, said
<1>3. shown = said
  BY <1>1, <1>2 DEF RegisterKinds
<1> QED
  BY <1>3 DEF shown, said

\* An addressing mode.
LEMMA FormattedAddress ==
  ASSUME NEW i, NEW o, NEW s, NEW a, o.kind = "addr16"
  PROVE  format_operand(i, o, s, a) =
           format_address_16(Named(s, base_register(o.value)), o.value)
BY SMT DEF format_operand, Named, RegisterKinds

-----------------------------------------------------------------------------
(* What is printed of an operand is read as what it means.                 *)

\* Sixteen bits taken twice are sixteen bits.
LEMMA LowOnce == ASSUME NEW n \in Int PROVE n % 65536 \in Int /\ (n % 65536) % 65536 = n % 65536
OBVIOUS

\* A number says what its low word says, and so does an address.
LEMMA LowSays ==
  ASSUME NEW n \in Int, NEW w, w = n % 65536
  PROVE  /\ Number16(w) = Number16(n) /\ Near(w) = Near(n)
         /\ \A width, s, r : MemoryAt(width, s, r, w) = MemoryAt(width, s, r, n)
<1>1. w % 65536 = n % 65536
  BY LowOnce
<1> DEFINE u == w % 65536
           v == n % 65536
<1>2. /\ Number16(w) = Meaning("number", 0, None, << >>, u)
      /\ Number16(n) = Meaning("number", 0, None, << >>, v)
      /\ Near(w) = Meaning("near", 0, None, << >>, u)
      /\ Near(n) = Meaning("near", 0, None, << >>, v)
      /\ \A width, s, r : /\ MemoryAt(width, s, r, w) = Meaning("memory", width, s, r, u)
                          /\ MemoryAt(width, s, r, n) = Meaning("memory", width, s, r, v)
  BY SMT DEF Number16, Near, MemoryAt
<1>3. u = v
  BY <1>1
<1> HIDE DEF u, v
<1> QED
  BY <1>2, <1>3, SMT

\* A sign-extended immediate is printed with its sign or without.
LEMMA SignedReads ==
  ASSUME NEW i, NEW n \in Int
  PROVE  Number16(_immediate_value(i, n)) = Number16(n) /\ Number16(n % 65536) = Number16(n)
<1>1. _immediate_value(i, n) = n \/ _immediate_value(i, n) = n % 65536
  BY SMT DEF _immediate_value
<1> DEFINE w == n % 65536
<1>2. Number16(w) = Number16(n)
  BY LowSays, SMT
<1> QED
  BY <1>1, <1>2, SMT

\* The pair of a near target is its distance from the next instruction.
LEMMA NearReads ==
  ASSUME NEW a \in Int, NEW s \in Int, NEW n \in Int, NEW d \in Int
  PROVE  (s * 16 + ((a - s * 16 + n + d) % 65536) - (a + n)) % 65536 = d % 65536
<1> DEFINE z == a - s * 16 + n + d
           q == z \div 65536
           w == z % 65536
<1>1. z \in Int
  BY SMT
<1>2. q \in Int /\ w = z - 65536 * q
  <2> HIDE DEF z
  <2> QED
    BY <1>1, SMT
<1>3. s * 16 + w - (a + n) = d - 65536 * q
  <2> HIDE DEF w, q
  <2> QED
    BY <1>2, SMT
<1>4. (d - 65536 * q) % 65536 = d % 65536
  <2> HIDE DEF q
  <2> QED
    BY <1>2, SMT
<1> QED
  BY <1>3, <1>4, SMT

\* So is an offset, in the other style.
LEMMA OffsetReads ==
  ASSUME NEW a \in Int, NEW n \in Int, NEW d \in Int
  PROVE  ((((a % 65536) + d + n) % 65536) - (a + n)) % 65536 = d % 65536
<1> DEFINE p == a \div 65536
           z == a - 65536 * p + d + n
           q == z \div 65536
           w == z % 65536
<1>1. p \in Int /\ (a % 65536) + d + n = z
  BY SMT
<1> HIDE DEF p
<1>2. z \in Int
  BY <1>1, SMT
<1>3. q \in Int /\ w = z - 65536 * q
  <2> HIDE DEF z
  <2> QED
    BY <1>2, SMT
<1>4. w - (a + n) = d - 65536 * (p + q)
  <2> HIDE DEF w, q
  <2> QED
    BY <1>1, <1>3, SMT
<1> DEFINE k == p + q
<1>5. k \in Int
  <2> HIDE DEF q
  <2> QED
    BY <1>1, <1>3, SMT
<1>6. (d - 65536 * k) % 65536 = d % 65536
  <2> HIDE DEF k
  <2> QED
    BY <1>5, SMT
<1> QED
  BY <1>1, <1>4, <1>6, SMT


\* An immediate of a listing.
LEMMA ListedNumberReads ==
  ASSUME NEW i, NEW o, NEW t, NEW a, NEW c, NEW next,
         o.kind \in {"imm8", "imm16", "imm8s"}, o.value[1] \in Int
  PROVE  OperandRead(t, _render_operand(i, o, a, c), next) = OperandMeaning(i, o)
<1> DEFINE n == o.value[1]
           shown == _render_operand(i, o, a, c)
<1>1. OperandMeaning(i, o) = Number16(n)
  BY MeaningOfNumber
<1>2. n \in Int
  OBVIOUS
<1>3. shown = NumberText(n) \/ shown = NumberText(_immediate_value(i, n))
  <2>1. CASE o.kind = "imm8s"
    BY <2>1, ListedSigned
  <2>2. CASE o.kind \in {"imm8", "imm16"}
    BY <2>2, ListedNumber
  <2> QED
    BY <2>1, <2>2
<1> HIDE DEF n, shown
<1>4. OperandRead(t, shown, next) = Number16(n)
  BY <1>2, <1>3, ReadNumber, SignedReads
<1> QED
  BY <1>1, <1>4 DEF shown

\* A target of a listing, of an operation that is far exactly when it is.
LEMMA ListedTargetReads ==
  ASSUME NEW i, NEW o, NEW t, NEW a \in Int, NEW c \in Int, length(i) \in Int,
         o.value[1] \in Int, o.kind = "far16" => o.value[2] \in Int,
         o.kind \in {"rel8", "rel16", "far16"},
         t.mnemonic \in {"CALLF", "JMPF"} <=> o.kind = "far16"
  PROVE  OperandRead(t, _render_operand(i, o, a, c), a + length(i)) = OperandMeaning(i, o)
<1>1. CASE o.kind \in {"rel8", "rel16"}
  <2> DEFINE d == o.value[1]
             n == length(i)
             s == IF c = NoSegment THEN AlignedSegment(a) ELSE c
             w == (a - s * 16 + n + d) % 65536
             z == s * 16 + w - (a + n)
             shown == _render_operand(i, o, a, c)
  <2>1. s \in Int /\ n \in Int /\ d \in Int
    BY SMT DEF AlignedSegment
  <2>2. shown = PairText(s, w)
    <3>1. shown = NearTargetText(i, a, c, d)
      BY <1>1, RenderedTarget, SMT
    <3> QED
      BY <3>1, SMT DEF NearTargetText
  <2>3. z % 65536 = d % 65536
    <3> HIDE DEF s, n, d
    <3> QED
      BY <2>1, NearReads, SMT
  <2>4. t.mnemonic \notin {"CALLF", "JMPF"}
    BY <1>1, SMT
  <2>5. OperandMeaning(i, o) = Near(d)
    BY <1>1, MeaningOfTarget, SMT
  <2>6. Near(z) = Near(d)
    <3> DEFINE u == z % 65536
               v == d % 65536
    <3>1. u = v
      BY <2>3, SMT
    <3>2. Near(z) = Meaning("near", 0, None, << >>, u) /\ Near(d) = Meaning("near", 0, None, << >>, v)
      <4> HIDE DEF z, d
      <4> QED
        BY SMT DEF Near
    <3> HIDE DEF u, v, z, d
    <3> QED
      BY <3>1, <3>2, SMT
  <2>7. OperandRead(t, shown, a + n) = Near(z)
    <3> HIDE DEF shown, s, w, n
    <3>1. OperandRead(t, shown, a + n) = Near(s * 16 + w - (a + n))
      BY <2>2, <2>4, ReadPair, SMT
    <3> QED
      BY <3>1, SMT
  <2> HIDE DEF shown, z, d
  <2> QED
    BY <2>5, <2>6, <2>7, SMT DEF shown
<1>2. CASE o.kind = "far16"
  <2> DEFINE n == o.value[1] * 16 + o.value[2]
             x == (n \div 65536) * 4096
             y == n % 65536
             shown == _render_operand(i, o, a, c)
             next == a + length(i)
  <2>1. n \in Int
    BY <1>2, SMT
  <2>2. shown = PairText(x, y)
    <3>1. shown = FarPointerText(o.value[1], o.value[2])
      BY <1>2, RenderedTarget, SMT
    <3> QED
      BY <3>1, SMT DEF FarPointerText, normalize
  <2>3. x * 16 + y = n
    <3>1. x = (n \div 65536) * 4096 /\ y = n % 65536
      BY SMT
    <3> HIDE DEF x, y, n
    <3> QED
      BY <2>1, <3>1, FarPair, SMT
  <2>4. OperandMeaning(i, o) = Far(n)
    BY <1>2, MeaningOfTarget, SMT
  <2>5. t.mnemonic \in {"CALLF", "JMPF"}
    BY <1>2, SMT
  <2> HIDE DEF shown, x, y, n, next
  <2>6. OperandRead(t, shown, next) = Far(x * 16 + y)
    BY <2>2, <2>5, ReadPair, SMT
  <2> QED
    BY <2>3, <2>4, <2>6, SMT DEF shown, next
<1> QED
  BY <1>1, <1>2, SMT

\* The memory of a moved accumulator.
LEMMA ListedOffsetReads ==
  ASSUME NEW i, NEW o, NEW t, NEW a, NEW c, NEW next,
         o.kind \in {"offset8_16", "offset16_16"}, o.value[1] \in Int,
         ShownSegment(i) = Override(i),
         WidthRead(t, None) = IF o.kind = "offset8_16" THEN 8 ELSE 16
  PROVE  OperandRead(t, _render_operand(i, o, a, c), next) = OperandMeaning(i, o)
<1> DEFINE n == o.value[1]
           w == n % 65536
           W == WidthRead(t, None)
           s == Override(i)
           shown == _render_operand(i, o, a, c)
<1>1. shown = MemoryText(None, s, << >>, << w >>)
  <2>1. w = n % 65536
    OBVIOUS
  <2> HIDE DEF w
  <2> QED
    BY <2>1, ListedOffset, SMT
<1>2. OperandMeaning(i, o) = MemoryAt(W, In(i, "DS"), << >>, n)
  BY MeaningOfOffset, SMT
<1>3. DefaultSegment(<< >>) = "DS"
  BY SMT DEF DefaultSegment
<1>4. In(i, "DS") = IF s = None THEN DefaultSegment(<< >>) ELSE s
  BY <1>3, SMT DEF In
<1>5. MemoryAt(W, In(i, "DS"), << >>, w) = MemoryAt(W, In(i, "DS"), << >>, n)
  <2> HIDE DEF W
  <2> QED
    BY LowSays, SMT
<1>6. NumberOr0(<< w >>) = w
  <2> HIDE DEF w
  <2> QED
    BY SMT DEF NumberOr0
<1> HIDE DEF shown, s, w, W, n
<1>7. OperandRead(t, shown, next) = MemoryAt(W, In(i, "DS"), << >>, w)
  BY <1>1, <1>4, <1>6, ReadMemory, SMT DEF W
<1> QED
  BY <1>2, <1>5, <1>7, SMT DEF shown

\* The value of an addressing mode.
LEMMA AddressValue ==
  ASSUME NEW op, ValueIs(op), op.kind = "addr16"
  PROVE  \E m \in 0..2, n \in 0..7, d \in Int, w \in {8, 16} :
           /\ op.value = << m, n, d, w >>
           /\ -32768 <= d /\ d <= 32767
           /\ m = 0 /\ n # 6 => d = 0
BY SMTT(30) DEF ValueIs

\* An addressing mode.
LEMMA ListedAddressReads ==
  ASSUME NEW i, NEW o, NEW t, NEW a, NEW c, NEW next, NEW op, ValueIs(op), op.value = o.value,
         op.kind = "addr16", o.kind = "addr16",
         ShownSegment(i) = Override(i),
         NEW size, size = (IF _supplies_own_size(i) THEN None
                           ELSE IF o.value[4] = 8 THEN "byte" ELSE "word"),
         WidthRead(t, size) = IF Unsized(Mnemonic(i)) /\ o.value[4] = 16 THEN 0 ELSE o.value[4]
  PROVE  OperandRead(t, _render_operand(i, o, a, c), next) = OperandMeaning(i, o)
<1> DEFINE v == o.value
           n == v[3]
           r == ADDR16_REGISTER_TEXT(v)
           W == WidthRead(t, size)
           s == Override(i)
           p == PrintedDisplacement(v)
           shown == _render_operand(i, o, a, c)
<1>1. PICK m0 \in 0..2, n0 \in 0..7, d0 \in Int, w0 \in {8, 16} :
        /\ op.value = << m0, n0, d0, w0 >>
        /\ -32768 <= d0 /\ d0 <= 32767
        /\ m0 = 0 /\ n0 # 6 => d0 = 0
  BY AddressValue, SMT
<1>2. /\ v[1] = m0 /\ v[2] = n0 /\ n = d0
  BY <1>1, SMT
<1>3. shown = MemoryText(size, s, r, p)
  BY ListedAddress, SMT DEF _render_addr16
<1>4. OperandMeaning(i, o) = MemoryAt(W, In(i, DefaultSegment(r)), r, n)
  BY MeaningOfAddress, SMT
<1>5. In(i, DefaultSegment(r)) = IF s = None THEN DefaultSegment(r) ELSE s
  BY SMT DEF In
<1>6. NumberOr0(p) = n \/ NumberOr0(p) = n % 65536
  <2>1. carries_displacement(v) <=> m0 # 0 \/ (m0 = 0 /\ n0 = 6)
    BY <1>2, SMT DEF carries_displacement, IsDisp16
  <2>2. CASE ~carries_displacement(v)
    <3>1. n = 0 /\ p = << >>
      BY <1>1, <1>2, <2>1, <2>2, SMT DEF PrintedDisplacement
    <3> QED
      BY <3>1, SMT DEF NumberOr0
  <2>3. CASE carries_displacement(v)
    <3> DEFINE y == n % 65536
    <3>1. p = << n >> \/ p = << y >>
      BY <2>3, SMT DEF PrintedDisplacement
    <3> HIDE DEF p, n, y
    <3>2. NumberOr0(p) = n \/ NumberOr0(p) = y
      BY <3>1, SMT DEF NumberOr0
    <3> QED
      BY <3>2, SMT DEF y
  <2> QED
    BY <2>2, <2>3, SMT
<1> DEFINE S == In(i, DefaultSegment(r))
           x == NumberOr0(p)
<1>7. MemoryAt(W, S, r, x) = MemoryAt(W, S, r, n)
  <2>1. n \in Int
    BY <1>2, SMT
  <2>2. x = n \/ x = n % 65536
    BY <1>6, SMT
  <2> HIDE DEF W, S, r, x, n
  <2> QED
    BY <2>1, <2>2, LowSays, SMT
<1>8. OperandRead(t, shown, next) = MemoryAt(W, S, r, x)
  <2> HIDE DEF shown, s, p, r
  <2> QED
    BY <1>3, <1>5, ReadMemory, SMT
<1> HIDE DEF shown, W, S, r, x, n
<1> QED
  BY <1>4, <1>7, <1>8, SMT DEF shown, S

-----------------------------------------------------------------------------
(* The instructions whose operands a style does not print as decoded.      *)

FarNames == {"CALLF", "JMPF"}

\* The row of a group's opcode is in the group, and every other row is its own.
LEMMA RowOfGroup ==
  ASSUME NEW i, Decoded(i), DECODE = DecodeRows
  PROVE  LET r == RowOf(i)
         IN /\ r \in Int /\ 0 <= r /\ r <= 351 /\ _raw_opcode(i) = i.opcode
            /\ KindIs(i.operand1, Row(r).operands[1]) /\ KindIs(i.operand2, Row(r).operands[2])
            /\ r < 256 => r = i.opcode /\ i.opcode \notin {128, 129, 130, 131, 208, 209, 210, 211,
                                                           246, 247, 254, 255}
            /\ r >= 256 =>
                 i.has_modrm /\ \E g \in 1..12, e \in 0..7 :
                   /\ r = 256 + (g - 1) * 8 + e
                   /\ i.opcode = GroupOpcodes[g] /\ _modrm_extension(i) = e
<1> DEFINE r == RowOf(i)
           g0 == GroupOf(i.opcode)
<1>1. /\ r \in Int /\ 0 <= r /\ r <= 351 /\ _raw_opcode(i) = i.opcode
      /\ r < 256 => r = i.opcode /\ g0 = 0
      /\ r >= 256 =>
           /\ i.has_modrm /\ g0 \in 1..12 /\ _modrm_extension(i) \in 0..7
           /\ r = 256 + (g0 - 1) * 8 + _modrm_extension(i)
  BY RowIs DEF Decoded
<1>2. g0 = 0 => i.opcode \notin {128, 129, 130, 131, 208, 209, 210, 211, 246, 247, 254, 255}
  BY GroupsAre
<1>3. g0 \in 1..12 => i.opcode = GroupOpcodes[g0]
  BY GroupsAre
<1>4. KindIs(i.operand1, Row(r).operands[1]) /\ KindIs(i.operand2, Row(r).operands[2])
  BY OperandsAre
<1> HIDE DEF r, g0
<1> QED
  BY <1>1, <1>2, <1>3, <1>4 DEF r

\* An indirect far call or jump goes through a word of memory or a register.
LEMMA FarIndirectIs ==
  ASSUME NEW i, Decoded(i), DECODE = DecodeRows, IsFarIndirect(i)
  PROVE  /\ i.has_modrm /\ Mnemonic(i) \in FarNames /\ i.operand2.kind = "none"
         /\ i.operand1.kind = "addr16" => i.operand1.value[4] # 8
<1> DEFINE r == RowOf(i)
<1>1. i.opcode = 255 /\ _modrm_extension(i) \in {3, 5}
  BY RowOfGroup DEF IsFarIndirect
<1>2. r >= 256
  BY <1>1, RowOfGroup
<1>3. PICK g \in 1..12, e \in 0..7 :
        r = 256 + (g - 1) * 8 + e /\ i.opcode = GroupOpcodes[g] /\ _modrm_extension(i) = e
  BY <1>2, RowOfGroup
<1>4. g = 12
  BY <1>1, <1>3 DEF GroupOpcodes
<1>5. /\ Row(r).operands[1] = "MODRM16" /\ Row(r).operands[2] = "NONE"
      /\ RowMnemonic(r) = GroupMnemonic(g, e)
  BY <1>3, <1>4, GroupPairs, SMTT(30)
<1>6. GroupMnemonic(12, 3) = "CALLF" /\ GroupMnemonic(12, 5) = "JMPF"
  BY GroupMnemonics
<1>7. Mnemonic(i) \in FarNames
  BY <1>1, <1>3, <1>4, <1>5, <1>6 DEF Mnemonic, FarNames
<1>8. i.has_modrm /\ KindIs(i.operand1, "MODRM16") /\ KindIs(i.operand2, "NONE")
  BY <1>2, <1>5, RowOfGroup
<1>9. i.operand2.kind = "none" /\ (i.operand1.kind = "addr16" => i.operand1.value[4] # 8)
  BY <1>8 DEF KindIs
<1> QED
  BY <1>7, <1>8, <1>9

\* The segment that is shown is the override, where the style does not lose it.
LEMMA ShownIsOverride ==
  ASSUME NEW i, Decoded(i), DECODE = DecodeRows, ~LosesOverride(i)
  PROVE  ShownSegment(i) = Override(i) /\ (Override(i) = None \/ Override(i) \in Segments)
<1>1. i.prefix_bytes \in Seq(Byte)
  BY FieldsAreTyped DEF Decoded
<1>2. _segment_override(i) = Override(i) /\ Override(i) \in {None} \union Segments
  BY <1>1, OverrideIs
<1>3. IsFarIndirect(i) => Override(i) = None
  BY FarIndirectIs DEF LosesOverride, FarNames
<1> QED
  BY <1>2, <1>3 DEF ShownSegment, _shows_segment_override

\* Who has memory for an operand and a size of its own.
LEMMA OwnSizeIs ==
  ASSUME NEW i, Decoded(i), DECODE = DecodeRows,
         NEW op, op = i.operand1 \/ op = i.operand2, op.kind = "addr16"
  PROVE  /\ op.value[4] \in {8, 16}
         /\ _supplies_own_size(i) <=> Unsized(Mnemonic(i)) /\ op.value[4] = 16
<1> DEFINE r == RowOf(i)
           m == Mnemonic(i)
           pair == Row(r).operands
           w == op.value[4]
<1>1. /\ r \in Int /\ 0 <= r /\ r <= 351 /\ _raw_opcode(i) = i.opcode
      /\ KindIs(i.operand1, pair[1]) /\ KindIs(i.operand2, pair[2])
      /\ m = RowMnemonic(r)
  BY RowOfGroup DEF Mnemonic
<1>2. w \in {8, 16}
  <2>1. ValueIs(op)
    BY OperandsAre
  <2> QED
    BY <2>1 DEF ValueIs
<1>3. \/ op = i.operand1 /\ pair[1] = IF w = 8 THEN "MODRM8" ELSE "MODRM16"
      \/ op = i.operand2 /\ pair[2] = IF w = 8 THEN "MODRM8" ELSE "MODRM16"
  BY <1>1 DEF KindIs
<1>4. _supplies_own_size(i) <=> i.opcode \in {160, 161, 162, 163, 196, 197, 141} \/ IsFarIndirect(i)
  BY <1>1 DEF _supplies_own_size, _SIZE_IMPLIED_OPCODES
<1>5. ASSUME _supplies_own_size(i) PROVE Unsized(m) /\ w = 16
  <2>1. CASE IsFarIndirect(i)
    <3>1. m \in FarNames /\ op = i.operand1 /\ w # 8
      BY <2>1, FarIndirectIs
    <3> QED
      BY <1>2, <3>1 DEF Unsized, FarNames
  <2>2. CASE i.opcode \in {160, 161, 162, 163, 196, 197, 141}
    <3>1. r = i.opcode
      <4>1. r < 256
        <5>1. ASSUME r >= 256 PROVE FALSE
          <6>1. PICK g \in 1..12 : i.opcode = GroupOpcodes[g]
            BY <5>1, RowOfGroup
          <6> QED
            BY <2>2, <6>1 DEF GroupOpcodes
        <5> QED
          BY <1>1, <5>1
      <4> QED
        BY <4>1, RowOfGroup
    <3>2. /\ r = 141 \/ r = 196 \/ r = 197 => pair = <<"REG16", "MODRM16">>
          /\ r = 160 => pair = <<"FIXED8", "OFF8">>
          /\ r = 161 => pair = <<"FIXED16", "OFF16">>
          /\ r = 162 => pair = <<"OFF8", "FIXED8">>
          /\ r = 163 => pair = <<"OFF16", "FIXED16">>
      BY <1>1, NamedPairs
    <3>3. m = "LES" <=> r = 196
      BY <1>1, NamedRows
    <3>4. (m = "LDS" <=> r = 197) /\ (m = "LEA" <=> r = 141)
      BY <1>1, NamedRows
    <3> HIDE DEF pair, r, m, w
    <3>5. r \in {141, 196, 197} /\ w = 16
      BY <1>2, <1>3, <2>2, <3>1, <3>2
    <3> QED
      BY <3>3, <3>4, <3>5 DEF Unsized
  <2> QED
    BY <1>4, <1>5, <2>1, <2>2
<1>6. ASSUME Unsized(m), w = 16 PROVE _supplies_own_size(i)
  <2>1. /\ m = "LES" => r = 196
        /\ m = "LDS" => r = 197
        /\ m = "LEA" => r = 141
        /\ m \in FarNames => r = 154 \/ r = 234 \/ 336 <= r
    BY <1>1, NamedRows DEF FarNames
  <2>2. CASE r = 196 \/ r = 197 \/ r = 141
    BY <1>4, <2>2, RowOfGroup
  <2>3. CASE r = 154 \/ r = 234
    <3>1. pair = <<"FAR", "NONE">>
      BY <1>1, <2>3, NamedPairs
    <3> QED
      BY <1>3, <3>1
  <2>4. CASE m \in FarNames /\ 336 <= r
    <3>1. PICK g \in 1..12, e \in 0..7 :
            r = 256 + (g - 1) * 8 + e /\ i.opcode = GroupOpcodes[g] /\ _modrm_extension(i) = e
      BY <1>1, <2>4, RowOfGroup
    <3>2. g \in {11, 12} /\ pair[2] = "NONE" /\ (g = 11 => pair[1] = "MODRM8")
          /\ RowMnemonic(r) = GroupMnemonic(g, e)
      BY <2>4, <3>1, GroupPairs, SMTT(30)
    <3>3. g = 12
      BY <1>3, <1>6, <3>2
    <3>4. m = "CALLF" => e = 3
      BY <1>1, <3>1, <3>2, <3>3, GroupMnemonics
    <3>5. m = "JMPF" => e = 5
      BY <1>1, <3>1, <3>2, <3>3, GroupMnemonics
    <3>6. i.opcode = 255
      BY <3>1, <3>3 DEF GroupOpcodes
    <3>7. _modrm_extension(i) \in {3, 5}
      BY <2>4, <3>1, <3>4, <3>5 DEF FarNames
    <3> QED
      BY <1>1, <1>4, <3>6, <3>7 DEF IsFarIndirect
  <2> QED
    BY <1>6, <2>1, <2>2, <2>3, <2>4 DEF Unsized, FarNames
<1> QED
  BY <1>2, <1>5, <1>6

\* A target is far where the operation is.
LEMMA FarIsNamed ==
  ASSUME NEW i, Decoded(i), DECODE = DecodeRows, i.operand1.kind \in {"rel8", "rel16", "far16"}
  PROVE  Mnemonic(i) \in FarNames <=> i.operand1.kind = "far16"
<1> DEFINE r == RowOf(i)
           pair == Row(r).operands
           k == i.operand1.kind
           m == Mnemonic(i)
<1>1. r \in Int /\ 0 <= r /\ r <= 351 /\ KindIs(i.operand1, pair[1]) /\ m = RowMnemonic(r)
  BY RowOfGroup DEF Mnemonic
<1>2. pair[1] \in {"REL8", "REL16", "FAR"} /\ (k = "far16" <=> pair[1] = "FAR")
  BY <1>1 DEF KindIs
<1>3. r < 256
  BY <1>1, <1>2, TargetRows
<1>4. CASE k = "far16"
  <2>1. r = 154 \/ r = 234
    BY <1>1, <1>2, <1>4, PairRows
  <2>2. m = "CALLF" \/ m = "JMPF"
    BY <1>1, <2>1, NamedRows
  <2> QED
    BY <1>4, <2>2 DEF FarNames
<1>5. CASE k # "far16"
  <2>1. ASSUME m \in FarNames PROVE FALSE
    <3>1. r = 154 \/ r = 234
      BY <1>1, <1>3, <2>1, NamedRows DEF FarNames
    <3>2. pair = <<"FAR", "NONE">>
      BY <1>1, <3>1, NamedPairs
    <3> QED
      BY <1>2, <1>5, <3>2
  <2> QED
    BY <1>5, <2>1
<1> QED
  BY <1>4, <1>5

-----------------------------------------------------------------------------
(* A listing line is read operand by operand.                              *)

\* A name a listing gives is one of its operation's names, and far and unsized
\* operations keep theirs.
LEMMA OverridesKeep ==
  ASSUME NEW m
  PROVE  /\ _MNEMONIC_OVERRIDES(m) \in FarNames <=> m \in FarNames
         /\ Unsized(_MNEMONIC_OVERRIDES(m)) <=> Unsized(m)
         /\ _MNEMONIC_OVERRIDES(m) = "XLAT" <=> m = "XLAT"
BY DEF _MNEMONIC_OVERRIDES, FarNames, Unsized

\* A printed width is the width.
LEMMA PrintedWidths ==
  ASSUME NEW t
  PROVE  /\ WidthRead(t, "byte") = 8 /\ WidthRead(t, "word") = 16
         /\ Unsized(t.mnemonic) => WidthRead(t, None) = 0
<1> None # "byte" /\ None # "word"
  BY Zenon DEF None
<1>1. WidthRead(t, "byte") = 8
  BY SMT DEF WidthRead
<1>2. WidthRead(t, "word") = 16
  BY SMT DEF WidthRead
<1>3. Unsized(t.mnemonic) => WidthRead(t, None) = 0
  BY SMT DEF WidthRead
<1> QED
  BY <1>1, <1>2, <1>3

\* An operand of an instruction is read from the listing as what it means.
LEMMA ListedOperandReads ==
  ASSUME NEW i, Decoded(i), DECODE = DecodeRows, ~LosesOverride(i),
         NEW a \in Int, NEW c \in Int, NEW t, t.mnemonic = _MNEMONIC_OVERRIDES(Mnemonic(i)),
         NEW op, op = i.operand1 \/ op = i.operand2, op.kind # "none",
         NEW o, o.kind = op.kind, o.value = op.value,
         o.kind \in {"offset8_16", "offset16_16"} =>
           WidthRead(t, None) = IF o.kind = "offset8_16" THEN 8 ELSE 16
  PROVE  OperandRead(t, _render_operand(i, o, a, c), a + length(i)) = OperandMeaning(i, o)
<1> DEFINE next == a + length(i)
           m == Mnemonic(i)
<1>1. ValueIs(op)
  BY OperandsAre
<1>2. length(i) \in Int
  BY LengthIsTyped
<1>3. ShownSegment(i) = Override(i)
  BY ShownIsOverride
<1>4. CASE o.kind \in RegisterKinds
  BY <1>4, ListedRegister, ReadRegister, MeaningOfRegister
<1>5. CASE o.kind \in {"imm8", "imm16", "imm8s"}
  <2>1. o.value[1] \in Int
    BY <1>1, <1>5 DEF ValueIs
  <2> QED
    BY <1>5, <2>1, ListedNumberReads
<1>6. CASE o.kind \in {"rel8", "rel16", "far16"}
  <2>1. o.value[1] \in Int /\ (o.kind = "far16" => o.value[2] \in Int)
    BY <1>1, <1>6 DEF ValueIs
  <2>2. op = i.operand1
    <3>1. Row(RowOf(i)).operands[2] \notin {"REL8", "REL16", "FAR"}
      BY RowOfGroup, PairRows
    <3>2. i.operand2.kind \notin {"rel8", "rel16", "far16"}
      BY <3>1, RowOfGroup DEF KindIs
    <3> QED
      BY <1>6, <3>2
  <2>3. m \in FarNames <=> o.kind = "far16"
    BY <1>6, <2>2, FarIsNamed
  <2>4. t.mnemonic \in {"CALLF", "JMPF"} <=> o.kind = "far16"
    BY <2>3, OverridesKeep DEF FarNames
  <2> QED
    BY <1>2, <1>6, <2>1, <2>4, ListedTargetReads
<1>7. CASE o.kind \in {"offset8_16", "offset16_16"}
  <2>1. o.value[1] \in Int
    BY <1>1, <1>7 DEF ValueIs
  <2> QED
    BY <1>3, <1>7, <2>1, ListedOffsetReads
<1>8. CASE o.kind = "addr16"
  <2> DEFINE size == IF _supplies_own_size(i) THEN None ELSE IF o.value[4] = 8 THEN "byte" ELSE "word"
  <2>1. /\ o.value[4] \in {8, 16}
        /\ _supplies_own_size(i) <=> Unsized(m) /\ o.value[4] = 16
    BY <1>8, OwnSizeIs
  <2>2. Unsized(t.mnemonic) <=> Unsized(m)
    BY OverridesKeep
  <2>3. WidthRead(t, size) = IF Unsized(Mnemonic(i)) /\ o.value[4] = 16 THEN 0 ELSE o.value[4]
    BY <2>1, <2>2, PrintedWidths
  <2>4. size = (IF _supplies_own_size(i) THEN None
                ELSE IF o.value[4] = 8 THEN "byte" ELSE "word")
    OBVIOUS
  <2> HIDE DEF size, next
  <2>5. op.kind = "addr16" /\ op.value = o.value
    BY <1>8
  <2>6. OperandRead(t, _render_operand(i, o, a, c), next) = OperandMeaning(i, o)
    BY <1>1, <1>3, <1>8, <2>3, <2>4, <2>5, ListedAddressReads, SMT
  <2> QED
    BY <2>6 DEF next
<1>9. op.kind \in OperandKind
  BY <1>1 DEF ValueIs, Operand
<1> QED
  BY <1>4, <1>5, <1>6, <1>7, <1>8, <1>9 DEF RegisterKinds, OperandKind

-----------------------------------------------------------------------------
(* At most two operands, one by one.                                       *)

Meanings(i, s) == [k \in 1..Len(s) |-> OperandMeaning(i, s[k])]
Shown(i, s, a, c) == [k \in 1..Len(s) |-> _render_operand(i, s[k], a, c)]

\* Nothing, one operand or two are read one by one.
LEMMA ReadingsOf ==
  ASSUME NEW t, NEW next
  PROVE  /\ t.operands = << >> => Readings(t, next) = << >>
         /\ \A x : t.operands = << x >> => Readings(t, next) = << OperandRead(t, x, next) >>
         /\ \A x, y : t.operands = << x, y >> =>
              Readings(t, next) = << OperandRead(t, x, next), OperandRead(t, y, next) >>
<1>1. t.operands = << >> => Readings(t, next) = << >>
  BY SMT DEF Readings
<1>2. ASSUME NEW x, t.operands = << x >>
      PROVE  Readings(t, next) = << OperandRead(t, x, next) >>
  BY <1>2, SMT DEF Readings
<1>3. ASSUME NEW x, NEW y, t.operands = << x, y >>
      PROVE  Readings(t, next) = << OperandRead(t, x, next), OperandRead(t, y, next) >>
  BY <1>3, SMT DEF Readings
<1> QED
  BY <1>1, <1>2, <1>3

\* They mean what each means.
LEMMA MeaningsOf ==
  ASSUME NEW i
  PROVE  /\ Meanings(i, << >>) = << >>
         /\ \A x : Meanings(i, << x >>) = << OperandMeaning(i, x) >>
         /\ \A x, y : Meanings(i, << x, y >>) = << OperandMeaning(i, x), OperandMeaning(i, y) >>
BY SMT DEF Meanings

\* And are printed one by one.
LEMMA ShownOf ==
  ASSUME NEW i, NEW a, NEW c
  PROVE  /\ Shown(i, << >>, a, c) = << >>
         /\ \A x : Shown(i, << x >>, a, c) = << _render_operand(i, x, a, c) >>
         /\ \A x, y : Shown(i, << x, y >>, a, c) =
                        << _render_operand(i, x, a, c), _render_operand(i, y, a, c) >>
BY SMT DEF Shown

\* Two operands and nothing are two operands.
LEMMA ShortWithNothing ==
  ASSUME NEW x, NEW y
  PROVE  /\ << >> \o << x, y >> = << x, y >>
         /\ << x, y >> \o << >> = << x, y >>
BY SMT

\* Memory that is implied is implied by a string operation or XLAT.
LEMMA NothingImplied ==
  ASSUME NEW m, m \notin _STRING_OPS, m # "XLAT", NEW s
  PROVE  ImpliedMemory(m, s) = << >>
BY SMT DEF ImpliedMemory, _STRING_OPS, _STOS, _SCAS

\* The width of unsized memory is that of the register beside it.
LEMMA WidthBeside ==
  ASSUME NEW t, NEW x, NEW y, t.operands = << x, y >> \/ t.operands = << y, x >>,
         x.kind = "register", y.kind # "register", ~Unsized(t.mnemonic)
  PROVE  WidthRead(t, None) = IF x.registers[1] \in ByteRegisters THEN 8 ELSE 16
<1> DEFINE D == {k \in DOMAIN t.operands : t.operands[k].kind = "register"}
           names == UNION {{t.operands[k].registers[1]} : k \in D}
<1>1. PICK k \in {1, 2} : D = {k} /\ t.operands[k] = x
  <2>1. CASE t.operands = << x, y >>
    <3>1. DOMAIN t.operands = {1, 2} /\ t.operands[1] = x /\ t.operands[2] = y
      BY <2>1, SMT
    <3>2. D = {1}
      BY <3>1
    <3> QED
      BY <3>1, <3>2
  <2>2. CASE t.operands = << y, x >>
    <3>1. DOMAIN t.operands = {1, 2} /\ t.operands[1] = y /\ t.operands[2] = x
      BY <2>2, SMT
    <3>2. D = {2}
      BY <3>1
    <3> QED
      BY <3>1, <3>2
  <2> QED
    BY <2>1, <2>2
<1> HIDE DEF D
<1>2. names = {x.registers[1]}
  BY <1>1
<1>3. None # "byte" /\ None # "word"
  BY Zenon DEF None
<1>4. WidthRead(t, None) = IF names \subseteq ByteRegisters THEN 8 ELSE 16
  <2>1. names # {}
    BY <1>2
  <2> HIDE DEF names
  <2> QED
    BY <1>3, <2>1, SMT DEF WidthRead, names, D
<1> QED
  BY <1>2, <1>4

\* And one operand more.
LEMMA ShortAppend == ASSUME NEW x, NEW y PROVE Append(<< x >>, y) = << x, y >>
<1> DEFINE S == {x, y}
           s == << x >>
<1>1. s \in Seq(S) /\ y \in S
  OBVIOUS
<1> HIDE DEF S, s
<1>2. Append(s, y) = s \o << y >>
  BY <1>1, AppendIsConcat
<1> QED
  BY <1>2, ShortConcat DEF s

-----------------------------------------------------------------------------
(* A whole line of a listing.                                              *)

\* The operands there are.
LEMMA DecodedShapes ==
  ASSUME NEW i, Decoded(i), DECODE = DecodeRows
  PROVE  LET pair == Row(RowOf(i)).operands
         IN /\ pair[1] = "NONE" => DecodedOperands(i) = << >>
            /\ pair[1] # "NONE" /\ pair[2] = "NONE" => DecodedOperands(i) = << First(i) >>
            /\ pair[1] # "NONE" /\ pair[2] # "NONE" => DecodedOperands(i) = << First(i), Second(i) >>
<1> DEFINE pair == Row(RowOf(i)).operands
<1>1. (i.operand1.kind = "none" <=> pair[1] = "NONE") /\ (i.operand2.kind = "none" <=> pair[2] = "NONE")
  BY RowOfGroup DEF KindIs
<1>2. pair[1] = "NONE" => pair[2] = "NONE"
  BY RowOfGroup, PairRows
<1> HIDE DEF pair
<1>3. /\ pair[1] = "NONE" => DecodedOperands(i) = << >>
      /\ pair[1] # "NONE" /\ pair[2] = "NONE" => DecodedOperands(i) = << First(i) >>
      /\ pair[1] # "NONE" /\ pair[2] # "NONE" => DecodedOperands(i) = << First(i), Second(i) >>
  BY <1>1, <1>2, DecodedOperandsAre
<1> QED
  BY <1>3 DEF pair

\* What an instruction means, in its three parts.
LEMMA OperandsMean ==
  ASSUME NEW i
  PROVE  /\ Mnemonic(i) # "NOP" =>
              Operands(i) = Meanings(i, DecodedOperands(i)) \o ImpliedOne(i)
                            \o ImpliedMemory(Mnemonic(i), In(i, "DS"))
         /\ Mnemonic(i) = "NOP" => Operands(i) = << >>
         /\ i.opcode \notin {208, 209} \/ Mnemonic(i) \notin Shifts => ImpliedOne(i) = << >>
<1>1. i.opcode \notin {208, 209} \/ Mnemonic(i) \notin Shifts => ImpliedOne(i) = << >>
  BY DEF ImpliedOne
<1>2. Mnemonic(i) = "NOP" => Operands(i) = << >>
  BY Zenon DEF Operands
<1>3. Mnemonic(i) # "NOP" =>
        Operands(i) = Meanings(i, DecodedOperands(i)) \o ImpliedOne(i)
                      \o ImpliedMemory(Mnemonic(i), In(i, "DS"))
  BY Zenon DEF Operands, Meanings
<1> QED
  BY <1>1, <1>2, <1>3

\* Every other instruction than a string operation shows the operands the
\* style takes.
LEMMA ListedOperandsAre ==
  ASSUME NEW i, NEW a, NEW p, NEW c, Mnemonic(i) \notin _STRING_OPS
  PROVE  render_operands(i, a, p, c) = Shown(i, _effective_operands(i, p), a, c)
BY Zenon DEF render_operands, Shown

\* The string operations of the table.
LEMMA StringNames ==
  ASSUME NEW i, Decoded(i), DECODE = DecodeRows, Mnemonic(i) \in _STRING_OPS
  PROVE  /\ Mnemonic(i) \in {"MOVSB", "MOVSW", "CMPSB", "CMPSW", "STOSB", "STOSW",
                             "LODSB", "LODSW", "SCASB", "SCASW"}
         /\ DecodedOperands(i) = << >>
<1> DEFINE r == RowOf(i)
           m == Mnemonic(i)
<1>1. r \in Int /\ 0 <= r /\ r <= 351 /\ m = RowMnemonic(r)
  BY RowOfGroup DEF Mnemonic
<1>2. 164 <= r /\ r <= 175 /\ r # 168 /\ r # 169
  BY <1>1, NamedRows
<1>3. m \in MoveText
  <2>1. RowMnemonic(r) = MoveMnemonic(r)
    BY <1>1, <1>2, RowNames
  <2> QED
    BY <1>1, <1>2, <2>1, MoveMnemonics
<1>4. Row(r).operands = << "NONE", "NONE" >>
  BY <1>1, <1>2, NamedPairs
<1>5. DecodedOperands(i) = << >>
  BY <1>4, DecodedShapes
<1> HIDE DEF m
<1>6. m \in _STRING_OPS
  BY DEF m
<1>7. m \in {"MOVSB", "MOVSW", "CMPSB", "CMPSW", "STOSB", "STOSW",
             "LODSB", "LODSW", "SCASB", "SCASW"}
  BY <1>3, <1>6 DEF MoveText, _STRING_OPS, _STOS, _SCAS, _INS
<1> QED
  BY <1>5, <1>7 DEF m

\* A segment that is not written is the data segment.
LEMMA SourceSegment ==
  ASSUME NEW i, NEW s, s = Override(i),
         NEW shown, shown = IF s = "DS" THEN None ELSE s,
         NEW r, r = << "SI" >> \/ r = << "BX" >>
  PROVE  (IF shown = None THEN DefaultSegment(r) ELSE shown) = In(i, "DS")
<1>1. DefaultSegment(r) = "DS"
  BY DEF DefaultSegment
<1> QED
  BY <1>1, SMT DEF In

\* The memory of a string operation is that of the pointers a listing writes.
LEMMA ListedStringReads ==
  ASSUME NEW i, Decoded(i), DECODE = DecodeRows, Mnemonic(i) \in _STRING_OPS,
         NEW t, NEW next, t.mnemonic = Mnemonic(i), t.operands = _string_operands(i)
  PROVE  ListingRead(t, next) = Operands(i)
<1> DEFINE m == Mnemonic(i)
           s == Override(i)
           shown == IF s = "DS" THEN None ELSE s
           destination == Text("pointer", None, "ES", << "DI" >>, << >>)
           source == Text("pointer", None, shown, << "SI" >>, << >>)
           here == MemoryAt(0, "ES", << "DI" >>, 0)
           from == MemoryAt(0, In(i, "DS"), << "SI" >>, 0)
<1>1. /\ m \in {"MOVSB", "MOVSW", "CMPSB", "CMPSW", "STOSB", "STOSW",
                "LODSB", "LODSW", "SCASB", "SCASW"}
      /\ DecodedOperands(i) = << >>
  BY StringNames
<1>2. _segment_override(i) = s
  BY FieldsAreTyped, OverrideIs DEF Decoded
<1>3. _string_operands(i) =
        CASE m \in _STOS \union _SCAS    -> << destination >>
          [] m \in {"LODSB", "LODSW"}    -> << source >>
          [] m \in {"MOVSB", "MOVSW", "CMPSB", "CMPSW"} -> << destination, source >>
          [] OTHER -> << >>
  BY <1>2, Zenon DEF _string_operands
<1>4. OperandRead(t, destination, next) = here
  <2>1. "ES" # None
    BY Zenon DEF None
  <2> QED
    BY <2>1, ReadPointer, Zenon
<1>5. OperandRead(t, source, next) = from
  <2>1. OperandRead(t, source, next) =
          MemoryAt(0, IF shown = None THEN DefaultSegment(<< "SI" >>) ELSE shown, << "SI" >>, 0)
    BY ReadPointer
  <2>2. (IF shown = None THEN DefaultSegment(<< "SI" >>) ELSE shown) = In(i, "DS")
    BY SourceSegment
  <2> QED
    BY <2>1, <2>2
<1>6. Operands(i) = ImpliedMemory(m, In(i, "DS"))
  <2>1. m # "NOP" /\ m \notin Shifts
    <3> HIDE DEF m
    <3> QED
      BY <1>1 DEF Shifts
  <2>2. Meanings(i, DecodedOperands(i)) = << >> /\ ImpliedOne(i) = << >>
    BY <1>1, <2>1, MeaningsOf, OperandsMean
  <2> DEFINE memory == ImpliedMemory(m, In(i, "DS"))
  <2>3. Operands(i) = << >> \o << >> \o memory
    BY <2>1, <2>2, OperandsMean
  <2>4. memory \in {<< here >>, << from >>, << here, from >>}
    <3> HIDE DEF m, here, from
    <3> QED
      BY <1>1, SMT DEF ImpliedMemory, here, from
  <2> HIDE DEF memory, here, from
  <2> QED
    BY <2>3, <2>4, ShortConcat, ShortWithNothing DEF memory
<1>7. ListingRead(t, next) = Readings(t, next)
  <2>1. t.mnemonic # "XLAT"
    <3> HIDE DEF m
    <3> QED
      BY <1>1 DEF m
  <2>2. ListingRead(t, next) = Readings(t, next) \o << >>
    BY <2>1, Zenon DEF ListingRead
  <2> DEFINE x == OperandRead(t, destination, next)
             y == OperandRead(t, source, next)
  <2>3. t.operands \in {<< destination >>, << source >>, << destination, source >>, << >>}
    <3> HIDE DEF m, destination, source
    <3> QED
      BY <1>3, SMT
  <2>4. Readings(t, next) \in {<< x >>, << y >>, << x, y >>, << >>}
    <3> HIDE DEF destination, source
    <3> QED
      BY <2>3, ReadingsOf, SMT
  <2> HIDE DEF x, y
  <2> QED
    BY <2>2, <2>4, ShortConcat, ShortWithNothing
<1> HIDE DEF destination, source
<1>8. CASE m \in {"STOSB", "STOSW", "SCASB", "SCASW"}
  <2>1. t.operands = << destination >>
    <3> HIDE DEF m
    <3> QED
      BY <1>3, <1>8, SMT DEF _STOS, _SCAS
  <2>2. ImpliedMemory(m, In(i, "DS")) = << here >>
    <3> HIDE DEF m
    <3> QED
      BY <1>8, SMT DEF ImpliedMemory
  <2> QED
    BY <1>4, <1>6, <1>7, <2>1, <2>2, ReadingsOf
<1>9. CASE m \in {"LODSB", "LODSW"}
  <2>1. t.operands = << source >>
    <3> HIDE DEF m
    <3> QED
      BY <1>3, <1>9, SMT DEF _STOS, _SCAS
  <2>2. ImpliedMemory(m, In(i, "DS")) = << from >>
    <3> HIDE DEF m
    <3> QED
      BY <1>9, SMT DEF ImpliedMemory
  <2> QED
    BY <1>5, <1>6, <1>7, <2>1, <2>2, ReadingsOf
<1>10. CASE m \in {"MOVSB", "MOVSW", "CMPSB", "CMPSW"}
  <2>1. t.operands = << destination, source >>
    <3> HIDE DEF m
    <3> QED
      BY <1>3, <1>10, SMT DEF _STOS, _SCAS
  <2>2. ImpliedMemory(m, In(i, "DS")) = << here, from >>
    <3> HIDE DEF m
    <3> QED
      BY <1>10, SMT DEF ImpliedMemory
  <2> QED
    BY <1>4, <1>5, <1>6, <1>7, <2>1, <2>2, ReadingsOf
<1> QED
  BY <1>1, <1>8, <1>9, <1>10

\* A table look-up is written by its name alone.
LEMMA ListedXlatReads ==
  ASSUME NEW i, Decoded(i), DECODE = DecodeRows, Mnemonic(i) = "XLAT", ~LosesOverride(i),
         NEW t, NEW next, t.mnemonic = "XLAT", t.operands = << >>
  PROVE  ListingRead(t, next) = Operands(i)
<1>1. DecodedOperands(i) = << >>
  <2>1. RowOf(i) \in Int /\ 0 <= RowOf(i) /\ RowOf(i) <= 351 /\ RowMnemonic(RowOf(i)) = "XLAT"
    BY RowOfGroup DEF Mnemonic
  <2>2. Row(RowOf(i)).operands = << "NONE", "NONE" >>
    BY <2>1, NamedRows, NamedPairs
  <2> QED
    BY <2>2, DecodedShapes
<1>2. In(i, "DS") = "DS"
  BY DEF LosesOverride, In
<1> DEFINE memory == ImpliedMemory("XLAT", "DS")
<1>3. Operands(i) = << >> \o << >> \o memory
  <2>1. Meanings(i, DecodedOperands(i)) = << >> /\ ImpliedOne(i) = << >>
    BY <1>1, MeaningsOf, OperandsMean DEF Shifts
  <2> QED
    BY <1>2, <2>1, OperandsMean
<1>4. ListingRead(t, next) = << >> \o memory
  <2>1. Readings(t, next) = << >>
    BY ReadingsOf
  <2> QED
    BY <2>1, Zenon DEF ListingRead
<1> QED
  BY <1>3, <1>4, ShortConcat

\* The memory of the accumulator's moves is as wide as the register beside it.
LEMMA AccumulatorWidth ==
  ASSUME NEW i, Decoded(i), DECODE = DecodeRows, NEW a, NEW c,
         NEW op, op = i.operand1 \/ op = i.operand2, op.kind \in {"offset8_16", "offset16_16"},
         NEW t, t.mnemonic = _MNEMONIC_OVERRIDES(Mnemonic(i)),
         t.operands = Shown(i, << First(i), Second(i) >>, a, c)
  PROVE  WidthRead(t, None) = IF op.kind = "offset8_16" THEN 8 ELSE 16
<1> DEFINE r == RowOf(i)
           pair == Row(r).operands
           x == _render_operand(i, First(i), a, c)
           y == _render_operand(i, Second(i), a, c)
<1>1. r \in Int /\ 0 <= r /\ r <= 351 /\ KindIs(i.operand1, pair[1]) /\ KindIs(i.operand2, pair[2])
  BY RowOfGroup
<1>2. 160 <= r /\ r <= 163
  <2>1. pair[1] \in {"OFF8", "OFF16"} \/ pair[2] \in {"OFF8", "OFF16"}
    BY <1>1 DEF KindIs
  <2> QED
    BY <1>1, <2>1, PairRows
<1>3. ~Unsized(t.mnemonic)
  <2>1. RowMnemonic(r) = MoveMnemonic(r)
    BY <1>1, <1>2, RowNames
  <2>2. MoveMnemonic(r) = "MOV"
    <3> HIDE DEF r
    <3> QED
      BY <1>1, <1>2, SMT DEF MoveMnemonic
  <2> QED
    BY <2>1, <2>2 DEF Mnemonic, _MNEMONIC_OVERRIDES, Unsized
<1>4. t.operands = << x, y >>
  <2> DEFINE f == First(i)
             g == Second(i)
  <2>1. t.operands = Shown(i, << f, g >>, a, c)
    OBVIOUS
  <2> HIDE DEF f, g
  <2>2. Shown(i, << f, g >>, a, c) = << _render_operand(i, f, a, c), _render_operand(i, g, a, c) >>
    BY SMT DEF Shown
  <2> QED
    BY <2>1, <2>2, Zenon DEF f, g
<1>5. "AL" \in ByteRegisters /\ "AX" \notin ByteRegisters
  BY SMT DEF ByteRegisters, REGISTER8_LUT
<1>6. ASSUME NEW o, o.kind \in RegisterKinds
      PROVE  /\ _render_operand(i, o, a, c).kind = "register"
             /\ _render_operand(i, o, a, c).registers[1] = o.register
  BY <1>6, ListedRegister DEF RegisterText, Text
<1>7. ASSUME NEW o, o.kind \in {"offset8_16", "offset16_16"}
      PROVE  _render_operand(i, o, a, c).kind # "register"
  <2> DEFINE w == o.value[1] % 65536
             shown == _render_operand(i, o, a, c)
  <2>1. shown = MemoryText(None, ShownSegment(i), << >>, << w >>)
    BY <1>7, ListedOffset, SMT
  <2>2. shown.kind = "memory"
    <3> HIDE DEF shown, w
    <3> QED
      BY <2>1, Zenon DEF MemoryText, Text
  <2> HIDE DEF shown
  <2>3. shown.kind # "register"
    BY <2>2
  <2> QED
    BY <2>3 DEF shown
<1> DEFINE fixed == FixedRegisters(r)
<1>8. /\ First(i).kind = i.operand1.kind /\ Second(i).kind = i.operand2.kind
      /\ First(i).register = RegisterName(i.operand1, fixed[1])
      /\ Second(i).register = RegisterName(i.operand2, fixed[2])
  BY Zenon DEF First, Second, NamedOperand
<1>9. ASSUME NEW o, NEW n, o.kind \in RegisterKinds, o.value = << >> PROVE RegisterName(o, n) = n
  BY <1>9, SMT DEF RegisterName, RegisterKinds
<1> HIDE DEF pair, x, y, fixed
<1>10. CASE r = 160 \/ r = 161
  <2>1. pair = IF r = 160 THEN << "FIXED8", "OFF8" >> ELSE << "FIXED16", "OFF16" >>
    BY <1>1, <1>10, NamedPairs DEF pair
  <2>2. /\ i.operand1.kind \in RegisterKinds /\ i.operand1.value = << >>
        /\ i.operand2.kind = IF r = 160 THEN "offset8_16" ELSE "offset16_16"
    BY <1>1, <2>1 DEF KindIs
  <2>3. op = i.operand2
    BY <2>2 DEF RegisterKinds
  <2>4. fixed[1] = IF r = 160 THEN "AL" ELSE "AX"
    BY <1>10, FixedAccumulator DEF fixed
  <2>5. First(i).register = IF r = 160 THEN "AL" ELSE "AX"
    BY <1>8, <1>9, <2>2, <2>4
  <2>6. x.kind = "register" /\ x.registers[1] = First(i).register /\ y.kind # "register"
    BY <1>6, <1>7, <1>8, <2>2 DEF x, y
  <2>7. WidthRead(t, None) = IF x.registers[1] \in ByteRegisters THEN 8 ELSE 16
    BY <1>3, <1>4, <2>6, WidthBeside
  <2> QED
    BY <1>5, <1>10, <2>2, <2>3, <2>5, <2>6, <2>7
<1>11. CASE r = 162 \/ r = 163
  <2>1. pair = IF r = 162 THEN << "OFF8", "FIXED8" >> ELSE << "OFF16", "FIXED16" >>
    BY <1>1, <1>11, NamedPairs DEF pair
  <2>2. /\ i.operand2.kind \in RegisterKinds /\ i.operand2.value = << >>
        /\ i.operand1.kind = IF r = 162 THEN "offset8_16" ELSE "offset16_16"
    BY <1>1, <2>1 DEF KindIs
  <2>3. op = i.operand1
    BY <2>2 DEF RegisterKinds
  <2>4. fixed[2] = IF r = 162 THEN "AL" ELSE "AX"
    BY <1>11, FixedAccumulator DEF fixed
  <2>5. Second(i).register = IF r = 162 THEN "AL" ELSE "AX"
    BY <1>8, <1>9, <2>2, <2>4
  <2>6. y.kind = "register" /\ y.registers[1] = Second(i).register /\ x.kind # "register"
    BY <1>6, <1>7, <1>8, <2>2 DEF x, y
  <2>7. WidthRead(t, None) = IF y.registers[1] \in ByteRegisters THEN 8 ELSE 16
    BY <1>3, <1>4, <2>6, WidthBeside
  <2> QED
    BY <1>5, <1>11, <2>2, <2>3, <2>5, <2>6, <2>7
<1> QED
  BY <1>1, <1>2, <1>10, <1>11

\* The operands a style takes: all of them, in their order or the other way
\* round, unless the operation is NOP or a shift by one operand.
LEMMA TakenOperands ==
  ASSUME NEW i, NEW p, Mnemonic(i) # "NOP"
  PROVE  LET decoded == DecodedOperands(i)
         IN /\ p \/ ~PrintsReversed(i, decoded) =>
                 _effective_operands(i, p) = IF ImpliesCount(i, decoded)
                                             THEN Append(decoded, ImpliedCount(i)) ELSE decoded
            /\ ~p /\ PrintsReversed(i, decoded) /\ ~ImpliesCount(i, decoded) =>
                 _effective_operands(i, p) = << decoded[2], decoded[1] >>
BY SMT DEF _effective_operands

\* Which rows are printed the other way round have two operands.
LEMMA ReversedPairs ==
  ASSUME NEW i, Decoded(i), DECODE = DecodeRows, PrintsReversed(i, DecodedOperands(i))
  PROVE  /\ DecodedOperands(i) = << First(i), Second(i) >>
         /\ ~(160 <= RowOf(i) /\ RowOf(i) <= 163)
<1> DEFINE r == RowOf(i)
           decoded == DecodedOperands(i)
<1>1. /\ r \in Int /\ 0 <= r /\ r <= 351 /\ _raw_opcode(i) = i.opcode
      /\ Mnemonic(i) = RowMnemonic(r) /\ (r < 256 => r = i.opcode)
  BY RowOfGroup DEF Mnemonic
<1>2. CASE Mnemonic(i) = "XCHG"
  <2>1. r = 134 \/ r = 135 \/ (145 <= r /\ r <= 151)
    <3>1. RowMnemonic(r) = "XCHG"
      BY <1>1, <1>2
    <3> HIDE DEF r
    <3> QED
      BY <1>1, <3>1, NamedRows, SMT
  <2>2. Row(r).operands[1] # "NONE" /\ Row(r).operands[2] # "NONE"
    BY <1>1, <2>1, NamedPairs
  <2> QED
    BY <1>1, <2>1, <2>2, DecodedShapes
<1>3. CASE i.opcode = 142 /\ Len(decoded) = 2
  <2>1. decoded = << First(i), Second(i) >>
    <3>1. decoded \in {<< >>, << First(i) >>, << First(i), Second(i) >>}
      BY DecodedShapes
    <3> HIDE DEF decoded
    <3> QED
      BY <1>3, <3>1, SMT
  <2> QED
    BY <1>1, <1>3, <2>1
<1> QED
  BY <1>1, <1>2, <1>3 DEF PrintsReversed

\* A shift by one is written with its count.
LEMMA ListedShiftReads ==
  ASSUME NEW i, Decoded(i), DECODE = DecodeRows, ~LosesOverride(i), Mnemonic(i) \in Shifts,
         NEW a \in Int, NEW p, NEW c \in Int,
         NEW t, t.mnemonic = _MNEMONIC_OVERRIDES(Mnemonic(i)),
         t.operands = render_operands(i, a, p, c)
  PROVE  ListingRead(t, a + length(i)) = Operands(i)
<1> DEFINE r == RowOf(i)
           m == Mnemonic(i)
           next == a + length(i)
           decoded == DecodedOperands(i)
           f == First(i)
           s == Second(i)
           F == _render_operand(i, f, a, c)
           S == _render_operand(i, s, a, c)
<1>1. /\ r \in Int /\ 0 <= r /\ r <= 351 /\ _raw_opcode(i) = i.opcode /\ m = RowMnemonic(r)
      /\ KindIs(i.operand1, Row(r).operands[1]) /\ KindIs(i.operand2, Row(r).operands[2])
  BY RowOfGroup DEF Mnemonic
<1>2. /\ m \in _SHIFT_MNEMONICS /\ m \notin _STRING_OPS /\ m \notin {"XLAT", "NOP", "XCHG"}
      /\ t.mnemonic = m
  <2> HIDE DEF m
  <2> QED
    BY DEF m, Shifts, _SHIFT_MNEMONICS, _STRING_OPS, _STOS, _SCAS, _INS, _MNEMONIC_OVERRIDES
<1>3. 288 <= r /\ r <= 319
  <2>1. RowMnemonic(r) \in _SHIFT_MNEMONICS
    BY <1>1, <1>2
  <2> HIDE DEF r
  <2> QED
    BY <1>1, <2>1, NamedRows, SMT
<1>4. PICK g \in 1..12, e \in 0..7 : r = 256 + (g - 1) * 8 + e /\ i.opcode = GroupOpcodes[g]
  BY <1>1, <1>3, RowOfGroup
<1>5. /\ g \in 5..8 /\ Row(r).operands[1] \in {"MODRM8", "MODRM16"}
      /\ g \in {5, 6} => Row(r).operands[2] = "NONE"
      /\ g \in {7, 8} => Row(r).operands[2] = "FIXED8"
  <2> DEFINE q == 256 + (g - 1) * 8 + e
  <2>1. /\ Row(q).operands[1] \in {"MODRM8", "MODRM16"}
        /\ g \in {5, 6} => Row(q).operands[2] = "NONE"
        /\ g \in {7, 8} => Row(q).operands[2] = "FIXED8"
        /\ 288 <= q /\ q <= 319 => g \in 5..8
    BY GroupPairs, SMTT(30)
  <2>2. q = r
    BY <1>4, Zenon
  <2> HIDE DEF q, r
  <2> QED
    BY <1>3, <2>1, <2>2, Zenon
<1>6. i.opcode = g + 203
  BY <1>4, <1>5 DEF GroupOpcodes
<1>7. /\ f.kind = i.operand1.kind /\ f.value = i.operand1.value
      /\ s.kind = i.operand2.kind /\ s.value = i.operand2.value
  BY Zenon DEF First, Second, NamedOperand
<1>8. i.operand1.kind \in {"reg8", "reg16", "addr16"}
  BY <1>1, <1>5 DEF KindIs
<1>9. OperandRead(t, F, next) = OperandMeaning(i, f)
  <2>1. i.operand1.kind # "none" /\ i.operand1.kind \notin {"offset8_16", "offset16_16"}
    BY <1>8
  <2> HIDE DEF f
  <2> QED
    BY <1>7, <2>1, ListedOperandReads
<1>10. ~PrintsReversed(i, decoded)
  BY <1>1, <1>2, <1>6 DEF PrintsReversed
<1>11. Operands(i) = Meanings(i, decoded) \o ImpliedOne(i) \o << >>
  BY <1>2, OperandsMean, NothingImplied, Zenon
<1>12. t.operands = Shown(i, IF ImpliesCount(i, decoded) THEN Append(decoded, ImpliedCount(i))
                             ELSE decoded, a, c)
  <2>1. t.operands = Shown(i, _effective_operands(i, p), a, c)
    BY <1>2, ListedOperandsAre
  <2> QED
    BY <1>2, <1>10, <2>1, TakenOperands
<1>13. ListingRead(t, next) = Readings(t, next) \o << >>
  BY <1>2, Zenon DEF ListingRead
<1>14. CASE g \in {5, 6}
  <2> DEFINE n == ImpliedCount(i)
             N == _render_operand(i, n, a, c)
  <2>1. decoded = << f >>
    BY <1>5, <1>14, DecodedShapes
  <2>2. i.opcode \in {208, 209}
    BY <1>6, <1>14
  <2>3. n.kind = "imm8" /\ n.value = << 1 >>
    BY <1>1, <2>2 DEF ImpliedCount
  <2>4. ImpliesCount(i, decoded)
    BY <1>1, <1>2, <2>1, <2>2 DEF ImpliesCount, _SHIFT_GROUP_OPCODES
  <2>5. N = NumberText(1)
    <3> HIDE DEF n
    <3> QED
      BY <2>3, ListedNumber
  <2>6. OperandRead(t, N, next) = Number16(1)
    BY <2>5, ReadNumber
  <2>7. ImpliedOne(i) = << Number16(1) >>
    BY <2>2 DEF ImpliedOne
  <2> HIDE DEF f, n, F, N, decoded, next
  <2>8. t.operands = << F, N >>
    <3>1. Append(decoded, n) = << f, n >>
      BY <2>1, ShortAppend
    <3>2. t.operands = Shown(i, << f, n >>, a, c)
      BY <1>12, <2>4, <3>1 DEF n
    <3>3. Shown(i, << f, n >>, a, c) = << _render_operand(i, f, a, c), _render_operand(i, n, a, c) >>
      BY SMT DEF Shown
    <3> QED
      BY <3>2, <3>3 DEF F, N
  <2> DEFINE x == OperandRead(t, F, next)
             y == OperandRead(t, N, next)
             u == OperandMeaning(i, f)
             v == Number16(1)
  <2>9. Readings(t, next) = << x, y >>
    BY <2>8, SMT DEF Readings
  <2>10. Meanings(i, decoded) = << u >>
    BY <2>1, SMT DEF Meanings
  <2>11. x = u /\ y = v
    BY <1>9, <2>6
  <2>12. ListingRead(t, next) = << x, y >> \o << >> /\ Operands(i) = << u >> \o << v >> \o << >>
    BY <1>11, <1>13, <2>7, <2>9, <2>10
  <2> HIDE DEF x, y, u, v
  <2>13. ListingRead(t, next) = Operands(i)
    BY <2>11, <2>12, ShortConcat, ShortWithNothing
  <2> QED
    BY <2>13 DEF next
<1>15. CASE g \in {7, 8}
  <2>1. decoded = << f, s >>
    BY <1>5, <1>15, DecodedShapes
  <2>2. ~ImpliesCount(i, decoded)
    BY <2>1 DEF ImpliesCount
  <2>3. ImpliedOne(i) = << >>
    BY <1>6, <1>15, OperandsMean
  <2>4. i.operand2.kind \in RegisterKinds
    BY <1>1, <1>5, <1>15 DEF KindIs
  <2>5. OperandRead(t, S, next) = OperandMeaning(i, s)
    <3>1. s.kind \in RegisterKinds
      BY <1>7, <2>4
    <3> HIDE DEF s
    <3> QED
      BY <3>1, ListedRegister, ReadRegister, MeaningOfRegister
  <2> HIDE DEF f, s, F, S, decoded, next
  <2>6. t.operands = << F, S >>
    <3>1. t.operands = Shown(i, << f, s >>, a, c)
      BY <1>12, <2>1, <2>2
    <3>2. Shown(i, << f, s >>, a, c) = << _render_operand(i, f, a, c), _render_operand(i, s, a, c) >>
      BY SMT DEF Shown
    <3> QED
      BY <3>1, <3>2 DEF F, S
  <2> DEFINE x == OperandRead(t, F, next)
             y == OperandRead(t, S, next)
             u == OperandMeaning(i, f)
             v == OperandMeaning(i, s)
  <2>7. Readings(t, next) = << x, y >>
    BY <2>6, SMT DEF Readings
  <2>8. Meanings(i, decoded) = << u, v >>
    BY <2>1, SMT DEF Meanings
  <2>9. x = u /\ y = v
    BY <1>9, <2>5
  <2>10. ListingRead(t, next) = << x, y >> \o << >> /\ Operands(i) = << u, v >> \o << >> \o << >>
    BY <1>11, <1>13, <2>3, <2>7, <2>8
  <2> HIDE DEF x, y, u, v
  <2>11. ListingRead(t, next) = Operands(i)
    BY <2>9, <2>10, ShortWithNothing
  <2> QED
    BY <2>11 DEF next
<1> QED
  BY <1>5, <1>14, <1>15

\* Any other instruction is written operand by operand, in one order or the
\* other.
LEMMA ListedPlainReads ==
  ASSUME NEW i, Decoded(i), DECODE = DecodeRows, ~LosesOverride(i),
         Mnemonic(i) \notin _STRING_OPS, Mnemonic(i) \notin Shifts, Mnemonic(i) # "XLAT", Mnemonic(i) # "NOP",
         NEW a \in Int, NEW p, NEW c \in Int,
         NEW t, t.mnemonic = _MNEMONIC_OVERRIDES(Mnemonic(i)),
         t.operands = render_operands(i, a, p, c)
  PROVE  \/ ListingRead(t, a + length(i)) = Operands(i)
         \/ ~p /\ ListingRead(t, a + length(i)) = Swapped(Operands(i))
<1> DEFINE m == Mnemonic(i)
           next == a + length(i)
           decoded == DecodedOperands(i)
           f == First(i)
           s == Second(i)
           F == _render_operand(i, f, a, c)
           S == _render_operand(i, s, a, c)
           reversed == ~p /\ PrintsReversed(i, decoded)
           x == OperandRead(t, F, next)
           y == OperandRead(t, S, next)
           u == OperandMeaning(i, f)
           v == OperandMeaning(i, s)
<1>1. ListingRead(t, next) = Readings(t, next) \o << >>
  <2>1. t.mnemonic # "XLAT"
    BY OverridesKeep
  <2> QED
    BY <2>1, Zenon DEF ListingRead
<1>2. Operands(i) = Meanings(i, decoded) \o << >> \o << >>
  BY OperandsMean, NothingImplied, Zenon
<1>3. t.operands = Shown(i, IF reversed THEN << decoded[2], decoded[1] >> ELSE decoded, a, c)
  <2>1. t.operands = Shown(i, _effective_operands(i, p), a, c)
    BY ListedOperandsAre
  <2>2. ~ImpliesCount(i, decoded)
    BY DEF ImpliesCount, Shifts, _SHIFT_MNEMONICS
  <2>3. CASE reversed
    BY <2>1, <2>2, <2>3, TakenOperands, SMT
  <2>4. CASE ~reversed
    BY <2>1, <2>2, <2>4, TakenOperands, SMT
  <2> QED
    BY <2>3, <2>4
<1>4. decoded \in {<< >>, << f >>, << f, s >>} /\ (reversed => decoded = << f, s >>)
  BY DecodedShapes, ReversedPairs
<1>5. /\ decoded # << >> => i.operand1.kind # "none"
      /\ decoded = << f, s >> => i.operand2.kind # "none"
  <2>1. (i.operand1.kind = "none" <=> Row(RowOf(i)).operands[1] = "NONE")
        /\ (i.operand2.kind = "none" <=> Row(RowOf(i)).operands[2] = "NONE")
    BY RowOfGroup DEF KindIs
  <2>2. << f, s >> # << >> /\ << f, s >> # << f >>
    <3> HIDE DEF f, s
    <3> QED
      BY SMT
  <2> QED
    BY <2>1, <2>2, DecodedShapes
<1>6. /\ f.kind = i.operand1.kind /\ f.value = i.operand1.value
      /\ s.kind = i.operand2.kind /\ s.value = i.operand2.value
  BY Zenon DEF First, Second, NamedOperand
<1>7. ASSUME NEW op, op = i.operand1 \/ op = i.operand2, op.kind \in {"offset8_16", "offset16_16"}
      PROVE  WidthRead(t, None) = IF op.kind = "offset8_16" THEN 8 ELSE 16
  <2>1. 160 <= RowOf(i) /\ RowOf(i) <= 163
    <3> DEFINE r == RowOf(i)
               pair == Row(r).operands
    <3>1. r \in Int /\ 0 <= r /\ r <= 351 /\ KindIs(i.operand1, pair[1]) /\ KindIs(i.operand2, pair[2])
      BY RowOfGroup
    <3>2. pair[1] \in {"OFF8", "OFF16"} \/ pair[2] \in {"OFF8", "OFF16"}
      BY <1>7, <3>1 DEF KindIs
    <3> QED
      BY <3>1, <3>2, PairRows
  <2>2. ~reversed
    BY <2>1, ReversedPairs
  <2>3. decoded = << f, s >>
    <3> DEFINE r == RowOf(i)
    <3>1. r \in Int /\ 160 <= r /\ r <= 163
      BY <2>1, RowOfGroup
    <3>2. /\ r = 160 => Row(r).operands = << "FIXED8", "OFF8" >>
          /\ r = 161 => Row(r).operands = << "FIXED16", "OFF16" >>
          /\ r = 162 => Row(r).operands = << "OFF8", "FIXED8" >>
          /\ r = 163 => Row(r).operands = << "OFF16", "FIXED16" >>
      BY <3>1, NamedPairs
    <3>3. Row(r).operands[1] # "NONE" /\ Row(r).operands[2] # "NONE"
      BY <3>1, <3>2
    <3> QED
      BY <3>3, DecodedShapes
  <2>4. t.operands = Shown(i, << f, s >>, a, c)
    BY <1>3, <2>2, <2>3
  <2> QED
    BY <1>7, <2>4, AccumulatorWidth
<1>8. ASSUME NEW op, op = i.operand1 \/ op = i.operand2, op.kind # "none",
             NEW o, o.kind = op.kind, o.value = op.value
      PROVE  OperandRead(t, _render_operand(i, o, a, c), next) = OperandMeaning(i, o)
  <2>1. o.kind \in {"offset8_16", "offset16_16"} =>
          WidthRead(t, None) = IF o.kind = "offset8_16" THEN 8 ELSE 16
    BY <1>7, <1>8
  <2> QED
    BY <1>8, <2>1, ListedOperandReads
<1> HIDE DEF f, s, decoded, next
<1>9. decoded # << >> => x = u
  BY <1>5, <1>6, <1>8
<1>10. decoded = << f, s >> => y = v
  BY <1>5, <1>6, <1>8
<1> HIDE DEF F, S, x, y, u, v
<1>11. CASE decoded = << >>
  <2>1. t.operands = << >>
    <3>1. ~reversed
      BY <1>4, <1>11, SMT
    <3> QED
      BY <1>3, <1>11, <3>1, ShownOf
  <2>2. Readings(t, next) = << >> /\ Meanings(i, decoded) = << >>
    BY <1>11, <2>1, ReadingsOf, MeaningsOf
  <2> QED
    BY <1>1, <1>2, <2>2, ShortConcat DEF next
<1>12. CASE decoded = << f >>
  <2>1. t.operands = << F >>
    <3>1. ~reversed
      BY <1>4, <1>12, SMT
    <3>2. t.operands = Shown(i, << f >>, a, c)
      BY <1>3, <1>12, <3>1
    <3>3. Shown(i, << f >>, a, c) = << _render_operand(i, f, a, c) >>
      BY SMT DEF Shown
    <3> QED
      BY <3>2, <3>3 DEF F
  <2>2. Readings(t, next) = << x >>
    BY <2>1, SMT DEF Readings, x
  <2>3. Meanings(i, decoded) = << u >>
    BY <1>12, SMT DEF Meanings, u
  <2>4. x = u
    BY <1>9, <1>12
  <2> QED
    BY <1>1, <1>2, <2>2, <2>3, <2>4, ShortConcat DEF next
<1>13. CASE decoded = << f, s >>
  <2>1. Meanings(i, decoded) = << u, v >>
    BY <1>13, SMT DEF Meanings, u, v
  <2>2. x = u /\ y = v
    BY <1>9, <1>10, <1>13
  <2>3. Operands(i) = << u, v >>
    BY <1>2, <2>1, ShortWithNothing
  <2>4. CASE ~reversed
    <3>1. t.operands = Shown(i, << f, s >>, a, c)
      BY <1>3, <1>13, <2>4
    <3>2. Shown(i, << f, s >>, a, c) = << _render_operand(i, f, a, c), _render_operand(i, s, a, c) >>
      BY SMT DEF Shown
    <3>3. t.operands = << F, S >>
      BY <3>1, <3>2 DEF F, S
    <3>4. Readings(t, next) = << x, y >>
      BY <3>3, SMT DEF Readings, x, y
    <3> QED
      BY <1>1, <2>2, <2>3, <3>4, ShortWithNothing DEF next
  <2>5. CASE reversed
    <3>1. t.operands = Shown(i, << s, f >>, a, c)
      <4>1. decoded[1] = f /\ decoded[2] = s
        BY <1>13
      <4> QED
        BY <1>3, <2>5, <4>1
    <3>2. Shown(i, << s, f >>, a, c) = << _render_operand(i, s, a, c), _render_operand(i, f, a, c) >>
      BY SMT DEF Shown
    <3>3. t.operands = << S, F >>
      BY <3>1, <3>2 DEF F, S
    <3>4. Readings(t, next) = << y, x >>
      BY <3>3, SMT DEF Readings, x, y
    <3>5. Swapped(Operands(i)) = << v, u >>
      BY <2>3, SMT DEF Swapped
    <3> QED
      BY <1>1, <2>2, <2>5, <3>4, <3>5, ShortWithNothing DEF next
  <2> QED
    BY <2>4, <2>5
<1> QED
  BY <1>4, <1>11, <1>12, <1>13

\* Every name of the table is in one of its parts.
TableText ==
  ArithmeticText \union {"INC", "DEC", "PUSH", "POP"} \union JumpText \union MoveText
  \union ControlText \union GroupText

LEMMA NamesAreListed ==
  ASSUME NEW i, Decoded(i), DECODE = DecodeRows
  PROVE  Mnemonic(i) \in TableText
<1> DEFINE r == RowOf(i)
<1>1. r \in Int /\ 0 <= r /\ r <= 351 /\ Mnemonic(i) = RowMnemonic(r)
  BY RowOfGroup DEF Mnemonic
<1> HIDE DEF r
<1>2. CASE r <= 63
  <2>1. RowMnemonic(r) = ArithmeticMnemonic(r) /\ ArithmeticMnemonic(r) \in ArithmeticText
    BY <1>1, <1>2, RowNames, ArithmeticMnemonics
  <2> QED
    BY <1>1, <2>1, Zenon DEF TableText
<1>3. CASE 64 <= r /\ r <= 127
  <2>1. /\ RowMnemonic(r) = RegisterOrJumpMnemonic(r)
        /\ RegisterOrJumpMnemonic(r) \in {"INC", "DEC", "PUSH", "POP"} \union JumpText
    BY <1>1, <1>3, RowNames, RegisterOrJumpMnemonics
  <2> QED
    BY <1>1, <2>1, Zenon DEF TableText
<1>4. CASE 128 <= r /\ r <= 191
  <2>1. RowMnemonic(r) = MoveMnemonic(r) /\ MoveMnemonic(r) \in MoveText
    BY <1>1, <1>4, RowNames, MoveMnemonics
  <2> QED
    BY <1>1, <2>1, Zenon DEF TableText
<1>5. CASE 192 <= r /\ r <= 255
  <2>1. RowMnemonic(r) = ControlMnemonic(r) /\ ControlMnemonic(r) \in ControlText
    BY <1>1, <1>5, RowNames, ControlMnemonics
  <2> QED
    BY <1>1, <2>1, Zenon DEF TableText
<1>6. CASE 256 <= r
  <2> DEFINE g == 1 + (r - 256) \div 8
             e == r % 8
  <2>1. RowMnemonic(r) = GroupMnemonic(g, e) /\ g \in 1..12 /\ e \in 0..7
    BY <1>1, <1>6, RowNames, GroupIndex
  <2> HIDE DEF g, e
  <2>2. GroupMnemonic(g, e) \in GroupText
    BY <2>1, GroupMnemonics
  <2> QED
    BY <1>1, <2>1, <2>2, Zenon DEF TableText
<1> QED
  BY <1>1, <1>2, <1>3, <1>4, <1>5, <1>6

\* The listing's name of an operation is a name of that operation.
LEMMA ListedNameReads ==
  ASSUME NEW m \in TableText
  PROVE  Operation(_MNEMONIC_OVERRIDES(m)) = m
<1>1. m \notin {"JC", "JNC", "JAE", "JGE", "JG", "JA", "JE", "JNE", "XLATB"}
  BY DEF TableText, ArithmeticText, JumpText, MoveText, ControlText, GroupText
<1>2. CASE m \notin {"JB", "JNB", "JNL", "JNLE", "JNBE"}
  BY <1>1, <1>2, SMT DEF _MNEMONIC_OVERRIDES, Operation
<1>3. CASE m = "JB"
  BY <1>3, SMT DEF _MNEMONIC_OVERRIDES, Operation
<1>4. CASE m = "JNB"
  BY <1>4, SMT DEF _MNEMONIC_OVERRIDES, Operation
<1>5. CASE m = "JNL"
  BY <1>5, SMT DEF _MNEMONIC_OVERRIDES, Operation
<1>6. CASE m = "JNLE"
  BY <1>6, SMT DEF _MNEMONIC_OVERRIDES, Operation
<1>7. CASE m = "JNBE"
  BY <1>7, SMT DEF _MNEMONIC_OVERRIDES, Operation
<1> QED
  BY <1>2, <1>3, <1>4, <1>5, <1>6, <1>7

\* A line says what was decoded, operand by operand.
LEMMA ListedLineReads ==
  ASSUME NEW i, Decoded(i), DECODE = DecodeRows, ~LosesOverride(i),
         NEW a \in Int, NEW p, NEW c \in Int,
         NEW t, t.mnemonic = _MNEMONIC_OVERRIDES(Mnemonic(i)),
         t.operands = render_operands(i, a, p, c)
  PROVE  \/ ListingRead(t, a + length(i)) = Operands(i)
         \/ ~p /\ ListingRead(t, a + length(i)) = Swapped(Operands(i))
<1> DEFINE m == Mnemonic(i)
           next == a + length(i)
<1>1. CASE m \in _STRING_OPS
  <2>1. t.mnemonic = m
    <3> HIDE DEF m
    <3> QED
      BY <1>1 DEF m, _MNEMONIC_OVERRIDES, _STRING_OPS, _STOS, _SCAS, _INS
  <2>2. t.operands = _string_operands(i)
    BY <1>1, Zenon DEF render_operands
  <2> QED
    BY <1>1, <2>1, <2>2, ListedStringReads
<1>2. CASE m = "XLAT"
  <2>1. m \notin _STRING_OPS /\ m # "NOP" /\ m # "XCHG" /\ m \notin _SHIFT_MNEMONICS
    BY <1>2 DEF _STRING_OPS, _STOS, _SCAS, _INS, _SHIFT_MNEMONICS
  <2>2. DecodedOperands(i) = << >> /\ _raw_opcode(i) # 142
    <3> DEFINE r == RowOf(i)
    <3>1. /\ r \in Int /\ 0 <= r /\ r <= 351 /\ RowMnemonic(r) = "XLAT"
          /\ (r < 256 => r = _raw_opcode(i))
      BY <1>2, RowOfGroup DEF Mnemonic
    <3>2. r = 215 /\ Row(r).operands = << "NONE", "NONE" >>
      BY <3>1, NamedRows, NamedPairs
    <3> QED
      BY <3>1, <3>2, DecodedShapes
  <2>3. ~PrintsReversed(i, DecodedOperands(i)) /\ ~ImpliesCount(i, DecodedOperands(i))
    BY <2>1, <2>2 DEF PrintsReversed, ImpliesCount
  <2>4. _effective_operands(i, p) = << >>
    BY <2>1, <2>2, <2>3, TakenOperands
  <2>5. t.operands = << >>
    BY <2>1, <2>4, ListedOperandsAre, ShownOf
  <2>6. t.mnemonic = "XLAT"
    BY <1>2, OverridesKeep
  <2> QED
    BY <1>2, <2>5, <2>6, ListedXlatReads
<1>3. CASE m = "NOP"
  <2>1. m \notin _STRING_OPS
    BY <1>3 DEF _STRING_OPS, _STOS, _SCAS, _INS
  <2>2. _effective_operands(i, p) = << >>
    BY <1>3, SMT DEF _effective_operands
  <2>3. t.operands = << >>
    BY <2>1, <2>2, ListedOperandsAre, ShownOf
  <2>4. t.mnemonic # "XLAT"
    BY <1>3, OverridesKeep
  <2>5. Readings(t, next) = << >>
    BY <2>3, ReadingsOf
  <2>6. ListingRead(t, next) = << >> \o << >>
    BY <2>4, <2>5, Zenon DEF ListingRead
  <2> QED
    BY <1>3, <2>6, OperandsMean, ShortConcat
<1>4. CASE m \in Shifts
  BY <1>4, ListedShiftReads
<1> QED
  BY <1>1, <1>2, <1>3, <1>4, ListedPlainReads

\* A listing line, whatever the input, its address and its code segment, says
\* what was decoded: operation, repetition, and for every operand its register,
\* its value, or the width, segment, registers and offset of its memory.
THEOREM ListingsReadBack ==
  ASSUME DECODE = DecodeRows
  PROVE  RenderSpec => []ListingReadsBack
<1> DEFINE m == Mnemonic(result)
<1>1. ASSUME Decoded(result), NEW a \in Int, NEW p, NEW c \in Int,
             asked.address = a, asked.preserve_operand_order = p,
             text = render_body(result, a, p, c), text.raised = "none", ~LosesOverride(result)
      PROVE  LET read == ListingRead(text, NextIP)
             IN /\ Operation(text.mnemonic) = Mnemonic(result)
                /\ {242, 243} \subseteq Present(result)
                     \/ RepeatRead(text.prefixes) = Repeats(result)
                /\ \/ read = Operands(result)
                   \/ ~asked.preserve_operand_order /\ read = Swapped(Operands(result))
  <2>1. result.is_complete
    BY <1>1 DEF Decoded
  <2>2. ASSUME IsRefused(a, c) PROVE FALSE
    <3>1. text = Rendered("ValueError", << >>, None, << >>)
      BY <1>1, <2>1, <2>2, Zenon DEF render_body
    <3>2. text.raised = "ValueError"
      BY <3>1, Zenon DEF Rendered
    <3> QED
      BY <1>1, <3>2
  <2>3. /\ text.mnemonic = _MNEMONIC_OVERRIDES(m)
        /\ text.prefixes = IF m \in _STRING_OPS THEN _rep_suffix(result) ELSE << >>
        /\ text.operands = render_operands(result, a, p, c)
    BY <1>1, <2>1, <2>2, Zenon DEF render_body, Rendered
  <2>4. Operation(text.mnemonic) = m
    BY <1>1, <2>3, NamesAreListed, ListedNameReads
  <2>5. {242, 243} \subseteq Present(result) \/ RepeatRead(text.prefixes) = Repeats(result)
    <3>1. result.prefix_bytes \in Seq(Byte)
      BY <1>1, FieldsAreTyped DEF Decoded
    <3> QED
      BY <2>3, <3>1, ListedRepeats
  <2>6. \/ ListingRead(text, a + length(result)) = Operands(result)
        \/ ~p /\ ListingRead(text, a + length(result)) = Swapped(Operands(result))
    BY <1>1, <2>3, ListedLineReads
  <2>7. NextIP = a + length(result)
    BY <1>1 DEF NextIP
  <2> HIDE DEF m
  <2> QED
    BY <1>1, <2>4, <2>5, <2>6, <2>7, Zenon DEF m
<1>2. TypeOK /\ PartsInPlace /\ RowInForce /\ TextIsAnswer => ListingReadsBack
  <2> SUFFICES ASSUME TypeOK, PartsInPlace, RowInForce, TextIsAnswer,
                      Listed, ~LosesOverride(result)
               PROVE  LET read == ListingRead(text, NextIP)
                      IN /\ Operation(text.mnemonic) = Mnemonic(result)
                         /\ {242, 243} \subseteq Present(result)
                              \/ RepeatRead(text.prefixes) = Repeats(result)
                         /\ \/ read = Operands(result)
                            \/ ~asked.preserve_operand_order /\ read = Swapped(Operands(result))
    BY Zenon DEF ListingReadsBack
  <2>1. asked # Nothing /\ asked.style # "nasm"
    BY NothingIsTyped DEF Listed
  <2>2. /\ Returned /\ asked.address \in Int /\ asked.code_segment \in Int
        /\ text = render_body(result, asked.address, asked.preserve_operand_order,
                              asked.code_segment)
    BY <2>1 DEF TextIsAnswer
  <2>3. Decoded(result)
    BY <2>2, ReturnedIsDecoded
  <2>4. text.raised = "none"
    BY DEF Listed
  <2> QED
    BY <1>1, <2>2, <2>3, <2>4, Zenon
<1> QED
  BY <1>2, RenderingIsDecoding, TypeCorrect, PartsHold, RowHolds, TextHolds, PTL

-----------------------------------------------------------------------------
(* The prefixes of the assembler's style.                                  *)

\* What is known of the prefixes when a line is written: what the processor
\* makes of them.
LEMMA PrefixStateIs ==
  ASSUME NEW i, i.prefix_bytes \in Seq(Byte),
         NEW opts, opts.legacy_prefixes => i.prefix_bytes = << >>
  PROVE  LET state == _prefix_state(i, opts)
         IN /\ state.segment = Override(i)
            /\ state.lock <=> 240 \in Present(i)
            /\ state.repeat = Latest(i.prefix_bytes, {242, 243})
<1> DEFINE b == i.prefix_bytes
<1>1. ASSUME NEW S, b = << >> PROVE Latest(b, S) = {} /\ LastIn(b, S) = {}
  <2>1. At(b, S) = {}
    BY <1>1, SMT DEF At
  <2> QED
    BY <2>1, LatestIsLastIn
<1>2. LastIn(b, {240}) # {} <=> 240 \in Present(i)
  <2>1. At(b, {240}) # {} <=> 240 \in Present(i)
    BY SMT DEF At, Present
  <2>2. LastIn(b, {240}) = Latest(b, {240})
    BY LatestIsLastIn
  <2>3. At(b, {240}) = {} => Latest(b, {240}) = {}
    BY LatestIsLastIn
  <2>4. At(b, {240}) # {} => \E k \in At(b, {240}) : Latest(b, {240}) = {b[k]}
    BY LatestIsLastIn
  <2> QED
    BY <2>1, <2>2, <2>3, <2>4, ZenonT(30)
<1>3. _segment_override(i) = Override(i) /\ Latest(b, {242, 243}) = LastIn(b, {242, 243})
  BY OverrideIs, LatestIsLastIn
<1>4. CASE opts.legacy_prefixes
  <2>1. _prefix_state(i, opts) = [segment |-> None, lock |-> FALSE, repeat |-> NotPresent]
    BY <1>4, Zenon DEF _prefix_state
  <2>2. b = << >>
    BY <1>4
  <2>3. LastIn(b, {38, 46, 54, 62}) = {} /\ Latest(b, {242, 243}) = {} /\ LastIn(b, {240}) = {}
    BY <1>1, <2>2
  <2>4. Override(i) = None
    BY <1>3, <2>3, Zenon DEF _segment_override
  <2> DEFINE state == _prefix_state(i, opts)
  <2>5. state.segment = None /\ state.lock = FALSE /\ state.repeat = {}
    BY <2>1, SMT DEF NotPresent
  <2>6. 240 \notin Present(i)
    BY <1>2, <2>3
  <2> HIDE DEF state
  <2>7. /\ state.segment = Override(i) /\ (state.lock <=> 240 \in Present(i))
        /\ state.repeat = Latest(b, {242, 243})
    BY <2>3, <2>4, <2>5, <2>6, Zenon
  <2> QED
    BY <2>7 DEF state
<1>5. CASE ~opts.legacy_prefixes
  <2>1. _prefix_state(i, opts) = [segment |-> _segment_override(i),
                                  lock    |-> LastIn(b, {240}) # NotPresent,
                                  repeat  |-> LastIn(b, {242, 243})]
    BY <1>5, Zenon DEF _prefix_state
  <2> HIDE DEF b
  <2>2. /\ _prefix_state(i, opts).segment = _segment_override(i)
        /\ _prefix_state(i, opts).lock = (LastIn(b, {240}) # NotPresent)
        /\ _prefix_state(i, opts).repeat = LastIn(b, {242, 243})
    BY <2>1, SMT
  <2> QED
    BY <1>2, <1>3, <2>2, ZenonT(30) DEF NotPresent, b
<1> QED
  BY <1>4, <1>5

OverrideSaid(i) == IF Override(i) # None /\ WritesSegmentFirst(i) THEN {Override(i)} ELSE {}
LockSaid(i) == IF 240 \in Present(i) THEN {"LOCK"} ELSE {}
RepeatSaid(i) ==
  IF Repeats(i) = {} THEN {}
  ELSE {IF 242 \in Repeats(i) THEN "REPNE" ELSE rep2_prefix(Mnemonic(i))}

\* The words before the mnemonic.
LEMMA PrefixesSaid ==
  ASSUME NEW i, i.prefix_bytes \in Seq(Byte),
         NEW opts, opts.legacy_prefixes => i.prefix_bytes = << >>
  PROVE  Said(<< >> \o format_prefixes(i, opts)) = OverrideSaid(i) \union LockSaid(i) \union RepeatSaid(i)
<1> DEFINE state == _prefix_state(i, opts)
           m == Mnemonic(i)
           first == state.segment # None /\ WritesSegmentFirst(i)
           repeats == m \in _STRING_OPS /\ state.repeat # NotPresent
           rep == IF 242 \in state.repeat THEN rep1_prefix(m) ELSE rep2_prefix(m)
           A == IF first THEN << state.segment >> ELSE << >>
           B == IF state.lock THEN << "LOCK" >> ELSE << >>
           C == IF repeats THEN << rep >> ELSE << >>
           X == {state.segment, "LOCK", rep}
<1>1. format_prefixes(i, opts) = A \o B \o C
  BY Zenon DEF format_prefixes
<1>2. /\ state.segment = Override(i)
      /\ state.lock <=> 240 \in Present(i)
      /\ state.repeat = Latest(i.prefix_bytes, {242, 243})
  BY PrefixStateIs
<1>3. Said(A) = OverrideSaid(i)
  BY <1>2, SaidIs, Zenon DEF OverrideSaid
<1>4. Said(B) = LockSaid(i)
  BY <1>2, SaidIs, Zenon DEF LockSaid
<1>5. Said(C) = RepeatSaid(i)
  <2>1. Repeats(i) = IF m \in _STRING_OPS THEN state.repeat ELSE {}
    BY <1>2, Zenon DEF Repeats
  <2>2. m \in _STRING_OPS => rep1_prefix(m) = "REPNE"
    BY DEF rep1_prefix
  <2>3. CASE repeats
    <3>1. Repeats(i) = state.repeat /\ Repeats(i) # {}
      BY <2>1, <2>3, Zenon DEF NotPresent
    <3>2. Said(C) = {rep}
      BY <2>3, SaidIs, Zenon
    <3>3. rep = IF 242 \in Repeats(i) THEN "REPNE" ELSE rep2_prefix(m)
      BY <2>2, <2>3, <3>1, Zenon
    <3> QED
      BY <3>1, <3>2, <3>3, Zenon DEF RepeatSaid
  <2>4. CASE ~repeats
    <3>1. Repeats(i) = {}
      BY <2>1, <2>4, Zenon DEF NotPresent
    <3>2. Said(C) = {}
      BY <2>4, SaidIs, Zenon
    <3> QED
      BY <3>1, <3>2, Zenon DEF RepeatSaid
  <2> QED
    BY <2>3, <2>4
<1>6. A \in Seq(X) /\ B \in Seq(X) /\ C \in Seq(X) /\ << >> \in Seq(X)
  <2> HIDE DEF first, repeats, rep, state
  <2>1. << state.segment >> \in Seq(X) /\ << "LOCK" >> \in Seq(X) /\ << rep >> \in Seq(X)
        /\ << >> \in Seq(X)
    OBVIOUS
  <2> HIDE DEF X
  <2> QED
    BY <2>1
<1> HIDE DEF A, B, C, X
<1>7. A \o B \in Seq(X) /\ (A \o B) \o C \in Seq(X)
  <2>1. A \o B \in Seq(X)
    BY <1>6, ConcatProperties
  <2> QED
    BY <1>6, <2>1, ConcatProperties
<1>8. << >> \o (A \o B \o C) = A \o B \o C
  BY <1>7, ConcatEmptySeq, Zenon
<1>9. Said(A \o B) = Said(A) \union Said(B)
  BY <1>6, SaidJoins, ZenonT(30)
<1>10. Said((A \o B) \o C) = Said(A \o B) \union Said(C)
  BY <1>6, <1>7, SaidJoins, ZenonT(30)
<1> QED
  BY <1>1, <1>3, <1>4, <1>5, <1>8, <1>9, <1>10

\* What is read of them: the repetition, the lock, and the segment of the memory
\* a name implies.
LEMMA PrefixesRead ==
  ASSUME NEW i, i.prefix_bytes \in Seq(Byte), NEW words,
         Said(words) = OverrideSaid(i) \union LockSaid(i) \union RepeatSaid(i)
  PROVE  /\ RepeatRead(words) = Repeats(i)
         /\ "LOCK" \in Said(words) <=> 240 \in Present(i)
         /\ SegmentRead(words) = IF WritesSegmentFirst(i) THEN In(i, "DS") ELSE "DS"
<1> DEFINE rep == IF 242 \in Repeats(i) THEN "REPNE" ELSE rep2_prefix(Mnemonic(i))
<1>1. Repeats(i) \in {{}, {242}, {243}}
  <2>1. CASE Mnemonic(i) \in _STRING_OPS
    BY <2>1, RepeatsAre
  <2>2. CASE Mnemonic(i) \notin _STRING_OPS
    BY <2>2 DEF Repeats
  <2> QED
    BY <2>1, <2>2
<1>2. rep \in {"REPNE", "REP", "REPE"}
  BY DEF rep2_prefix
<1>3. rep = "REPNE" <=> 242 \in Repeats(i)
  BY DEF rep2_prefix
<1>4. OverrideSaid(i) \subseteq Segments
  BY OverrideIs DEF OverrideSaid
<1>5. RepeatSaid(i) = IF Repeats(i) = {} THEN {} ELSE {rep}
  BY DEF RepeatSaid
<1>6. "LOCK" \notin Segments
  BY DEF Segments
<1>7. LockSaid(i) = IF 240 \in Present(i) THEN {"LOCK"} ELSE {}
  BY DEF LockSaid
<1> HIDE DEF rep
<1>8. rep \notin Segments /\ rep # "LOCK"
  BY <1>2 DEF Segments
<1>9. Said(words) \ ({"LOCK"} \union Segments) = RepeatSaid(i)
  BY <1>4, <1>5, <1>7, <1>8
<1>10. RepeatRead(words) = Repeats(i)
  <2>1. RepeatRead(words) = {IF p = "REPNE" THEN 242 ELSE 243 : p \in RepeatSaid(i)}
    BY <1>9, Zenon DEF RepeatRead
  <2>2. CASE Repeats(i) = {}
    BY <1>5, <2>1, <2>2
  <2>3. CASE Repeats(i) = {242}
    BY <1>3, <1>5, <2>1, <2>3
  <2>4. CASE Repeats(i) = {243}
    BY <1>3, <1>5, <2>1, <2>4
  <2> QED
    BY <1>1, <2>2, <2>3, <2>4
<1>11. "LOCK" \in Said(words) <=> 240 \in Present(i)
  BY <1>4, <1>5, <1>6, <1>7, <1>8
<1>12. Said(words) \intersect Segments = OverrideSaid(i)
  BY <1>4, <1>5, <1>6, <1>7, <1>8
<1>13. SegmentRead(words) = IF WritesSegmentFirst(i) THEN In(i, "DS") ELSE "DS"
  <2> DEFINE Q == Said(words) \intersect Segments
  <2>1. SegmentRead(words) = IF Q = {} THEN "DS" ELSE CHOOSE s \in Q : TRUE
    BY Zenon DEF SegmentRead
  <2>2. ASSUME NEW x, Q = {x} PROVE SegmentRead(words) = x
    <3> DEFINE s == CHOOSE s \in Q : TRUE
    <3>1. s \in Q
      BY <2>2
    <3> HIDE DEF s, Q
    <3>2. s = x
      BY <2>2, <3>1
    <3> QED
      BY <2>1, <2>2, <3>2 DEF s
  <2>3. Q = {} => SegmentRead(words) = "DS"
    BY <2>1
  <2> HIDE DEF Q
  <2>4. Q = OverrideSaid(i)
    BY <1>12 DEF Q
  <2>5. CASE Override(i) # None /\ WritesSegmentFirst(i)
    BY <2>2, <2>4, <2>5, Zenon DEF OverrideSaid, In
  <2>6. CASE ~(Override(i) # None /\ WritesSegmentFirst(i))
    BY <2>3, <2>4, <2>6, Zenon DEF OverrideSaid, In
  <2> QED
    BY <2>5, <2>6
<1> QED
  BY <1>10, <1>11, <1>13

-----------------------------------------------------------------------------
(* What is written of an operand is read as what it means, but for the     *)
(* width of memory.                                                        *)

Thin(x) == [x EXCEPT !.width = 0]

\* Memory without its width.
LEMMA ThinMemory ==
  ASSUME NEW w, NEW s, NEW r, NEW n
  PROVE  Thin(MemoryAt(w, s, r, n)) = MemoryAt(0, s, r, n)
<1> DEFINE z == n % 65536
<1>1. MemoryAt(w, s, r, n) = Meaning("memory", w, s, r, z) /\ MemoryAt(0, s, r, n) = Meaning("memory", 0, s, r, z)
  BY SMT DEF MemoryAt
<1> HIDE DEF z
<1>2. Thin(Meaning("memory", w, s, r, z)) = Meaning("memory", 0, s, r, z)
  BY SMT DEF Thin, Meaning
<1> QED
  BY <1>1, <1>2

\* The segment an address is written with is the processor's own default: the
\* stack for the modes with BP, where BP always comes first.
LEMMA BaseIsDefault ==
  ASSUME NEW m \in 0..2, NEW n \in 0..7, NEW d, NEW w, NEW v, v = << m, n, d, w >>
  PROVE  /\ base_register(v) = DefaultSegment(ADDR16_REGISTER_TEXT(v))
         /\ base_register(v) # None
<1>1. v[1] = m /\ v[2] = n
  BY SMT
<1> DEFINE r == ADDR16_REGISTER_TEXT(v)
<1>2. base_register(v) # None
  <2>1. "SS" # None /\ "DS" # None
    BY Zenon DEF None
  <2> QED
    BY <2>1, SMT DEF base_register
<1>3. CASE IsDisp16(v)
  <2>1. r = << >>
    BY <1>3, Zenon DEF ADDR16_REGISTER_TEXT
  <2>2. DefaultSegment(r) = "DS"
    BY <2>1, SMT DEF DefaultSegment
  <2>3. base_register(v) = "DS"
    BY <1>3, Zenon DEF base_register
  <2> QED
    BY <1>2, <2>2, <2>3
<1>4. CASE ~IsDisp16(v)
  <2>1. r = BaseRegisters[n + 1]
    BY <1>1, <1>4, Zenon DEF ADDR16_REGISTER_TEXT
  <2>2. base_register(v) = IF r[1] = "BP" THEN "SS" ELSE "DS"
    BY <1>4, Zenon DEF base_register
  <2>3. r = IF n = 0 THEN <<"BX", "SI">> ELSE IF n = 1 THEN <<"BX", "DI">>
            ELSE IF n = 2 THEN <<"BP", "SI">> ELSE IF n = 3 THEN <<"BP", "DI">>
            ELSE IF n = 4 THEN <<"SI">> ELSE IF n = 5 THEN <<"DI">>
            ELSE IF n = 6 THEN <<"BP">> ELSE <<"BX">>
    BY <2>1, SMT DEF BaseRegisters
  <2> HIDE DEF r
  <2>4. CASE n \in {2, 3, 6}
    <3>1. r[1] = "BP" /\ 1 \in DOMAIN r
      BY <2>3, <2>4, SMT
    <3>2. DefaultSegment(r) = "SS"
      BY <3>1, SMT DEF DefaultSegment
    <3> QED
      BY <1>2, <2>2, <3>1, <3>2 DEF r
  <2>5. CASE n \in {0, 1}
    <3>1. r = <<"BX", "SI">> \/ r = <<"BX", "DI">>
      BY <2>3, <2>5, SMT
    <3>2. r[1] # "BP" /\ \A k \in DOMAIN r : r[k] # "BP"
      BY <3>1, SMT
    <3>3. DefaultSegment(r) = "DS"
      BY <3>2, SMT DEF DefaultSegment
    <3> QED
      BY <1>2, <2>2, <3>2, <3>3 DEF r
  <2>6. CASE n \in {4, 5, 7}
    <3>1. r = <<"SI">> \/ r = <<"DI">> \/ r = <<"BX">>
      BY <2>3, <2>6, SMT
    <3>2. r[1] # "BP" /\ \A k \in DOMAIN r : r[k] # "BP"
      BY <3>1, SMT
    <3>3. DefaultSegment(r) = "DS"
      BY <3>2, SMT DEF DefaultSegment
    <3> QED
      BY <1>2, <2>2, <3>2, <3>3 DEF r
  <2> QED
    BY <2>4, <2>5, <2>6
<1> QED
  BY <1>3, <1>4

\* The segment of written memory is never left out.
LEMMA NamedSegment ==
  ASSUME NEW i, NEW default, default # None
  PROVE  /\ Named(Override(i), default) # None
         /\ Named(Override(i), default) = In(i, default)
BY Zenon DEF Named, In

\* An immediate.
LEMMA FormattedNumberReads ==
  ASSUME NEW i, NEW o, NEW s, NEW a, NEW t, NEW next,
         o.kind \in {"imm8", "imm16", "imm8s"}, o.value[1] \in Int
  PROVE  OperandRead(t, format_operand(i, o, s, a), next) = OperandMeaning(i, o)
<1> DEFINE n == o.value[1]
           w == n % 65536
           shown == format_operand(i, o, s, a)
<1>1. OperandMeaning(i, o) = Number16(n)
  BY MeaningOfNumber
<1>2. shown = NumberText(n) \/ shown = NumberText(w)
  <2>1. CASE o.kind = "imm8s"
    BY <2>1, FormattedSigned, SMT
  <2>2. CASE o.kind \in {"imm8", "imm16"}
    BY <2>2, FormattedNumber, SMT
  <2> QED
    BY <2>1, <2>2
<1>3. Number16(w) = Number16(n)
  BY LowSays, SMT
<1> HIDE DEF n, w, shown
<1>4. OperandRead(t, shown, next) = Number16(n)
  BY <1>2, <1>3, ReadNumber
<1> QED
  BY <1>1, <1>4 DEF shown

\* A target.
LEMMA FormattedTargetReads ==
  ASSUME NEW i, NEW o, NEW s, NEW a \in Int, NEW t, length(i) \in Int,
         o.value[1] \in Int, o.kind \in {"rel8", "rel16", "far16"},
         o.kind = "far16" => t.mnemonic \in FarNames
  PROVE  OperandRead(t, format_operand(i, o, s, a), a + length(i)) = OperandMeaning(i, o)
<1>1. CASE o.kind \in {"rel8", "rel16"}
  <2> DEFINE d == o.value[1]
             n == length(i)
             w == ((a % 65536) + d + n) % 65536
             z == w - (a + n)
             shown == format_operand(i, o, s, a)
  <2>1. shown = OffsetText(w)
    <3>1. shown = OffsetText(NearOffset(i, a, d))
      BY <1>1, FormattedOffset, SMT
    <3> QED
      BY <3>1, SMT DEF NearOffset
  <2>2. z % 65536 = d % 65536
    <3> HIDE DEF n, d
    <3>1. n \in Int /\ d \in Int
      BY DEF n, d
    <3> QED
      BY <3>1, OffsetReads, SMT
  <2>3. OperandMeaning(i, o) = Near(d)
    BY <1>1, MeaningOfTarget, SMT
  <2>4. Near(z) = Near(d)
    <3> DEFINE u == z % 65536
               v == d % 65536
    <3>1. u = v
      BY <2>2, SMT
    <3>2. Near(z) = Meaning("near", 0, None, << >>, u) /\ Near(d) = Meaning("near", 0, None, << >>, v)
      <4> HIDE DEF z, d
      <4> QED
        BY SMT DEF Near
    <3> HIDE DEF u, v, z, d
    <3> QED
      BY <3>1, <3>2, SMT
  <2>5. OperandRead(t, shown, a + n) = Near(z)
    <3> HIDE DEF shown, w, n
    <3>1. OperandRead(t, shown, a + n) = Near(w - (a + n))
      BY <2>1, ReadOffset, SMT
    <3> QED
      BY <3>1, SMT
  <2> HIDE DEF shown, z, d
  <2> QED
    BY <2>3, <2>4, <2>5, SMT DEF shown
<1>2. CASE o.kind = "far16"
  <2> DEFINE x == o.value[1]
             y == o.value[2]
             shown == format_operand(i, o, s, a)
             next == a + length(i)
  <2>1. shown = PairText(x, y)
    BY <1>2, FormattedFar
  <2>2. OperandMeaning(i, o) = Far(x * 16 + y)
    BY <1>2, MeaningOfTarget, SMT
  <2>3. t.mnemonic \in {"CALLF", "JMPF"}
    BY <1>2 DEF FarNames
  <2> HIDE DEF shown, x, y, next
  <2>4. OperandRead(t, shown, next) = Far(x * 16 + y)
    BY <2>1, <2>3, ReadPair, SMT
  <2> QED
    BY <2>2, <2>4, SMT DEF shown, next
<1> QED
  BY <1>1, <1>2, SMT

\* The memory of a moved accumulator.
LEMMA FormattedMoffsReads ==
  ASSUME NEW i, NEW o, NEW a, NEW t, NEW next, o.kind \in {"offset8_16", "offset16_16"}
  PROVE  Thin(OperandRead(t, format_operand(i, o, Override(i), a), next)) = Thin(OperandMeaning(i, o))
<1> DEFINE n == o.value[1]
           s == Named(Override(i), "DS")
           W == WidthRead(t, None)
           shown == format_operand(i, o, Override(i), a)
<1>1. shown = MemoryText(None, s, << >>, << n >>)
  BY FormattedMoffs
<1>2. s # None /\ s = In(i, "DS")
  <2>1. "DS" # None
    BY Zenon DEF None
  <2> QED
    BY <2>1, NamedSegment
<1>3. OperandMeaning(i, o) = MemoryAt(8, s, << >>, n) \/ OperandMeaning(i, o) = MemoryAt(16, s, << >>, n)
  <2>1. CASE o.kind = "offset8_16"
    BY <1>2, <2>1, MeaningOfOffset
  <2>2. CASE o.kind = "offset16_16"
    BY <1>2, <2>2, MeaningOfOffset
  <2> QED
    BY <2>1, <2>2
<1> HIDE DEF shown, s, n, W
<1>4. NumberOr0(<< n >>) = n
  BY SMT DEF NumberOr0
<1>5. OperandRead(t, shown, next) = MemoryAt(W, s, << >>, n)
  BY <1>1, <1>2, <1>4, ReadMemory, SMT DEF W
<1>6. Thin(OperandRead(t, shown, next)) = Thin(OperandMeaning(i, o))
  BY <1>3, <1>5, ThinMemory
<1> QED
  BY <1>6 DEF shown

\* An addressing mode.
LEMMA FormattedAddressReads ==
  ASSUME NEW i, NEW o, NEW a, NEW t, NEW next, NEW op, ValueIs(op), op.value = o.value,
         op.kind = "addr16", o.kind = "addr16"
  PROVE  Thin(OperandRead(t, format_operand(i, o, Override(i), a), next)) = Thin(OperandMeaning(i, o))
<1> DEFINE v == o.value
           n == v[3]
           r == ADDR16_REGISTER_TEXT(v)
           s == Named(Override(i), base_register(v))
           W == WidthRead(t, None)
           V == IF Unsized(Mnemonic(i)) /\ v[4] = 16 THEN 0 ELSE v[4]
           p == CASE IsDisp16(v) -> << n % 65536 >>
                  [] carries_displacement(v) /\ ~IsDisp16(v) /\ n # 0 -> << n >>
                  [] OTHER -> << >>
           shown == format_operand(i, o, Override(i), a)
<1>1. PICK m0 \in 0..2, n0 \in 0..7, d0 \in Int, w0 \in {8, 16} :
        /\ op.value = << m0, n0, d0, w0 >>
        /\ -32768 <= d0 /\ d0 <= 32767
        /\ m0 = 0 /\ n0 # 6 => d0 = 0
  BY AddressValue, SMT
<1>2. /\ v[1] = m0 /\ v[2] = n0 /\ n = d0
  BY <1>1, SMT
<1>3. shown = MemoryText(None, s, r, p)
  <2> HIDE DEF s
  <2>1. format_address_16(s, v) = MemoryText(None, s, r, p)
    BY SMT DEF format_address_16
  <2> HIDE DEF p, r
  <2> QED
    BY <2>1, FormattedAddress, Zenon DEF s
<1>4. s # None /\ s = In(i, DefaultSegment(r))
  BY <1>1, BaseIsDefault, NamedSegment
<1>5. OperandMeaning(i, o) = MemoryAt(V, s, r, n)
  BY <1>4, MeaningOfAddress, SMT
<1>6. NumberOr0(p) = n \/ NumberOr0(p) = n % 65536
  <2>1. CASE IsDisp16(v)
    <3> DEFINE y == n % 65536
    <3>1. p = << y >>
      BY <2>1, SMT
    <3> HIDE DEF p, y
    <3>2. NumberOr0(p) = y
      BY <3>1, SMT DEF NumberOr0
    <3> QED
      BY <3>2 DEF y
  <2>2. CASE ~IsDisp16(v) /\ carries_displacement(v) /\ n # 0
    <3>1. p = << n >>
      BY <2>2, SMT
    <3> HIDE DEF p
    <3> QED
      BY <3>1, SMT DEF NumberOr0
  <2>3. CASE ~IsDisp16(v) /\ ~(carries_displacement(v) /\ n # 0)
    <3>1. p = << >>
      BY <2>3, SMT
    <3>2. n = 0
      BY <1>1, <1>2, <2>3, SMT DEF carries_displacement, IsDisp16
    <3> QED
      BY <3>1, <3>2, SMT DEF NumberOr0
  <2> QED
    BY <2>1, <2>2, <2>3
<1> DEFINE x == NumberOr0(p)
<1>7. MemoryAt(W, s, r, x) = MemoryAt(W, s, r, n)
  <2>1. n \in Int
    BY <1>2, SMT
  <2>2. x = n \/ x = n % 65536
    BY <1>6, SMT
  <2> HIDE DEF W, s, r, x, n
  <2> QED
    BY <2>1, <2>2, LowSays, SMT
<1>8. OperandRead(t, shown, next) = MemoryAt(W, s, r, x)
  <2> HIDE DEF shown, s, p, r
  <2> QED
    BY <1>3, <1>4, ReadMemory, SMT
<1> HIDE DEF shown, W, V, s, r, x, n
<1>9. Thin(OperandRead(t, shown, next)) = Thin(OperandMeaning(i, o))
  BY <1>5, <1>7, <1>8, ThinMemory
<1> QED
  BY <1>9 DEF shown

\* An operand of an instruction is read from the assembler's text as what it
\* means.
LEMMA FormattedOperandReads ==
  ASSUME NEW i, Decoded(i), DECODE = DecodeRows, NEW a \in Int, NEW t,
         NEW op, op = i.operand1 \/ op = i.operand2, op.kind # "none",
         NEW o, o.kind = op.kind, o.value = op.value,
         o.kind = "far16" => t.mnemonic \in FarNames
  PROVE  Thin(OperandRead(t, format_operand(i, o, Override(i), a), a + length(i))) =
           Thin(OperandMeaning(i, o))
<1> DEFINE next == a + length(i)
<1>1. ValueIs(op)
  BY OperandsAre
<1>2. length(i) \in Int
  BY LengthIsTyped
<1>3. CASE o.kind \in RegisterKinds
  BY <1>3, FormattedRegister, ReadRegister, MeaningOfRegister
<1>4. CASE o.kind \in {"imm8", "imm16", "imm8s"}
  <2>1. o.value[1] \in Int
    BY <1>1, <1>4 DEF ValueIs
  <2> QED
    BY <1>4, <2>1, FormattedNumberReads
<1>5. CASE o.kind \in {"rel8", "rel16", "far16"}
  <2>1. o.value[1] \in Int
    BY <1>1, <1>5 DEF ValueIs
  <2> QED
    BY <1>2, <1>5, <2>1, FormattedTargetReads
<1>6. CASE o.kind \in {"offset8_16", "offset16_16"}
  BY <1>6, FormattedMoffsReads
<1>7. CASE o.kind = "addr16"
  <2>1. op.kind = "addr16" /\ op.value = o.value
    BY <1>7
  <2> HIDE DEF next
  <2>2. Thin(OperandRead(t, format_operand(i, o, Override(i), a), next)) = Thin(OperandMeaning(i, o))
    BY <1>1, <1>7, <2>1, FormattedAddressReads, SMT
  <2> QED
    BY <2>2 DEF next
<1>8. op.kind \in OperandKind
  BY <1>1 DEF ValueIs, Operand
<1> QED
  BY <1>3, <1>4, <1>5, <1>6, <1>7, <1>8 DEF RegisterKinds, OperandKind

\* A pair is written of a far pointer alone.
LEMMA PairIsFar ==
  ASSUME NEW i, NEW o, NEW s, NEW a, o.kind \in OperandKind \ {"none"}
  PROVE  format_operand(i, o, s, a).kind = "pair" <=> o.kind = "far16"
<1> DEFINE shown == format_operand(i, o, s, a)
<1>1. CASE o.kind \in RegisterKinds
  <2>1. shown.kind = "register"
    BY <1>1, FormattedRegister DEF RegisterText, Text
  <2> QED
    BY <1>1, <2>1 DEF RegisterKinds
<1>2. CASE o.kind \in {"imm8", "imm16"}
  <2>1. shown.kind = "number"
    BY <1>2, FormattedNumber DEF NumberText, Text
  <2> QED
    BY <1>2, <2>1
<1>3. CASE o.kind = "imm8s"
  <2> DEFINE w == o.value[1] % 65536
  <2>1. shown = NumberText(w)
    BY <1>3, FormattedSigned, SMT
  <2> HIDE DEF w
  <2>2. shown.kind = "number"
    BY <2>1 DEF NumberText, Text
  <2> QED
    BY <1>3, <2>2
<1>4. CASE o.kind \in {"rel8", "rel16"}
  <2> DEFINE w == NearOffset(i, a, o.value[1])
  <2>1. shown = OffsetText(w)
    BY <1>4, FormattedOffset
  <2> HIDE DEF w
  <2>2. shown.kind = "offset"
    BY <2>1 DEF OffsetText, Text
  <2> QED
    BY <1>4, <2>2
<1>5. CASE o.kind = "far16"
  <2>1. shown.kind = "pair"
    BY <1>5, FormattedFar DEF PairText, Text
  <2> QED
    BY <1>5, <2>1
<1>6. CASE o.kind \in {"offset8_16", "offset16_16"}
  <2>1. shown.kind = "memory"
    BY <1>6, FormattedMoffs DEF MemoryText, Text
  <2> QED
    BY <1>6, <2>1
<1>7. CASE o.kind = "addr16"
  <2>1. shown = format_address_16(Named(s, base_register(o.value)), o.value)
    BY <1>7, FormattedAddress
  <2>2. \A n : format_address_16(n, o.value).kind = "memory"
    BY SMT DEF format_address_16, MemoryText, Text
  <2>3. shown.kind = "memory"
    BY <2>1, <2>2
  <2> QED
    BY <1>7, <2>3
<1> QED
  BY <1>1, <1>2, <1>3, <1>4, <1>5, <1>6, <1>7 DEF RegisterKinds, OperandKind

\* An indirect far call or jump has a ModRM byte, and a near one no pointer.
LEMMA FarByModRm ==
  ASSUME NEW i, Decoded(i), DECODE = DecodeRows
  PROVE  /\ Mnemonic(i) \in FarNames /\ i.operand1.kind # "far16" => i.has_modrm
         /\ i.operand1.kind = "far16" => Mnemonic(i) \in FarNames
         /\ i.operand2.kind # "far16"
<1> DEFINE r == RowOf(i)
           pair == Row(r).operands
           m == Mnemonic(i)
<1>1. /\ r \in Int /\ 0 <= r /\ r <= 351 /\ KindIs(i.operand1, pair[1]) /\ KindIs(i.operand2, pair[2])
      /\ m = RowMnemonic(r) /\ (r >= 256 => i.has_modrm)
  BY RowOfGroup DEF Mnemonic
<1>2. ASSUME m \in FarNames, i.operand1.kind # "far16" PROVE i.has_modrm
  <2>1. r = 154 \/ r = 234 \/ 336 <= r
    BY <1>1, <1>2, NamedRows DEF FarNames
  <2>2. pair[1] # "FAR"
    BY <1>1, <1>2 DEF KindIs
  <2>3. r # 154 /\ r # 234
    BY <1>1, <2>2, NamedPairs
  <2> QED
    BY <1>1, <2>1, <2>3
<1>3. i.operand2.kind # "far16"
  BY <1>1, PairRows DEF KindIs
<1>4. i.operand1.kind = "far16" => m \in FarNames
  BY FarIsNamed
<1> QED
  BY <1>2, <1>3, <1>4

\* The name that is written is a name of the operation, but that a far call or
\* jump is written as a near one.
LEMMA WrittenNames ==
  ASSUME NEW i, Mnemonic(i) \in TableText, Mnemonic(i) \notin NoNames, NEW opts
  PROVE  LET m == Mnemonic(i)
             w == format_mnemonic(i, opts)
         IN /\ m = "CALLF" \/ m = "CALL" <=> w = "CALL"
            /\ m = "JMPF" \/ m = "JMP" <=> w = "JMP"
            /\ m \notin FarNames => Operation(w) = m
<1> DEFINE m == Mnemonic(i)
           w == format_mnemonic(i, opts)
           J == {"JNL", "JNLE", "JNB", "JNBE", "JZ", "JNZ"}
<1>1. m \in TableText /\ m \notin NoNames
  OBVIOUS
<1>2. w = IF opts.iced_mnemonics /\ m \in DOMAIN _ICED_ALIASES THEN _ICED_ALIASES[m]
          ELSE mnemonic_to_str(m)
  BY Zenon DEF format_mnemonic
<1> HIDE DEF m, w
<1>3. m \notin {"JC", "JNC", "JAE", "JGE", "JG", "JA", "JE", "JNE", "XLATB", "SETZ", "SETNZ",
                "SETNL", "SETNLE", "SETNBE", "SETNB"} \union Placeholders
  BY <1>1 DEF TableText, ArithmeticText, JumpText, MoveText, ControlText, GroupText, NoNames
<1>4. m \notin J => w = mnemonic_to_str(m)
  BY <1>2, <1>3 DEF _ICED_ALIASES
<1>5. CASE m \in {"CALLF", "JMPF", "XLAT"}
  <2>1. m \notin J
    BY <1>5
  <2>2. /\ m = "CALLF" => w = "CALL"
        /\ m = "JMPF" => w = "JMP"
        /\ m = "XLAT" => w = "XLATB"
    BY <1>4, <2>1, SMT DEF mnemonic_to_str, Placeholders
  <2>3. Operation("XLATB") = "XLAT"
    BY SMT DEF Operation
  <2> QED
    BY <1>5, <2>2, <2>3 DEF FarNames, m, w
<1>6. CASE m \notin {"CALLF", "JMPF", "XLAT"} \union J
  <2>1. w = m
    BY <1>3, <1>4, <1>6 DEF mnemonic_to_str
  <2>2. Operation(m) = m
    BY <1>3, <1>6 DEF Operation
  <2> QED
    BY <1>6, <2>1, <2>2 DEF m, w
<1>7. CASE m \in J
  <2>1. mnemonic_to_str(m) = m
    BY <1>3, <1>7 DEF mnemonic_to_str
  <2>2. Operation(m) = m
    BY <1>7 DEF Operation
  <2>3. m \in DOMAIN _ICED_ALIASES
    BY <1>7 DEF _ICED_ALIASES
  <2>4. _ICED_ALIASES[m] = IF m = "JNL" THEN "JGE" ELSE IF m = "JNLE" THEN "JG"
                           ELSE IF m = "JNB" THEN "JAE" ELSE IF m = "JNBE" THEN "JA"
                           ELSE IF m = "JZ" THEN "JE" ELSE "JNE"
    BY <1>7, SMT DEF _ICED_ALIASES
  <2>5. /\ Operation("JGE") = "JNL" /\ Operation("JG") = "JNLE" /\ Operation("JAE") = "JNB"
        /\ Operation("JA") = "JNBE" /\ Operation("JE") = "JZ" /\ Operation("JNE") = "JNZ"
    BY SMT DEF Operation
  <2>6. Operation(_ICED_ALIASES[m]) = m /\ _ICED_ALIASES[m] \notin {"CALL", "JMP"}
    BY <1>7, <2>4, <2>5
  <2>7. w = m \/ w = _ICED_ALIASES[m]
    BY <1>2, <2>1
  <2> QED
    BY <1>7, <2>2, <2>6, <2>7 DEF m, w
<1> QED
  BY <1>5, <1>6, <1>7

-----------------------------------------------------------------------------
(* A whole line of the assembler's style.                                  *)

Written(i, s, segment, a) == [k \in 1..Len(s) |-> format_operand(i, s[k], segment, a)]

\* The operands that are written are those decoded, with the override in force.
LEMMA FormattedOperandsAre ==
  ASSUME NEW i, i.prefix_bytes \in Seq(Byte), NEW a,
         NEW opts, opts.legacy_prefixes => i.prefix_bytes = << >>
  PROVE  format_operands(i, opts, a) = Written(i, DecodedOperands(i), Override(i), a)
<1>1. _prefix_state(i, opts).segment = Override(i)
  BY PrefixStateIs
<1> QED
  BY <1>1, Zenon DEF format_operands, Written

\* Leaving the widths out, operand by operand.
LEMMA WidthlessOf ==
  ASSUME NEW x, NEW y
  PROVE  /\ Widthless(<< >>) = << >>
         /\ Widthless(<< x >>) = << Thin(x) >>
         /\ Widthless(<< x, y >>) = << Thin(x), Thin(y) >>
<1>1. Widthless(<< >>) = << >>
  BY SMT DEF Widthless
<1>2. Widthless(<< x >>) = << Thin(x) >>
  BY SMT DEF Widthless, Thin
<1>3. Widthless(<< x, y >>) = << Thin(x), Thin(y) >>
  BY SMT DEF Widthless, Thin
<1> QED
  BY <1>1, <1>2, <1>3

\* The decoded operands are none, one or two, and there is an operand for each.
LEMMA ShortOperands ==
  ASSUME NEW i, Decoded(i), DECODE = DecodeRows
  PROVE  LET decoded == DecodedOperands(i)
         IN /\ decoded \in {<< >>, << First(i) >>, << First(i), Second(i) >>}
            /\ decoded # << >> => i.operand1.kind # "none"
            /\ decoded = << First(i), Second(i) >> => i.operand2.kind # "none"
            /\ decoded = << >> => i.operand1.kind = "none"
<1> DEFINE f == First(i)
           s == Second(i)
           decoded == DecodedOperands(i)
<1>1. (i.operand1.kind = "none" <=> Row(RowOf(i)).operands[1] = "NONE")
      /\ (i.operand2.kind = "none" <=> Row(RowOf(i)).operands[2] = "NONE")
  BY RowOfGroup DEF KindIs
<1>2. << f, s >> # << >> /\ << f, s >> # << f >> /\ << f >> # << >>
  <2> HIDE DEF f, s
  <2> QED
    BY SMT
<1>3. LET pair == Row(RowOf(i)).operands
      IN /\ pair[1] = "NONE" => decoded = << >>
         /\ pair[1] # "NONE" /\ pair[2] = "NONE" => decoded = << f >>
         /\ pair[1] # "NONE" /\ pair[2] # "NONE" => decoded = << f, s >>
  BY DecodedShapes
<1> HIDE DEF f, s, decoded
<1>4. /\ decoded \in {<< >>, << f >>, << f, s >>}
      /\ decoded # << >> => i.operand1.kind # "none"
      /\ decoded = << f, s >> => i.operand2.kind # "none"
      /\ decoded = << >> => i.operand1.kind = "none"
  BY <1>1, <1>2, <1>3
<1> QED
  BY <1>4 DEF f, s, decoded

\* Operands that are all written are read, in their order, as what they mean.
LEMMA WrittenReads ==
  ASSUME NEW i, Decoded(i), DECODE = DecodeRows, NEW a \in Int, NEW t,
         t.operands = Written(i, DecodedOperands(i), Override(i), a),
         i.operand1.kind = "far16" => t.mnemonic \in FarNames
  PROVE  LET decoded == DecodedOperands(i)
             next == a + length(i)
             x == OperandRead(t, format_operand(i, First(i), Override(i), a), next)
             y == OperandRead(t, format_operand(i, Second(i), Override(i), a), next)
             u == OperandMeaning(i, First(i))
             v == OperandMeaning(i, Second(i))
         IN \/ /\ decoded = << >>
               /\ Readings(t, next) = << >> /\ Meanings(i, decoded) = << >>
               /\ t.operands = << >>
            \/ /\ decoded = << First(i) >>
               /\ Readings(t, next) = << x >> /\ Meanings(i, decoded) = << u >>
               /\ Thin(x) = Thin(u) /\ Len(t.operands) = 1 /\ t.operands # << >>
            \/ /\ decoded = << First(i), Second(i) >>
               /\ Readings(t, next) = << x, y >> /\ Meanings(i, decoded) = << u, v >>
               /\ Thin(x) = Thin(u) /\ Thin(y) = Thin(v)
               /\ Len(t.operands) = 2 /\ t.operands # << >>
<1> DEFINE f == First(i)
           s == Second(i)
           g == Override(i)
           F == format_operand(i, f, g, a)
           S == format_operand(i, s, g, a)
           decoded == DecodedOperands(i)
           next == a + length(i)
           x == OperandRead(t, F, next)
           y == OperandRead(t, S, next)
           u == OperandMeaning(i, f)
           v == OperandMeaning(i, s)
<1>1. /\ decoded \in {<< >>, << f >>, << f, s >>}
      /\ decoded # << >> => i.operand1.kind # "none"
      /\ decoded = << f, s >> => i.operand2.kind # "none"
  BY ShortOperands
<1>2. /\ f.kind = i.operand1.kind /\ f.value = i.operand1.value
      /\ s.kind = i.operand2.kind /\ s.value = i.operand2.value
  BY Zenon DEF First, Second, NamedOperand
<1>3. i.operand2.kind # "far16"
  BY FarByModRm
<1>4. ASSUME NEW op, op = i.operand1 \/ op = i.operand2, op.kind # "none",
             NEW o, o.kind = op.kind, o.value = op.value
      PROVE  Thin(OperandRead(t, format_operand(i, o, Override(i), a), a + length(i))) =
               Thin(OperandMeaning(i, o))
  <2>1. o.kind = "far16" => t.mnemonic \in FarNames
    BY <1>3, <1>4
  <2> QED
    BY <1>4, <2>1, FormattedOperandReads
<1> HIDE DEF f, s, decoded
<1>5. decoded # << >> => Thin(x) = Thin(u)
  BY <1>1, <1>2, <1>4
<1>6. decoded = << f, s >> => Thin(y) = Thin(v)
  BY <1>1, <1>2, <1>4
<1>7. t.operands = Written(i, decoded, g, a)
  BY DEF decoded
<1> HIDE DEF F, S, x, y, u, v, next, g
<1>8. CASE decoded = << >>
  <2>1. t.operands = << >>
    BY <1>7, <1>8, SMT DEF Written
  <2>2. Readings(t, next) = << >> /\ Meanings(i, decoded) = << >>
    BY <1>8, <2>1, ReadingsOf, MeaningsOf
  <2> QED
    BY <1>8, <2>1, <2>2, Zenon DEF decoded, next
<1>9. CASE decoded = << f >>
  <2>1. t.operands = << F >>
    <3>1. Written(i, << f >>, g, a) = << format_operand(i, f, g, a) >>
      BY SMT DEF Written
    <3> QED
      BY <1>7, <1>9, <3>1 DEF F
  <2>2. Readings(t, next) = << x >>
    BY <2>1, SMT DEF Readings, x
  <2>3. Meanings(i, decoded) = << u >>
    BY <1>9, SMT DEF Meanings, u
  <2>4. decoded # << >> /\ Len(t.operands) = 1 /\ t.operands # << >>
    BY <1>9, <2>1, SMT
  <2> QED
    BY <1>5, <1>9, <2>2, <2>3, <2>4, Zenon DEF decoded, next, x, u, F, f, g
<1>10. CASE decoded = << f, s >>
  <2>1. t.operands = << F, S >>
    <3>1. Written(i, << f, s >>, g, a) = << format_operand(i, f, g, a), format_operand(i, s, g, a) >>
      BY SMT DEF Written
    <3> QED
      BY <1>7, <1>10, <3>1 DEF F, S
  <2>2. Readings(t, next) = << x, y >>
    BY <2>1, SMT DEF Readings, x, y
  <2>3. Meanings(i, decoded) = << u, v >>
    BY <1>10, SMT DEF Meanings, u, v
  <2>4. decoded # << >> /\ Len(t.operands) = 2 /\ t.operands # << >>
    BY <1>10, <2>1, SMT
  <2> QED
    BY <1>5, <1>6, <1>10, <2>2, <2>3, <2>4, Zenon DEF decoded, next, x, u, y, v, F, S, f, s, g
<1> QED
  BY <1>1, <1>8, <1>9, <1>10

\* The string operations and the table look-up have no ModRM byte.
LEMMA StringsHaveNoModRm ==
  ASSUME NEW i, Decoded(i), DECODE = DecodeRows,
         Mnemonic(i) \in _STRING_OPS \/ Mnemonic(i) = "XLAT"
  PROVE  ~i.has_modrm
<1> DEFINE r == RowOf(i)
           o == i.opcode
<1>1. /\ r \in Int /\ 0 <= r /\ r <= 351 /\ Mnemonic(i) = RowMnemonic(r)
      /\ r < 256 => r = o /\ GroupOf(o) = 0
  BY RowIs DEF Decoded, Mnemonic
<1>2. (164 <= r /\ r <= 175) \/ r = 215
  <2>1. RowMnemonic(r) \in _STRING_OPS \/ RowMnemonic(r) = "XLAT"
    BY <1>1
  <2> HIDE DEF r
  <2> QED
    BY <1>1, <2>1, NamedRows, SMT
<1>3. o = r /\ GroupOf(o) = 0
  BY <1>1, <1>2
<1> HIDE DEF r, o
<1>4. ~HasModRm(o)
  BY <1>1, <1>2, <1>3, SMT DEF HasModRm
<1>5. DECODE[o] = [grp |-> GroupOf(o), has_modrm |-> HasModRm(o), operands |-> BaseOperands(o)]
  <2>1. o \in RowIndex /\ o < 256
    BY <1>1, <1>2, <1>3, RowRange
  <2>2. DECODE[o] = Row(o)
    BY <2>1, Zenon DEF DecodeRows, RowIndex
  <2> QED
    BY <2>1, <2>2 DEF Row
<1>6. DECODE[o].has_modrm = HasModRm(o) /\ DECODE[o].grp = 0
  BY <1>3, <1>5
<1>7. ~WantsModRm(o)
  BY <1>4, <1>6 DEF WantsModRm
<1> QED
  BY <1>7 DEF Decoded, OpcodeIsTaken, o

\* The segment that is read is that of the source, where there is a source.
LEMMA ImpliedSegments ==
  ASSUME NEW i, Decoded(i), DECODE = DecodeRows
  PROVE  ImpliedMemory(Mnemonic(i), IF WritesSegmentFirst(i) THEN In(i, "DS") ELSE "DS") =
           ImpliedMemory(Mnemonic(i), In(i, "DS"))
<1> DEFINE m == Mnemonic(i)
<1>1. CASE m \in _STOS \union _SCAS
  <2>1. m \in {"STOSB", "STOSW", "SCASB", "SCASW"}
    <3>1. m \in {"MOVSB", "MOVSW", "CMPSB", "CMPSW", "STOSB", "STOSW",
                 "LODSB", "LODSW", "SCASB", "SCASW"}
      BY <1>1, StringNames DEF _STRING_OPS
    <3> HIDE DEF m
    <3> QED
      BY <1>1, <3>1 DEF _STOS, _SCAS
  <2> HIDE DEF m
  <2>2. \A s : ImpliedMemory(m, s) = << MemoryAt(0, "ES", << "DI" >>, 0) >>
    BY <2>1, SMT DEF ImpliedMemory
  <2> QED
    BY <2>2, Zenon DEF m
<1>2. CASE m \notin _STOS \union _SCAS /\ (m \in _STRING_OPS \/ m = "XLAT")
  <2>1. ~i.has_modrm
    BY <1>2, StringsHaveNoModRm
  <2>2. m \notin _INS
    <3>1. m \in _STRING_OPS => m \in {"MOVSB", "MOVSW", "CMPSB", "CMPSW", "STOSB", "STOSW",
                                      "LODSB", "LODSW", "SCASB", "SCASW"}
      BY StringNames
    <3> HIDE DEF m
    <3> QED
      BY <1>2, <3>1 DEF _INS
  <2>3. WritesSegmentFirst(i)
    BY <1>2, <2>1, <2>2 DEF WritesSegmentFirst
  <2> QED
    BY <2>3
<1>3. CASE m \notin _STRING_OPS /\ m # "XLAT"
  BY <1>3, NothingImplied
<1>4. _STOS \union _SCAS \subseteq _STRING_OPS
  BY DEF _STRING_OPS
<1> QED
  BY <1>1, <1>2, <1>3, <1>4

\* The instructions whose operands are left out.
LEMMA SuppressedAre ==
  ASSUME NEW i, Decoded(i), DECODE = DecodeRows, operands_suppressed(i)
  PROVE  /\ Mnemonic(i) \notin FarNames /\ i.operand1.kind # "far16"
         /\ Mnemonic(i) = "NOP" \/
              /\ Mnemonic(i) \in {"AAM", "AAD"} /\ i.operand1.value = << 10 >>
              /\ i.operand1.kind = "imm8" /\ DecodedOperands(i) = << First(i) >>
<1> DEFINE r == RowOf(i)
           pair == Row(r).operands
           m == Mnemonic(i)
<1>1. m = "NOP" \/ (m \in {"AAM", "AAD"} /\ i.operand1.value = << 10 >>)
  BY DEF operands_suppressed
<1>2. m \notin FarNames
  <2> HIDE DEF m
  <2> QED
    BY <1>1 DEF FarNames
<1>3. i.operand1.kind # "far16"
  BY <1>2, FarByModRm
<1>4. CASE m # "NOP"
  <2>1. r \in Int /\ 0 <= r /\ r <= 351 /\ KindIs(i.operand1, pair[1]) /\ m = RowMnemonic(r)
    BY RowOfGroup DEF Mnemonic
  <2>2. r = 212 \/ r = 213
    BY <1>1, <1>4, <2>1, NamedRows
  <2>3. pair = << "IMM8", "NONE" >>
    BY <2>1, <2>2, NamedPairs
  <2>4. i.operand1.kind = "imm8"
    BY <2>1, <2>3 DEF KindIs
  <2>5. DecodedOperands(i) = << First(i) >>
    BY <2>3, DecodedShapes
  <2> QED
    BY <1>1, <1>2, <1>3, <1>4, <2>4, <2>5
<1> QED
  BY <1>2, <1>3, <1>4

\* Whether a pair is among one operand, or two.
LEMMA OnePair ==
  ASSUME NEW F, NEW ops, ops = << F >>
  PROVE  (\E k \in DOMAIN ops : ops[k].kind = "pair") <=> F.kind = "pair"
<1>1. DOMAIN ops = {1} /\ ops[1] = F
  BY SMT
<1> QED
  BY <1>1, Zenon

LEMMA TwoPairs ==
  ASSUME NEW F, NEW S, NEW ops, ops = << F, S >>
  PROVE  (\E k \in DOMAIN ops : ops[k].kind = "pair") <=> F.kind = "pair" \/ S.kind = "pair"
<1>1. DOMAIN ops = {1, 2} /\ ops[1] = F /\ ops[2] = S
  BY SMT
<1> QED
  BY <1>1, Zenon

\* A pair is written where the first operand is a far pointer.
LEMMA PairsWritten ==
  ASSUME NEW i, Decoded(i), DECODE = DecodeRows, NEW a,
         NEW ops, ops = IF operands_suppressed(i) THEN << >>
                        ELSE Written(i, DecodedOperands(i), Override(i), a)
  PROVE  (\E k \in DOMAIN ops : ops[k].kind = "pair") <=> i.operand1.kind = "far16"
<1> DEFINE f == First(i)
           s == Second(i)
           g == Override(i)
           F == format_operand(i, f, g, a)
           S == format_operand(i, s, g, a)
           decoded == DecodedOperands(i)
           far == \E k \in DOMAIN ops : ops[k].kind = "pair"
<1>1. CASE operands_suppressed(i)
  <2>1. ops = << >>
    BY <1>1
  <2>2. ~far
    BY <2>1
  <2> QED
    BY <1>1, <2>2, SuppressedAre
<1>2. CASE ~operands_suppressed(i)
  <2>1. ops = Written(i, decoded, g, a)
    BY <1>2
  <2>2. /\ decoded \in {<< >>, << f >>, << f, s >>}
        /\ decoded # << >> => i.operand1.kind # "none"
        /\ decoded = << f, s >> => i.operand2.kind # "none"
        /\ decoded = << >> => i.operand1.kind = "none"
    BY ShortOperands
  <2>3. f.kind = i.operand1.kind /\ s.kind = i.operand2.kind
    BY Zenon DEF First, Second, NamedOperand
  <2>4. i.operand1.kind \in OperandKind /\ i.operand2.kind \in OperandKind
    BY OperandsAre DEF ValueIs, Operand
  <2>5. i.operand1.kind # "none" => (F.kind = "pair" <=> i.operand1.kind = "far16")
    BY <2>3, <2>4, PairIsFar
  <2>6. i.operand2.kind # "none" => S.kind # "pair"
    BY <2>3, <2>4, PairIsFar, FarByModRm
  <2> HIDE DEF f, s, decoded, g
  <2>7. CASE decoded = << >>
    <3>1. ops = << >>
      BY <2>1, <2>7, SMT DEF Written
    <3>2. ~far
      BY <3>1
    <3> QED
      BY <2>2, <2>7, <3>2
  <2>8. CASE decoded = << f >>
    <3>1. Written(i, << f >>, g, a) = << format_operand(i, f, g, a) >>
      BY SMT DEF Written
    <3>2. ops = << F >>
      BY <2>1, <2>8, <3>1 DEF F
    <3>3. decoded # << >>
      BY <2>8, SMT
    <3> HIDE DEF F
    <3>4. far <=> F.kind = "pair"
      BY <3>2, OnePair, Zenon
    <3> QED
      BY <2>2, <2>5, <3>3, <3>4
  <2>9. CASE decoded = << f, s >>
    <3>1. Written(i, << f, s >>, g, a) = << format_operand(i, f, g, a), format_operand(i, s, g, a) >>
      BY SMT DEF Written
    <3>2. ops = << F, S >>
      BY <2>1, <2>9, <3>1 DEF F, S
    <3>3. decoded # << >>
      BY <2>9, SMT
    <3> HIDE DEF F, S
    <3>4. far <=> F.kind = "pair" \/ S.kind = "pair"
      BY <3>2, TwoPairs, Zenon
    <3> QED
      BY <2>2, <2>5, <2>6, <2>9, <3>3, <3>4
  <2> QED
    BY <2>2, <2>7, <2>8, <2>9
<1> QED
  BY <1>1, <1>2

\* What is read of a name: the operation, but that an indirect far call or jump
\* is read as a near one.
LEMMA NamesRead ==
  ASSUME NEW i, Decoded(i), DECODE = DecodeRows, Mnemonic(i) \notin NoNames,
         NEW opts, NEW words, NEW ops,
         NEW t, t = Rendered("none", words, format_mnemonic(i, opts), ops),
         (\E k \in DOMAIN ops : ops[k].kind = "pair") <=> i.operand1.kind = "far16"
  PROVE  LET n == NasmNamed(t).mnemonic
         IN /\ NasmNamed(t).operands = ops /\ NasmNamed(t).prefixes = words
            /\ \/ n = Mnemonic(i)
               \/ /\ i.has_modrm
                  /\ << n, Mnemonic(i) >> \in {<< "CALL", "CALLF" >>, << "JMP", "JMPF" >>}
            /\ i.operand1.kind = "far16" => n \in FarNames
<1> DEFINE m == Mnemonic(i)
           w == format_mnemonic(i, opts)
           n == NasmNamed(t).mnemonic
           far == \E k \in DOMAIN ops : ops[k].kind = "pair"
           new == CASE far /\ w = "CALL" -> "CALLF"
                    [] far /\ w = "JMP"  -> "JMPF"
                    [] OTHER -> Operation(w)
<1>1. /\ m = "CALLF" \/ m = "CALL" <=> w = "CALL"
      /\ m = "JMPF" \/ m = "JMP" <=> w = "JMP"
      /\ m \notin FarNames => Operation(w) = m
  BY NamesAreListed, WrittenNames
<1>2. /\ m \in FarNames /\ i.operand1.kind # "far16" => i.has_modrm
      /\ i.operand1.kind = "far16" => m \in FarNames
  BY FarByModRm
<1> HIDE DEF m, w, far
<1>3. t.operands = ops /\ t.mnemonic = w /\ t.prefixes = words
  BY Zenon DEF Rendered, w
<1>4. NasmNamed(t) = [t EXCEPT !.mnemonic = new]
  BY <1>3, Zenon DEF NasmNamed, far
<1>5. t = [raised |-> "none", prefixes |-> words, mnemonic |-> w, operands |-> ops]
  BY Zenon DEF Rendered, w
<1> HIDE DEF new
<1>6. n = new /\ NasmNamed(t).operands = ops /\ NasmNamed(t).prefixes = words
  BY <1>4, <1>5, SMT
<1>7. Operation("CALL") = "CALL" /\ Operation("JMP") = "JMP"
  BY SMT DEF Operation
<1>8. far <=> i.operand1.kind = "far16"
  BY DEF far
<1> HIDE DEF n
<1>9. CASE far
  <2>1. m \in FarNames
    BY <1>2, <1>8, <1>9
  <2>2. new = m
    BY <1>1, <1>9, <2>1 DEF FarNames, new
  <2> QED
    BY <1>6, <2>1, <2>2 DEF n, m
<1>10. CASE ~far /\ m \in FarNames
  <2>1. i.has_modrm
    BY <1>2, <1>8, <1>10
  <2>2. new = Operation(w)
    BY <1>10 DEF new
  <2>3. (new = "CALL" /\ m = "CALLF") \/ (new = "JMP" /\ m = "JMPF")
    BY <1>1, <1>7, <1>10, <2>2 DEF FarNames
  <2>4. << new, m >> \in {<< "CALL", "CALLF" >>, << "JMP", "JMPF" >>}
    BY <2>3
  <2> QED
    BY <1>6, <1>8, <1>10, <2>1, <2>4 DEF n, m
<1>11. CASE ~far /\ m \notin FarNames
  <2>1. new = m
    BY <1>1, <1>11 DEF new
  <2> QED
    BY <1>6, <1>8, <1>11, <2>1 DEF n, m
<1> QED
  BY <1>9, <1>10, <1>11

\* A shift by one has one operand, a shift by a register two.
LEMMA ShiftShapes ==
  ASSUME NEW i, Decoded(i), DECODE = DecodeRows, Mnemonic(i) \in Shifts
  PROVE  \/ i.opcode \in {208, 209} /\ DecodedOperands(i) = << First(i) >>
         \/ i.opcode \notin {208, 209} /\ DecodedOperands(i) = << First(i), Second(i) >>
<1> DEFINE r == RowOf(i)
           m == Mnemonic(i)
<1>1. r \in Int /\ 0 <= r /\ r <= 351 /\ m = RowMnemonic(r)
  BY RowOfGroup DEF Mnemonic
<1>2. m \in _SHIFT_MNEMONICS
  <2> HIDE DEF m
  <2> QED
    BY DEF m, Shifts, _SHIFT_MNEMONICS
<1>3. 288 <= r /\ r <= 319
  <2>1. RowMnemonic(r) \in _SHIFT_MNEMONICS
    BY <1>1, <1>2
  <2> HIDE DEF r
  <2> QED
    BY <1>1, <2>1, NamedRows, SMT
<1>4. PICK g \in 1..12, e \in 0..7 : r = 256 + (g - 1) * 8 + e /\ i.opcode = GroupOpcodes[g]
  BY <1>1, <1>3, RowOfGroup
<1>5. /\ g \in 5..8 /\ Row(r).operands[1] \in {"MODRM8", "MODRM16"}
      /\ g \in {5, 6} => Row(r).operands[2] = "NONE"
      /\ g \in {7, 8} => Row(r).operands[2] = "FIXED8"
  <2> DEFINE q == 256 + (g - 1) * 8 + e
  <2>1. /\ Row(q).operands[1] \in {"MODRM8", "MODRM16"}
        /\ g \in {5, 6} => Row(q).operands[2] = "NONE"
        /\ g \in {7, 8} => Row(q).operands[2] = "FIXED8"
        /\ 288 <= q /\ q <= 319 => g \in 5..8
    BY GroupPairs, SMTT(30)
  <2>2. q = r
    BY <1>4, Zenon
  <2> HIDE DEF q, r
  <2> QED
    BY <1>3, <2>1, <2>2, Zenon
<1>6. i.opcode = g + 203
  BY <1>4, <1>5 DEF GroupOpcodes
<1>7. CASE g \in {5, 6}
  <2>1. DecodedOperands(i) = << First(i) >>
    BY <1>5, <1>7, DecodedShapes
  <2> QED
    BY <1>6, <1>7, <2>1
<1>8. CASE g \in {7, 8}
  <2>1. DecodedOperands(i) = << First(i), Second(i) >>
    BY <1>5, <1>8, DecodedShapes
  <2>2. i.opcode \notin {208, 209}
    BY <1>6, <1>8
  <2> QED
    BY <2>1, <2>2
<1> QED
  BY <1>5, <1>7, <1>8

\* A written line, prefixes, operation and operands, says what the instruction
\* does to its operands, but for the width of memory.
LEMMA FormattedLineReads ==
  ASSUME NEW i, Decoded(i), DECODE = DecodeRows, NEW a \in Int, NEW t,
         t.operands = IF operands_suppressed(i) THEN << >>
                      ELSE Written(i, DecodedOperands(i), Override(i), a),
         t.mnemonic = Mnemonic(i) \/ (t.mnemonic \in {"CALL", "JMP"} /\ Mnemonic(i) \in FarNames),
         i.operand1.kind = "far16" => t.mnemonic \in FarNames,
         SegmentRead(t.prefixes) = IF WritesSegmentFirst(i) THEN In(i, "DS") ELSE "DS"
  PROVE  Widthless(NasmRead(t, a + length(i))) = Widthless(Operands(i))
<1> DEFINE m == Mnemonic(i)
           n == t.mnemonic
           next == a + length(i)
           decoded == DecodedOperands(i)
           f == First(i)
           s == Second(i)
           u == OperandMeaning(i, f)
           v == OperandMeaning(i, s)
           x == OperandRead(t, format_operand(i, f, Override(i), a), next)
           y == OperandRead(t, format_operand(i, s, Override(i), a), next)
           one == Number16(1)
           ten == Number16(10)
           count == IF n \in Shifts /\ Len(t.operands) = 1 THEN << one >> ELSE << >>
           base  == IF n \in {"AAM", "AAD"} /\ t.operands = << >> THEN << ten >> ELSE << >>
           M == ImpliedMemory(m, In(i, "DS"))
           R == Readings(t, next)
           D == Meanings(i, decoded)
<1>1. n = m \/ (m \in FarNames /\ n \in {"CALL", "JMP"})
  OBVIOUS
<1> HIDE DEF m, n
<1>2. ImpliedMemory(n, SegmentRead(t.prefixes)) = M
  <2>1. CASE n = m
    BY <2>1, ImpliedSegments DEF m
  <2>2. CASE n # m
    <3>1. m \notin _STRING_OPS /\ m # "XLAT" /\ n \notin _STRING_OPS /\ n # "XLAT"
      BY <1>1, <2>2 DEF FarNames, _STRING_OPS, _STOS, _SCAS, _INS
    <3> QED
      BY <3>1, NothingImplied
  <2> QED
    BY <2>1, <2>2
<1>3. NasmRead(t, next) = R \o count \o base \o M
  BY <1>2, Zenon DEF NasmRead, n
<1>4. m # "NOP" => Operands(i) = D \o ImpliedOne(i) \o M
  BY OperandsMean DEF m
<1>5. i.opcode \notin {208, 209} \/ m \notin Shifts => ImpliedOne(i) = << >>
  BY OperandsMean DEF m
<1>6. m \notin _STRING_OPS /\ m # "XLAT" => M = << >>
  BY NothingImplied
<1>7. operands_suppressed(i) =>
        /\ t.operands = << >> /\ m \in {"NOP", "AAM", "AAD"}
        /\ m # "NOP" => /\ i.operand1.value = << 10 >> /\ i.operand1.kind = "imm8"
                        /\ decoded = << f >>
  BY SuppressedAre DEF m
<1>8. ~operands_suppressed(i) =>
        \/ decoded = << >> /\ R = << >> /\ D = << >> /\ t.operands = << >>
        \/ /\ decoded = << f >> /\ R = << x >> /\ D = << u >>
           /\ Thin(x) = Thin(u) /\ Len(t.operands) = 1 /\ t.operands # << >>
        \/ /\ decoded = << f, s >> /\ R = << x, y >> /\ D = << u, v >>
           /\ Thin(x) = Thin(u) /\ Thin(y) = Thin(v)
           /\ Len(t.operands) = 2 /\ t.operands # << >>
  <2> SUFFICES ASSUME ~operands_suppressed(i)
               PROVE  \/ decoded = << >> /\ R = << >> /\ D = << >> /\ t.operands = << >>
                      \/ /\ decoded = << f >> /\ R = << x >> /\ D = << u >>
                         /\ Thin(x) = Thin(u) /\ Len(t.operands) = 1 /\ t.operands # << >>
                      \/ /\ decoded = << f, s >> /\ R = << x, y >> /\ D = << u, v >>
                         /\ Thin(x) = Thin(u) /\ Thin(y) = Thin(v)
                         /\ Len(t.operands) = 2 /\ t.operands # << >>
    OBVIOUS
  <2>1. t.operands = Written(i, DecodedOperands(i), Override(i), a)
    OBVIOUS
  <2> QED
    BY <2>1, WrittenReads
<1>9. m \in {"NOP", "AAM", "AAD"} \/ m \in _STRING_OPS \/ m = "XLAT" => m \notin Shifts /\ n = m
  <2>1. m \in {"NOP", "AAM", "AAD"} \/ m \in _STRING_OPS \/ m = "XLAT" =>
          m \notin Shifts /\ m \notin FarNames
    BY DEF FarNames, _STRING_OPS, _STOS, _SCAS, _INS, Shifts
  <2> QED
    BY <1>1, <2>1
<1>10. CASE m = "NOP"
  <2>1. operands_suppressed(i)
    BY <1>10 DEF operands_suppressed, m
  <2>2. R = << >>
    BY <1>7, <2>1, ReadingsOf
  <2>3. count = << >> /\ base = << >>
    BY <1>9, <1>10
  <2>4. M = << >>
    BY <1>6, <1>10 DEF _STRING_OPS, _STOS, _SCAS, _INS
  <2>5. Operands(i) = << >>
    BY <1>10, OperandsMean DEF m
  <2> HIDE DEF count, base, M, R, next
  <2>6. NasmRead(t, next) = << >> \o << >> \o << >> \o << >>
    BY <1>3, <2>2, <2>3, <2>4
  <2>7. NasmRead(t, next) = << >>
    BY <2>6, ShortConcat
  <2> QED
    BY <2>5, <2>7 DEF next
<1>11. CASE m \in _STRING_OPS \/ m = "XLAT"
  <2>1. decoded = << >>
    <3>1. CASE m \in _STRING_OPS
      BY <3>1, StringNames DEF m
    <3>2. CASE m = "XLAT"
      <4>1. RowOf(i) \in Int /\ 0 <= RowOf(i) /\ RowOf(i) <= 351 /\ RowMnemonic(RowOf(i)) = "XLAT"
        BY <3>2, RowOfGroup DEF Mnemonic, m
      <4>2. Row(RowOf(i)).operands = << "NONE", "NONE" >>
        BY <4>1, NamedRows, NamedPairs
      <4> QED
        BY <4>2, DecodedShapes
    <3> QED
      BY <1>11, <3>1, <3>2
  <2>2. m # "NOP" /\ m \notin {"AAM", "AAD"}
    BY <1>11 DEF _STRING_OPS, _STOS, _SCAS, _INS
  <2>3. ~operands_suppressed(i)
    BY <1>7, <2>2
  <2>4. R = << >> /\ D = << >>
    <3>1. << >> # << f >> /\ << >> # << f, s >>
      <4> HIDE DEF f, s
      <4> QED
        BY SMT
    <3> HIDE DEF decoded, R, D, f, s, x, y, u, v
    <3> QED
      BY <1>8, <2>1, <2>3, <3>1
  <2>5. count = << >> /\ base = << >>
    BY <1>9, <1>11, <2>2
  <2>6. ImpliedOne(i) = << >>
    BY <1>5, <1>9, <1>11
  <2>7. NasmRead(t, next) = << >> \o << >> \o << >> \o M /\ Operands(i) = << >> \o << >> \o M
    <3> HIDE DEF count, base, M, R, D, next
    <3> QED
      BY <1>3, <1>4, <2>2, <2>4, <2>5, <2>6
  <2> HIDE DEF M, next
  <2>8. NasmRead(t, next) = Operands(i)
    BY <2>7, ShortConcat
  <2> QED
    BY <2>8 DEF next
<1>12. CASE operands_suppressed(i) /\ m # "NOP"
  <2>1. /\ t.operands = << >> /\ m \in {"AAM", "AAD"} /\ n = m /\ m \notin Shifts
        /\ i.operand1.value = << 10 >> /\ i.operand1.kind = "imm8" /\ decoded = << f >>
    BY <1>7, <1>9, <1>12
  <2>2. R = << >>
    BY <2>1, ReadingsOf
  <2>3. count = << >> /\ base = << ten >>
    BY <2>1
  <2>4. M = << >>
    BY <1>6, <2>1 DEF _STRING_OPS, _STOS, _SCAS, _INS
  <2>5. ImpliedOne(i) = << >>
    BY <1>5, <2>1
  <2>6. u = ten
    <3>1. f.kind = "imm8" /\ f.value = << 10 >>
      BY <2>1, Zenon DEF First, NamedOperand
    <3> HIDE DEF f
    <3>2. f.value[1] = 10
      BY <3>1
    <3> QED
      BY <3>1, <3>2, MeaningOfNumber
  <2>7. D = << u >>
    BY <2>1, MeaningsOf
  <2> HIDE DEF count, base, M, R, D, next, u, ten
  <2>8. NasmRead(t, next) = << >> \o << >> \o << ten >> \o << >> /\ Operands(i) = << ten >> \o << >> \o << >>
    BY <1>3, <1>4, <1>12, <2>2, <2>3, <2>4, <2>5, <2>6, <2>7
  <2>9. NasmRead(t, next) = Operands(i)
    BY <2>8, ShortConcat
  <2> QED
    BY <2>9 DEF next
<1>13. CASE m \in Shifts
  <2>1. m \notin {"NOP", "AAM", "AAD", "XLAT"} /\ m \notin _STRING_OPS /\ m \in _SHIFT_MNEMONICS
        /\ m \notin FarNames
    BY <1>13 DEF Shifts, _STRING_OPS, _STOS, _SCAS, _INS, _SHIFT_MNEMONICS, FarNames
  <2>2. n = m
    BY <1>1, <2>1
  <2>3. M = << >>
    BY <1>6, <2>1
  <2>4. base = << >>
    BY <2>1, <2>2
  <2>5. ~operands_suppressed(i)
    BY <1>7, <2>1
  <2>6. \/ i.opcode \in {208, 209} /\ decoded = << f >>
        \/ i.opcode \notin {208, 209} /\ decoded = << f, s >>
    BY <1>13, ShiftShapes DEF m
  <2>7. << f >> # << >> /\ << f, s >> # << >> /\ << f >> # << f, s >>
    <3> HIDE DEF f, s
    <3> QED
      BY SMT
  <2>8. /\ i.opcode \in {208, 209} => /\ R = << x >> /\ D = << u >> /\ Thin(x) = Thin(u)
                                      /\ Len(t.operands) = 1
        /\ i.opcode \notin {208, 209} => /\ R = << x, y >> /\ D = << u, v >>
                                         /\ Thin(x) = Thin(u) /\ Thin(y) = Thin(v)
                                         /\ Len(t.operands) = 2
    <3> HIDE DEF decoded, R, D, f, s, x, y, u, v
    <3> QED
      BY <1>8, <2>5, <2>6, <2>7
  <2>9. CASE i.opcode \in {208, 209}
    <3>1. count = << one >>
      BY <1>13, <2>2, <2>8, <2>9
    <3>2. ImpliedOne(i) = << one >>
      BY <1>13, <2>9 DEF ImpliedOne, m
    <3>3. R = << x >> /\ D = << u >> /\ Thin(x) = Thin(u)
      BY <2>8, <2>9
    <3> HIDE DEF count, base, M, R, D, next, x, u, one
    <3>4. NasmRead(t, next) = << x >> \o << one >> \o << >> \o << >>
          /\ Operands(i) = << u >> \o << one >> \o << >>
      BY <1>3, <1>4, <2>1, <2>3, <2>4, <3>1, <3>2, <3>3
    <3>5. NasmRead(t, next) = << x, one >> /\ Operands(i) = << u, one >>
      <4>1. << x >> \o << one >> = << x, one >> /\ << u >> \o << one >> = << u, one >>
        BY ShortConcat
      <4>2. << x, one >> \o << >> = << x, one >> /\ << u, one >> \o << >> = << u, one >>
        BY ShortWithNothing
      <4> QED
        BY <3>4, <4>1, <4>2, Zenon
    <3>6. Widthless(NasmRead(t, next)) = Widthless(Operands(i))
      BY <3>3, <3>5, WidthlessOf
    <3> QED
      BY <3>6 DEF next
  <2>10. CASE i.opcode \notin {208, 209}
    <3>1. count = << >>
      <4>1. Len(t.operands) = 2
        BY <2>8, <2>10, Zenon
      <4> HIDE DEF x, y, u, v, f, s, R, D, one
      <4> QED
        BY <4>1
    <3>2. ImpliedOne(i) = << >>
      BY <1>5, <2>10
    <3>3. R = << x, y >> /\ D = << u, v >> /\ Thin(x) = Thin(u) /\ Thin(y) = Thin(v)
      BY <2>8, <2>10
    <3> HIDE DEF count, base, M, R, D, next, x, y, u, v
    <3>4. NasmRead(t, next) = << x, y >> \o << >> \o << >> \o << >>
          /\ Operands(i) = << u, v >> \o << >> \o << >>
      BY <1>3, <1>4, <2>1, <2>3, <2>4, <3>1, <3>2, <3>3
    <3>5. NasmRead(t, next) = << x, y >> /\ Operands(i) = << u, v >>
      BY <3>4, ShortWithNothing
    <3>6. Widthless(NasmRead(t, next)) = Widthless(Operands(i))
      <4>1. /\ Widthless(<< x, y >>) = << Thin(x), Thin(y) >>
            /\ Widthless(<< u, v >>) = << Thin(u), Thin(v) >>
        BY WidthlessOf
      <4> QED
        BY <3>3, <3>5, <4>1, Zenon
    <3> QED
      BY <3>6 DEF next
  <2> QED
    BY <2>9, <2>10
<1>14. CASE m # "NOP" /\ m \notin _STRING_OPS /\ m # "XLAT" /\ m \notin Shifts /\ ~operands_suppressed(i)
  <2>1. M = << >> /\ ImpliedOne(i) = << >>
    BY <1>5, <1>6, <1>14
  <2>2. count = << >>
    <3>1. n \notin Shifts
      BY <1>1, <1>14 DEF Shifts
    <3> QED
      BY <3>1
  <2>3. base = << >>
    <3>1. ASSUME n \in {"AAM", "AAD"}, t.operands = << >> PROVE FALSE
      <4>1. m = n
        BY <1>1, <3>1
      <4>2. RowOf(i) \in Int /\ 0 <= RowOf(i) /\ RowOf(i) <= 351 /\ RowMnemonic(RowOf(i)) = m
        BY RowOfGroup DEF Mnemonic, m
      <4>3. Row(RowOf(i)).operands = << "IMM8", "NONE" >>
        BY <3>1, <4>1, <4>2, NamedRows, NamedPairs
      <4>4. decoded = << f >>
        BY <4>3, DecodedShapes
      <4>5. << f >> # << >>
        <5> HIDE DEF f
        <5> QED
          BY SMT
      <4> HIDE DEF decoded, f
      <4> QED
        BY <1>8, <1>14, <3>1, <4>4, <4>5
    <3> QED
      BY <3>1
  <2> HIDE DEF count, base, M, R, D, next, x, y, u, v, f, s, decoded
  <2>4. NasmRead(t, next) = R \o << >> \o << >> \o << >> /\ Operands(i) = D \o << >> \o << >>
    BY <1>3, <1>4, <1>14, <2>1, <2>2, <2>3
  <2>5. CASE R = << >> /\ D = << >>
    <3>1. NasmRead(t, next) = Operands(i)
      BY <2>4, <2>5, ShortConcat
    <3> QED
      BY <3>1 DEF next
  <2>6. CASE R = << x >> /\ D = << u >> /\ Thin(x) = Thin(u)
    <3>1. NasmRead(t, next) = << x >> /\ Operands(i) = << u >>
      BY <2>4, <2>6, ShortConcat
    <3>2. Widthless(NasmRead(t, next)) = Widthless(Operands(i))
      BY <2>6, <3>1, WidthlessOf
    <3> QED
      BY <3>2 DEF next
  <2>7. CASE R = << x, y >> /\ D = << u, v >> /\ Thin(x) = Thin(u) /\ Thin(y) = Thin(v)
    <3>1. NasmRead(t, next) = << x, y >> /\ Operands(i) = << u, v >>
      BY <2>4, <2>7, ShortWithNothing
    <3>2. Widthless(NasmRead(t, next)) = Widthless(Operands(i))
      <4>1. /\ Widthless(<< x, y >>) = << Thin(x), Thin(y) >>
            /\ Widthless(<< u, v >>) = << Thin(u), Thin(v) >>
        BY WidthlessOf
      <4> QED
        BY <2>7, <3>1, <4>1, Zenon
    <3> QED
      BY <3>2 DEF next
  <2> QED
    BY <1>8, <1>14, <2>5, <2>6, <2>7
<1> QED
  BY <1>10, <1>11, <1>12, <1>13, <1>14

\* A line of the assembler's style, whatever the input, its address and the
\* options, says what was decoded: operation, repetition, LOCK, and for every
\* operand its register, its value, or the segment, registers and offset of its
\* memory; legacy prefixes for instructions without a prefix.
THEOREM NasmTextsReadBack ==
  ASSUME DECODE = DecodeRows, PrefixFlags = PrefixBytes
  PROVE  RenderSpec => []NasmReadsBack
<1> DEFINE Says(t) ==
             /\ \/ t.mnemonic = Mnemonic(result)
                \/ result.has_modrm /\ << t.mnemonic, Mnemonic(result) >> \in
                                      {<< "CALL", "CALLF" >>, << "JMP", "JMPF" >>}
             /\ RepeatRead(t.prefixes) = Repeats(result)
             /\ "LOCK" \in Said(t.prefixes) <=> 240 \in Present(result)
             /\ Widthless(NasmRead(t, NextIP)) = Widthless(Operands(result))
<1>1. ASSUME Decoded(result), NEW a \in Int, asked.address = a, NEW opts,
             ~opts.mnemonic_only, opts.legacy_prefixes => result.prefix_bytes = << >>,
             text = format_instruction(result, opts, a)
      PROVE  Says(NasmNamed(text))
  <2> DEFINE m == Mnemonic(result)
             w == format_mnemonic(result, opts)
             words == << >> \o format_prefixes(result, opts)
             ops == IF operands_suppressed(result) THEN << >>
                    ELSE Written(result, DecodedOperands(result), Override(result), a)
             t == NasmNamed(text)
  <2>1. m \notin NoNames
    BY <1>1, InstructionsAreNamed
  <2>2. m # "Invalid"
    BY <2>1 DEF NoNames, Placeholders
  <2>3. result.is_complete /\ result.prefix_bytes \in Seq(Byte)
    BY <1>1, FieldsAreTyped DEF Decoded
  <2>4. format_operands(result, opts, a) =
          Written(result, DecodedOperands(result), Override(result), a)
    BY <1>1, <2>3, FormattedOperandsAre
  <2>5. text = Rendered("none", words, w, ops)
    BY <1>1, <2>2, <2>3, <2>4, Zenon DEF format_instruction
  <2>6. (\E k \in DOMAIN ops : ops[k].kind = "pair") <=> result.operand1.kind = "far16"
    <3>1. ops = IF operands_suppressed(result) THEN << >>
                ELSE Written(result, DecodedOperands(result), Override(result), a)
      OBVIOUS
    <3> HIDE DEF ops
    <3> QED
      BY <1>1, <3>1, PairsWritten
  <2>7. Said(words) = OverrideSaid(result) \union LockSaid(result) \union RepeatSaid(result)
    BY <1>1, <2>3, PrefixesSaid
  <2> HIDE DEF words, ops
  <2>8. /\ t.operands = ops /\ t.prefixes = words
        /\ \/ t.mnemonic = m
           \/ result.has_modrm /\ << t.mnemonic, m >> \in {<< "CALL", "CALLF" >>, << "JMP", "JMPF" >>}
        /\ result.operand1.kind = "far16" => t.mnemonic \in FarNames
    BY <1>1, <2>1, <2>5, <2>6, NamesRead
  <2> HIDE DEF t
  <2>9. /\ RepeatRead(words) = Repeats(result)
        /\ "LOCK" \in Said(words) <=> 240 \in Present(result)
        /\ SegmentRead(words) = IF WritesSegmentFirst(result) THEN In(result, "DS") ELSE "DS"
    BY <2>3, <2>7, PrefixesRead
  <2>10. Widthless(NasmRead(t, a + length(result))) = Widthless(Operands(result))
    <3>1. t.operands = IF operands_suppressed(result) THEN << >>
                       ELSE Written(result, DecodedOperands(result), Override(result), a)
      BY <2>8 DEF ops
    <3>2. t.mnemonic = Mnemonic(result)
            \/ (t.mnemonic \in {"CALL", "JMP"} /\ Mnemonic(result) \in FarNames)
      <4> DEFINE n == t.mnemonic
      <4>1. n = m \/ (n = "CALL" /\ m = "CALLF") \/ (n = "JMP" /\ m = "JMPF")
        <5> HIDE DEF n, m
        <5> QED
          BY <2>8 DEF n, m
      <4> QED
        BY <4>1 DEF FarNames
    <3>3. SegmentRead(t.prefixes) = IF WritesSegmentFirst(result) THEN In(result, "DS") ELSE "DS"
      BY <2>8, <2>9
    <3> QED
      BY <1>1, <2>8, <3>1, <3>2, <3>3, FormattedLineReads
  <2>11. NextIP = a + length(result)
    BY <1>1 DEF NextIP
  <2>12. Says(t)
    BY <2>8, <2>9, <2>10, <2>11, Zenon
  <2> QED
    BY <2>12 DEF t
<1>2. TypeOK /\ PartsInPlace /\ RowInForce /\ TextIsAnswer => NasmReadsBack
  <2> SUFFICES ASSUME TypeOK, PartsInPlace, RowInForce, TextIsAnswer, Formatted,
                      asked.options.legacy_prefixes => result.prefix_bytes = << >>
               PROVE  Says(NasmNamed(text))
    BY Zenon DEF NasmReadsBack
  <2>1. asked # Nothing /\ asked.style # "ghidra" /\ ~asked.options.mnemonic_only
    BY NothingIsTyped DEF Formatted
  <2>2. /\ Returned /\ asked.address \in Int
        /\ text = format_instruction(result, asked.options, asked.address)
    BY <2>1 DEF TextIsAnswer
  <2>3. Decoded(result)
    BY <2>2, ReturnedIsDecoded
  <2> HIDE DEF Says
  <2> QED
    BY <1>1, <2>1, <2>2, <2>3, Zenon
<1> QED
  BY <1>2, RenderingIsDecoding, TypeCorrect, PartsHold, RowHolds, TextHolds, PTL

-----------------------------------------------------------------------------
(* The comparison with recordings.                                         *)

\* Relative targets are those of the jumps, the loops and CALL.
LEMMA RelativeRows ==
  ASSUME NEW r \in Int, 0 <= r, r <= 351, Row(r).operands[1] \in {"REL8", "REL16"}
  PROVE  RowMnemonic(r) \in _RELATIVE \union {"CALL"}
<1> DEFINE pair == Row(r).operands
           m == RowMnemonic(r)
<1>1. pair[1] \in {"REL8", "REL16"}
  OBVIOUS
<1>2. CASE r <= 63
  <2>1. pair = ArithmeticOperands(r) /\ r % 8 \in 0..7
    BY <1>2, RowOperands
  <2> HIDE DEF pair
  <2>2. pair \in {<<"MODRM8", "REG8">>,   <<"MODRM16", "REG16">>, <<"REG8", "MODRM8">>,
                  <<"REG16", "MODRM16">>, <<"FIXED8", "IMM8">>,   <<"FIXED16", "IMM16">>,
                  <<"FIXED16", "NONE">>,  <<"NONE", "NONE">>}
    BY <2>1 DEF ArithmeticOperands
  <2> QED
    BY <1>1, <2>2
<1>3. CASE 64 <= r /\ r <= 127
  <2>1. pair = RegisterAndJumpOperands(r) /\ m = RegisterOrJumpMnemonic(r)
    BY <1>3, RowOperands, RowNames
  <2> HIDE DEF pair, m
  <2>2. 96 <= r
    BY <1>1, <2>1 DEF RegisterAndJumpOperands
  <2>3. m = JumpNames[(r % 16) + 1]
    BY <2>1, <2>2 DEF RegisterOrJumpMnemonic
  <2>4. (r % 16) + 1 \in DOMAIN JumpNames
    <3>1. (r % 16) + 1 \in 1..16
      OBVIOUS
    <3>2. DOMAIN JumpNames = 1..16
      BY DEF JumpNames
    <3> QED
      BY <3>1, <3>2
  <2> QED
    BY <2>3, <2>4, Zenon DEF _RELATIVE, m
<1>4. CASE 128 <= r /\ r <= 191
  <2>1. pair = MoveOperands(r)
    BY <1>4, RowOperands
  <2> HIDE DEF pair
  <2>2. pair[1] \notin {"REL8", "REL16"}
    BY <2>1 DEF MoveOperands
  <2> QED
    BY <1>1, <2>2
<1>5. CASE 192 <= r /\ r <= 255
  <2>1. pair = ControlOperands(r) /\ m = ControlMnemonic(r)
    BY <1>5, RowOperands, RowNames
  <2> HIDE DEF pair, m
  <2>2. r \in 224..227 \union {232, 233, 235}
    BY <1>1, <1>5, <2>1 DEF ControlOperands
  <2>3. m \in {"LOOPNE", "LOOPE", "LOOP", "JCXZ", "CALL", "JMP"}
    <3>1. r \in 224..227 => m = << "LOOPNE", "LOOPE", "LOOP", "JCXZ" >>[r - 223]
      BY <2>1 DEF ControlMnemonic
    <3>2. r \in {232, 233, 235} => m = << "CALL", "JMP", "JMPF", "JMP" >>[r - 231]
      BY <2>1 DEF ControlMnemonic
    <3> QED
      BY <2>2, <3>1, <3>2
  <2> QED
    BY <2>3, SMT DEF _RELATIVE, m
<1>6. CASE 256 <= r
  <2> DEFINE g == 1 + (r - 256) \div 8
             e == r % 8
  <2>1. pair = GroupOperands(g, e) /\ g \in 1..12 /\ e \in 0..7
    BY <1>6, RowOperands, GroupIndex
  <2> HIDE DEF g, e, pair
  <2>2. pair[1] \in {"MODRM8", "MODRM16"}
    BY <2>1 DEF GroupOperands
  <2> QED
    BY <1>1, <2>2
<1> QED
  BY <1>2, <1>3, <1>4, <1>5, <1>6

\* The kinds of meanings.
LEMMA MeaningKinds ==
  ASSUME NEW n, NEW w, NEW s, NEW r
  PROVE  /\ Number16(n).kind = "number" /\ Near(n).kind = "near" /\ Far(n).kind = "far"
         /\ MemoryAt(w, s, r, n).kind = "memory" /\ Register(n).kind = "register"
<1> DEFINE x == n % 65536
<1>1. \A k, y, z, u, v : Meaning(k, y, z, u, v).kind = k
  BY SMT DEF Meaning
<1>2. /\ Number16(n) = Meaning("number", 0, None, << >>, x)
      /\ Near(n) = Meaning("near", 0, None, << >>, x)
      /\ MemoryAt(w, s, r, n) = Meaning("memory", w, s, r, x)
  BY SMT DEF Number16, Near, MemoryAt
<1> HIDE DEF x
<1> QED
  BY <1>1, <1>2, SMT DEF Far, Register

\* Only a relative target is near.
LEMMA NearKind ==
  ASSUME NEW i, NEW o, o.kind \in OperandKind \ {"none"}
  PROVE  OperandMeaning(i, o).kind = "near" <=> o.kind \in {"rel8", "rel16"}
<1> DEFINE means == OperandMeaning(i, o)
<1>1. CASE o.kind \in RegisterKinds
  <2>1. means.kind = "register"
    BY <1>1, MeaningOfRegister, MeaningKinds
  <2> QED
    BY <1>1, <2>1 DEF RegisterKinds
<1>2. CASE o.kind \in {"imm8", "imm16", "imm8s"}
  <2>1. means.kind = "number"
    BY <1>2, MeaningOfNumber, MeaningKinds
  <2> QED
    BY <1>2, <2>1
<1>3. CASE o.kind \in {"rel8", "rel16"}
  <2>1. means.kind = "near"
    BY <1>3, MeaningOfTarget, MeaningKinds
  <2> QED
    BY <1>3, <2>1
<1>4. CASE o.kind = "far16"
  <2>1. means.kind = "far"
    BY <1>4, MeaningOfTarget, MeaningKinds
  <2> QED
    BY <1>4, <2>1
<1>5. CASE o.kind \in {"offset8_16", "offset16_16", "addr16"}
  <2>1. CASE o.kind = "offset8_16"
    BY <2>1, MeaningOfOffset, MeaningKinds
  <2>2. CASE o.kind = "offset16_16"
    BY <2>2, MeaningOfOffset, MeaningKinds
  <2>3. CASE o.kind = "addr16"
    <3> DEFINE W == IF Unsized(Mnemonic(i)) /\ o.value[4] = 16 THEN 0 ELSE o.value[4]
               r == ADDR16_REGISTER_TEXT(o.value)
               s == In(i, DefaultSegment(r))
               n == o.value[3]
    <3>1. means = MemoryAt(W, s, r, n)
      BY <2>3, MeaningOfAddress
    <3> HIDE DEF means, W, r, s, n
    <3>2. means.kind = "memory"
      BY <3>1, MeaningKinds
    <3> QED
      BY <2>3, <3>2 DEF means
  <2> QED
    BY <1>5, <2>1, <2>2, <2>3
<1> QED
  BY <1>1, <1>2, <1>3, <1>4, <1>5 DEF RegisterKinds, OperandKind

NearTargets(i) ==
  {o \in {OperandMeaning(i, d) : d \in {DecodedOperands(i)[k] : k \in DOMAIN DecodedOperands(i)}} :
     o.kind = "near"}

\* The targets a recording may have reached are that of the first operand.
LEMMA NearTargetsAre ==
  ASSUME NEW i, Decoded(i), DECODE = DecodeRows
  PROVE  /\ i.operand1.kind \in {"rel8", "rel16"} => NearTargets(i) = {Near(i.operand1.value[1])}
         /\ i.operand1.kind \notin {"rel8", "rel16"} => NearTargets(i) = {}
<1> DEFINE f == First(i)
           s == Second(i)
           decoded == DecodedOperands(i)
           near == i.operand1.kind \in {"rel8", "rel16"}
<1>1. /\ decoded \in {<< >>, << f >>, << f, s >>}
      /\ decoded # << >> => i.operand1.kind # "none"
      /\ decoded = << f, s >> => i.operand2.kind # "none"
      /\ decoded = << >> => i.operand1.kind = "none"
  BY ShortOperands
<1>2. /\ f.kind = i.operand1.kind /\ f.value = i.operand1.value
      /\ s.kind = i.operand2.kind /\ s.value = i.operand2.value
  BY Zenon DEF First, Second, NamedOperand
<1>3. i.operand2.kind \notin {"rel8", "rel16"}
  <2> DEFINE pair == Row(RowOf(i)).operands
  <2>1. RowOf(i) \in Int /\ 0 <= RowOf(i) /\ RowOf(i) <= 351 /\ KindIs(i.operand2, pair[2])
    BY RowOfGroup
  <2>2. pair[2] \notin {"REL8", "REL16"}
    BY <2>1, PairRows
  <2> QED
    BY <2>1, <2>2 DEF KindIs
<1>4. i.operand1.kind \in OperandKind /\ i.operand2.kind \in OperandKind
  BY OperandsAre DEF ValueIs, Operand
<1>5. i.operand1.kind # "none" => (OperandMeaning(i, f).kind = "near" <=> near)
  BY <1>2, <1>4, NearKind
<1>6. i.operand2.kind # "none" => OperandMeaning(i, s).kind # "near"
  BY <1>2, <1>3, <1>4, NearKind
<1>7. near => OperandMeaning(i, f) = Near(i.operand1.value[1])
  BY <1>2, MeaningOfTarget
<1> DEFINE named == {decoded[k] : k \in DOMAIN decoded}
<1>8. NearTargets(i) = {o \in {OperandMeaning(i, d) : d \in named} : o.kind = "near"}
  BY Zenon DEF NearTargets
<1> HIDE DEF f, s, decoded, named
<1>9. CASE decoded = << >>
  <2>1. named = {}
    BY <1>9 DEF named
  <2>2. NearTargets(i) = {}
    BY <1>8, <2>1
  <2> QED
    BY <1>1, <1>9, <2>2
<1>10. CASE decoded = << f >>
  <2>1. named = {f}
    BY <1>10, SMT DEF named
  <2>2. i.operand1.kind # "none"
    <3>1. << f >> # << >>
      BY SMT
    <3> QED
      BY <1>1, <1>10, <3>1
  <2>3. NearTargets(i) = {o \in {OperandMeaning(i, f)} : o.kind = "near"}
    BY <1>8, <2>1, Zenon
  <2> QED
    BY <1>5, <1>7, <2>2, <2>3
<1>11. CASE decoded = << f, s >>
  <2>1. named = {f, s}
    BY <1>11, SMT DEF named
  <2>2. i.operand1.kind # "none" /\ i.operand2.kind # "none"
    <3>1. << f, s >> # << >>
      BY SMT
    <3> QED
      BY <1>1, <1>11, <3>1
  <2>3. NearTargets(i) = {o \in {OperandMeaning(i, f), OperandMeaning(i, s)} : o.kind = "near"}
    BY <1>8, <2>1
  <2> QED
    BY <1>5, <1>6, <1>7, <2>2, <2>3
<1> QED
  BY <1>1, <1>9, <1>10, <1>11

\* The instruction pointer counts modulo 64K.
LEMMA NextAgain ==
  ASSUME NEW p \in Int, 0 <= p, p <= 65535, NEW n \in Int, 0 <= n, n <= 65535
  PROVE  (((p + n) % 65536) - p) % 65536 = n
OBVIOUS

LEMMA TakenAgain ==
  ASSUME NEW p \in Int, NEW n \in Int, NEW d \in Int
  PROVE  (((p + n) % 65536) + (d % 65536)) % 65536 = (p + n + d) % 65536
OBVIOUS

RegisterFile == [RegisterNames -> Word16]

LEMMA WordIs ==
  ASSUME NEW x \in Word16
  PROVE  x \in Int /\ 0 <= x /\ x <= 65535
<1> DEFINE hi == 65535
<1>1. Word16 = 0..hi
  BY SMTT(30) DEF Word16
<1>2. hi \in Int
  BY SMT
<1> HIDE DEF hi
<1>3. x \in Int /\ 0 <= x /\ x <= hi
  BY <1>1, <1>2
<1> QED
  BY <1>3 DEF hi

\* A register holds sixteen bits.
LEMMA RegistersAre ==
  ASSUME NEW before \in RegisterFile, NEW r \in RegisterNames
  PROVE  before[r] \in Int /\ 0 <= before[r] /\ before[r] <= 65535
<1>1. before[r] \in Word16
  BY DEF RegisterFile
<1> QED
  BY <1>1, WordIs

\* The four ways to read the change of the instruction pointer.
LEMMA ClassifyIs ==
  ASSUME NEW i
  PROVE  LET m    == Mnemonic(i)
             near == i.operand1.kind \in {"rel8", "rel16"}
         IN /\ classify(i) \in {"opaque", "relative", "faults", "linear"}
            /\ classify(i) = "relative" => m \in _RELATIVE /\ near
            /\ classify(i) = "linear" => /\ m \notin _OPAQUE_TRANSFER /\ m \notin _MAY_FAULT
                                         /\ m \in {"CALL", "JMP"} => near
                                         /\ near => m \notin _RELATIVE
<1> DEFINE m == Mnemonic(i)
           near == i.operand1.kind \in {"rel8", "rel16"}
           away == m \in {"CALL", "JMP"} /\ ~near
           opaque == m \in _OPAQUE_TRANSFER
           relative == m \in _RELATIVE /\ near
           faults == m \in _MAY_FAULT
<1>1. classify(i) = CASE away -> "opaque" [] opaque -> "opaque" [] relative -> "relative"
                      [] faults -> "faults" [] OTHER -> "linear"
  BY DEF classify
<1> HIDE DEF away, opaque, relative, faults
<1>2. /\ classify(i) \in {"opaque", "relative", "faults", "linear"}
      /\ classify(i) = "relative" => relative
      /\ classify(i) = "linear" => ~away /\ ~opaque /\ ~relative /\ ~faults
  BY <1>1
<1> QED
  BY <1>2 DEF away, opaque, relative, faults

NextPointer(i, before) == (before.IP + length(i)) % 65536
TakenPointer(i, before) == (before.IP + length(i) + i.operand1.value[1]) % 65536
Reached(i, before) == {(NextPointer(i, before) + o.number) % 65536 : o \in NearTargets(i)}

\* Where a recording may have ended.
LEMMA PointersAre ==
  ASSUME NEW i, NEW before, NEW after \in PointersAfter(i, before)
  PROVE  LET m    == Mnemonic(i)
             next == NextPointer(i, before)
         IN /\ NearTargets(i) # {} => after \in Reached(i, before) \union {next}
            /\ NearTargets(i) = {} => after \in {next, SomewhereElse}
            /\ NearTargets(i) = {} /\ m \notin MayGoAnywhere /\ m \notin {"DIV", "IDIV", "AAM"}
                 => after = next
<1> DEFINE m == Mnemonic(i)
           next == NextPointer(i, before)
           reached == Reached(i, before)
           targets == NearTargets(i)
           faults == {"DIV", "IDIV", "AAM"}
<1>1. after \in CASE targets # {} -> reached \union (IF m \in Unconditional THEN {} ELSE {next})
                  [] targets = {} /\ m \in MayGoAnywhere -> {SomewhereElse}
                  [] targets = {} /\ m \in faults -> {next, SomewhereElse}
                  [] OTHER -> {next}
  BY SMT DEF PointersAfter, NearTargets, Reached, NextPointer
<1> HIDE DEF m, next, reached, targets, faults
<1>2. /\ targets # {} => after \in reached \union {next}
      /\ targets = {} => after \in {next, SomewhereElse}
      /\ targets = {} /\ m \notin MayGoAnywhere /\ m \notin faults => after = next
  BY <1>1
<1> QED
  BY <1>2 DEF m, next, reached, targets, faults

Elapsed(before, after) == (after - before.IP) % 65536

\* What the change counts as.
LEMMA CountsAre ==
  ASSUME NEW i, NEW before, NEW test, test.before = before
  PROVE  /\ classify(i) = "opaque" => CountOfIP(i, test) = "skipped: opaque transfer"
         /\ classify(i) = "relative" /\ test.after \in {NextPointer(i, before), TakenPointer(i, before)}
              => CountOfIP(i, test) \in {"relative target ok (taken)",
                                         "relative not taken, length ok"}
         /\ classify(i) = "linear" /\ Elapsed(before, test.after) = length(i)
              => CountOfIP(i, test) = "length ok"
         /\ classify(i) = "faults"
              => CountOfIP(i, test) \in {"length ok", "skipped: instruction faulted"}
<1> DEFINE delta == Elapsed(before, test.after)
           next == NextPointer(i, before)
           taken == TakenPointer(i, before)
           n == length(i)
           mode == classify(i)
<1>1. CountOfIP(i, test) =
        CASE mode = "opaque" -> "skipped: opaque transfer"
          [] mode = "relative" ->
               (CASE test.after = taken -> "relative target ok (taken)"
                 [] test.after # taken /\ test.after = next -> "relative not taken, length ok"
                 [] OTHER -> "TARGET MISMATCH")
          [] mode \in {"faults", "linear"} /\ delta = n -> "length ok"
          [] mode = "faults" /\ delta # n -> "skipped: instruction faulted"
          [] mode = "linear" /\ delta # n -> "LENGTH MISMATCH"
  BY SMT DEF CountOfIP, NextPointer, TakenPointer, Elapsed
<1> HIDE DEF delta, next, taken, n, mode
<1>2. mode = "opaque" => CountOfIP(i, test) = "skipped: opaque transfer"
  BY <1>1, Zenon
<1>3. mode = "relative" /\ test.after \in {next, taken}
        => CountOfIP(i, test) \in {"relative target ok (taken)", "relative not taken, length ok"}
  BY <1>1, Zenon
<1>4. mode = "linear" /\ delta = n => CountOfIP(i, test) = "length ok"
  BY <1>1, Zenon
<1>5. mode = "faults" => CountOfIP(i, test) \in {"length ok", "skipped: instruction faulted"}
  BY <1>1, Zenon
<1> QED
  BY <1>2, <1>3, <1>4, <1>5, Zenon DEF delta, next, taken, n, mode

\* Wherever the processor went, the instruction pointer agrees with what was
\* decoded.
LEMMA PointerPasses ==
  ASSUME NEW i, Decoded(i), DECODE = DecodeRows, length(i) \in Word16,
         NEW before \in RegisterFile, NEW after \in PointersAfter(i, before),
         NEW test, test.before = before, test.after = after
  PROVE  /\ after \in Int /\ after # NotRecorded
         /\ CountOfIP(i, test) \notin Mismatches
<1> DEFINE m == Mnemonic(i)
           n == length(i)
           d == i.operand1.value[1]
           p == before.IP
           next == NextPointer(i, before)
           taken == TakenPointer(i, before)
           near == i.operand1.kind \in {"rel8", "rel16"}
           targets == NearTargets(i)
           reached == Reached(i, before)
           count == CountOfIP(i, test)
<1>1. p \in Int /\ 0 <= p /\ p <= 65535
  <2>1. "IP" \in RegisterNames
    BY DEF RegisterNames
  <2>2. before["IP"] \in Int /\ 0 <= before["IP"] /\ before["IP"] <= 65535
    BY <2>1, RegistersAre
  <2> QED
    BY <2>2, SMT
<1>2. n \in Int /\ 0 <= n /\ n <= 65535
  BY WordIs
<1>3. near => d \in Int
  BY OperandsAre DEF ValueIs
<1>4. next = (p + n) % 65536 /\ taken = (p + n + d) % 65536
  BY SMT DEF NextPointer, TakenPointer
<1>5. next \in Int /\ 0 <= next /\ (near => taken \in Int /\ 0 <= taken)
  <2> HIDE DEF p, n, d, next, taken
  <2> QED
    BY <1>1, <1>2, <1>3, <1>4, SMT
<1>6. near => reached = {taken}
  <2> SUFFICES ASSUME near PROVE reached = {taken}
    OBVIOUS
  <2> DEFINE k == Near(d).number
  <2>1. reached = {(next + k) % 65536}
    <3>1. targets = {Near(d)}
      BY NearTargetsAre
    <3> HIDE DEF targets, next, d
    <3> QED
      BY <3>1, SMT DEF Reached, next, targets
  <2>2. k = d % 65536
    BY <1>3, SMT DEF Near, Meaning
  <2> HIDE DEF p, n, d, k, next, taken
  <2>3. (next + k) % 65536 = taken
    BY <1>1, <1>2, <1>3, <1>4, <2>2, TakenAgain, SMT
  <2> QED
    BY <2>1, <2>3, SMT
<1>7. near => m \in _RELATIVE \union {"CALL"}
  <2> DEFINE pair == Row(RowOf(i)).operands
  <2>1. RowOf(i) \in Int /\ 0 <= RowOf(i) /\ RowOf(i) <= 351 /\ KindIs(i.operand1, pair[1])
        /\ m = RowMnemonic(RowOf(i))
    BY RowOfGroup DEF Mnemonic
  <2>2. near => pair[1] \in {"REL8", "REL16"}
    BY <2>1 DEF KindIs
  <2> QED
    BY <2>1, <2>2, RelativeRows
<1>8. near => after \in {next, taken}
  <2>1. near => targets # {}
    BY NearTargetsAre
  <2> QED
    BY <1>6, <2>1, PointersAre, Zenon
<1>9. ~near => /\ after \in {next, SomewhereElse}
               /\ m \notin MayGoAnywhere /\ m \notin {"DIV", "IDIV", "AAM"} => after = next
  <2>1. ~near => targets = {}
    BY NearTargetsAre
  <2> QED
    BY <2>1, PointersAre, Zenon
<1>10. after \in Int /\ 0 <= after
  BY <1>5, <1>8, <1>9, SMT DEF SomewhereElse
<1>11. classify(i) = "linear" => after = next
  <2> SUFFICES ASSUME classify(i) = "linear" PROVE after = next
    OBVIOUS
  <2>1. /\ m \notin _OPAQUE_TRANSFER /\ m \notin _MAY_FAULT
        /\ m \in {"CALL", "JMP"} => near
        /\ near => m \notin _RELATIVE
    BY ClassifyIs
  <2>2. ~near
    BY <1>7, <2>1 DEF _OPAQUE_TRANSFER
  <2>3. m \notin MayGoAnywhere /\ m \notin {"DIV", "IDIV", "AAM"}
    BY <2>1, <2>2 DEF _OPAQUE_TRANSFER, _MAY_FAULT, MayGoAnywhere
  <2> QED
    BY <1>9, <2>2, <2>3
<1>12. Elapsed(before, next) = n
  <2>1. Elapsed(before, next) = (next - p) % 65536
    BY SMT DEF Elapsed
  <2> HIDE DEF p, n, next
  <2> QED
    BY <1>1, <1>2, <1>4, <2>1, NextAgain, SMT
<1>13. classify(i) = "relative" => near
  BY ClassifyIs
<1>14. count \in {"skipped: opaque transfer", "relative target ok (taken)",
                  "relative not taken, length ok", "length ok", "skipped: instruction faulted"}
  <2>1. classify(i) = "opaque" => count = "skipped: opaque transfer"
    BY CountsAre, Zenon
  <2>2. classify(i) = "relative" => count \in {"relative target ok (taken)",
                                               "relative not taken, length ok"}
    BY <1>8, <1>13, CountsAre, Zenon
  <2>3. classify(i) = "linear" => count = "length ok"
    BY <1>11, <1>12, CountsAre, Zenon
  <2>4. classify(i) = "faults" => count \in {"length ok", "skipped: instruction faulted"}
    BY CountsAre, Zenon
  <2> QED
    BY <2>1, <2>2, <2>3, <2>4, ClassifyIs, Zenon
<1> HIDE DEF count
<1>15. count \notin Mismatches
  BY <1>14, Zenon DEF Mismatches
<1>16. after # NotRecorded
  BY <1>10 DEF NotRecorded
<1> QED
  BY <1>10, <1>15, <1>16 DEF count

\* An address is a segment and an offset; the bytes of a word are next to each
\* other in the segment.
LEMMA SumsAre ==
  ASSUME NEW before \in RegisterFile, NEW m \in 0..2, NEW n \in 0..7, NEW d, NEW w, NEW v,
         v = << m, n, d, w >>
  PROVE  SumOf(ADDR16_REGISTER_TEXT(v), before) \in Int
<1> DEFINE r == ADDR16_REGISTER_TEXT(v)
           names == {"BX", "BP", "SI", "DI"}
<1>1. r \in {<< >>, << "BX", "SI" >>, << "BX", "DI" >>, << "BP", "SI" >>, << "BP", "DI" >>,
             << "SI" >>, << "DI" >>, << "BP" >>, << "BX" >>}
  BY DEF ADDR16_REGISTER_TEXT, BaseRegisters
<1> SUFFICES SumOf(r, before) \in Int
  OBVIOUS
<1>2. \A x \in names : before[x] \in Int
  <2>1. names \subseteq RegisterNames
    BY DEF RegisterNames
  <2> HIDE DEF names
  <2> QED
    BY <2>1, RegistersAre
<1> HIDE DEF r
<1>3. CASE r = << >>
  <2>1. Len(r) = 0
    BY <1>3
  <2> QED
    BY <2>1 DEF SumOf
<1>4. CASE \E x \in names : r = << x >>
  <2>1. PICK x \in names : r = << x >>
    BY <1>4
  <2>2. Len(r) = 1 /\ r[1] = x /\ before[x] \in Int
    BY <1>2, <2>1
  <2>3. SumOf(r, before) = before[r[1]]
    BY <2>2 DEF SumOf
  <2> QED
    BY <2>2, <2>3
<1>5. CASE \E x, y \in names : r = << x, y >>
  <2>1. PICK x \in names, y \in names : r = << x, y >>
    BY <1>5
  <2>2. Len(r) = 2 /\ r[1] = x /\ r[2] = y /\ before[x] \in Int /\ before[y] \in Int
    BY <1>2, <2>1
  <2>3. SumOf(r, before) = before[r[1]] + before[r[2]]
    BY <2>2 DEF SumOf
  <2>4. SumOf(r, before) = before[x] + before[y]
    BY <2>2, <2>3
  <2> HIDE DEF names
  <2> QED
    BY <2>2, <2>4
<1>6. r = << >> \/ (\E x \in names : r = << x >>) \/ (\E x, y \in names : r = << x, y >>)
  BY <1>1
<1> QED
  BY <1>3, <1>4, <1>5, <1>6

\* Sums modulo 64K.
LEMMA SumAgain ==
  ASSUME NEW d \in Int, NEW s \in Int, NEW k \in Int
  PROVE  (((d % 65536) + s) + k) % 65536 = (((d + s) % 65536) + k) % 65536
OBVIOUS

\* The segment and the offset of the first operand.
OperandSegment(i) ==
  IF _segment_override(i) = None THEN base_register(i.operand1.value) ELSE _segment_override(i)

LEMMA AddressIs ==
  ASSUME NEW op, ValueIs(op), op.kind = "addr16"
  PROVE  \E m \in 0..2, n \in 0..7, d \in Int, w \in {8, 16} : op.value = << m, n, d, w >>
BY AddressValue, SMT

\* Where the check looks is where the operand begins.
LEMMA OperandBytesAre ==
  ASSUME NEW i, Decoded(i), DECODE = DecodeRows, i.operand1.kind = "addr16",
         NEW before \in RegisterFile
  PROVE  LET s == before[OperandSegment(i)] * 16
             o == Offset(i.operand1.value, before)
         IN /\ s \in Int /\ o \in Int /\ 0 <= o /\ o <= 65535
            /\ i.operand1.value[4] \in {8, 16}
            /\ effective_address(i, before) = Memory20(s + o)
            /\ DOMAIN OperandBytes(i, before) = 0..(i.operand1.value[4] \div 8 - 1)
            /\ OperandBytes(i, before)[0] = Memory20(s + o)
            /\ i.operand1.value[4] = 16 =>
                 OperandBytes(i, before)[1] = Memory20(s + ((o + 1) % 65536))
<1> DEFINE v == i.operand1.value
           r == ADDR16_REGISTER_TEXT(v)
           sum == SumOf(r, before)
           segment == OperandSegment(i)
           base == before[segment]
           o == Offset(v, before)
           f == DecodedOperands(i)[1]
           mean == OperandMeaning(i, f)
           width == v[4]
<1>1. PICK m \in 0..2, n \in 0..7, d \in Int, w \in {8, 16} : v = << m, n, d, w >>
  <2>1. ValueIs(i.operand1)
    BY OperandsAre
  <2> QED
    BY <2>1, AddressIs
<1>2. width = w /\ v[3] = d
  BY <1>1
<1>3. sum \in Int
  BY <1>1, SumsAre
<1>4. o = (d + sum) % 65536
  BY <1>2, SMT DEF Offset
<1>5. o \in Int /\ 0 <= o /\ o <= 65535
  <2> HIDE DEF o, sum
  <2> QED
    BY <1>3, <1>4, SMT
<1>6. f.kind = "addr16" /\ f.value = v
  <2>1. DecodedOperands(i) \in {<< First(i) >>, << First(i), Second(i) >>}
    BY ShortOperands
  <2>2. f = First(i)
    BY <2>1
  <2> QED
    BY <2>2, SMT DEF First, NamedOperand
<1>7. segment = In(i, DefaultSegment(r)) /\ segment \in RegisterNames
  <2>1. base_register(v) = DefaultSegment(r)
    BY <1>1, BaseIsDefault
  <2>2. i.prefix_bytes \in Seq(Byte)
    BY DEF Decoded, InstructionRecord
  <2>3. _segment_override(i) = Override(i) /\ Override(i) \in {None} \union Segments
    BY <2>2, OverrideIs
  <2>4. DefaultSegment(r) \in RegisterNames /\ Segments \subseteq RegisterNames
    BY DEF DefaultSegment, Segments, RegisterNames
  <2>5. segment = IF Override(i) = None THEN DefaultSegment(r) ELSE Override(i)
    BY <2>1, <2>3, Zenon DEF OperandSegment
  <2> QED
    BY <2>3, <2>4, <2>5, Zenon DEF In
<1>8. base \in Int
  BY <1>7, RegistersAre
<1>9. mean.segment = segment /\ mean.registers = r /\ mean.number = d % 65536
  <2> DEFINE size == IF Unsized(Mnemonic(i)) /\ f.value[4] = 16 THEN 0 ELSE f.value[4]
  <2>1. mean = MemoryAt(size, In(i, DefaultSegment(r)), r, v[3])
    BY <1>6, MeaningOfAddress
  <2> HIDE DEF size, mean, segment, r
  <2> QED
    BY <1>2, <1>7, <2>1, SMT DEF MemoryAt, Meaning
<1>10. OperandBytes(i, before) =
         [k \in 0..(w \div 8 - 1) |-> Memory20(base * 16 + (((d % 65536) + sum + k) % 65536))]
  <2> HIDE DEF mean, f
  <2>1. OperandBytes(i, before) = BytesAt(mean, w, before)
    BY <1>2 DEF OperandBytes, mean, f
  <2> HIDE DEF r, segment
  <2> QED
    BY <1>9, <2>1, SMT DEF BytesAt
<1>11. effective_address(i, before) = Memory20(base * 16 + o)
  BY SMT DEF effective_address, OperandSegment
<1> DEFINE s == base * 16
           bytes == OperandBytes(i, before)
           ByteAt(k) == Memory20(s + (((d % 65536) + sum + k) % 65536))
           last == w \div 8 - 1
<1>12. s \in Int
  <2> HIDE DEF base
  <2> QED
    BY <1>8, SMT
<1>13. bytes = [k \in 0..last |-> ByteAt(k)]
  BY <1>10
<1> HIDE DEF bytes, last, ByteAt
<1>14. DOMAIN bytes = 0..last
  BY <1>13
<1>15. last = (IF w = 8 THEN 0 ELSE 1)
  BY SMT DEF last
<1>16. bytes[0] = ByteAt(0) /\ (w = 16 => bytes[1] = ByteAt(1))
  BY <1>13, <1>15
<1> HIDE DEF o, s, sum
<1>17. ByteAt(0) = Memory20(s + o)
  <2>1. ((d % 65536) + sum + 0) % 65536 = o
    BY <1>3, <1>4, SMT
  <2> QED
    BY <2>1, SMT DEF ByteAt
<1>18. ByteAt(1) = Memory20(s + ((o + 1) % 65536))
  <2>1. ((d % 65536) + sum + 1) % 65536 = (o + 1) % 65536
    BY <1>3, <1>4, SumAgain, SMT
  <2> QED
    BY <2>1, SMT DEF ByteAt
<1> SUFFICES /\ s \in Int /\ o \in Int /\ 0 <= o /\ o <= 65535
             /\ width \in {8, 16}
             /\ effective_address(i, before) = Memory20(s + o)
             /\ DOMAIN bytes = 0..(width \div 8 - 1)
             /\ bytes[0] = Memory20(s + o)
             /\ width = 16 => bytes[1] = Memory20(s + ((o + 1) % 65536))
  BY DEF s, o, bytes
<1>19. effective_address(i, before) = Memory20(s + o)
  BY <1>11 DEF s
<1>20. width \in {8, 16} /\ DOMAIN bytes = 0..(width \div 8 - 1)
  BY <1>2, <1>14 DEF last
<1> HIDE DEF width
<1> QED
  BY <1>2, <1>5, <1>12, <1>16, <1>17, <1>18, <1>19, <1>20

\* A faithful write is found.
LEMMA WritesPass ==
  ASSUME NEW i, Decoded(i), DECODE = DecodeRows, WritesOperand(i),
         NEW before \in RegisterFile, NEW writes \in WritesOf(i, before),
         writes # {}, ~HighByteWrapped(i, before, writes)
  PROVE  Candidates(i, effective_address(i, before)) \intersect writes # {}
<1> DEFINE bytes == OperandBytes(i, before)
           width == i.operand1.value[4]
           first == effective_address(i, before)
           next == Memory20(first + 1)
<1>1. /\ width \in {8, 16} /\ DOMAIN bytes = 0..(width \div 8 - 1) /\ bytes[0] = first
  BY OperandBytesAre DEF WritesOperand
<1>2. writes \subseteq {bytes[k] : k \in DOMAIN bytes}
  BY DEF WritesOf
<1>3. Candidates(i, first) = {first} \union (IF width = 16 THEN {next} ELSE {})
  BY SMT DEF Candidates
<1>4. width = 16 /\ writes = {bytes[1]} => bytes[1] = next
  BY <1>1, SMT DEF HighByteWrapped
<1> HIDE DEF bytes, width, first, next
<1>5. CASE width = 8
  <2>1. DOMAIN bytes = {0}
    BY <1>1, <1>5, SMT
  <2>2. writes \subseteq {first}
    BY <1>1, <1>2, <2>1
  <2> QED
    BY <1>3, <2>2 DEF first
<1>6. CASE width = 16
  <2>1. DOMAIN bytes = {0, 1}
    BY <1>1, <1>6, SMT
  <2>2. writes \subseteq {first, bytes[1]}
    BY <1>1, <1>2, <2>1
  <2>3. first \in writes \/ writes = {bytes[1]}
    BY <2>2
  <2>4. first \in writes \/ next \in writes
    BY <1>4, <1>6, <2>3
  <2> QED
    BY <1>3, <1>6, <2>4 DEF first
<1> QED
  BY <1>1, <1>5, <1>6

\* No false alarm for an instruction of fewer than 64K bytes.
LEMMA FaithfulPass ==
  ASSUME NEW i, Decoded(i), DECODE = DecodeRows, length(i) \in Word16,
         RegisterFiles \subseteq RegisterFile
  PROVE  FaithfulPasses(i)
<1> SUFFICES ASSUME NEW before \in RegisterFiles, NEW after \in PointersAfter(i, before),
                    NEW writes \in WritesOf(i, before), ~HighByteWrapped(i, before, writes)
             PROVE  check(i, [before |-> before, after |-> after, writes |-> writes])
                      \intersect Mismatches = {}
  BY DEF FaithfulPasses
<1> DEFINE test == [before |-> before, after |-> after, writes |-> writes]
           count == CountOfIP(i, test)
           address == effective_address(i, before)
<1>1. before \in RegisterFile /\ test.before = before /\ test.after = after /\ test.writes = writes
  OBVIOUS
<1> HIDE DEF test
<1>2. after # NotRecorded /\ count \notin Mismatches
  BY <1>1, PointerPasses
<1>3. ChecksWrites(i, test) => Candidates(i, address) \intersect writes # {}
  <2> SUFFICES ASSUME ChecksWrites(i, test) PROVE Candidates(i, address) \intersect writes # {}
    OBVIOUS
  <2>1. WritesOperand(i) /\ writes # {}
    BY <1>1, Zenon DEF ChecksWrites, WritesOperand, _READS_OPERAND
  <2> QED
    BY <1>1, <2>1, WritesPass
<1>4. check(i, test) \subseteq {count, "address ok"}
  BY <1>1, <1>2, <1>3, Zenon DEF check
<1>5. "address ok" \notin Mismatches
  BY DEF Mismatches
<1>6. check(i, test) \intersect Mismatches = {}
  <2> HIDE DEF count
  <2> QED
    BY <1>2, <1>4, <1>5, Zenon
<1> QED
  BY <1>6 DEF test

\* Addresses a little apart are different bytes of the megabyte.
Nearby == {d \in Int : -70000 <= d /\ d <= 70000}

LEMMA BytesDiffer ==
  ASSUME NEW x \in Int, NEW d \in Nearby, NEW e \in Nearby, d # e
  PROVE  Memory20(x + d) # Memory20(x + e)
<1>1. d \in Int /\ -70000 <= d /\ d <= 70000 /\ e \in Int /\ -70000 <= e /\ e <= 70000
  BY SMT DEF Nearby
<1> QED
  BY <1>1, SMT DEF Memory20

LEMMA BytesAdd ==
  ASSUME NEW x \in Int, NEW d \in Int
  PROVE  Memory20(Memory20(x) + d) = Memory20(x + d)
BY SMT DEF Memory20

\* A write of another byte is caught.
LEMMA MovedCaught ==
  ASSUME NEW i, Decoded(i), DECODE = DecodeRows, length(i) \in Word16, WritesOperand(i),
         RegisterFiles \subseteq RegisterFile,
         NEW distance \in {-2, 2} \union (IF i.operand1.value[4] = 8 THEN {-1, 1} ELSE {})
  PROVE  MovedIsCaught(i, distance)
<1> SUFFICES ASSUME NEW before \in RegisterFiles, NEW after \in PointersAfter(i, before),
                    NEW test, test = [before |-> before, after |-> after,
                                      writes |-> WritesMoved(i, before, distance)],
                    ChecksWrites(i, test)
             PROVE  "ADDRESS MISMATCH" \in check(i, test)
  BY Zenon DEF MovedIsCaught
<1> DEFINE writes == WritesMoved(i, before, distance)
           bytes == OperandBytes(i, before)
           width == i.operand1.value[4]
           address == effective_address(i, before)
           x == before[OperandSegment(i)] * 16 + Offset(i.operand1.value, before)
<1>1. before \in RegisterFile /\ test.before = before /\ test.after = after /\ test.writes = writes
  BY SMT
<1>2. after # NotRecorded
  BY <1>1, PointerPasses
<1>3. Candidates(i, address) \intersect writes = {}
  <2>1. /\ x \in Int /\ width \in {8, 16} /\ address = Memory20(x)
        /\ DOMAIN bytes = 0..(width \div 8 - 1) /\ bytes[0] = Memory20(x)
    BY <1>1, OperandBytesAre DEF WritesOperand
  <2>2. width = 16 => bytes[1] \in {Memory20(x + 1), Memory20(x - 65535)}
    <3> DEFINE s == before[OperandSegment(i)] * 16
               o == Offset(i.operand1.value, before)
    <3>1. /\ s \in Int /\ o \in Int /\ 0 <= o /\ o <= 65535
          /\ width = 16 => bytes[1] = Memory20(s + ((o + 1) % 65536))
      BY <1>1, OperandBytesAre DEF WritesOperand
    <3>2. x = s + o
      OBVIOUS
    <3> HIDE DEF s, o, x, bytes, width
    <3>3. s + ((o + 1) % 65536) \in {x + 1, x - 65535}
      BY <3>1, <3>2, SMT
    <3> QED
      BY <3>1, <3>3, SMT
  <2>3. writes = {Memory20(bytes[k] + distance) : k \in DOMAIN bytes}
    BY DEF WritesMoved
  <2>4. Candidates(i, address) = {address} \union (IF width = 16 THEN {Memory20(address + 1)} ELSE {})
    BY SMT DEF Candidates
  <2>5. distance \in Int /\ (width = 8 => distance \in {-2, -1, 1, 2})
        /\ (width = 16 => distance \in {-2, 2})
    OBVIOUS
  <2> HIDE DEF x, bytes, width, address, writes
  <2>6. Memory20(address + 1) = Memory20(x + 1) /\ Memory20(bytes[0] + distance) = Memory20(x + distance)
    BY <2>1, <2>5, BytesAdd
  <2> DEFINE Apart(d, e) == Memory20(x + d) # Memory20(x + e)
  <2>7. \A d, e \in Nearby : d # e => Apart(d, e)
    BY <2>1, BytesDiffer
  <2>8. address = Memory20(x + 0)
    BY <2>1
  <2>9. CASE width = 8
    <3>1. DOMAIN bytes = {0}
      BY <2>1, <2>9, SMT
    <3>2. writes = {Memory20(x + distance)}
      BY <2>3, <2>6, <3>1
    <3>3. Memory20(x + distance) # Memory20(x + 0)
      <4> HIDE DEF Apart
      <4>1. Apart(distance, 0)
        BY <2>5, <2>7, <2>9, SMT DEF Nearby
      <4> QED
        BY <4>1 DEF Apart
    <3> QED
      BY <2>4, <2>8, <2>9, <3>2, <3>3, SMT
  <2>10. CASE width = 16
    <3>1. DOMAIN bytes = {0, 1}
      BY <2>1, <2>10, SMT
    <3>2. PICK e \in {1, -65535} : bytes[1] = Memory20(x + e)
      BY <2>1, <2>2, <2>10, SMT
    <3>3. Memory20(bytes[1] + distance) = Memory20(x + e + distance)
      BY <2>1, <2>5, <3>2, BytesAdd, SMT
    <3>4. writes = {Memory20(x + distance), Memory20(x + e + distance)}
      BY <2>3, <2>6, <3>1, <3>3
    <3>5. Candidates(i, address) = {Memory20(x + 0), Memory20(x + 1)}
      BY <2>4, <2>6, <2>8, <2>10
    <3>6. \A d \in {distance, e + distance} : \A c \in {0, 1} : Memory20(x + d) # Memory20(x + c)
      <4> HIDE DEF Apart
      <4>1. \A d \in {distance, e + distance} : \A c \in {0, 1} :
              d \in Nearby /\ c \in Nearby /\ d # c
        BY <2>5, <2>10, <3>2, SMT DEF Nearby
      <4>2. \A d \in {distance, e + distance} : \A c \in {0, 1} : Apart(d, c)
        BY <2>7, <4>1
      <4> QED
        BY <4>2 DEF Apart
    <3>7. x + e + distance = x + (e + distance)
      BY <2>1, <2>5, <2>10, <3>2, SMT
    <3> QED
      BY <3>4, <3>5, <3>6, <3>7
  <2> QED
    BY <2>1, <2>9, <2>10
<1>4. check(i, test) = {CountOfIP(i, test)} \union {"ADDRESS MISMATCH"}
  BY <1>1, <1>2, <1>3, Zenon DEF check
<1> QED
  BY <1>4, Zenon

\* The input stays the buffer it began as.
BufferStays == buf \in Buffers

LEMMA BufferHolds == Spec => []BufferStays
<1>1. Init => BufferStays
  BY DEF Init, BufferStays
<1>2. BufferStays /\ [Next]_vars => BufferStays'
  <2> SUFFICES ASSUME BufferStays, [Next]_vars PROVE BufferStays'
    OBVIOUS
  <2>1. CASE UNCHANGED vars
    BY <2>1 DEF vars, BufferStays
  <2>2. CASE Call
    <3>1. buf' = buf
      BY <2>2, Zenon DEF Call, SetPosition, Rewind, SetOptions, DecodeNext
    <3> QED
      BY <3>1 DEF BufferStays
  <2>3. CASE DecodeStep
    <3>1. buf' = buf
      BY <2>3, Zenon DEF DecodeStep, ReadPrefixOrOpcode, ReadModRm, ResolveOperand1, ResolveOperand2,
                         RunsOutInPhase, RunsOut
    <3> QED
      BY <3>1 DEF BufferStays
  <2> QED
    BY <2>1, <2>2, <2>3 DEF Next
<1> QED
  BY <1>1, <1>2, PTL DEF Spec

LEMMA WordIn ==
  ASSUME NEW x \in Nat, x <= 65535
  PROVE  x \in Word16
<1> DEFINE k == 65535
<1>1. x <= k /\ k \in Int
  OBVIOUS
<1>2. Word16 = 0..k
  BY SMT DEF Word16
<1> HIDE DEF k
<1>3. x \in 0..k
  BY <1>1
<1> QED
  BY <1>2, <1>3

\* An instruction is no longer than its buffer.
LEMMA LengthFits ==
  ASSUME \A b \in Buffers : Len(b) < 65536, BufferStays, TypeOK, BytesAreConsumed, Returned
  PROVE  length(result) \in Word16
<1> DEFINE n == length(result)
           size == Len(buf)
<1>1. position \in 0..size /\ start \in 0..size /\ size \in Nat
  BY DEF TypeOK
<1>2. n = position - start
  BY DEF BytesAreConsumed, Returned, Current, length
<1>3. size < 65536
  BY SMT DEF BufferStays
<1>4. n \in Nat
  BY DEF TypeOK, InstructionRecord, length
<1> HIDE DEF n, size
<1>5. n <= 65535
  BY <1>1, <1>2, <1>3, SMT
<1>6. n \in Word16
  BY <1>4, <1>5, WordIn
<1> QED
  BY <1>6 DEF n

LEMMA FilesAreRegisters == RegisterFiles \subseteq RegisterFile
BY RegisterFilesAssumption DEF RegisterFile

\* The check raises no false alarm: a recording of the processor executing what
\* was decoded, from whatever registers, is counted as a pass, but for a word whose
\* second byte wraps to offset 0.  For buffers of less than 64K, as a length that
\* wraps in 16 bits is no recording's.
THEOREM RecordingsPass ==
  ASSUME DECODE = DecodeRows, \A b \in Buffers : Len(b) < 65536
  PROVE  RenderSpec => []FaithfulRecordingsPass
<1>1. TypeOK /\ PartsInPlace /\ RowInForce /\ BytesAreConsumed /\ BufferStays => FaithfulRecordingsPass
  <2> SUFFICES ASSUME TypeOK, PartsInPlace, RowInForce, BytesAreConsumed, BufferStays, Returned
               PROVE  FaithfulPasses(result)
    BY DEF FaithfulRecordingsPass
  <2>1. length(result) \in Word16
    BY LengthFits
  <2> QED
    BY <2>1, ReturnedIsDecoded, FilesAreRegisters, FaithfulPass
<1> QED
  BY <1>1, RenderingIsDecoding, TypeCorrect, PartsHold, RowHolds, BytesConsumed, BufferHolds, PTL

\* And its tolerance for the second byte of a word masks no wrong address: a write
\* two bytes away from the operand, or one byte from a byte operand, is reported.
\* For buffers of less than 64K.
THEOREM MovesAreCaught ==
  ASSUME DECODE = DecodeRows, \A b \in Buffers : Len(b) < 65536
  PROVE  RenderSpec => []MovedWritesAreCaught
<1>1. TypeOK /\ PartsInPlace /\ RowInForce /\ BytesAreConsumed /\ BufferStays => MovedWritesAreCaught
  <2> SUFFICES ASSUME TypeOK, PartsInPlace, RowInForce, BytesAreConsumed, BufferStays, Returned,
                      WritesOperand(result),
                      NEW distance \in {-2, 2} \union
                            (IF result.operand1.value[4] = 8 THEN {-1, 1} ELSE {})
               PROVE  MovedIsCaught(result, distance)
    BY DEF MovedWritesAreCaught
  <2>1. length(result) \in Word16
    BY LengthFits
  <2> QED
    BY <2>1, ReturnedIsDecoded, FilesAreRegisters, MovedCaught
<1> QED
  BY <1>1, RenderingIsDecoding, TypeCorrect, PartsHold, RowHolds, BytesConsumed, BufferHolds, PTL

-----------------------------------------------------------------------------
(* The shapes of arguments and texts.                                      *)

TextKinds   == {"register", "number", "pair", "offset", "memory", "pointer"}
SegmentText == {None} \union Segments
SizeText    == {None, "byte", "word"}

\* An operand of a text has one of its kinds and no more than two of anything.
IsShown(o) ==
  /\ o.kind \in TextKinds
  /\ o.segment \in SegmentText /\ o.size \in SizeText
  /\ Len(o.registers) <= 2 /\ Len(o.numbers) <= 2
  /\ o.kind \in {"pair", "offset"} => o.numbers[Len(o.numbers)] \in Word16

LEMMA TextIsShown ==
  ASSUME NEW k \in TextKinds, NEW size \in SizeText, NEW segment \in SegmentText, NEW r, NEW n,
         Len(r) <= 2, Len(n) <= 2, k \in {"pair", "offset"} => n[Len(n)] \in Word16
  PROVE  IsShown(Text(k, size, segment, r, n))
<1> DEFINE o == Text(k, size, segment, r, n)
<1>1. o.kind = k /\ o.size = size /\ o.segment = segment /\ o.registers = r /\ o.numbers = n
  BY SMT DEF Text
<1> HIDE DEF o
<1>2. IsShown(o)
  BY <1>1, Zenon DEF IsShown
<1> QED
  BY <1>2 DEF o

\* Each of the words and numbers.
LEMMA ShortLengths ==
  ASSUME NEW x, NEW y
  PROVE  Len(<< >>) <= 2 /\ Len(<< x >>) <= 2 /\ Len(<< x, y >>) <= 2
         /\ << x >>[Len(<< x >>)] = x /\ << x, y >>[Len(<< x, y >>)] = y
OBVIOUS

LEMMA TextsAreShown ==
  ASSUME NEW x, NEW n \in Word16
  PROVE  /\ IsShown(RegisterText(x)) /\ IsShown(NumberText(x))
         /\ IsShown(PairText(x, n)) /\ IsShown(OffsetText(n))
<1>1. None \in SizeText /\ None \in SegmentText
  BY Zenon DEF SizeText, SegmentText
<1>2. TextKinds = {"register", "number", "pair", "offset", "memory", "pointer"}
  BY DEF TextKinds
<1>3. IsShown(Text("register", None, None, << x >>, << >>))
  BY <1>1, <1>2, ShortLengths, TextIsShown
<1>4. IsShown(Text("number", None, None, << >>, << x >>))
  BY <1>1, <1>2, ShortLengths, TextIsShown
<1>5. IsShown(Text("pair", None, None, << >>, << x, n >>))
  BY <1>1, <1>2, ShortLengths, TextIsShown
<1>6. IsShown(Text("offset", None, None, << >>, << n >>))
  BY <1>1, <1>2, ShortLengths, TextIsShown
<1> QED
  BY <1>3, <1>4, <1>5, <1>6, Zenon DEF RegisterText, NumberText, PairText, OffsetText

LEMMA MemoryIsShown ==
  ASSUME NEW size \in SizeText, NEW segment \in SegmentText, NEW r, Len(r) <= 2,
         NEW n, n = << >> \/ \E x : n = << x >>
  PROVE  IsShown(MemoryText(size, segment, r, n))
<1>1. Len(n) <= 2
  BY ShortLengths
<1>2. "memory" \in TextKinds
  BY DEF TextKinds
<1>3. IsShown(Text("memory", size, segment, r, n))
  BY <1>1, <1>2, TextIsShown
<1> QED
  BY <1>3, Zenon DEF MemoryText

LEMMA PointerIsShown ==
  ASSUME NEW segment \in SegmentText, NEW x
  PROVE  IsShown(Text("pointer", None, segment, << x >>, << >>))
<1>1. None \in SizeText /\ "pointer" \in TextKinds
  BY Zenon DEF SizeText, TextKinds
<1> QED
  BY <1>1, ShortLengths, TextIsShown

LEMMA AddressesAreShort ==
  ASSUME NEW m \in 0..2, NEW n \in 0..7, NEW d, NEW w, NEW v, v = << m, n, d, w >>
  PROVE  Len(ADDR16_REGISTER_TEXT(v)) <= 2
<1> DEFINE r == ADDR16_REGISTER_TEXT(v)
<1>1. r \in {<< >>, << "BX", "SI" >>, << "BX", "DI" >>, << "BP", "SI" >>, << "BP", "DI" >>,
             << "SI" >>, << "DI" >>, << "BP" >>, << "BX" >>}
  BY DEF ADDR16_REGISTER_TEXT, BaseRegisters
<1> HIDE DEF r
<1>2. r = << >> \/ (\E x : r = << x >>) \/ (\E x, y : r = << x, y >>)
  BY <1>1, Zenon
<1>3. Len(r) <= 2
  BY <1>2, ShortLengths, Zenon
<1> QED
  BY <1>3 DEF r

\* What the styles need of an operand to print it.
IsPrintable(o) ==
  /\ o.kind \in OperandKind \ {"none"}
  /\ o.kind \in {"rel8", "rel16"} => o.value[1] \in Int
  /\ o.kind = "far16" => o.value[1] \in Int /\ o.value[2] \in Word16
  /\ o.kind = "addr16" => \E m \in 0..2, n \in 0..7, d \in Int, w \in {8, 16} : o.value = << m, n, d, w >>

LEMMA WrapsIn ==
  ASSUME NEW x \in Int
  PROVE  x % 65536 \in Word16
<1> DEFINE y == x % 65536
<1>1. y \in Nat /\ y <= 65535
  BY SMT
<1> HIDE DEF y
<1>2. y \in Word16
  BY <1>1, WordIn
<1> QED
  BY <1>2 DEF y

LEMMA SegmentsAreText ==
  ASSUME NEW i, i.prefix_bytes \in Seq(Byte)
  PROVE  /\ _segment_override(i) \in SegmentText /\ ShownSegment(i) \in SegmentText
         /\ \A opts : _prefix_state(i, opts).segment \in SegmentText
<1>1. _segment_override(i) \in SegmentText /\ None \in SegmentText
  BY OverrideIs, Zenon DEF SegmentText
<1>2. ShownSegment(i) \in SegmentText
  BY <1>1, Zenon DEF ShownSegment
<1>3. ASSUME NEW opts PROVE _prefix_state(i, opts).segment \in {None, _segment_override(i)}
  BY SMT DEF _prefix_state
<1> QED
  BY <1>1, <1>2, <1>3, Zenon

\* A printed displacement is one number or none.
LEMMA DisplacementsAreShort ==
  ASSUME NEW v
  PROVE  /\ PrintedDisplacement(v) = << >> \/ \E x : PrintedDisplacement(v) = << x >>
         /\ \A s : \E n : /\ format_address_16(s, v) = MemoryText(None, s, ADDR16_REGISTER_TEXT(v), n)
                          /\ n = << >> \/ \E x : n = << x >>
<1>1. PrintedDisplacement(v) \in {<< >>, << v[3] >>, << v[3] % 65536 >>}
  BY SMT DEF PrintedDisplacement
<1> DEFINE k == v[3] % 65536
<1>2. PrintedDisplacement(v) \in {<< >>, << v[3] >>, << k >>}
  BY <1>1
<1> DEFINE written == CASE IsDisp16(v) -> << k >>
                        [] carries_displacement(v) /\ ~IsDisp16(v) /\ v[3] # 0 -> << v[3] >>
                        [] OTHER -> << >>
<1>3. ASSUME NEW s PROVE format_address_16(s, v) = MemoryText(None, s, ADDR16_REGISTER_TEXT(v), written)
  BY SMT DEF format_address_16
<1> HIDE DEF k
<1>4. written \in {<< >>, << v[3] >>, << k >>}
  BY SMT
<1> HIDE DEF written
<1> QED
  BY <1>2, <1>3, <1>4, Zenon

\* An operand of a listing.
LEMMA ListedIsShown ==
  ASSUME NEW i, i.prefix_bytes \in Seq(Byte), length(i) \in Int, NEW o, IsPrintable(o),
         NEW a \in Int, NEW c \in Int
  PROVE  IsShown(_render_operand(i, o, a, c))
<1> DEFINE v == o.value
<1>1. 0 \in Word16
  BY WordIn
<1>2. CASE o.kind \in RegisterKinds
  BY <1>1, <1>2, ListedRegister, TextsAreShown
<1>3. CASE o.kind \in {"imm8", "imm16"}
  <2>1. _render_operand(i, o, a, c) = NumberText(v[1])
    BY <1>3, ListedNumber
  <2> HIDE DEF v
  <2> QED
    BY <1>1, <2>1, TextsAreShown
<1>4. CASE o.kind = "imm8s"
  BY <1>1, <1>4, ListedSigned, TextsAreShown
<1>5. CASE o.kind \in {"rel8", "rel16"}
  <2> DEFINE segment == IF c = NoSegment THEN AlignedSegment(a) ELSE c
             n == a - segment * 16 + length(i) + v[1]
             offset == n % 65536
  <2>1. v[1] \in Int
    BY <1>5 DEF IsPrintable
  <2>2. segment \in Int
    BY SMT DEF AlignedSegment
  <2>3. n \in Int
    <3> HIDE DEF segment
    <3> QED
      BY <2>1, <2>2
  <2>4. _render_operand(i, o, a, c) = PairText(segment, offset)
    BY <1>5, RenderedTarget, SMT DEF NearTargetText
  <2> HIDE DEF n, segment
  <2>5. offset \in Word16
    BY <2>3, WrapsIn
  <2> HIDE DEF offset
  <2> QED
    BY <2>4, <2>5, TextsAreShown
<1>6. CASE o.kind = "far16"
  <2> DEFINE n == v[1] * 16 + v[2]
             offset == n % 65536
             first == (n \div 65536) * 4096
  <2>1. n \in Int
    <3>1. v[1] \in Int /\ v[2] \in Int
      BY <1>6, WordIs DEF IsPrintable
    <3> QED
      BY <3>1
  <2>2. _render_operand(i, o, a, c) = PairText(first, offset)
    <3>1. normalize(n) = << first, offset >>
      BY SMT DEF normalize
    <3>2. _render_operand(i, o, a, c) = FarPointerText(v[1], v[2])
      BY <1>6, RenderedTarget
    <3>3. FarPointerText(v[1], v[2]) = PairText(normalize(n)[1], normalize(n)[2])
      BY Zenon DEF FarPointerText
    <3> HIDE DEF first, offset, n
    <3> QED
      BY <3>1, <3>2, <3>3, SMT
  <2> HIDE DEF n, first
  <2>3. offset \in Word16
    BY <2>1, WrapsIn
  <2> HIDE DEF offset
  <2> QED
    BY <2>2, <2>3, TextsAreShown
<1>7. CASE o.kind \in {"offset8_16", "offset16_16"}
  <2> DEFINE w == v[1] % 65536
  <2>1. _render_operand(i, o, a, c) = MemoryText(None, ShownSegment(i), << >>, << w >>)
    BY <1>7, ListedOffset
  <2> HIDE DEF w
  <2>2. None \in SizeText /\ ShownSegment(i) \in SegmentText
    BY SegmentsAreText, Zenon DEF SizeText
  <2> QED
    BY <2>1, <2>2, ShortLengths, MemoryIsShown
<1>8. CASE o.kind = "addr16"
  <2> DEFINE size == IF _supplies_own_size(i) THEN None ELSE IF v[4] = 8 THEN "byte" ELSE "word"
  <2>1. _render_operand(i, o, a, c) =
          MemoryText(size, ShownSegment(i), ADDR16_REGISTER_TEXT(v), PrintedDisplacement(v))
    BY <1>8, ListedAddress, Zenon DEF _render_addr16
  <2>2. size \in SizeText
    BY Zenon DEF SizeText
  <2>3. Len(ADDR16_REGISTER_TEXT(v)) <= 2
    BY <1>8, AddressesAreShort DEF IsPrintable
  <2> HIDE DEF size
  <2> QED
    BY <2>1, <2>2, <2>3, SegmentsAreText, DisplacementsAreShort, MemoryIsShown
<1> QED
  BY <1>2, <1>3, <1>4, <1>5, <1>6, <1>7, <1>8 DEF IsPrintable, OperandKind, RegisterKinds

\* An operand of the NASM style.
LEMMA FormattedIsShown ==
  ASSUME NEW i, length(i) \in Int, NEW o, IsPrintable(o), NEW s \in SegmentText, NEW a \in Int
  PROVE  IsShown(format_operand(i, o, s, a))
<1> DEFINE v == o.value
<1>1. CASE o.kind \in RegisterKinds
  BY <1>1, FormattedRegister, TextsAreShown, WrapsIn
<1>2. CASE o.kind \in {"imm8", "imm16"}
  BY <1>2, FormattedNumber, TextsAreShown, WrapsIn
<1>3. CASE o.kind = "imm8s"
  <2> DEFINE n == v[1] % 65536
  <2>1. format_operand(i, o, s, a) = NumberText(n)
    BY <1>3, FormattedSigned
  <2> HIDE DEF n
  <2> QED
    BY <2>1, TextsAreShown, WrapsIn
<1>4. CASE o.kind \in {"rel8", "rel16"}
  <2> DEFINE n == (a % 65536) + v[1] + length(i)
             offset == n % 65536
  <2>1. v[1] \in Int
    BY <1>4 DEF IsPrintable
  <2>2. n \in Int
    BY <2>1
  <2>3. format_operand(i, o, s, a) = OffsetText(offset)
    BY <1>4, FormattedOffset, SMT DEF NearOffset
  <2> HIDE DEF n
  <2>4. offset \in Word16
    BY <2>2, WrapsIn
  <2> HIDE DEF offset
  <2> QED
    BY <2>3, <2>4, TextsAreShown
<1>5. CASE o.kind = "far16"
  <2>1. v[2] \in Word16
    BY <1>5 DEF IsPrintable
  <2> QED
    BY <1>5, <2>1, FormattedFar, TextsAreShown
<1>6. "DS" \in SegmentText /\ "SS" \in SegmentText /\ None \in SizeText
  BY Zenon DEF SegmentText, Segments, SizeText
<1>7. CASE o.kind \in {"offset8_16", "offset16_16"}
  <2>1. Named(s, "DS") \in SegmentText
    BY <1>6, Zenon DEF Named
  <2>2. format_operand(i, o, s, a) = MemoryText(None, Named(s, "DS"), << >>, << v[1] >>)
    BY <1>7, FormattedMoffs
  <2> QED
    BY <1>6, <2>1, <2>2, ShortLengths, MemoryIsShown
<1>8. CASE o.kind = "addr16"
  <2> DEFINE named == Named(s, base_register(v))
  <2>1. named \in SegmentText
    BY <1>6, Zenon DEF Named, base_register
  <2>2. format_operand(i, o, s, a) = format_address_16(named, v)
    BY <1>8, FormattedAddress
  <2>3. Len(ADDR16_REGISTER_TEXT(v)) <= 2
    BY <1>8, AddressesAreShort DEF IsPrintable
  <2> HIDE DEF named
  <2>4. PICK n : /\ format_address_16(named, v) = MemoryText(None, named, ADDR16_REGISTER_TEXT(v), n)
                 /\ n = << >> \/ \E x : n = << x >>
    BY DisplacementsAreShort
  <2> QED
    BY <1>6, <2>1, <2>2, <2>3, <2>4, MemoryIsShown
<1> QED
  BY <1>1, <1>2, <1>3, <1>4, <1>5, <1>7, <1>8 DEF IsPrintable, OperandKind, RegisterKinds

\* The operands of a text.
AllShown(s) == \A k \in DOMAIN s : IsShown(s[k])
AllPrintable(s) == \A k \in 1..Len(s) : IsPrintable(s[k])

LEMMA ShortAreAll ==
  ASSUME NEW x, NEW y
  PROVE  /\ AllShown(<< >>)
         /\ IsShown(x) => AllShown(<< x >>)
         /\ IsShown(x) /\ IsShown(y) => AllShown(<< x, y >>)
         /\ AllPrintable(<< >>)
         /\ IsPrintable(x) => AllPrintable(<< x >>)
         /\ IsPrintable(x) /\ IsPrintable(y) => AllPrintable(<< x, y >>)
<1>1. \A z \in 1..1 : z = 1
  OBVIOUS
<1>2. \A z \in 1..2 : z = 1 \/ z = 2
  OBVIOUS
<1>3. /\ Len(<< >>) = 0 /\ Len(<< x >>) = 1 /\ Len(<< x, y >>) = 2
      /\ DOMAIN << >> = {} /\ DOMAIN << x >> = 1..1 /\ DOMAIN << x, y >> = 1..2
      /\ << x >>[1] = x /\ << x, y >>[1] = x /\ << x, y >>[2] = y
      /\ 1..0 = {}
  OBVIOUS
<1> QED
  BY <1>1, <1>2, <1>3, Zenon DEF AllShown, AllPrintable

\* The decoder's operands can be printed.
LEMMA DecodedArePrintable ==
  ASSUME NEW i, Decoded(i), DECODE = DecodeRows
  PROVE  /\ i.operand1.kind # "none" => IsPrintable(First(i))
         /\ i.operand2.kind # "none" => IsPrintable(Second(i))
<1>1. ASSUME NEW op, ValueIs(op), op.kind # "none", NEW o, o.kind = op.kind, o.value = op.value
      PROVE  IsPrintable(o)
  <2>1. op.kind \in OperandKind \ {"none"}
    BY <1>1 DEF ValueIs, Operand
  <2>2. op.kind \in {"rel8", "rel16"} => op.value[1] \in Int
    BY <1>1 DEF ValueIs
  <2>3. op.kind = "far16" => op.value[1] \in Int /\ op.value[2] \in Word16
    <3> SUFFICES ASSUME op.kind = "far16" PROVE op.value[1] \in Int /\ op.value[2] \in Word16
      OBVIOUS
    <3>1. PICK x \in Int, y \in Int : op.value = << x, y >> /\ 0 <= y /\ y <= 65535
      BY <1>1, SMT DEF ValueIs
    <3>2. y \in Word16
      BY <3>1, WordIn, SMT
    <3> QED
      BY <3>1, <3>2
  <2>4. op.kind = "addr16" =>
          \E m \in 0..2, n \in 0..7, d \in Int, w \in {8, 16} : op.value = << m, n, d, w >>
    BY <1>1, AddressIs
  <2> QED
    BY <1>1, <2>1, <2>2, <2>3, <2>4, Zenon DEF IsPrintable
<1>2. /\ First(i).kind = i.operand1.kind /\ First(i).value = i.operand1.value
      /\ Second(i).kind = i.operand2.kind /\ Second(i).value = i.operand2.value
  BY Zenon DEF First, Second, NamedOperand
<1>3. ValueIs(i.operand1) /\ ValueIs(i.operand2)
  BY OperandsAre
<1> QED
  BY <1>1, <1>2, <1>3

\* So can those with the implied count, in either order.
LEMMA EffectiveArePrintable ==
  ASSUME NEW i, Decoded(i), DECODE = DecodeRows, NEW p
  PROVE  AllPrintable(_effective_operands(i, p)) /\ AllPrintable(DecodedOperands(i))
<1> DEFINE decoded == DecodedOperands(i)
           f == First(i)
           s == Second(i)
           count == ImpliedCount(i)
           taken == _effective_operands(i, p)
<1>1. /\ decoded \in {<< >>, << f >>, << f, s >>}
      /\ decoded # << >> => IsPrintable(f)
      /\ decoded = << f, s >> => IsPrintable(s)
  BY ShortOperands, DecodedArePrintable
<1>2. AllPrintable(decoded)
  <2> HIDE DEF f, s, decoded
  <2>1. << f, s >> # << >> /\ << f >> # << >>
    OBVIOUS
  <2> QED
    BY <1>1, <2>1, ShortAreAll
<1>3. IsPrintable(count)
  <2>1. count.kind \in {"imm8", "reg8"}
    BY SMT DEF ImpliedCount
  <2> HIDE DEF count
  <2>2. count.kind \in OperandKind \ {"none"}
    BY <2>1 DEF OperandKind
  <2> QED
    BY <2>1, <2>2 DEF IsPrintable
<1>4. CASE Mnemonic(i) = "NOP"
  <2>1. taken = << >>
    BY <1>4, SMT DEF _effective_operands
  <2> QED
    BY <1>2, <2>1, ShortAreAll
<1>5. CASE Mnemonic(i) # "NOP" /\ ~p /\ PrintsReversed(i, decoded)
  <2>1. decoded = << f, s >>
    BY <1>5, ReversedPairs
  <2>2. ~ImpliesCount(i, decoded)
    <3>1. Len(decoded) = 2
      BY <2>1
    <3> HIDE DEF decoded
    <3> QED
      BY <3>1, SMT DEF ImpliesCount
  <2>3. taken = << decoded[2], decoded[1] >>
    BY <1>5, <2>2, TakenOperands
  <2> HIDE DEF f, s, decoded, taken
  <2>4. taken = << s, f >>
    BY <2>1, <2>3
  <2>5. << f, s >> # << >>
    OBVIOUS
  <2> QED
    BY <1>1, <1>2, <2>1, <2>4, <2>5, ShortAreAll DEF taken, decoded
<1>6. CASE Mnemonic(i) # "NOP" /\ (p \/ ~PrintsReversed(i, decoded))
  <2>1. taken = IF ImpliesCount(i, decoded) THEN Append(decoded, count) ELSE decoded
    BY <1>6, TakenOperands
  <2>2. ImpliesCount(i, decoded) => Len(decoded) = 1
    BY DEF ImpliesCount
  <2> HIDE DEF f, s, decoded, taken, count
  <2>3. Len(decoded) = 1 => decoded = << f >>
    BY <1>1
  <2>4. Append(<< f >>, count) = << f, count >> /\ << f >> # << >>
    BY ShortAppend
  <2>5. AllPrintable(<< f, count >>) \/ ~IsPrintable(f)
    BY <1>3, ShortAreAll
  <2>6. AllPrintable(taken)
    BY <1>1, <1>2, <2>1, <2>2, <2>3, <2>4, <2>5
  <2> QED
    BY <1>2, <2>6 DEF taken, decoded
<1> QED
  BY <1>4, <1>5, <1>6

\* Every operand of a listing line.
LEMMA ListedAreShown ==
  ASSUME NEW i, Decoded(i), DECODE = DecodeRows, NEW a \in Int, NEW p, NEW c \in Int
  PROVE  AllShown(render_operands(i, a, p, c))
<1>1. i.prefix_bytes \in Seq(Byte) /\ length(i) \in Int
  BY LengthIsTyped, FieldsAreTyped DEF Decoded
<1>2. CASE Mnemonic(i) \in _STRING_OPS
  <2> DEFINE s == _segment_override(i)
             t == IF s = "DS" THEN None ELSE s
             destination == Text("pointer", None, "ES", << "DI" >>, << >>)
             source == Text("pointer", None, t, << "SI" >>, << >>)
  <2>1. render_operands(i, a, p, c) = _string_operands(i)
    BY <1>2, Zenon DEF render_operands
  <2>2. _string_operands(i) \in {<< destination >>, << source >>, << destination, source >>, << >>}
    BY Zenon DEF _string_operands
  <2>3. "ES" \in SegmentText /\ t \in SegmentText
    <3>1. s \in SegmentText
      BY <1>1, SegmentsAreText
    <3> HIDE DEF s
    <3> QED
      BY <3>1, Zenon DEF SegmentText, Segments
  <2> HIDE DEF t
  <2>4. IsShown(destination) /\ IsShown(source)
    BY <2>3, PointerIsShown
  <2> HIDE DEF destination, source
  <2> QED
    BY <2>1, <2>2, <2>4, ShortAreAll
<1>3. CASE Mnemonic(i) \notin _STRING_OPS
  <2> DEFINE s == _effective_operands(i, p)
  <2>1. AllPrintable(s)
    BY EffectiveArePrintable
  <2>2. render_operands(i, a, p, c) = Shown(i, s, a, c)
    BY <1>3, ListedOperandsAre
  <2> HIDE DEF s
  <2>3. ASSUME NEW k \in 1..Len(s) PROVE IsShown(_render_operand(i, s[k], a, c))
    BY <1>1, <2>1, <2>3, ListedIsShown DEF AllPrintable
  <2>4. AllShown(Shown(i, s, a, c))
    BY <2>3 DEF AllShown, Shown
  <2> QED
    BY <2>2, <2>4
<1> QED
  BY <1>2, <1>3

\* And of the NASM style.
LEMMA FormattedAreShown ==
  ASSUME NEW i, Decoded(i), DECODE = DecodeRows, NEW a \in Int, NEW opts
  PROVE  AllShown(format_operands(i, opts, a))
<1> DEFINE s == DecodedOperands(i)
           segment == _prefix_state(i, opts).segment
<1>1. i.prefix_bytes \in Seq(Byte) /\ length(i) \in Int
  BY LengthIsTyped, FieldsAreTyped DEF Decoded
<1>2. AllPrintable(s) /\ segment \in SegmentText
  BY <1>1, EffectiveArePrintable, SegmentsAreText
<1>3. format_operands(i, opts, a) = Written(i, s, segment, a)
  BY Zenon DEF format_operands, Written
<1> HIDE DEF s, segment
<1>4. ASSUME NEW k \in 1..Len(s) PROVE IsShown(format_operand(i, s[k], segment, a))
  BY <1>1, <1>2, <1>4, FormattedIsShown DEF AllPrintable
<1>5. AllShown(Written(i, s, segment, a))
  BY <1>4 DEF AllShown, Written
<1> QED
  BY <1>3, <1>5

\* The words before a mnemonic, and the repetition after it.
PrefixWords == {"REP", "REPE", "REPNE", "LOCK"} \union Segments

LEMMA RepetitionsAreWords ==
  ASSUME NEW i
  PROVE  Said(IF Mnemonic(i) \in _STRING_OPS THEN _rep_suffix(i) ELSE << >>) \subseteq PrefixWords
<1> DEFINE m == Mnemonic(i)
<1>1. rep1_prefix(m) \in PrefixWords /\ rep2_prefix(m) \in PrefixWords
  BY Zenon DEF rep1_prefix, rep2_prefix, PrefixWords
<1>2. _rep_suffix(i) \in {<< rep1_prefix(m) >>, << rep2_prefix(m) >>, << >>}
  BY Zenon DEF _rep_suffix
<1> QED
  BY <1>1, <1>2, SaidIs

LEMMA PrefixesAreWords ==
  ASSUME NEW i, i.prefix_bytes \in Seq(Byte), NEW opts
  PROVE  Said(<< >> \o format_prefixes(i, opts)) \subseteq PrefixWords
<1>1. CASE ~opts.legacy_prefixes
  <2>1. Said(<< >> \o format_prefixes(i, opts)) = OverrideSaid(i) \union LockSaid(i) \union RepeatSaid(i)
    BY <1>1, PrefixesSaid
  <2>2. OverrideSaid(i) \subseteq PrefixWords
    BY OverrideIs, Zenon DEF OverrideSaid, PrefixWords
  <2>3. LockSaid(i) \subseteq PrefixWords /\ RepeatSaid(i) \subseteq PrefixWords
    BY Zenon DEF LockSaid, RepeatSaid, rep2_prefix, PrefixWords
  <2> QED
    BY <2>1, <2>2, <2>3
<1>2. CASE opts.legacy_prefixes
  <2> DEFINE state == _prefix_state(i, opts)
  <2>1. state = [segment |-> None, lock |-> FALSE, repeat |-> NotPresent]
    BY <1>2, Zenon DEF _prefix_state
  <2>2. state.segment = None /\ ~state.lock /\ state.repeat = NotPresent
    <3> HIDE DEF state
    <3> QED
      BY <2>1, SMT
  <2>3. format_prefixes(i, opts) = << >> \o << >> \o << >>
    BY <2>2, Zenon DEF format_prefixes
  <2>4. << >> \o (<< >> \o << >> \o << >>) = << >>
    OBVIOUS
  <2> QED
    BY <2>3, <2>4, SaidIs
<1> QED
  BY <1>1, <1>2

IsText(t) ==
  /\ t.raised \in {"none", "ValueError"}
  /\ Said(t.prefixes) \subseteq PrefixWords
  /\ AllShown(t.operands)

LEMMA RenderedIsText ==
  ASSUME NEW raised \in {"none", "ValueError"}, NEW prefixes, Said(prefixes) \subseteq PrefixWords,
         NEW m, NEW operands, AllShown(operands)
  PROVE  IsText(Rendered(raised, prefixes, m, operands))
<1> DEFINE t == Rendered(raised, prefixes, m, operands)
<1>1. t.raised = raised /\ t.prefixes = prefixes /\ t.operands = operands
  BY Zenon DEF Rendered
<1> HIDE DEF t
<1>2. IsText(t)
  BY <1>1, Zenon DEF IsText
<1> QED
  BY <1>2 DEF t

\* What either style returns has the shape of a text, whatever was decoded.
THEOREM TextsAreTyped ==
  ASSUME DECODE = DecodeRows
  PROVE  RenderSpec => []RenderTypeOK
<1>1. Said(<< >>) \subseteq PrefixWords /\ AllShown(<< >>)
  BY SaidIs, ShortAreAll
<1>2. ASSUME Decoded(result), NEW a \in Int, NEW p, NEW c \in Int
      PROVE  IsText(render_body(result, a, p, c))
  <2> DEFINE prefixes == IF Mnemonic(result) \in _STRING_OPS THEN _rep_suffix(result) ELSE << >>
             m == _MNEMONIC_OVERRIDES(Mnemonic(result))
             operands == render_operands(result, a, p, c)
  <2>1. result.is_complete
    BY <1>2 DEF Decoded
  <2>2. render_body(result, a, p, c) \in
          {Rendered("ValueError", << >>, None, << >>), Rendered("none", prefixes, m, operands)}
    BY <2>1, Zenon DEF render_body
  <2>3. AllShown(operands)
    BY <1>2, ListedAreShown
  <2>4. Said(prefixes) \subseteq PrefixWords
    BY RepetitionsAreWords
  <2> HIDE DEF prefixes, m, operands
  <2>5. IsText(Rendered("none", prefixes, m, operands))
    BY <2>3, <2>4, RenderedIsText
  <2>6. IsText(Rendered("ValueError", << >>, None, << >>))
    BY <1>1, RenderedIsText
  <2> QED
    BY <2>2, <2>5, <2>6
<1>3. ASSUME Decoded(result), NEW a \in Int, NEW opts
      PROVE  IsText(format_instruction(result, opts, a))
  <2> DEFINE prefixes == << >> \o format_prefixes(result, opts)
             m == format_mnemonic(result, opts)
             operands == format_operands(result, opts, a)
             written == IF operands_suppressed(result) THEN << >> ELSE operands
  <2>1. result.is_complete /\ result.prefix_bytes \in Seq(Byte)
    BY <1>3, FieldsAreTyped DEF Decoded
  <2>2. Mnemonic(result) # "Invalid"
    <3>1. Mnemonic(result) \in TableText
      BY <1>3, NamesAreListed
    <3>2. "Invalid" \in NoNames
      BY Zenon DEF NoNames, Placeholders
    <3>3. "Invalid" \notin TableText
      BY <3>2, PartsAreNamed DEF TableText
    <3> QED
      BY <3>1, <3>3
  <2>3. format_instruction(result, opts, a) \in
          {Rendered("none", << >>, m, << >>), Rendered("none", prefixes, m, written)}
    BY <2>1, <2>2, Zenon DEF format_instruction
  <2>4. AllShown(written)
    BY <1>1, <1>3, FormattedAreShown
  <2>5. Said(prefixes) \subseteq PrefixWords
    BY <2>1, PrefixesAreWords
  <2> HIDE DEF prefixes, m, operands, written
  <2>6. IsText(Rendered("none", prefixes, m, written)) /\ IsText(Rendered("none", << >>, m, << >>))
    BY <1>1, <2>4, <2>5, RenderedIsText
  <2> QED
    BY <2>3, <2>6
<1>4. IsText(NoText)
  BY <1>1, RenderedIsText DEF NoText
<1>5. IsText(text) => /\ text.raised \in {"none", "ValueError"}
                      /\ Said(text.prefixes) \subseteq {"REP", "REPE", "REPNE", "LOCK"} \union Segments
                      /\ \A k \in DOMAIN text.operands :
                           LET o == text.operands[k]
                           IN /\ o.kind \in {"register", "number", "pair", "offset", "memory", "pointer"}
                              /\ o.segment \in {None} \union Segments /\ o.size \in {None, "byte", "word"}
                              /\ Len(o.registers) <= 2 /\ Len(o.numbers) <= 2
                              /\ o.kind \in {"pair", "offset"} => o.numbers[Len(o.numbers)] \in Word16
  BY Zenon DEF IsText, AllShown, IsShown, PrefixWords, TextKinds, SegmentText, SizeText
<1>6. TypeOK /\ PartsInPlace /\ RowInForce /\ TextIsAnswer => RenderTypeOK
  <2> SUFFICES ASSUME TypeOK, PartsInPlace, RowInForce, TextIsAnswer PROVE RenderTypeOK
    OBVIOUS
  <2>1. IsText(text)
    BY <1>2, <1>3, <1>4, ReturnedIsDecoded DEF TextIsAnswer
  <2>2. /\ asked.style \in {"none", "ghidra", "nasm"}
        /\ asked.address \in Nat /\ asked.code_segment \in Int
        /\ asked.options \in FormatOptions
    BY NothingIsTyped DEF TextIsAnswer
  <2> QED
    BY <1>5, <2>1, <2>2, Zenon DEF RenderTypeOK
<1> QED
  BY <1>6, RenderingIsDecoding, TypeCorrect, PartsHold, RowHolds, TextHolds, PTL
=============================================================================
